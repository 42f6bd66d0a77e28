--------------------------- MODULE MCMemoryStore ---------------------------
(* Model-checking module of MemoryStore. *)
EXTENDS MemoryStore, TLC

Symmetry == Permutations(Clients) \cup Permutations(Values)
=============================================================================
