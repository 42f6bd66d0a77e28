---------------------------- MODULE MCQualityRun ----------------------------
(* Instance of QualityRun for model checking. *)
EXTENDS QualityRun, TLC

MCCases == <<"case1", "case2", "case3">>

Symmetric == Permutations(Runs) \cup Permutations(Revisions)
=============================================================================
