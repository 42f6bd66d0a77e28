---------------------------- MODULE MCKeyStore ----------------------------
(* Model-checking module of KeyStore: an installed starting state. *)
EXTENDS KeyStore

\* The state that an import leaves: an envelope and the database it opens.
InstalledInit ==
  /\ journal = NoJournal
  /\ candidate = NoCandidate
  /\ restore = NoRestore
  /\ op = [p \in Procs |-> Idle]
  /\ \E k \in Keys, x \in Passphrases :
       /\ envelope = [key |-> k, pass |-> x]
       /\ db = [key |-> k, rev |-> 0]
       /\ used = {k}

InstalledSpec == InstalledInit /\ [][Next]_vars
=============================================================================
