------------------------------ MODULE CaseLog -------------------------------
(***************************************************************************)
(* What a benchmark run directory promises, whatever invocations, kills    *)
(* and resumes there were: the results are the cases in their order, each  *)
(* evaluated once and all by one revision of the code; the summary tells   *)
(* of no more than was recorded; the run is complete when every case is.   *)
(***************************************************************************)
EXTENDS Naturals, Sequences

CONSTANTS Cases,       \* the sequence of case ids
          Revisions

VARIABLES done, reported, complete

vars == <<done, reported, complete>>

Init == done = <<>> /\ reported = 0 /\ complete = FALSE

Record ==
  /\ ~complete /\ Len(done) < Len(Cases)
  /\ \E r \in Revisions :
       /\ \A i \in 1..Len(done) : done[i].revision = r
       /\ done' = Append(done, [case |-> Cases[Len(done) + 1], revision |-> r])
  /\ UNCHANGED <<reported, complete>>

Report == ~complete /\ reported' = Len(done) /\ UNCHANGED <<done, complete>>

Finish ==
  /\ ~complete /\ Len(done) = Len(Cases) /\ reported = Len(done)
  /\ complete' = TRUE /\ UNCHANGED <<done, reported>>

Spec == Init /\ [][Record \/ Report \/ Finish]_vars
=============================================================================
