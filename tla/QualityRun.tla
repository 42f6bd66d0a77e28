----------------------------- MODULE QualityRun -----------------------------
(***************************************************************************)
(* A benchmark run directory (src/evaluation/aevon_text_quality.py and     *)
(* text_quality_storage.py) used by several invocations of the command:    *)
(* one creates it, others resume it, each may be killed between any two    *)
(* writes, and they may run at the same time.  Everything an invocation is *)
(* asked for (suite, mode, settings, source) is its revision.              *)
(*                                                                         *)
(* results.jsonl is a sequence of tokens: the JSON object of a row is an   *)
(* opening and a closing token, then comes the newline that commits the    *)
(* frame.  A kill leaves any prefix of a write.                            *)
(***************************************************************************)
EXTENDS Naturals, Sequences, SequencesExt

CONSTANTS Runs,        \* invocations
          Cases, Revisions,
          None,
          MaxKills     \* bound on the invocations that die or raise

\* Tokens of results.jsonl: an object begins, it ends, a line ends.
ResultRows == [case : Range(Cases), revision : Revisions]
NL == [part |-> "newline"]
Tokens == [part : {"open", "close"}, row : ResultRows] \cup {NL}
Manifests == [status : {"running", "complete"}, revision : Revisions]

ASSUME QualityRunAssumption ==
  /\ MaxKills \in Nat
  /\ Cases \in Seq(Range(Cases)) /\ Cases # <<>>
  /\ None \notin Runs \cup Manifests \cup Seq(Tokens)

VARIABLES manifest,    \* run.json: None or [status, revision]
          results,     \* results.jsonl: None or its tokens
          summary,     \* completed cases in summary.json
          directory,   \* the directory exists
          holder,      \* who holds the lock of .run.lock
          pc, revision, rows, unwritten,   \* the invocations
          kills

files == <<manifest, results, summary, directory>>
runVars == <<files, holder, pc, revision, rows, unwritten, kills>>

-----------------------------------------------------------------------------
(* The file format. *)

Row(i, r) == [case |-> Cases[i], revision |-> r]
Object(row) == <<[part |-> "open", row |-> row], [part |-> "close", row |-> row]>>

IsObject(frame) == Len(frame) = 2 /\ frame = Object(frame[1].row)
Torn(frame) == Len(frame) = 1

(* The frames the reader has passed, and the one it is in. *)
Unread == [valid |-> TRUE, found |-> <<>>, frame |-> <<>>]
Pass(before, token) ==
  IF token # NL THEN [before EXCEPT !.frame = Append(@, token)]
  ELSE [valid |-> before.valid /\ IsObject(before.frame),
        found |-> IF before.frame = <<>> THEN before.found
                  ELSE Append(before.found, before.frame[1].row),
        frame |-> <<>>]
Scan(tokens) ==
  LET scan[n \in 0..Len(tokens)] ==
        IF n = 0 THEN Unread ELSE Pass(scan[n - 1], tokens[n])
  IN scan[Len(tokens)]

(* read_results: an object that only lacks its newline counts; an          *)
(* unfinished one at the end is reported for truncation; anything else is  *)
(* an error, as is a row too many.                                         *)
ReadResults(tokens) ==
  LET scan == Scan(tokens)
      found == IF IsObject(scan.frame) THEN Append(scan.found, scan.frame[1].row)
               ELSE scan.found
  IN [ok |-> /\ scan.valid
             /\ scan.frame = <<>> \/ IsObject(scan.frame) \/ Torn(scan.frame)
             /\ Len(found) <= Len(Cases),
      rows |-> found,
      torn |-> IF Torn(scan.frame) THEN 1 ELSE 0]

(* Every saved row is that of the case at its place. *)
ValidRows(found) == \A i \in 1..Len(found) : found[i].case = Cases[i]

(* Mutant: the row is appended as it is. *)
M_Separator(tokens) ==
  <<>>

(* durable_append ends a last object that has no newline before it writes. *)
Separator(tokens) ==
  IF tokens # <<>> /\ Last(tokens) # NL THEN <<NL>> ELSE <<>>

-----------------------------------------------------------------------------
InitRun ==
  /\ manifest = None /\ results = None /\ summary = 0 /\ directory = FALSE
  /\ holder = None
  /\ pc = [p \in Runs |-> "idle"]
  /\ revision \in [Runs -> Revisions]
  /\ rows = [p \in Runs |-> 0]
  /\ unwritten = [p \in Runs |-> <<>>]
  /\ kills = 0

Goto(p, from, to) == pc[p] = from /\ pc' = [pc EXCEPT ![p] = to]

Resumable(p) == manifest = [status |-> "running", revision |-> revision[p]]

Create(p) ==
  /\ Goto(p, "idle", "created") /\ ~directory
  /\ directory' = TRUE
  /\ UNCHANGED <<manifest, results, summary, holder, revision, rows, unwritten, kills>>

(* A resume is refused unless the manifest is that of the same invocation. *)
Resume(p) ==
  /\ Goto(p, "idle", "checked") /\ directory /\ Resumable(p)
  /\ UNCHANGED <<files, holder, revision, rows, unwritten, kills>>

Lock(p) ==
  /\ pc[p] \in {"created", "checked"}
  /\ IF holder = None
       THEN /\ holder' = p
            /\ pc' = [pc EXCEPT ![p] = IF @ = "created" THEN "new" ELSE "recheck"]
       ELSE pc' = [pc EXCEPT ![p] = "idle"] /\ UNCHANGED holder
  /\ UNCHANGED <<files, revision, rows, unwritten, kills>>

Release(p) == holder' = IF holder = p THEN None ELSE holder

CreateResults(p) ==
  /\ Goto(p, "new", "manifest") /\ results' = <<>>
  /\ UNCHANGED <<manifest, summary, directory, holder, revision, rows, unwritten, kills>>

WriteManifest(p) ==
  /\ Goto(p, "manifest", "summary")
  /\ manifest' = [status |-> "running", revision |-> revision[p]]
  /\ rows' = [rows EXCEPT ![p] = 0]
  /\ UNCHANGED <<results, summary, directory, holder, revision, unwritten, kills>>

(* The lock is held: the manifest is read again, then the results.         *)
ReadSaved(p) ==
  /\ pc[p] = "recheck"
  /\ LET read == ReadResults(results)
     IN IF Resumable(p) /\ read.ok /\ ValidRows(read.rows)
          THEN /\ pc' = [pc EXCEPT ![p] = IF read.torn > 0 THEN "truncate" ELSE "summary"]
               /\ rows' = [rows EXCEPT ![p] = Len(read.rows)]
               /\ UNCHANGED holder
          ELSE pc' = [pc EXCEPT ![p] = "idle"] /\ Release(p) /\ UNCHANGED rows
  /\ UNCHANGED <<files, revision, unwritten, kills>>

Truncate(p) ==
  /\ Goto(p, "truncate", "summary")
  /\ results' = SubSeq(results, 1, Len(results) - ReadResults(results).torn)
  /\ UNCHANGED <<manifest, summary, directory, holder, revision, rows, unwritten, kills>>

WriteSummary(p) ==
  /\ Goto(p, "summary", "next") /\ summary' = rows[p]
  /\ UNCHANGED <<manifest, results, directory, holder, revision, rows, unwritten, kills>>

(* The next case is evaluated and its row handed to the file. *)
Evaluate(p) ==
  /\ Goto(p, "next", "append") /\ rows[p] < Len(Cases)
  /\ unwritten' = [unwritten EXCEPT ![p] =
       Separator(results) \o Object(Row(rows[p] + 1, revision[p])) \o <<NL>>]
  /\ UNCHANGED <<files, holder, revision, rows, kills>>

AppendToken(p) ==
  /\ pc[p] = "append" /\ unwritten[p] # <<>>
  /\ results' = Append(results, Head(unwritten[p]))
  /\ unwritten' = [unwritten EXCEPT ![p] = Tail(@)]
  /\ UNCHANGED <<manifest, summary, directory, holder, pc, revision, rows, kills>>

Appended(p) ==
  /\ Goto(p, "append", "summary") /\ unwritten[p] = <<>>
  /\ rows' = [rows EXCEPT ![p] = @ + 1]
  /\ UNCHANGED <<files, holder, revision, unwritten, kills>>

Complete(p) ==
  /\ Goto(p, "next", "idle") /\ rows[p] = Len(Cases)
  /\ manifest' = [status |-> "complete", revision |-> revision[p]]
  /\ Release(p)
  /\ UNCHANGED <<results, summary, directory, revision, rows, unwritten, kills>>

(* The invocation dies or raises; the operating system drops its lock. *)
Kill(p) ==
  /\ pc[p] # "idle" /\ kills < MaxKills
  /\ pc' = [pc EXCEPT ![p] = "idle"] /\ kills' = kills + 1
  /\ unwritten' = [unwritten EXCEPT ![p] = <<>>]
  /\ rows' = [rows EXCEPT ![p] = 0]
  /\ Release(p)
  /\ UNCHANGED <<files, revision>>

Step(p) ==
  \/ Create(p) \/ Resume(p) \/ Lock(p)
  \/ CreateResults(p) \/ WriteManifest(p)
  \/ ReadSaved(p) \/ Truncate(p) \/ WriteSummary(p)
  \/ Evaluate(p) \/ AppendToken(p) \/ Appended(p) \/ Complete(p)

RunNext == \E p \in Runs : Step(p) \/ Kill(p)

RunSpec == InitRun /\ [][RunNext]_runVars

-----------------------------------------------------------------------------
(* A results file that could not be read back is no log of any cases. *)
Recorded ==
  IF results = None THEN <<>>
  ELSE IF ReadResults(results).ok THEN ReadResults(results).rows ELSE <<None>>

Log == INSTANCE CaseLog WITH
  done <- Recorded, reported <- summary,
  complete <- manifest # None /\ manifest.status = "complete"

(* However invocations are killed in the middle of a row, resumed, resumed *)
(* twice at once or resumed from other code, the directory implements      *)
(* CaseLog: a row once written whole is never lost, repeated or reordered, *)
(* the file can always be read back, all rows come from one revision, and  *)
(* "complete" is only said of all cases (text_quality_storage.py 3-5).     *)
ResumeIsExact == Log!Spec
=============================================================================
