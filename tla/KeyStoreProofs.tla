--------------------------- MODULE KeyStoreProofs ---------------------------
(***************************************************************************)
(* What KeyStore promises for every set of keys, passphrases and           *)
(* processes, as long as key management is run by one process at a time.   *)
(*                                                                         *)
(* Recoverable alone is not inductive: whether a step may write the        *)
(* envelope or drop the journal depends on the keys that the running call  *)
(* carries.  Carries(p) says, for each point of a call, how those keys     *)
(* relate to the files; the other conjuncts say what holds when no call    *)
(* runs, which is what a crash leaves behind.                              *)
(***************************************************************************)
EXTENDS KeyStore, TLAPS

\* At most one call runs, and none while a restore is pending.
OneAtATime ==
  /\ \A p, q \in Procs : ~At(p, "idle") /\ ~At(q, "idle") => p = q
  /\ restore.marked => \A p \in Procs : At(p, "idle")

\* A pending restore holds the keys of one archive and no journal.
RestoreCoherent ==
  restore.marked =>
    /\ ~JournalExists /\ candidate = NoCandidate
    /\ restore.key \in used
    /\ db.key \in {NoKey, restore.key}
    /\ EnvelopeExists => envelope.key = restore.key /\ db.key = restore.key

\* A journal names two keys, one of them the database's.
JournalCoherent ==
  JournalExists =>
    /\ journal.old \in Keys /\ journal.new \in Keys /\ journal.old # journal.new
    /\ Encrypted => db.key \in {journal.old, journal.new}

\* Without a journal the envelope is the database's.
EnvelopeCoherent ==
  /\ EnvelopeExists => envelope.key \in used
  /\ EnvelopeExists /\ Encrypted /\ ~JournalExists => envelope.key = db.key
  /\ Encrypted => db.key \in used

JournalOf(p) ==
  /\ JournalExists
  /\ journal.old = op[p].old /\ journal.new = op[p].new /\ journal.pass = op[p].pass

EnvelopeOf(p, k) == envelope.key = k /\ envelope.pass = op[p].pass

\* What the keys carried by a running call say of the files.
Carries(p) ==
  /\ op[p].pc \in {"write_envelope", "read", "open", "prepare"} => ~JournalExists
  /\ At(p, "write_envelope") =>
       op[p].old \in used /\ (Encrypted => db.key = op[p].old)
  /\ At(p, "open") => EnvelopeExists /\ envelope.key = op[p].old
  /\ At(p, "prepare") =>
       /\ op[p].old \in Keys /\ op[p].new \in Keys /\ op[p].old # op[p].new
       /\ EnvelopeOf(p, op[p].old)
  /\ op[p].pc \in {"attach", "export", "verify", "replace"} =>
       /\ JournalOf(p) /\ EnvelopeOf(p, op[p].old) /\ op[p].new \in used
       /\ Encrypted => db.key = op[p].old
  /\ op[p].pc \in {"export", "verify", "replace"} => Encrypted
  /\ op[p].pc \in {"verify", "replace"} =>
       candidate.key = op[p].new /\ candidate.rev = op[p].seen
  /\ At(p, "replace") => db.rev = op[p].seen
  /\ op[p].pc \in {"confirm", "envelope"} =>
       JournalOf(p) /\ db.key = op[p].new /\ EnvelopeOf(p, op[p].old)
  /\ op[p].pc \in {"finalize", "rotated"} =>
       JournalOf(p) /\ db.key = op[p].new /\ EnvelopeOf(p, op[p].new)
  /\ At(p, "recover_test") => JournalOf(p)
  /\ op[p].pc \in {"recover_envelope", "recover_clean", "recover_done"} =>
       /\ JournalExists /\ journal.pass = op[p].pass
       /\ Encrypted /\ db.key = op[p].old
  /\ op[p].pc \in {"recover_clean", "recover_done"} => EnvelopeOf(p, op[p].old)
  /\ op[p].pc \in {"prepare"} => op[p].new \in used

IInv ==
  /\ TypeOK
  /\ OneAtATime
  /\ RestoreCoherent
  /\ JournalCoherent
  /\ EnvelopeCoherent
  /\ OnePassphrase
  /\ \A p \in Procs : Carries(p)

-----------------------------------------------------------------------------
(***************************************************************************)
(* The step lemmas.  Each action is one step; its conjuncts follow from    *)
(* the conjuncts of IInv and the definition of the action.                 *)
(***************************************************************************)

\* Replacing one call by a call keeps the type of op.
LEMMA UpdatedCall ==
  ASSUME TypeOK, NEW p \in Procs, op' = [op EXCEPT ![p] = op'[p]], op'[p] \in Calls
  PROVE  op' \in [Procs -> Calls]
BY DEF TypeOK

\* A call that moves on with another key is a call.
LEMMA MovedCall ==
  ASSUME NEW call \in Calls, NEW label \in PCs, NEW key \in Keys \cup {NoKey}
  PROVE  [call EXCEPT !.pc = label, !.old = key] \in Calls
BY DEF Calls

\* A call starts alone and leaves the files alone, so only the conjuncts that
\* look at the running calls need its label, passphrase and key.
LEMMA CallKeepsIInv ==
  ASSUME Exclusive, IInv, NEW p \in Procs, MayStart(p),
         NEW label \in {"write_envelope", "read", "recover_read"},
         NEW task \in {"init", "import", "change", "serve", "rotate"},
         NEW pass \in Passphrases, NEW key \in Keys \cup {NoKey},
         Call(p, label, task, pass, key),
         UNCHANGED files, used \subseteq used', used' \in SUBSET Keys,
         label # "recover_read" => ~JournalExists,
         label = "write_envelope" => key \in used' /\ (Encrypted => db.key = key)
  PROVE  IInv'
<1> DEFINE call == [pc |-> label, task |-> task, pass |-> pass,
                    old |-> key, new |-> NoKey, seen |-> 0]
<1> USE DEF IInv
<1>1. op' = [op EXCEPT ![p] = call]
  BY DEF Call
<1>2. /\ op'[p] = call
      /\ \A q \in Procs : q # p => op'[q] = op[q] /\ op'[q].pc = "idle"
  BY <1>1 DEF TypeOK, MayStart, At
<1>3. TypeOK'
  <2>1. call \in Calls
    BY DEF Calls, PCs
  <2> QED
    BY <1>1, <2>1 DEF TypeOK, files
<1>4. OneAtATime'
  BY <1>2 DEF OneAtATime, At, MayStart, files
<1>5. RestoreCoherent' /\ JournalCoherent' /\ EnvelopeCoherent' /\ OnePassphrase'
  BY DEF RestoreCoherent, JournalCoherent, EnvelopeCoherent, OnePassphrase, files,
         JournalExists, EnvelopeExists, Encrypted
<1>6. ASSUME NEW q \in Procs PROVE Carries(q)'
  <2>1. CASE q = p
    BY <2>1, <1>2 DEF Carries, At, files, JournalExists, Encrypted
  <2>2. CASE q # p
    BY <2>2, <1>2 DEF Carries, At
  <2> QED
    BY <2>1, <2>2
<1> QED
  BY <1>3, <1>4, <1>5, <1>6

\* The invariant is kept by a call that starts, writes a new envelope or unlocks.
LEMMA CallsKeepIInv ==
  ASSUME Exclusive, IInv, NEW p \in Procs,
         \/ Initialize(p)
         \/ ImportExisting(p)
         \/ ChangePassphrase(p)
         \/ \E x \in Passphrases : Unlock(p, x)
         \/ \E x \in Passphrases : RotateDatabaseKey(p, x)
         \/ WriteNewEnvelope(p)
         \/ UnlockMaterial(p)
         \/ OpenDatabase(p)
         \/ Crash(p)
  PROVE  IInv'
<1> USE KeyStoreAssumption DEF files, IInv, TypeOK, OneAtATime, RestoreCoherent, JournalCoherent,
     EnvelopeCoherent, OnePassphrase, Carries, JournalOf, EnvelopeOf,
     At, Goto, Return, Idle, NoEnvelope, NoJournal, NoCandidate, NoRestore,
     EnvelopeExists, JournalExists, Encrypted, DatabaseKeyOpens, WriteRotation, MayStart, PCs, Calls
<1>1. CASE Initialize(p)
  <2>1. PICK k \in Keys \ used, x \in Passphrases :
          Call(p, "write_envelope", "init", x, k) /\ used' = used \cup {k}
    BY <1>1 DEF Initialize
  <2>2. used \subseteq used' /\ used' \in SUBSET Keys
    BY <2>1
  <2> QED
    BY <1>1, <2>1, <2>2, CallKeepsIInv DEF Initialize
<1>2. CASE ImportExisting(p)
  <2>1. PICK k \in Keys, x \in Passphrases :
          DatabaseKeyOpens(k) /\ Call(p, "write_envelope", "import", x, k)
    BY <1>2 DEF ImportExisting
  <2> QED
    BY <1>2, <2>1, CallKeepsIInv DEF ImportExisting
<1>3. CASE ChangePassphrase(p)
  <2>1. PICK x \in Passphrases : Call(p, "write_envelope", "change", x, envelope.key)
    BY <1>3 DEF ChangePassphrase
  <2> QED
    BY <1>3, <2>1, CallKeepsIInv, ZenonT(60) DEF ChangePassphrase
<1>4. CASE \E x \in Passphrases : Unlock(p, x)
  BY <1>4, CallKeepsIInv DEF Unlock
<1>5. CASE \E x \in Passphrases : RotateDatabaseKey(p, x)
  BY <1>5, CallKeepsIInv DEF RotateDatabaseKey
<1>6. CASE WriteNewEnvelope(p)
  <2>1. TypeOK'
    BY <1>6 DEF WriteNewEnvelope
  <2>2. OneAtATime' /\ RestoreCoherent'
    BY <1>6 DEF WriteNewEnvelope
  <2>3. JournalCoherent' /\ EnvelopeCoherent' /\ OnePassphrase'
    BY <1>6 DEF WriteNewEnvelope
  <2>4. \A q \in Procs : Carries(q)'
    BY <1>6 DEF WriteNewEnvelope
  <2> QED
    BY <2>1, <2>2, <2>3, <2>4
<1>7. CASE UnlockMaterial(p)
  <2>1. TypeOK'
    BY <1>7 DEF UnlockMaterial, Unwraps
  <2>2. OneAtATime' /\ RestoreCoherent'
    BY <1>7 DEF UnlockMaterial, Unwraps
  <2>3. JournalCoherent' /\ EnvelopeCoherent' /\ OnePassphrase'
    BY <1>7 DEF UnlockMaterial, Unwraps
  <2>4. \A q \in Procs : Carries(q)'
    BY <1>7 DEF UnlockMaterial, Unwraps
  <2> QED
    BY <2>1, <2>2, <2>3, <2>4
<1>8. CASE OpenDatabase(p)
  <2>1. TypeOK'
    BY <1>8 DEF OpenDatabase
  <2>2. OneAtATime' /\ RestoreCoherent'
    BY <1>8 DEF OpenDatabase
  <2>3. JournalCoherent' /\ EnvelopeCoherent' /\ OnePassphrase'
    BY <1>8 DEF OpenDatabase
  <2>4. \A q \in Procs : Carries(q)'
    BY <1>8 DEF OpenDatabase
  <2> QED
    BY <2>1, <2>2, <2>3, <2>4
<1>9. CASE Crash(p)
  <2>1. TypeOK'
    BY <1>9 DEF Crash
  <2>2. OneAtATime' /\ RestoreCoherent'
    BY <1>9 DEF Crash
  <2>3. JournalCoherent' /\ EnvelopeCoherent' /\ OnePassphrase'
    BY <1>9 DEF Crash
  <2>4. \A q \in Procs : Carries(q)'
    BY <1>9 DEF Crash
  <2> QED
    BY <2>1, <2>2, <2>3, <2>4
<1> QED
  BY <1>1, <1>2, <1>3, <1>4, <1>5, <1>6, <1>7, <1>8, <1>9

\* The invariant is kept by a step of rotate_database_key.
LEMMA RotationKeepsIInv ==
  ASSUME Exclusive, IInv, NEW p \in Procs,
         \/ RotatePrepare(p)
         \/ RotateAttach(p)
         \/ RotateBusy(p)
         \/ RotateExport(p)
         \/ RotateVerify(p)
         \/ RotateFail(p)
         \/ RotateReplace(p)
         \/ RotateConfirm(p)
         \/ RotateEnvelope(p)
         \/ RotateFinalize(p)
         \/ RotateDone(p)
  PROVE  IInv'
<1> USE KeyStoreAssumption DEF files, IInv, TypeOK, OneAtATime, RestoreCoherent, JournalCoherent,
     EnvelopeCoherent, OnePassphrase, Carries, JournalOf, EnvelopeOf,
     At, Goto, Return, Idle, NoEnvelope, NoJournal, NoCandidate, NoRestore,
     EnvelopeExists, JournalExists, Encrypted, DatabaseKeyOpens, WriteRotation, MayStart, PCs, Calls
<1>1. CASE RotatePrepare(p)
  <2>1. TypeOK'
    BY <1>1 DEF RotatePrepare
  <2>2. OneAtATime' /\ RestoreCoherent'
    BY <1>1 DEF RotatePrepare
  <2>3. JournalCoherent' /\ EnvelopeCoherent' /\ OnePassphrase'
    BY <1>1 DEF RotatePrepare
  <2>4. \A q \in Procs : Carries(q)'
    BY <1>1 DEF RotatePrepare
  <2> QED
    BY <2>1, <2>2, <2>3, <2>4
<1>2. CASE RotateAttach(p)
  <2>1. TypeOK'
    BY <1>2 DEF RotateAttach
  <2>2. OneAtATime' /\ RestoreCoherent'
    BY <1>2 DEF RotateAttach
  <2>3. JournalCoherent' /\ EnvelopeCoherent' /\ OnePassphrase'
    BY <1>2 DEF RotateAttach
  <2>4. \A q \in Procs : Carries(q)'
    BY <1>2 DEF RotateAttach
  <2> QED
    BY <2>1, <2>2, <2>3, <2>4
<1>3. CASE RotateBusy(p)
  <2>1. TypeOK'
    BY <1>3 DEF RotateBusy
  <2>2. OneAtATime' /\ RestoreCoherent'
    BY <1>3 DEF RotateBusy
  <2>3. JournalCoherent' /\ EnvelopeCoherent' /\ OnePassphrase'
    BY <1>3 DEF RotateBusy
  <2>4. \A q \in Procs : Carries(q)'
    BY <1>3 DEF RotateBusy
  <2> QED
    BY <2>1, <2>2, <2>3, <2>4
<1>4. CASE RotateExport(p)
  <2>1. db.key = op[p].old /\ Encrypted /\ JournalOf(p) /\ EnvelopeOf(p, op[p].old)
    BY <1>4 DEF RotateExport
  <2>8. op[p] \in Calls /\ db.rev \in Nat
    BY <1>4
  <2>2. /\ op'[p] = [op[p] EXCEPT !.pc = "verify", !.seen = db.rev]
        /\ \A q \in Procs : q # p => op'[q] = op[q] /\ op[q].pc = "idle"
    BY <1>4 DEF RotateExport
  <2>3. op'[p] \in Calls
    BY <2>8, <2>2
  <2>4. TypeOK'
    <3>1. op' \in [Procs -> Calls]
      BY <1>4, <2>3, UpdatedCall DEF RotateExport
    <3> QED
      BY <1>4, <3>1 DEF RotateExport
  <2>5. OneAtATime' /\ RestoreCoherent'
    BY <1>4, <2>2 DEF RotateExport
  <2>6. JournalCoherent' /\ EnvelopeCoherent' /\ OnePassphrase'
    BY <1>4 DEF RotateExport
  <2>7. ASSUME NEW q \in Procs PROVE Carries(q)'
    BY <1>4, <2>1, <2>2 DEF RotateExport
  <2> QED
    BY <2>4, <2>5, <2>6, <2>7
<1>5. CASE RotateVerify(p)
  <2>1. TypeOK'
    BY <1>5 DEF RotateVerify, Verified
  <2>2. OneAtATime' /\ RestoreCoherent'
    BY <1>5 DEF RotateVerify, Verified
  <2>3. JournalCoherent' /\ EnvelopeCoherent' /\ OnePassphrase'
    BY <1>5 DEF RotateVerify, Verified
  <2>4. \A q \in Procs : Carries(q)'
    BY <1>5 DEF RotateVerify, Verified
  <2> QED
    BY <2>1, <2>2, <2>3, <2>4
<1>6. CASE RotateFail(p)
  <2>1. TypeOK'
    BY <1>6 DEF RotateFail
  <2>2. OneAtATime' /\ RestoreCoherent'
    BY <1>6 DEF RotateFail
  <2>3. JournalCoherent' /\ EnvelopeCoherent' /\ OnePassphrase'
    BY <1>6 DEF RotateFail
  <2>4. \A q \in Procs : Carries(q)'
    BY <1>6 DEF RotateFail
  <2> QED
    BY <2>1, <2>2, <2>3, <2>4
<1>7. CASE RotateReplace(p)
  <2>1. TypeOK'
    BY <1>7, SMTT(40) DEF RotateReplace
  <2>2. OneAtATime' /\ RestoreCoherent'
    BY <1>7 DEF RotateReplace
  <2>3. JournalCoherent' /\ EnvelopeCoherent' /\ OnePassphrase'
    BY <1>7 DEF RotateReplace
  <2>4. \A q \in Procs : Carries(q)'
    BY <1>7 DEF RotateReplace
  <2> QED
    BY <2>1, <2>2, <2>3, <2>4
<1>8. CASE RotateConfirm(p)
  <2>1. TypeOK'
    BY <1>8 DEF RotateConfirm
  <2>2. OneAtATime' /\ RestoreCoherent'
    BY <1>8 DEF RotateConfirm
  <2>3. JournalCoherent' /\ EnvelopeCoherent' /\ OnePassphrase'
    BY <1>8 DEF RotateConfirm
  <2>4. \A q \in Procs : Carries(q)'
    BY <1>8 DEF RotateConfirm
  <2> QED
    BY <2>1, <2>2, <2>3, <2>4
<1>9. CASE RotateEnvelope(p)
  <2>1. TypeOK'
    BY <1>9, SMTT(40) DEF RotateEnvelope
  <2>2. OneAtATime' /\ RestoreCoherent'
    BY <1>9 DEF RotateEnvelope
  <2>3. JournalCoherent' /\ EnvelopeCoherent' /\ OnePassphrase'
    BY <1>9 DEF RotateEnvelope
  <2>4. \A q \in Procs : Carries(q)'
    BY <1>9 DEF RotateEnvelope
  <2> QED
    BY <2>1, <2>2, <2>3, <2>4
<1>10. CASE RotateFinalize(p)
  <2>1. TypeOK'
    BY <1>10 DEF RotateFinalize
  <2>2. OneAtATime' /\ RestoreCoherent'
    BY <1>10 DEF RotateFinalize
  <2>3. JournalCoherent' /\ EnvelopeCoherent' /\ OnePassphrase'
    BY <1>10 DEF RotateFinalize
  <2>4. \A q \in Procs : Carries(q)'
    BY <1>10 DEF RotateFinalize
  <2> QED
    BY <2>1, <2>2, <2>3, <2>4
<1>11. CASE RotateDone(p)
  <2>1. TypeOK'
    BY <1>11 DEF RotateDone
  <2>2. OneAtATime' /\ RestoreCoherent'
    BY <1>11 DEF RotateDone
  <2>3. JournalCoherent' /\ EnvelopeCoherent' /\ OnePassphrase'
    BY <1>11 DEF RotateDone
  <2>4. \A q \in Procs : Carries(q)'
    BY <1>11 DEF RotateDone
  <2> QED
    BY <2>1, <2>2, <2>3, <2>4
<1> QED
  BY <1>1, <1>2, <1>3, <1>4, <1>5, <1>6, <1>7, <1>8, <1>9, <1>10, <1>11

\* The invariant is kept by a step of recover_rotation.
LEMMA RecoveryKeepsIInv ==
  ASSUME Exclusive, IInv, NEW p \in Procs,
         \/ RecoverRead(p)
         \/ RecoverSelect(p)
         \/ RecoverInconclusive(p)
         \/ RecoverEnvelope(p)
         \/ RecoverClean(p)
         \/ RecoverDone(p)
  PROVE  IInv'
<1> USE KeyStoreAssumption DEF files, IInv, TypeOK, OneAtATime, RestoreCoherent, JournalCoherent,
     EnvelopeCoherent, OnePassphrase, Carries, JournalOf, EnvelopeOf,
     At, Goto, Return, Idle, NoEnvelope, NoJournal, NoCandidate, NoRestore,
     EnvelopeExists, JournalExists, Encrypted, DatabaseKeyOpens, WriteRotation, MayStart, PCs, Calls
<1>1. CASE RecoverRead(p)
  <2>1. TypeOK'
    <3>1. CASE ~(JournalExists /\ journal.pass = op[p].pass)
      BY <1>1, <3>1 DEF RecoverRead
    <3>2. CASE JournalExists /\ journal.pass = op[p].pass
      <4>1. op[p] \in Calls /\ journal.old \in Keys /\ journal.new \in Keys
        BY <1>1, <3>2
      <4> QED
        BY <1>1, <3>2, <4>1 DEF RecoverRead
    <3> QED
      BY <1>1, <3>1, <3>2 DEF RecoverRead
  <2>2. OneAtATime' /\ RestoreCoherent'
    BY <1>1 DEF RecoverRead
  <2>3. JournalCoherent' /\ EnvelopeCoherent' /\ OnePassphrase'
    BY <1>1 DEF RecoverRead
  <2>4. \A q \in Procs : Carries(q)'
    BY <1>1 DEF RecoverRead
  <2> QED
    BY <2>1, <2>2, <2>3, <2>4
<1>2. CASE RecoverSelect(p)
  <2>1. PICK k \in {op[p].old, op[p].new} :
          /\ DatabaseKeyOpens(k)
          /\ op' = [op EXCEPT ![p] = [@ EXCEPT !.pc = "recover_envelope", !.old = k]]
    BY <1>2 DEF RecoverSelect
  <2>8. op[p] \in Calls /\ k \in Keys \cup {NoKey}
    BY <1>2, <2>1
  <2>2. /\ op'[p] = [op[p] EXCEPT !.pc = "recover_envelope", !.old = k]
        /\ \A q \in Procs : q # p => op'[q] = op[q] /\ op[q].pc = "idle"
    BY <1>2, <2>1 DEF RecoverSelect
  <2>3. op'[p] \in Calls
    <3>1. "recover_envelope" \in PCs
      OBVIOUS
    <3> HIDE DEF IInv, TypeOK, Calls, PCs
    <3>2. [op[p] EXCEPT !.pc = "recover_envelope", !.old = k] \in Calls
      BY ONLY <2>8, <3>1, MovedCall
    <3> QED
      BY ONLY <3>2, <2>2
  <2>4. TypeOK'
    <3>1. op' \in [Procs -> Calls]
      BY <2>1, <2>3, UpdatedCall
    <3> QED
      BY <1>2, <3>1 DEF RecoverSelect
  <2>5. OneAtATime' /\ RestoreCoherent' /\ JournalCoherent' /\ EnvelopeCoherent'
        /\ OnePassphrase'
    BY <1>2, <2>2 DEF RecoverSelect
  <2>6. ASSUME NEW q \in Procs PROVE Carries(q)'
    BY <1>2, <2>1, <2>2 DEF RecoverSelect
  <2> QED
    BY <2>4, <2>5, <2>6
<1>3. CASE RecoverInconclusive(p)
  <2>1. TypeOK'
    BY <1>3 DEF RecoverInconclusive
  <2>2. OneAtATime' /\ RestoreCoherent'
    BY <1>3 DEF RecoverInconclusive
  <2>3. JournalCoherent' /\ EnvelopeCoherent' /\ OnePassphrase'
    BY <1>3 DEF RecoverInconclusive
  <2>4. \A q \in Procs : Carries(q)'
    BY <1>3 DEF RecoverInconclusive
  <2> QED
    BY <2>1, <2>2, <2>3, <2>4
<1>4. CASE RecoverEnvelope(p)
  <2>1. TypeOK'
    BY <1>4 DEF RecoverEnvelope
  <2>2. OneAtATime' /\ RestoreCoherent'
    BY <1>4 DEF RecoverEnvelope
  <2>3. JournalCoherent' /\ EnvelopeCoherent' /\ OnePassphrase'
    BY <1>4 DEF RecoverEnvelope
  <2>4. \A q \in Procs : Carries(q)'
    BY <1>4 DEF RecoverEnvelope
  <2> QED
    BY <2>1, <2>2, <2>3, <2>4
<1>5. CASE RecoverClean(p)
  <2>1. TypeOK'
    BY <1>5 DEF RecoverClean
  <2>2. OneAtATime' /\ RestoreCoherent'
    BY <1>5 DEF RecoverClean
  <2>3. JournalCoherent' /\ EnvelopeCoherent' /\ OnePassphrase'
    BY <1>5 DEF RecoverClean
  <2>4. \A q \in Procs : Carries(q)'
    BY <1>5 DEF RecoverClean
  <2> QED
    BY <2>1, <2>2, <2>3, <2>4
<1>6. CASE RecoverDone(p)
  <2>1. TypeOK'
    BY <1>6 DEF RecoverDone
  <2>2. OneAtATime' /\ RestoreCoherent'
    BY <1>6 DEF RecoverDone
  <2>3. JournalCoherent' /\ EnvelopeCoherent' /\ OnePassphrase'
    BY <1>6 DEF RecoverDone
  <2>4. \A q \in Procs : Carries(q)'
    BY <1>6 DEF RecoverDone
  <2> QED
    BY <2>1, <2>2, <2>3, <2>4
<1> QED
  BY <1>1, <1>2, <1>3, <1>4, <1>5, <1>6

\* The invariant is kept by another writer and by the steps of a restore.
LEMMA EnvironmentKeepsIInv ==
  ASSUME Exclusive, IInv, LateWrite \/ Restoring
  PROVE  IInv'
<1> USE KeyStoreAssumption DEF files, IInv, TypeOK, OneAtATime, RestoreCoherent, JournalCoherent,
     EnvelopeCoherent, OnePassphrase, Carries, JournalOf, EnvelopeOf,
     At, Goto, Return, Idle, NoEnvelope, NoJournal, NoCandidate, NoRestore,
     EnvelopeExists, JournalExists, Encrypted, DatabaseKeyOpens, WriteRotation, MayStart, PCs, Calls
<1>1. CASE LateWrite
  BY <1>1 DEF LateWrite
<1>2. CASE RestoreMark
  <2>1. PICK k \in Keys \ used, x \in Passphrases :
          restore' = [marked |-> TRUE, key |-> k, pass |-> x] /\ used' = used \cup {k}
    BY <1>2 DEF RestoreMark
  <2>2. TypeOK'
    BY <1>2, <2>1 DEF RestoreMark
  <2>3. OneAtATime' /\ RestoreCoherent'
    BY <1>2, <2>1 DEF RestoreMark
  <2>4. JournalCoherent' /\ EnvelopeCoherent' /\ OnePassphrase'
    BY <1>2, <2>1 DEF RestoreMark
  <2>5. \A p \in Procs : Carries(p)'
    BY <1>2, <2>1 DEF RestoreMark
  <2> QED
    BY <2>2, <2>3, <2>4, <2>5
<1>3. CASE RestoreInstallDatabase
  BY <1>3 DEF RestoreInstallDatabase
<1>4. CASE RestoreInstallKey
  BY <1>4 DEF RestoreInstallKey
<1>5. CASE RestoreDone
  BY <1>5 DEF RestoreDone
<1> QED
  BY <1>1, <1>2, <1>3, <1>4, <1>5 DEF Restoring

-----------------------------------------------------------------------------
\* A new installation satisfies the invariant.
LEMMA InitIInv == Init => IInv
<1> SUFFICES ASSUME Init PROVE IInv
  OBVIOUS
<1> USE KeyStoreAssumption DEF Init, NoEnvelope, NoJournal, NoCandidate, NoRestore, Idle,
     EnvelopeExists, JournalExists, Encrypted, At
<1>1. TypeOK
  BY DEF TypeOK, Calls, PCs
<1>2. OneAtATime /\ RestoreCoherent /\ JournalCoherent /\ OnePassphrase
  BY DEF OneAtATime, RestoreCoherent, JournalCoherent, OnePassphrase
<1>3. EnvelopeCoherent
  BY DEF EnvelopeCoherent
<1>4. \A p \in Procs : Carries(p)
  BY DEF Carries
<1> QED
  BY <1>1, <1>2, <1>3, <1>4 DEF IInv

\* Every step keeps the invariant.
LEMMA NextIInv ==
  ASSUME Exclusive, IInv, [Next]_vars
  PROVE  IInv'
<1>1. ASSUME NEW p \in Procs, Start(p) PROVE IInv'
  BY <1>1, CallsKeepIInv DEF Start
<1>2. ASSUME NEW p \in Procs, Running(p) PROVE IInv'
  BY <1>2, CallsKeepIInv, RotationKeepsIInv, RecoveryKeepsIInv DEF Running, Rotation, Recovery
<1>3. ASSUME NEW p \in Procs, Crash(p) PROVE IInv'
  BY <1>3, CallsKeepIInv
<1>4. CASE UNCHANGED vars
  BY <1>4 DEF vars, IInv, TypeOK, OneAtATime, RestoreCoherent, JournalCoherent,
       EnvelopeCoherent, OnePassphrase, Carries, JournalOf, EnvelopeOf, At,
       EnvelopeExists, JournalExists, Encrypted
<1> QED
  BY <1>1, <1>2, <1>3, <1>4, EnvironmentKeepsIInv DEF Next

\* The inductive invariant holds in every reachable state.
THEOREM KeyStoreInvariant ==
  ASSUME Exclusive
  PROVE  Spec => []IInv
<1>1. Init => IInv
  BY InitIInv
<1>2. IInv /\ [Next]_vars => IInv'
  BY NextIInv
<1> QED
  BY <1>1, <1>2, PTL DEF Spec

\* Type correctness of the files and of the running calls.
THEOREM TypeCorrect ==
  ASSUME Exclusive
  PROVE  Spec => []TypeOK
<1>1. IInv => TypeOK
  BY DEF IInv
<1> QED
  BY <1>1, KeyStoreInvariant, PTL

\* No crash, busy database or interrupted recovery ever leaves the database under
\* a key that neither the envelope nor the journal holds.
THEOREM AlwaysRecoverable ==
  ASSUME Exclusive
  PROVE  Spec => []Recoverable
<1>1. IInv => Recoverable
  BY DEF IInv, Recoverable, JournalCoherent, EnvelopeCoherent
<1> QED
  BY <1>1, KeyStoreInvariant, PTL

\* One passphrase opens the envelope and any pending journal.
THEOREM AlwaysOnePassphrase ==
  ASSUME Exclusive
  PROVE  Spec => []OnePassphrase
<1>1. IInv => OnePassphrase
  BY DEF IInv
<1> QED
  BY <1>1, KeyStoreInvariant, PTL

\* A key that unlock hands out opens the database.
THEOREM UnlockedKeysOpen ==
  ASSUME Exclusive
  PROVE  Spec => []UnlockedKeyOpens
<1>1. IInv => UnlockedKeyOpens
  BY DEF IInv, UnlockedKeyOpens, DatabaseKeyOpens, Carries, EnvelopeCoherent, At
<1> QED
  BY <1>1, KeyStoreInvariant, PTL

\* The database changes key only under a journal that holds both keys.
THEOREM JournalPrecedesReplacement ==
  ASSUME Exclusive
  PROVE  Spec => JournalBeforeReplacement
<1>1. ASSUME IInv, [Next]_vars, Encrypted, db'.key # db.key
      PROVE  JournalExists /\ journal.old = db.key /\ journal.new = db'.key
  <2> USE KeyStoreAssumption, <1>1 DEF IInv, TypeOK, RestoreCoherent, Carries, JournalOf,
        EnvelopeOf, At, Encrypted, JournalExists
  <2>1. PICK p \in Procs : RotateReplace(p)
    BY ZenonT(60) DEF Next, vars, files, Start, Initialize, ImportExisting, ChangePassphrase, Unlock,
       RotateDatabaseKey, Running, WriteNewEnvelope, UnlockMaterial, OpenDatabase,
       Rotation, RotatePrepare, RotateAttach, RotateBusy, RotateExport, RotateVerify, Verified,
       RotateFail, RotateConfirm, RotateEnvelope, RotateFinalize, RotateDone, Recovery,
       RecoverRead, RecoverSelect, RecoverInconclusive, RecoverEnvelope, RecoverClean,
       RecoverDone, Crash, LateWrite, Restoring, RestoreMark, RestoreInstallDatabase,
       RestoreInstallKey, RestoreDone
  <2> QED
    BY <2>1 DEF RotateReplace
<1>2. IInv /\ [Next]_vars
        => [Encrypted /\ db'.key # db.key =>
              JournalExists /\ journal.old = db.key /\ journal.new = db'.key]_vars
  BY <1>1
<1> QED
  BY <1>2, KeyStoreInvariant, PTL DEF Spec, JournalBeforeReplacement

\* A rotation installs an export that holds every committed write.
THEOREM RotationKeepsWrites ==
  ASSUME Exclusive
  PROVE  Spec => NoCommittedWriteLost
<1>1. ASSUME IInv, [Next]_vars
      PROVE  db'.rev >= db.rev
  <2> USE <1>1 DEF IInv, TypeOK, Carries, At
  <2>1. db' # db => \/ \E p \in Procs : OpenDatabase(p) \/ RotateReplace(p)
                   \/ LateWrite \/ RestoreInstallDatabase
    BY DEF Next, vars, files, Start, Initialize, ImportExisting, ChangePassphrase, Unlock,
       RotateDatabaseKey, Running, WriteNewEnvelope, UnlockMaterial,
       Rotation, RotatePrepare, RotateAttach, RotateBusy, RotateExport, RotateVerify, Verified,
       RotateFail, RotateConfirm, RotateEnvelope, RotateFinalize, RotateDone, Recovery,
       RecoverRead, RecoverSelect, RecoverInconclusive, RecoverEnvelope, RecoverClean,
       RecoverDone, Crash, Restoring, RestoreMark,
       RestoreInstallKey, RestoreDone
  <2>2. ASSUME NEW p \in Procs, OpenDatabase(p) \/ RotateReplace(p)
        PROVE  db'.rev >= db.rev
    BY <2>2 DEF OpenDatabase, RotateReplace
  <2>3. LateWrite \/ RestoreInstallDatabase => db'.rev >= db.rev
    BY DEF LateWrite, RestoreInstallDatabase
  <2>4. db.rev \in Nat
    OBVIOUS
  <2> QED
    BY <2>1, <2>2, <2>3, <2>4
<1>2. IInv /\ [Next]_vars => [db'.rev >= db.rev]_vars
  BY <1>1
<1> QED
  BY <1>2, KeyStoreInvariant, PTL DEF Spec, NoCommittedWriteLost
=============================================================================
