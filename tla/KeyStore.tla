------------------------------ MODULE KeyStore ------------------------------
(***************************************************************************)
(* The wrapped database key and its rotation: runtime/key_store.py with    *)
(* rotate_encrypted_database of backend/database.py.                       *)
(*                                                                         *)
(* Four files carry the state: the envelope (the database key wrapped      *)
(* under a passphrase), the rotation journal beside it, the SQLCipher      *)
(* database and the rotation candidate.  Each is replaced atomically       *)
(* (temporary file, fsync, os.replace), so a file is one variable and      *)
(* every write of one is one step; a process may die between any two       *)
(* steps.  Cryptography is abstract: a key opens exactly the database      *)
(* encrypted under it, and a wrapped key is readable exactly with its      *)
(* passphrase.                                                             *)
(*                                                                         *)
(* Nothing in the code keeps two key-management processes apart.           *)
(* Exclusive = TRUE is the operator's discipline of running them one at a  *)
(* time with the server stopped; with Exclusive = FALSE any number of them *)
(* interleave.                                                             *)
(*                                                                         *)
(* A definition named M_X is a faulty variant of the definition X that     *)
(* follows it; no behaviour of the specification uses one.                 *)
(***************************************************************************)
EXTENDS Naturals

CONSTANTS
  Keys,         \* database keys that secrets.token_bytes can return
  Passphrases,  \* unlock passphrases
  Procs,        \* processes that run keyctl or serve
  NoKey,        \* the key of a file that does not exist
  Plaintext,    \* the "key" of an existing unencrypted database
  NoPass,       \* the passphrase of an absent file
  Exclusive,    \* TRUE: key management is run by one process at a time
  MaxRev        \* bound on the database revisions that other writers make

ASSUME KeyStoreAssumption ==
  /\ NoKey \notin Keys /\ Plaintext \notin Keys /\ NoKey # Plaintext
  /\ NoPass \notin Passphrases
  /\ Exclusive \in BOOLEAN /\ MaxRev \in Nat

VARIABLES
  envelope,   \* [key, pass]: the wrapped key file
  journal,    \* [state, old, new, pass]: the rotation journal
  db,         \* [key, rev]: the database file, rev standing for its rows
  candidate,  \* [key, rev, complete]: the rotation candidate
  restore,    \* [marked, key, pass]: the restore marker and its archive
  used,       \* keys drawn so far; a drawn key never repeats
  op          \* [pc, task, pass, old, new, seen]: the running call of a process

vars == <<envelope, journal, db, candidate, restore, used, op>>
files == <<envelope, journal, db, candidate, restore>>

NoEnvelope  == [key |-> NoKey, pass |-> NoPass]
NoJournal   == [state |-> "none", old |-> NoKey, new |-> NoKey, pass |-> NoPass]
NoCandidate == [key |-> NoKey, rev |-> 0, complete |-> FALSE]
NoRestore   == [marked |-> FALSE, key |-> NoKey, pass |-> NoPass]
Idle == [pc |-> "idle", task |-> "none", pass |-> NoPass,
         old |-> NoKey, new |-> NoKey, seen |-> 0]

EnvelopeExists == envelope.key # NoKey
JournalExists  == journal.state # "none"
Encrypted      == db.key \in Keys

\* A key opens the database file exactly when the file is encrypted under it.
DatabaseKeyOpens(k) == Encrypted /\ db.key = k

-----------------------------------------------------------------------------
(***************************************************************************)
(* A new installation has no database or a plaintext one; an installation  *)
(* of the former raw-key workflow has an encrypted database and no         *)
(* envelope.                                                               *)
(***************************************************************************)
Init ==
  /\ envelope = NoEnvelope
  /\ journal = NoJournal
  /\ candidate = NoCandidate
  /\ restore = NoRestore
  /\ op = [p \in Procs |-> Idle]
  /\ \E k \in Keys \cup {NoKey, Plaintext} :
       /\ db = [key |-> k, rev |-> 0]
       /\ used = {k} \cap Keys

At(p, label) == op[p].pc = label
Goto(p, label) == op' = [op EXCEPT ![p].pc = label]
Return(p) == op' = [op EXCEPT ![p] = Idle]

\* require_no_restore, and the discipline under Exclusive.
MayStart(p) ==
  /\ At(p, "idle")
  /\ Exclusive => \A q \in Procs : At(q, "idle")
  /\ ~restore.marked

Call(p, label, task, pass, key) ==
  op' = [op EXCEPT ![p] = [pc |-> label, task |-> task, pass |-> pass,
                           old |-> key, new |-> NoKey, seen |-> 0]]

\* keyctl init refuses an existing envelope, journal or encrypted database.
Initialize(p) ==
  /\ MayStart(p)
  /\ ~EnvelopeExists /\ ~JournalExists /\ ~Encrypted
  /\ \E k \in Keys \ used, x \in Passphrases :
       /\ Call(p, "write_envelope", "init", x, k)
       /\ used' = used \cup {k}
  /\ UNCHANGED files

\* keyctl import-existing proves that the key opens the database.
ImportExisting(p) ==
  /\ MayStart(p)
  /\ ~EnvelopeExists /\ ~JournalExists
  /\ \E k \in Keys, x \in Passphrases :
       /\ DatabaseKeyOpens(k)
       /\ Call(p, "write_envelope", "import", x, k)
  /\ UNCHANGED <<files, used>>

M_ChangePassphrase(p) ==   \* a pending rotation is not refused
  /\ MayStart(p)
  /\ EnvelopeExists
  /\ \E x \in Passphrases : Call(p, "write_envelope", "change", x, envelope.key)
  /\ UNCHANGED <<files, used>>

\* keyctl change-passphrase, given the current passphrase, reads the key now and
\* writes the envelope later; a wrong passphrase changes nothing.
ChangePassphrase(p) ==
  /\ MayStart(p)
  /\ ~JournalExists /\ EnvelopeExists
  /\ \E x \in Passphrases : Call(p, "write_envelope", "change", x, envelope.key)
  /\ UNCHANGED <<files, used>>

WriteNewEnvelope(p) ==
  /\ At(p, "write_envelope")
  /\ envelope' = [key |-> op[p].old, pass |-> op[p].pass]
  /\ Return(p)
  /\ UNCHANGED <<journal, db, candidate, restore, used>>

M_Unlock(p, x) ==   \* a pending rotation is not recovered
  /\ MayStart(p)
  /\ Call(p, "read", "serve", x, NoKey)
  /\ UNCHANGED <<files, used>>

\* serve unlocks, keyctl rotate-db-key rotates; a journal is recovered first.
Unlock(p, x) ==
  /\ MayStart(p)
  /\ Call(p, IF JournalExists THEN "recover_read" ELSE "read", "serve", x, NoKey)
  /\ UNCHANGED <<files, used>>

RotateDatabaseKey(p, x) ==
  /\ MayStart(p)
  /\ Call(p, IF JournalExists THEN "recover_read" ELSE "read", "rotate", x, NoKey)
  /\ UNCHANGED <<files, used>>

\* Only the passphrase of the envelope unwraps the database key.
Unwraps(p) == EnvelopeExists /\ envelope.pass = op[p].pass

\* _unlock_material, then the key goes to serve or to a rotation to a fresh key.
UnlockMaterial(p) ==
  /\ At(p, "read")
  /\ \/ /\ Unwraps(p) /\ op[p].task = "serve"
        /\ op' = [op EXCEPT ![p].pc = "open", ![p].old = envelope.key]
        /\ UNCHANGED used
     \/ /\ Unwraps(p) /\ op[p].task = "rotate"
        /\ \E k \in Keys \ used :
             /\ op' = [op EXCEPT ![p].pc = "prepare", ![p].old = envelope.key,
                                 ![p].new = k]
             /\ used' = used \cup {k}
     \/ ~Unwraps(p) /\ Return(p) /\ UNCHANGED used
  /\ UNCHANGED files

\* Database.from_url with the unlocked key: create, migrate, open or refuse.
OpenDatabase(p) ==
  /\ At(p, "open")
  /\ \/ ~Encrypted /\ db' = [db EXCEPT !.key = op[p].old]
     \/ UNCHANGED db
  /\ Return(p)
  /\ UNCHANGED <<envelope, journal, candidate, restore, used>>

-----------------------------------------------------------------------------
(***************************************************************************)
(* rotate_database_key.  Every failure other than a busy database leaves   *)
(* the journal for the next unlock.                                        *)
(***************************************************************************)
WriteRotation(p, state) ==
  journal' = [state |-> state, old |-> op[p].old, new |-> op[p].new, pass |-> op[p].pass]

M_RotatePrepare(p) ==   \* the journal is not written before the export
  /\ At(p, "prepare")
  /\ Goto(p, "attach")
  /\ UNCHANGED <<files, used>>

RotatePrepare(p) ==
  /\ At(p, "prepare")
  /\ WriteRotation(p, "prepared")
  /\ Goto(p, "attach")
  /\ UNCHANGED <<envelope, db, candidate, restore, used>>

\* A stale candidate is removed, a new one attached under BEGIN EXCLUSIVE.
RotateAttach(p) ==
  /\ At(p, "attach")
  /\ DatabaseKeyOpens(op[p].old)
  /\ candidate' = [key |-> op[p].new, rev |-> 0, complete |-> FALSE]
  /\ Goto(p, "export")
  /\ UNCHANGED <<envelope, journal, db, restore, used>>

\* Another connection holds a lock: the rotation is withdrawn.
RotateBusy(p) ==
  /\ At(p, "attach")
  /\ candidate' = NoCandidate
  /\ journal' = NoJournal
  /\ Return(p)
  /\ UNCHANGED <<envelope, db, restore, used>>

M_RotateExport(p) ==   \* the candidate is exported without a key
  /\ At(p, "export")
  /\ candidate' = [key |-> Plaintext, rev |-> db.rev, complete |-> TRUE]
  /\ op' = [op EXCEPT ![p] = [@ EXCEPT !.pc = "verify", !.seen = db.rev]]
  /\ UNCHANGED <<envelope, journal, db, restore, used>>

\* sqlcipher_export and the source fingerprint, inside one exclusive lock.
RotateExport(p) ==
  /\ At(p, "export")
  /\ candidate' = [key |-> op[p].new, rev |-> db.rev, complete |-> TRUE]
  /\ op' = [op EXCEPT ![p] = [@ EXCEPT !.pc = "verify", !.seen = db.rev]]
  /\ UNCHANGED <<envelope, journal, db, restore, used>>

\* The candidate opens under the new key and holds every table and row.
Verified(p) == candidate.complete /\ candidate.key = op[p].new

M_RotateVerify(p) ==   \* the source fingerprint is not compared again
  /\ At(p, "verify")
  /\ Verified(p)
  /\ Goto(p, "replace")
  /\ UNCHANGED <<files, used>>

\* The candidate is verified and the source has not changed.
RotateVerify(p) ==
  /\ At(p, "verify")
  /\ Verified(p)
  /\ db.rev = op[p].seen
  /\ Goto(p, "replace")
  /\ UNCHANGED <<files, used>>

\* Any other error before the replacement removes the candidate.
RotateFail(p) ==
  /\ op[p].pc \in {"attach", "export", "verify", "replace"}
  /\ candidate' = NoCandidate
  /\ Return(p)
  /\ UNCHANGED <<envelope, journal, db, restore, used>>

RotateReplace(p) ==
  /\ At(p, "replace")
  /\ candidate.key # NoKey
  /\ db' = [key |-> candidate.key, rev |-> candidate.rev]
  /\ candidate' = NoCandidate
  /\ Goto(p, "confirm")
  /\ UNCHANGED <<envelope, journal, restore, used>>

RotateConfirm(p) ==
  /\ At(p, "confirm")
  /\ DatabaseKeyOpens(op[p].new) /\ ~DatabaseKeyOpens(op[p].old)
  /\ WriteRotation(p, "database_replaced")
  /\ Goto(p, "envelope")
  /\ UNCHANGED <<envelope, db, candidate, restore, used>>

RotateEnvelope(p) ==
  /\ At(p, "envelope")
  /\ envelope' = [key |-> op[p].new, pass |-> op[p].pass]
  /\ Goto(p, "finalize")
  /\ UNCHANGED <<journal, db, candidate, restore, used>>

RotateFinalize(p) ==
  /\ At(p, "finalize")
  /\ WriteRotation(p, "finalized")
  /\ Goto(p, "rotated")
  /\ UNCHANGED <<envelope, db, candidate, restore, used>>

RotateDone(p) ==
  /\ At(p, "rotated")
  /\ journal' = NoJournal
  /\ Return(p)
  /\ UNCHANGED <<envelope, db, candidate, restore, used>>

-----------------------------------------------------------------------------
(***************************************************************************)
(* recover_rotation.                                                       *)
(***************************************************************************)
\* The journal unwraps only with the passphrase that wrote it.
RecoverRead(p) ==
  /\ At(p, "recover_read")
  /\ \/ /\ JournalExists /\ journal.pass = op[p].pass
        /\ op' = [op EXCEPT ![p].pc = "recover_test", ![p].old = journal.old,
                            ![p].new = journal.new]
     \/ ~(JournalExists /\ journal.pass = op[p].pass) /\ Return(p)
  /\ UNCHANGED <<files, used>>

M_RecoverSelect(p) ==   \* the old key is selected whichever one opens
  /\ At(p, "recover_test")
  /\ ~(DatabaseKeyOpens(op[p].old) <=> DatabaseKeyOpens(op[p].new))
  /\ Goto(p, "recover_envelope")
  /\ UNCHANGED <<files, used>>

\* Exactly one key must open the database; it becomes the selected key.
RecoverSelect(p) ==
  /\ At(p, "recover_test")
  /\ ~(DatabaseKeyOpens(op[p].old) <=> DatabaseKeyOpens(op[p].new))
  /\ \E k \in {op[p].old, op[p].new} :
       /\ DatabaseKeyOpens(k)
       /\ op' = [op EXCEPT ![p] = [@ EXCEPT !.pc = "recover_envelope", !.old = k]]
  /\ UNCHANGED <<files, used>>

\* Neither key opens it, or it is locked: fail closed and keep the journal.
RecoverInconclusive(p) ==
  /\ At(p, "recover_test")
  /\ Return(p)
  /\ UNCHANGED <<files, used>>

RecoverEnvelope(p) ==
  /\ At(p, "recover_envelope")
  /\ envelope' = [key |-> op[p].old, pass |-> op[p].pass]
  /\ Goto(p, "recover_clean")
  /\ UNCHANGED <<journal, db, candidate, restore, used>>

RecoverClean(p) ==
  /\ At(p, "recover_clean")
  /\ candidate' = NoCandidate
  /\ Goto(p, "recover_done")
  /\ UNCHANGED <<envelope, journal, db, restore, used>>

M_RecoverDone(p) ==   \* the journal is not removed
  /\ At(p, "recover_done")
  /\ Goto(p, "read")
  /\ UNCHANGED <<files, used>>

\* The journal goes last; the interrupted call then goes on.
RecoverDone(p) ==
  /\ At(p, "recover_done")
  /\ journal' = NoJournal
  /\ Goto(p, "read")
  /\ UNCHANGED <<envelope, db, candidate, restore, used>>

-----------------------------------------------------------------------------
(***************************************************************************)
(* The environment: crashes, other database writers, and a restore, which  *)
(* starts only on empty targets and installs the database before the key.  *)
(***************************************************************************)
Crash(p) ==
  /\ ~At(p, "idle")
  /\ Return(p)
  /\ UNCHANGED <<files, used>>

\* A connection that did not stop writes whenever the rotation holds no lock.
\* The discipline also covers the gap between the fingerprint comparison and
\* os.replace, which nothing in the code protects.
LateWrite ==
  /\ Encrypted /\ ~restore.marked /\ db.rev < MaxRev
  /\ \A p \in Procs : ~At(p, "export") /\ (Exclusive => ~At(p, "replace"))
  /\ db' = [db EXCEPT !.rev = @ + 1]
  /\ UNCHANGED <<envelope, journal, candidate, restore, used, op>>

RestoreMark ==
  /\ Exclusive => \A p \in Procs : At(p, "idle")
  /\ ~restore.marked
  /\ ~EnvelopeExists /\ ~JournalExists /\ db.key = NoKey /\ candidate = NoCandidate
  /\ \E k \in Keys \ used, x \in Passphrases :
       /\ restore' = [marked |-> TRUE, key |-> k, pass |-> x]
       /\ used' = used \cup {k}
  /\ UNCHANGED <<envelope, journal, db, candidate, op>>

RestoreInstallDatabase ==
  /\ restore.marked /\ db.key = NoKey
  /\ db' = [db EXCEPT !.key = restore.key]
  /\ UNCHANGED <<envelope, journal, candidate, restore, used, op>>

RestoreInstallKey ==
  /\ restore.marked /\ db.key # NoKey /\ ~EnvelopeExists
  /\ envelope' = [key |-> restore.key, pass |-> restore.pass]
  /\ UNCHANGED <<journal, db, candidate, restore, used, op>>

RestoreDone ==
  /\ restore.marked /\ EnvelopeExists
  /\ restore' = NoRestore
  /\ UNCHANGED <<envelope, journal, db, candidate, used, op>>

-----------------------------------------------------------------------------
Start(p) ==
  \/ Initialize(p) \/ ImportExisting(p) \/ ChangePassphrase(p)
  \/ \E x \in Passphrases : Unlock(p, x) \/ RotateDatabaseKey(p, x)

Rotation(p) ==
  \/ RotatePrepare(p) \/ RotateAttach(p) \/ RotateBusy(p) \/ RotateExport(p)
  \/ RotateVerify(p) \/ RotateFail(p) \/ RotateReplace(p) \/ RotateConfirm(p)
  \/ RotateEnvelope(p) \/ RotateFinalize(p) \/ RotateDone(p)

Recovery(p) ==
  \/ RecoverRead(p) \/ RecoverSelect(p) \/ RecoverInconclusive(p)
  \/ RecoverEnvelope(p) \/ RecoverClean(p) \/ RecoverDone(p)

\* Every step of a call that has started.
Running(p) ==
  WriteNewEnvelope(p) \/ UnlockMaterial(p) \/ OpenDatabase(p) \/ Rotation(p) \/ Recovery(p)

Restoring ==
  RestoreMark \/ RestoreInstallDatabase \/ RestoreInstallKey \/ RestoreDone

Next ==
  \/ \E p \in Procs : Start(p) \/ Running(p) \/ Crash(p)
  \/ LateWrite \/ Restoring

Spec == Init /\ [][Next]_vars

(***************************************************************************)
(* Fairness for recovery: a process that runs does not stop for ever, the  *)
(* operator tries each passphrase again and again, and neither a crash nor *)
(* a locked database hits the same step of every attempt.                  *)
(***************************************************************************)
Fairness ==
  \A p \in Procs :
    /\ WF_vars(Running(p))
    /\ \A x \in Passphrases :
         /\ SF_vars(Unlock(p, x))
         /\ SF_vars(RecoverRead(p) /\ op[p].pass = x)
    /\ SF_vars(RecoverSelect(p))
    /\ SF_vars(RecoverEnvelope(p))
    /\ SF_vars(RecoverClean(p))
    /\ SF_vars(RecoverDone(p))

FairSpec == Spec /\ Fairness

-----------------------------------------------------------------------------
PCs == {"idle", "write_envelope", "read", "open", "prepare", "attach", "export",
        "verify", "replace", "confirm", "envelope", "finalize", "rotated",
        "recover_read", "recover_test", "recover_envelope", "recover_clean",
        "recover_done"}

Calls == [pc : PCs, task : {"none", "init", "import", "change", "serve", "rotate"},
          pass : Passphrases \cup {NoPass}, old : Keys \cup {NoKey},
          new : Keys \cup {NoKey}, seen : Nat]

\* The types of the files and of the running calls.
TypeOK ==
  /\ envelope \in [key : Keys \cup {NoKey}, pass : Passphrases \cup {NoPass}]
  /\ journal \in [state : {"none", "prepared", "database_replaced", "finalized"},
                  old : Keys \cup {NoKey}, new : Keys \cup {NoKey},
                  pass : Passphrases \cup {NoPass}]
  /\ db \in [key : Keys \cup {NoKey, Plaintext}, rev : Nat]
  /\ candidate \in [key : Keys \cup {NoKey}, rev : Nat, complete : BOOLEAN]
  /\ restore \in [marked : BOOLEAN, key : Keys \cup {NoKey},
                  pass : Passphrases \cup {NoPass}]
  /\ used \in SUBSET Keys
  /\ op \in [Procs -> Calls]

\* The files can always be brought back: without a journal the envelope wraps
\* the very key of the database; with one, the journal holds that key as exactly
\* one of its two (rotate_database_key, recover_rotation: no crash point strands
\* the database under a key that no file holds).
Recoverable ==
  EnvelopeExists /\ Encrypted =>
    IF JournalExists
    THEN journal.old # journal.new /\ db.key \in {journal.old, journal.new}
    ELSE envelope.key = db.key

\* The passphrase that opens the envelope also opens a pending journal, so one
\* passphrase is enough to recover (change_passphrase refuses a pending journal).
OnePassphrase ==
  JournalExists => EnvelopeExists /\ journal.pass = envelope.pass

\* A key that unlock hands to serve opens the database there is.
UnlockedKeyOpens ==
  \A p \in Procs : At(p, "open") /\ Encrypted => DatabaseKeyOpens(op[p].old)

\* An encrypted database only ever changes key while the journal on disk holds
\* its present key as old and its next one as new ("stores both old and new keys
\* only in wrapped form before any database change").
JournalBeforeReplacement ==
  [][Encrypted /\ db'.key # db.key =>
       JournalExists /\ journal.old = db.key /\ journal.new = db'.key]_vars

\* A rotation never replaces the database by an older export: what another
\* connection committed before the fingerprint comparison is kept.
NoCommittedWriteLost == [][db'.rev >= db.rev]_vars

\* Recovery ends: while an encrypted database exists, a journal that a crash
\* left is eventually removed by the unlocks that follow.  Without one neither
\* key of the journal opens anything, and recovery fails closed.
RecoveryEnds == (JournalExists /\ Encrypted) ~> ~JournalExists

\* change-passphrase keeps the key that the envelope of a database holds ("Change only
\* the unlock passphrase without modifying the database key").
ChangeKeepsKey ==
  [][\A p \in Procs :
       Encrypted /\ op[p].task = "change" /\ WriteNewEnvelope(p)
         => envelope'.key = envelope.key]_vars
=============================================================================
