---------------------------- MODULE BackupRestore ---------------------------
(***************************************************************************)
(* runtime/backup.py on the installation of Installation.tla: `create'     *)
(* writes a verified archive beside a backend that may serve; `restore'    *)
(* installs one on an empty machine in an order (images, database, wrapped *)
(* key) that a kill at any point leaves recoverable, behind a marker that  *)
(* keeps every other program from starting until `--resume' has finished.  *)
(* Two such commands may run at once, and the machine may be lost.         *)
(*                                                                         *)
(* keyctl init looks for the marker, derives its key and then replaces the *)
(* envelope without another look: a restore that is marked in between is   *)
(* not protected from it.  Where Apart is TRUE none is, and the rest of    *)
(* the interleavings are left; where it is FALSE, MarkerBlocks fails.      *)
(***************************************************************************)
EXTENDS Installation

CONSTANTS
  Apart,      \* TRUE: no restore is marked between the checks and the write of keyctl init
  Jobs,       \* processes running runtime.backup
  Backups,    \* backup IDs: one archive each
  MaxKills,   \* bound on killed jobs
  MaxMachines \* bound on lost machines

ASSUME BackupAssumption ==
  /\ Apart \in BOOLEAN
  /\ None \notin Backups /\ None \notin Jobs
  /\ MaxKills \in Nat /\ MaxMachines \in Nat

VARIABLES
  marker,   \* <key-file>.restore: the archive being installed
  lock,     \* the job that holds the lock on the marker
  archives, \* the published archives, kept apart from the machine
  job,      \* what each runtime.backup process is doing
  kills,    \* jobs killed so far
  machine   \* machines lost so far

backup_vars == <<marker, lock, archives, job, kills, machine>>
vars == <<disk, known, backend, backup_vars>>

NoArchive == [database |-> NoDatabase, envelope |-> None, images |-> {}]
Idle == [pc |-> "idle", id |-> None, resume |-> FALSE, envelope |-> None, key |-> None,
         snapshot |-> NoDatabase, images |-> {}, left |-> {}]

Init ==
  /\ InitInstallation
  /\ marker = None /\ lock = None
  /\ archives = [b \in Backups |-> NoArchive]
  /\ job = [j \in Jobs |-> Idle]
  /\ kills = 0 /\ machine = 0

Doing(j, label) == job[j].pc = label
Archive(j) == archives[job[j].id]

\* A command goes on where its checks hold and ends, without the lock, where
\* they do not.
Step(j, ok, next) ==
  /\ job' = [job EXCEPT ![j] = IF ok THEN next ELSE Idle]
  /\ lock' = IF ~ok /\ lock = j THEN None ELSE lock
To(j, label) == [job[j] EXCEPT !.pc = label]

\* The image of a has a representation that the asset key opens, or plaintext.
Readable(a) == \/ target[a] # None /\ target[a] = database.aek
               \/ legacy[a] = Png
               \/ legacy[a] # None /\ legacy[a] = database.aek

-----------------------------------------------------------------------------
(***************************************************************************)
(* create_backup.                                                          *)
(***************************************************************************)
\* _require_stable_key.
M_StableKey(envelope) == marker = None /\ rotation = None
StableKey(envelope) ==
  /\ marker = None /\ rotation = None
  /\ key_file = envelope

BeginBackup(j, b) ==
  /\ Doing(j, "idle") /\ archives[b] = NoArchive
  /\ database.exists /\ key_file # None /\ StableKey(key_file)
  /\ job' = [job EXCEPT ![j] = [Idle EXCEPT !.pc = "begun", !.id = b, !.envelope = key_file]]
  /\ UNCHANGED <<disk, known, backend, marker, lock, archives, kills, machine>>

\* The envelope is read a second time to unlock it; the checks follow.
UnlockForBackup(j) ==
  /\ Doing(j, "begun")
  /\ Step(j, key_file # None /\ StableKey(job[j].envelope),
          [job[j] EXCEPT !.pc = "keyed", !.key = key_file])
  /\ UNCHANGED <<disk, known, backend, marker, archives, kills, machine>>

\* export_encrypted_snapshot; an archive never creates an asset key.
Snapshot(j) ==
  /\ Doing(j, "keyed")
  /\ Step(j, database.exists /\ database.key = job[j].key /\ database.aek # None,
          [job[j] EXCEPT !.pc = "reading", !.snapshot = database, !.left = database.rows])
  /\ UNCHANGED <<disk, known, backend, marker, archives, kills, machine>>

\* _assets: every row of the snapshot has its image, under the snapshot's key.
ReadImage(j, a) ==
  /\ Doing(j, "reading") /\ a \in job[j].left
  /\ Step(j, target[a] = job[j].snapshot.aek,
          [job[j] EXCEPT !.left = @ \ {a}, !.images = @ \cup {a}])
  /\ UNCHANGED <<disk, known, backend, marker, archives, kills, machine>>

Verify(j) ==
  /\ Doing(j, "reading") /\ job[j].left = {}
  /\ Step(j, StableKey(job[j].envelope), To(j, "verified"))
  /\ UNCHANGED <<disk, known, backend, marker, archives, kills, machine>>

\* What the staging directory holds, written into one file.
NewArchive(j) ==
  [database |-> job[j].snapshot, envelope |-> job[j].envelope, images |-> job[j].images]

\* install_new: an atomic link that never replaces a file.
Publish(j) ==
  /\ Doing(j, "verified")
  /\ archives' = IF Archive(j) # NoArchive THEN archives
                 ELSE [archives EXCEPT ![job[j].id] = NewArchive(j)]
  /\ job' = [job EXCEPT ![j] = Idle]
  /\ UNCHANGED <<disk, known, backend, marker, lock, kills, machine>>

-----------------------------------------------------------------------------
(***************************************************************************)
(* restore_backup.                                                         *)
(***************************************************************************)
\* _targets_empty.
TargetsEmpty ==
  /\ ~database.exists /\ key_file = None /\ rotation = None
  /\ \A a \in Assets : target[a] = None /\ legacy[a] = None
  /\ temps = {}

\* _resume_targets: what is there is what this archive would put there.
TargetsMatch(archive) ==
  /\ rotation = None
  /\ database.exists => database = archive.database
  /\ key_file \in {None, archive.envelope}
  /\ temps = {}
  /\ \A a \in Assets :
       /\ legacy[a] = None
       /\ target[a] # None => a \in archive.images /\ target[a] = archive.database.aek

\* The archive has been validated: its key opens its database, its images are
\* those of the rows.
Opens(archive) ==
  /\ archive.envelope = archive.database.key /\ archive.database.aek # None
  /\ archive.images = archive.database.rows

\* The archive is unlocked, decrypted and staged.
StartRestore(j, b) ==
  /\ Doing(j, "idle") /\ archives[b] # NoArchive /\ Opens(archives[b])
  /\ \/ /\ marker = None /\ TargetsEmpty
        /\ job' = [job EXCEPT ![j] = [Idle EXCEPT !.pc = "staged", !.id = b]]
     \/ /\ marker # None
        /\ job' = [job EXCEPT ![j] = [Idle EXCEPT !.pc = "marked", !.id = b, !.resume = TRUE]]
  /\ UNCHANGED <<disk, known, backend, marker, lock, archives, kills, machine>>

\* The targets are looked at again before the marker is linked.
Recheck(j) ==
  /\ Doing(j, "staged")
  /\ Step(j, TargetsEmpty, To(j, "rechecked"))
  /\ UNCHANGED <<disk, known, backend, marker, archives, kills, machine>>

Mark(j) ==
  /\ Doing(j, "rechecked")
  /\ Apart => ~At("initializing")
  /\ Step(j, marker = None, To(j, "marked"))
  /\ marker' = IF marker = None THEN job[j].id ELSE marker
  /\ UNCHANGED <<disk, known, backend, archives, kills, machine>>

\* journal_lock, without waiting; then the marker's document.
Lock(j) ==
  /\ Doing(j, "marked")
  /\ IF marker = job[j].id /\ lock = None
     THEN lock' = j /\ job' = [job EXCEPT ![j] = To(j, "locked")]
     ELSE lock' = lock /\ job' = [job EXCEPT ![j] = Idle]
  /\ UNCHANGED <<disk, known, backend, marker, archives, kills, machine>>

CheckTargets(j) ==
  /\ Doing(j, "locked")
  /\ Step(j, TargetsMatch(Archive(j)),
          [job[j] EXCEPT !.pc = "installing", !.left = Archive(j).images])
  /\ UNCHANGED <<disk, known, backend, marker, archives, kills, machine>>

\* _install: link a missing file; only a resume accepts one that is there.
M_Installs(j, present, same) == ~present
Installs(j, present, same) ==
  ~present \/ (job[j].resume /\ same)

InstallImage(j, a) ==
  /\ Doing(j, "installing") /\ a \in job[j].left
  /\ Step(j, Installs(j, target[a] # None, target[a] = Archive(j).database.aek),
          [job[j] EXCEPT !.left = @ \ {a}])
  /\ target' = [target EXCEPT ![a] = IF @ = None THEN Archive(j).database.aek ELSE @]
  /\ UNCHANGED <<database, key_file, rotation, legacy, temps, known, backend,
                 marker, archives, kills, machine>>

InstallDatabase(j) ==
  /\ Doing(j, "installing") /\ job[j].left = {}
  /\ Step(j, Installs(j, database.exists, database = Archive(j).database), To(j, "database"))
  /\ database' = IF database.exists THEN database ELSE Archive(j).database
  /\ UNCHANGED <<key_file, rotation, target, legacy, temps, known, backend,
                 marker, archives, kills, machine>>

\* The key is last: an installation with its key is complete.
M_InstallKey(j) ==
  /\ Doing(j, "locked")
  /\ Installs(j, key_file # None, key_file = Archive(j).envelope)
  /\ key_file' = Archive(j).envelope
  /\ job' = [job EXCEPT ![j] = To(j, "installed")] /\ lock' = None
  /\ UNCHANGED <<database, rotation, target, legacy, temps, known, backend,
                 marker, archives, kills, machine>>
InstallKey(j) ==
  /\ Doing(j, "database")
  /\ Step(j, Installs(j, key_file # None, key_file = Archive(j).envelope), To(j, "installed"))
  /\ key_file' = IF key_file = None THEN Archive(j).envelope ELSE key_file
  /\ UNCHANGED <<database, rotation, target, legacy, temps, known, backend,
                 marker, archives, kills, machine>>

\* The lock is released before the marker is read again and removed.
Release(j) ==
  /\ Doing(j, "installed")
  /\ job' = [job EXCEPT ![j] = To(j, "released")]
  /\ lock' = IF lock = j THEN None ELSE lock
  /\ UNCHANGED <<disk, known, backend, marker, archives, kills, machine>>

FinishRestore(j) ==
  /\ Doing(j, "released")
  /\ marker' = IF marker = job[j].id THEN None ELSE marker
  /\ job' = [job EXCEPT ![j] = Idle]
  /\ UNCHANGED <<disk, known, backend, lock, archives, kills, machine>>

-----------------------------------------------------------------------------
\* A kill at any point; staging directories it leaves are never looked at.
Kill(j) ==
  /\ ~Doing(j, "idle") /\ kills < MaxKills
  /\ kills' = kills + 1
  /\ job' = [job EXCEPT ![j] = Idle]
  /\ lock' = IF lock = j THEN None ELSE lock
  /\ UNCHANGED <<disk, known, backend, marker, archives, machine>>

\* The machine is lost; the archives, which are kept elsewhere, are not.
LoseMachine ==
  /\ machine < MaxMachines /\ machine' = machine + 1
  /\ database' = NoDatabase /\ key_file' = None /\ rotation' = None
  /\ target' = [a \in Assets |-> None] /\ legacy' = [a \in Assets |-> None] /\ temps' = {}
  /\ backend' = Stopped
  /\ marker' = None /\ lock' = None /\ job' = [j \in Jobs |-> Idle]
  /\ UNCHANGED <<known, archives, kills>>

JobStep(j) ==
  \/ UnlockForBackup(j) \/ Snapshot(j) \/ Verify(j) \/ Publish(j)
  \/ Recheck(j) \/ Mark(j) \/ Lock(j) \/ CheckTargets(j)
  \/ InstallDatabase(j) \/ InstallKey(j) \/ Release(j) \/ FinishRestore(j)
  \/ \E a \in Assets : ReadImage(j, a) \/ InstallImage(j, a)

Next ==
  \/ marker = None /\ MayBegin /\ UNCHANGED backup_vars
  \/ Running /\ UNCHANGED backup_vars
  \/ \E j \in Jobs :
       \/ JobStep(j) \/ Kill(j)
       \/ \E b \in Backups : BeginBackup(j, b) \/ StartRestore(j, b)
  \/ LoseMachine

\* A command that was started goes on; the operator runs the restore that the
\* marker asks for until it has succeeded.
Resume == marker \in Backups /\ \E j \in Jobs : StartRestore(j, marker)

Spec == Init /\ [][Next]_vars /\ (\A j \in Jobs : WF_vars(JobStep(j))) /\ SF_vars(Resume)

-----------------------------------------------------------------------------
\* Whenever the envelope is there and nothing is pending, so that the backend
\* could unlock, the installation is complete: the database (unless it was
\* never created: no archive has this key) is the one of this key, and on a
\* machine that started empty every row has its image.  It is what the order
\* of the installs, the marker and the checks of restore_backup are for; they
\* are enough as long as Apart holds.
UsableIsWhole ==
  marker = None /\ key_file # None /\ rotation = None =>
    /\ ~database.exists => \A b \in Backups : archives[b].envelope # key_file
    /\ database.exists /\ ~Plaintext => database.key = key_file
    /\ machine > 0 => \A a \in database.rows : Readable(a)

\* While the marker is there nobody but the restore changes the envelope: a
\* leftover marker blocks unlock and mutations until a `--resume' finishes.
MarkerBlocks ==
  [][ marker # None /\ marker' = marker =>
        key_file' \in {key_file, archives[marker].envelope} ]_vars

\* Every archive that was ever published can be restored, however a rotation,
\* an upload or a deletion interleaved with its creation.
ArchivesOpen == \A b \in Backups : archives[b] # NoArchive => Opens(archives[b])

\* A backend that serves has left no plaintext behind: not the database it
\* migrated, not a legacy image, not a temporary file; and its asset key opens
\* every file it kept.
ServingIsEncrypted ==
  At("serving") =>
    /\ database.key = backend.key /\ temps = {}
    /\ \A a \in Assets : legacy[a] = None /\ target[a] \in {None, database.aek}

\* Short of losing the machine, no start, migration, rotation, backup or
\* restore, killed at any point, takes a commit back or makes unreadable the
\* image of a row that stays.
NothingLost ==
  [][ machine' = machine /\ database.exists =>
        /\ database'.exists /\ database'.version >= database.version
        /\ \A a \in database.rows \cap database'.rows : Readable(a) => Readable(a)' ]_vars

\* A restore that is interrupted, at any point and more than once, does not
\* stay pending under its `--resume' as long as nobody puts something else in
\* the place of what it installs.
RestoreFinishes ==
  \A b \in Backups : []<>(marker # b \/ ~TargetsMatch(archives[b]))

=============================================================================
