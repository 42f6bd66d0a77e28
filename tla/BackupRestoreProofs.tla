------------------------ MODULE BackupRestoreProofs ------------------------
(***************************************************************************)
(* Proofs about BackupRestore for any number of images, keys, archives,    *)
(* commands, kills and machines: archives open, what can be unlocked is    *)
(* whole, a backend that serves has left no plaintext, and nothing is lost *)
(* short of the machine.                                                   *)
(*                                                                         *)
(* The strengthening says what belongs together on the disk (Disk), what   *)
(* key management and a start may rely on (Managing, Started), and what    *)
(* each backup and restore knows of the disk from its checks, however long *)
(* it has been stalled (Backing, Restoring).  It holds where Apart does:   *)
(* no restore is marked between the checks and the write of keyctl init.   *)
(***************************************************************************)
EXTENDS BackupRestore, TLAPS

Key == Keys \cup {None}
Db == [exists : BOOLEAN, key : Key, rows : SUBSET Assets, aek : Key, version : Nat]

BackupLabels == {"begun", "keyed", "reading", "verified"}
Holding == {"locked", "installing", "database", "installed"}
RestoreLabels == {"staged", "rechecked", "marked", "released"} \cup Holding
KeyLabels == {"initializing", "starting", "rotating", "prepared", "replaced", "recovering",
              "rotated", "recovered"}
StartLabels == {"unlocked", "exported", "compared", "opened", "migrating", "serving"}

Job == [pc : {"idle"} \cup BackupLabels \cup RestoreLabels, id : Backups \cup {None},
        resume : BOOLEAN, envelope : Key, key : Key, snapshot : Db,
        images : SUBSET Assets, left : SUBSET Assets]

TypeOK ==
  /\ database \in Db /\ key_file \in Key /\ rotation \in Key
  /\ target \in [Assets -> Key] /\ legacy \in [Assets -> Key \cup {Png}]
  /\ temps \subseteq Assets
  /\ backend \in [pc : {"stopped"} \cup KeyLabels \cup StartLabels, key : Key, candidate : Db,
                  pending : SUBSET Assets, written : SUBSET Assets]
  /\ marker \in Backups \cup {None} /\ lock \in Jobs \cup {None}
  /\ archives \in [Backups -> [database : Db, envelope : Key, images : SUBSET Assets]]
  /\ job \in [Jobs -> Job]
  /\ machine \in Nat

Published(b) == b \in Backups /\ archives[b] # NoArchive

\* An archive opens, and its keys are never drawn again.
ArchivesOK ==
  \A b \in Backups : Published(b) =>
    /\ Opens(archives[b]) /\ archives[b].database.exists
    /\ archives[b].envelope # None /\ archives[b].envelope \in known

\* The files, at any time.
Files ==
  /\ ~database.exists => database = NoDatabase /\ \A a \in Assets : legacy[a] = None
  /\ database.exists => \A a \in Assets : /\ target[a] \in {None, database.aek}
                                          /\ legacy[a] \in {None, Png, database.aek}
  /\ Plaintext => database.aek = None /\ machine = 0

\* The wrapped key and the database that it belongs to.
Wrapped ==
  /\ key_file # None => key_file \in known
  /\ rotation # None => rotation \in known /\ key_file # None
  /\ key_file # None /\ ~database.exists =>
       /\ \A a \in Assets : target[a] = None
       /\ \A b \in Backups : Published(b) => archives[b].envelope # key_file
  /\ key_file # None /\ database.exists /\ ~Plaintext /\ rotation = None =>
       database.key = key_file
  /\ key_file # None /\ machine > 0 => \A a \in database.rows : Readable(a)

\* Without a wrapped key, only a restore has put anything there.
Unwrapped ==
  key_file = None /\ ~Plaintext =>
    /\ database.exists => Published(marker) /\ database = archives[marker].database
    /\ \A a \in Assets : target[a] # None =>
         Published(marker) /\ target[a] = archives[marker].database.aek

\* Key management, and a start before it has read the wrapped key, know what
\* they checked or did, however long ago.
Managing ==
  /\ At("initializing") =>
       /\ key_file = None /\ rotation = None /\ marker = None
       /\ backend.key # None /\ backend.key \in known
       /\ ~database.exists => \A b \in Backups : Published(b) => archives[b].envelope # backend.key
  /\ backend.pc \in {"starting", "rotating"} => rotation = None
  /\ At("prepared") =>
       /\ rotation # None /\ backend.key = rotation
       /\ database.exists /\ ~Plaintext => database.key = key_file
  /\ backend.pc \in {"replaced", "recovering", "rotated", "recovered"} =>
       /\ rotation # None /\ database.exists /\ database.key = backend.key
       /\ backend.key # None /\ backend.key \in known
  /\ backend.pc \in {"rotated", "recovered"} => key_file = backend.key

\* A backend that has its key.
Started ==
  /\ backend.pc \in StartLabels => key_file = backend.key /\ key_file # None /\ rotation = None
  /\ backend.pc \in {"exported", "compared"} =>
       /\ Plaintext /\ backend.candidate.exists /\ backend.candidate.key = backend.key
       /\ backend.candidate.rows = database.rows /\ backend.candidate.aek = database.aek
  /\ At("compared") /\ Offline => backend.candidate.version = database.version
  /\ backend.pc \in {"opened", "migrating", "serving"} => database.exists /\ ~Plaintext
  /\ backend.pc \in {"migrating", "serving"} => database.aek # None
  /\ At("migrating") => \A a \in Assets \ backend.pending : legacy[a] = None
  /\ At("serving") => temps = {} /\ \A a \in Assets : legacy[a] = None

\* A backup knows the keys of its snapshot.
Backing(j) ==
  /\ job[j].pc \in BackupLabels =>
       /\ database.exists /\ job[j].id \in Backups
       /\ job[j].envelope # None /\ job[j].envelope \in known
  /\ job[j].pc = "keyed" => job[j].key = job[j].envelope
  /\ job[j].pc \in {"begun", "keyed"} => job[j].images = {}
  /\ job[j].pc \in {"reading", "verified"} =>
       /\ job[j].snapshot.exists /\ job[j].snapshot.key = job[j].envelope
       /\ job[j].snapshot.aek # None
       /\ job[j].images \cup job[j].left = job[j].snapshot.rows
  /\ job[j].pc = "verified" => job[j].images = job[j].snapshot.rows

\* A restore that holds the lock finds what it was checking for: unless another
\* one has finished, the machine is still its own.
Restoring(j) ==
  /\ job[j].pc \in RestoreLabels => Published(job[j].id)
  /\ job[j].pc \in Holding <=> lock = j
  /\ job[j].pc \in {"locked", "installing", "database"} =>
       (key_file = None => marker = job[j].id)
  /\ job[j].pc \in {"installing", "database"} =>
       /\ database.exists => ~Plaintext /\ database.aek = Archive(j).database.aek
       /\ ~database.exists => key_file = None
       /\ key_file = None =>
            \A a \in Archive(j).images \ job[j].left : target[a] = Archive(j).database.aek
  /\ job[j].pc = "database" => database.exists /\ job[j].left = {}
  /\ job[j].pc \in {"installed", "released"} => database.exists /\ key_file # None

Disk == Files /\ Wrapped /\ Unwrapped
Commands == \A j \in Jobs : Backing(j) /\ Restoring(j)
Inv == TypeOK /\ ArchivesOK /\ Disk /\ Managing /\ Started /\ Commands

-----------------------------------------------------------------------------
(***************************************************************************)
(* Frames: who is disturbed by what.                                       *)
(***************************************************************************)
LEMMA FreshKeyIsNew ==
  ASSUME ~(Keys \subseteq known)
  PROVE  FreshKey \in Keys /\ FreshKey \notin known /\ FreshKey # None /\ FreshKey # Png
  <1>1. \E k \in Keys : k \notin known
    OBVIOUS
  <1>2. FreshKey \in Keys /\ FreshKey \notin known
    BY <1>1 DEF FreshKey
  <1> QED BY <1>2, InstallationAssumption

\* A command that does nothing keeps what it knows, whatever the others do that
\* follows the rules of the marker and the lock.
LEMMA JobFrame ==
  ASSUME TypeOK, ArchivesOK, NEW q \in Jobs, Backing(q), Restoring(q),
         job'[q] = job[q], known \subseteq known',
         \A b \in Backups : Published(b) => archives'[b] = archives[b],
         lock' = q <=> lock = q,
         database.exists => database'.exists,
         key_file # None => key_file' # None,
         \/ job[q].pc \notin Holding
         \/ /\ database.exists /\ ~Plaintext => ~Plaintext'
            /\ database.exists /\ database.aek # None => database'.aek = database.aek
            /\ ~database.exists /\ database'.exists => key_file # None
            /\ key_file = None => /\ key_file' = None \/ marker = None
                                  /\ target' = target
                                  /\ marker' = marker \/ marker = None
  PROVE  Backing(q)' /\ Restoring(q)'
  <1>1. Backing(q)'
    BY DEF Backing
  <1>2. ASSUME NEW b, Published(b) PROVE Published(b)' /\ archives'[b] = archives[b] /\ b # None
    BY <1>2, BackupAssumption DEF Published
  <1>3. job[q].pc \in RestoreLabels =>
          Published(job[q].id) /\ Published(job[q].id)' /\ Archive(q)' = Archive(q)
          /\ Archive(q).database.aek # None /\ job[q].id # None
    BY <1>2 DEF Restoring, Archive, ArchivesOK, Opens, Published
  <1>4. CASE job[q].pc \notin Holding
    BY <1>1, <1>3, <1>4 DEF Restoring, Holding
  <1>5. CASE job[q].pc \in Holding
    <2>1. job[q].pc \in RestoreLabels
      BY <1>5 DEF RestoreLabels
    <2>2. job[q].pc \in {"locked", "installing", "database"} /\ key_file' = None => marker' = job[q].id
      BY <1>3, <1>5, <2>1 DEF Restoring
    <2>3. ASSUME job[q].pc \in {"installing", "database"}
          PROVE  /\ database'.exists => ~Plaintext' /\ database'.aek = Archive(q)'.database.aek
                 /\ ~database'.exists => key_file' = None
                 /\ key_file' = None =>
                      \A a \in Archive(q)'.images \ job'[q].left : target'[a] = Archive(q)'.database.aek
      <3> USE <1>3, <1>5, <2>1, <2>3
      <3>1. key_file = None => marker = job[q].id /\ marker # None /\ key_file' = None /\ target' = target
        BY DEF Restoring
      <3>2. database'.exists => database.exists
        BY <1>5, <2>3 DEF Restoring
      <3>3. database'.exists => ~Plaintext' /\ database'.aek = Archive(q)'.database.aek
        BY <1>3, <1>5, <2>1, <2>3, <3>2 DEF Restoring
      <3>4. ~database'.exists => key_file' = None
        BY <1>5, <2>3, <3>1 DEF Restoring
      <3>5. key_file' = None =>
              \A a \in Archive(q)'.images \ job'[q].left : target'[a] = Archive(q)'.database.aek
        <4> SUFFICES ASSUME key_file' = None, NEW a \in Archive(q)'.images \ job'[q].left
                     PROVE  target'[a] = Archive(q)'.database.aek
          OBVIOUS
        <4>1. key_file = None /\ target' = target
          BY <3>1
        <4>2. a \in Archive(q).images \ job[q].left
          OBVIOUS
        <4>3. target[a] = Archive(q).database.aek
          BY <4>1, <4>2 DEF Restoring
        <4> QED BY <4>1, <4>3
      <3> QED BY <3>3, <3>4, <3>5
    <2>4. job[q].pc = "database" => database'.exists /\ job[q].left = {}
      BY DEF Restoring
    <2>5. job[q].pc \in {"installed", "released"} => database'.exists /\ key_file' # None
      BY DEF Restoring
    <2>6. job[q].pc \in Holding <=> lock' = q
      BY DEF Restoring
    <2> QED BY <1>1, <1>3, <2>1, <2>2, <2>3, <2>4, <2>5, <2>6 DEF Restoring
  <1> QED BY <1>1, <1>4, <1>5

\* A step of the backend or of key management disturbs no command.
LEMMA CommandsFrame ==
  ASSUME Inv, UNCHANGED backup_vars, known \subseteq known',
         database.exists => database'.exists,
         key_file # None => key_file' # None,
         database.exists /\ ~Plaintext => ~Plaintext',
         database.exists /\ database.aek # None => database'.aek = database.aek,
         ~database.exists /\ database'.exists => key_file # None,
         key_file = None => target' = target /\ (key_file' = None \/ marker = None)
  PROVE  Commands'
  <1>1. UNCHANGED <<marker, lock, archives, job>>
    BY DEF backup_vars
  <1>2. ASSUME NEW q \in Jobs PROVE Backing(q)' /\ Restoring(q)'
    BY <1>1, JobFrame DEF Inv, Commands
  <1> QED BY <1>2 DEF Commands

\* What key management knows survives a step of a command.
LEMMA ManagingFrame ==
  ASSUME Inv, UNCHANGED <<backend, rotation>>, known \subseteq known',
         key_file # None => key_file' = key_file /\ database' = database,
         At("initializing") => /\ key_file' = key_file /\ database' = database /\ marker' = None
                               /\ database.exists \/ archives' = archives
  PROVE  Managing'
  <1>1. rotation # None => key_file # None
    BY DEF Inv, Disk, Wrapped
  <1>2. database' = database => (Plaintext' <=> Plaintext)
    BY DEF Plaintext
  <1>3. At("initializing") => (archives' = archives => \A b \in Backups : Published(b)' <=> Published(b))
    BY DEF Published
  <1>4. Managing
    BY DEF Inv
  <1> QED BY <1>1, <1>2, <1>3, <1>4 DEF Managing, At

LEMMA ArchivesFrame ==
  ASSUME ArchivesOK, archives' = archives, known \subseteq known'
  PROVE  ArchivesOK'
  BY DEF ArchivesOK, Published, Opens

\* A step of one command that leaves the disk, the marker and the archives alone.
LEMMA JobOnly ==
  ASSUME Inv, NEW j \in Jobs, NEW r \in Job, job' = [job EXCEPT ![j] = r],
         lock' = lock \/ (lock \in {j, None} /\ lock' \in {j, None}),
         UNCHANGED <<disk, known, backend, marker, archives, machine>>,
         Backing(j)', Restoring(j)'
  PROVE  Inv'
  <1> USE DEF disk
  <1>1. TypeOK'
    BY DEF Inv, TypeOK
  <1>2. ArchivesOK'
    BY ArchivesFrame DEF Inv
  <1>3. Disk'
    BY DEF Inv, Disk, Files, Wrapped, Unwrapped, Plaintext, Readable, Published
  <1>4. Started'
    BY DEF Inv, Started, Plaintext, At
  <1>6. Managing'
    BY ManagingFrame DEF Inv, Managing
  <1>5. ASSUME NEW q \in Jobs PROVE Backing(q)' /\ Restoring(q)'
    <2>1. CASE q = j
      BY <2>1
    <2>2. CASE q # j
      <3>1. job'[q] = job[q] /\ (lock' = q <=> lock = q)
        BY <2>2, BackupAssumption DEF Inv, TypeOK
      <3>2. Plaintext' <=> Plaintext
        BY DEF Plaintext
      <3> QED BY <3>1, <3>2, JobFrame DEF Inv, Commands
    <2> QED BY <2>1, <2>2
  <1> QED BY <1>1, <1>2, <1>3, <1>4, <1>5, <1>6 DEF Inv, Commands

\* A command that ends, because a check fails or because it is killed.
LEMMA CommandEnds ==
  ASSUME Inv, NEW j \in Jobs, job' = [job EXCEPT ![j] = Idle],
         lock' = IF lock = j THEN None ELSE lock,
         UNCHANGED <<disk, known, backend, marker, archives, machine>>
  PROVE  Inv'
  <1>1. Idle \in Job /\ Idle.pc = "idle"
    BY DEF Idle, Job, Key, Db, NoDatabase
  <1>2. job'[j] = Idle /\ lock' # j
    BY BackupAssumption DEF Inv, TypeOK
  <1>3. Backing(j)' /\ Restoring(j)'
    BY <1>1, <1>2 DEF Backing, Restoring, BackupLabels, RestoreLabels, Holding
  <1> QED BY <1>1, <1>2, <1>3, JobOnly

-----------------------------------------------------------------------------
(***************************************************************************)
(* create_backup.                                                          *)
(***************************************************************************)
LEMMA ToFields ==
  ASSUME TypeOK, NEW j \in Jobs, NEW label \in {"idle"} \cup BackupLabels \cup RestoreLabels
  PROVE  /\ To(j, label) \in Job /\ To(j, label).pc = label
         /\ To(j, label).id = job[j].id /\ To(j, label).resume = job[j].resume
         /\ To(j, label).envelope = job[j].envelope /\ To(j, label).key = job[j].key
         /\ To(j, label).snapshot = job[j].snapshot
         /\ To(j, label).images = job[j].images /\ To(j, label).left = job[j].left
  BY DEF TypeOK, Job, To

\* A command that is making an archive holds no lock.
LEMMA BackupHoldsNothing ==
  ASSUME Inv, NEW j \in Jobs, job[j].pc \in {"idle", "staged", "rechecked", "marked", "released"} \cup BackupLabels
  PROVE  lock # j
  BY DEF Inv, Commands, Restoring, BackupLabels, Holding

LEMMA BeginBackupStep ==
  ASSUME Inv, NEW j \in Jobs, NEW b \in Backups, BeginBackup(j, b)
  PROVE  Inv'
  <1> DEFINE r == [Idle EXCEPT !.pc = "begun", !.id = b, !.envelope = key_file]
  <1>1. r \in Job /\ r.pc = "begun" /\ r.id = b /\ r.envelope = key_file
        /\ r.images = {}
    BY DEF Inv, TypeOK, Idle, Job, Key, Db, NoDatabase, BackupLabels
  <1>2. job' = [job EXCEPT ![j] = r] /\ UNCHANGED <<disk, known, backend, marker, lock, archives, machine>>
        /\ database.exists /\ key_file # None
    BY DEF BeginBackup
  <1> HIDE DEF r
  <1>3. job'[j] = r /\ lock # j
    BY <1>2, BackupHoldsNothing DEF Inv, TypeOK, BeginBackup, Doing
  <1>4. Backing(j)'
    BY <1>1, <1>2, <1>3 DEF Backing, BackupLabels, Inv, Disk, Wrapped, disk
  <1>5. Restoring(j)'
    BY <1>1, <1>2, <1>3 DEF Restoring, RestoreLabels, Holding
  <1> QED BY <1>1, <1>2, <1>4, <1>5, JobOnly

LEMMA UnlockForBackupStep ==
  ASSUME Inv, NEW j \in Jobs, UnlockForBackup(j)
  PROVE  Inv'
  <1> DEFINE ok == key_file # None /\ StableKey(job[j].envelope)
             r == [job[j] EXCEPT !.pc = "keyed", !.key = key_file]
  <1>1. Step(j, ok, r) /\ UNCHANGED <<disk, known, backend, marker, archives, machine>>
        /\ job[j].pc = "begun"
    BY DEF UnlockForBackup, Doing
  <1>2. CASE ok
    <2>1. r \in Job /\ r.pc = "keyed" /\ r.key = key_file /\ r.envelope = job[j].envelope
          /\ r.id = job[j].id /\ r.images = job[j].images
      BY DEF Inv, TypeOK, Job, BackupLabels
    <2>2. key_file = job[j].envelope
      BY <1>2 DEF StableKey
    <2>3. job' = [job EXCEPT ![j] = r] /\ lock' = lock
      BY <1>1, <1>2 DEF Step
    <2> HIDE DEF r, ok
    <2>8. job'[j] = r
      BY <2>3 DEF Inv, TypeOK
    <2>4. lock # j
      BY <1>1, BackupHoldsNothing DEF BackupLabels
    <2>5. Backing(j)'
      <3>1. /\ database.exists /\ job[j].id \in Backups /\ job[j].envelope # None
            /\ job[j].envelope \in known /\ job[j].images = {}
        BY <1>1 DEF Inv, Commands, Backing, BackupLabels
      <3> QED BY <1>1, <2>1, <2>2, <2>3, <2>8, <3>1 DEF Backing, BackupLabels, disk
    <2>6. Restoring(j)'
      BY <2>1, <2>3, <2>4, <2>8 DEF Restoring, RestoreLabels, Holding
    <2> QED BY <1>1, <2>1, <2>3, <2>5, <2>6, JobOnly
  <1>3. CASE ~ok
    BY <1>1, <1>3, CommandEnds DEF Step
  <1> QED BY <1>2, <1>3

LEMMA SnapshotStep ==
  ASSUME Inv, NEW j \in Jobs, Snapshot(j)
  PROVE  Inv'
  <1> DEFINE ok == database.exists /\ database.key = job[j].key /\ database.aek # None
             r == [job[j] EXCEPT !.pc = "reading", !.snapshot = database, !.left = database.rows]
  <1>1. Step(j, ok, r) /\ UNCHANGED <<disk, known, backend, marker, archives, machine>>
        /\ job[j].pc = "keyed"
    BY DEF Snapshot, Doing
  <1>2. CASE ok
    <2>1. /\ r \in Job /\ r.pc = "reading" /\ r.snapshot = database /\ r.left = database.rows
          /\ r.envelope = job[j].envelope /\ r.id = job[j].id /\ r.images = job[j].images
      <3>1. job[j] \in Job /\ database \in Db /\ database.rows \in SUBSET Assets
        BY DEF Inv, TypeOK, Db
      <3>2. r \in Job
        BY <3>1 DEF Job, BackupLabels
      <3> QED BY <3>1, <3>2 DEF Job
    <2>2. database.exists /\ database.key = job[j].envelope /\ database.aek # None
      BY <1>1, <1>2 DEF Inv, Commands, Backing
    <2>3. /\ job[j].id \in Backups /\ job[j].envelope # None
          /\ job[j].envelope \in known /\ job[j].images = {}
      BY <1>1 DEF Inv, Commands, Backing, BackupLabels
    <2>4. job' = [job EXCEPT ![j] = r] /\ lock' = lock
      BY <1>1, <1>2 DEF Step
    <2> HIDE DEF r, ok
    <2>8. job'[j] = r
      BY <2>4 DEF Inv, TypeOK
    <2>5. lock # j
      BY <1>1, BackupHoldsNothing DEF BackupLabels
    <2>6. Backing(j)'
      BY <1>1, <2>1, <2>2, <2>3, <2>4, <2>8 DEF Backing, BackupLabels, disk
    <2>7. Restoring(j)'
      BY <2>1, <2>4, <2>5, <2>8 DEF Restoring, RestoreLabels, Holding
    <2> QED BY <1>1, <2>1, <2>4, <2>6, <2>7, JobOnly
  <1>3. CASE ~ok
    BY <1>1, <1>3, CommandEnds DEF Step
  <1> QED BY <1>2, <1>3

LEMMA ReadImageStep ==
  ASSUME Inv, NEW j \in Jobs, NEW a \in Assets, ReadImage(j, a)
  PROVE  Inv'
  <1> DEFINE ok == target[a] = job[j].snapshot.aek
             r == [job[j] EXCEPT !.left = @ \ {a}, !.images = @ \cup {a}]
  <1>1. Step(j, ok, r) /\ UNCHANGED <<disk, known, backend, marker, archives, machine>>
        /\ job[j].pc = "reading" /\ a \in job[j].left
    BY DEF ReadImage, Doing
  <1>2. CASE ok
    <2>1. /\ r \in Job /\ r.pc = "reading" /\ r.snapshot = job[j].snapshot
          /\ r.left = job[j].left \ {a} /\ r.images = job[j].images \cup {a}
          /\ r.envelope = job[j].envelope /\ r.id = job[j].id
      <3>1. job[j] \in Job
        BY DEF Inv, TypeOK
      <3>2. job[j].left \ {a} \in SUBSET Assets /\ job[j].images \cup {a} \in SUBSET Assets
        BY <3>1 DEF Job
      <3>3. r \in Job
        BY <3>1, <3>2 DEF Job
      <3> QED BY <1>1, <3>1, <3>3 DEF Job
    <2>2. job' = [job EXCEPT ![j] = r] /\ lock' = lock
      BY <1>1, <1>2 DEF Step
    <2> HIDE DEF r, ok
    <2>3. job'[j] = r /\ lock # j
      BY <1>1, <2>2, BackupHoldsNothing DEF Inv, TypeOK, BackupLabels
    <2>4. Backing(j)
      BY DEF Inv, Commands
    <2>5. Backing(j)'
      BY <1>1, <2>1, <2>3, <2>4 DEF Backing, BackupLabels, disk
    <2>6. Restoring(j)'
      BY <2>1, <2>2, <2>3 DEF Restoring, RestoreLabels, Holding
    <2> QED BY <1>1, <2>1, <2>2, <2>5, <2>6, JobOnly
  <1>3. CASE ~ok
    BY <1>1, <1>3, CommandEnds DEF Step
  <1> QED BY <1>2, <1>3

LEMMA VerifyStep ==
  ASSUME Inv, NEW j \in Jobs, Verify(j)
  PROVE  Inv'
  <1> DEFINE ok == StableKey(job[j].envelope)
             r == To(j, "verified")
  <1>1. Step(j, ok, r) /\ UNCHANGED <<disk, known, backend, marker, archives, machine>>
        /\ job[j].pc = "reading" /\ job[j].left = {}
    BY DEF Verify, Doing
  <1>2. CASE ok
    <2>1. /\ r \in Job /\ r.pc = "verified" /\ r.snapshot = job[j].snapshot
          /\ r.left = job[j].left /\ r.images = job[j].images
          /\ r.envelope = job[j].envelope /\ r.id = job[j].id
      BY ToFields DEF Inv, BackupLabels
    <2>2. job' = [job EXCEPT ![j] = r] /\ lock' = lock
      BY <1>1, <1>2 DEF Step
    <2> HIDE DEF r, ok
    <2>3. job'[j] = r /\ lock # j
      BY <1>1, <2>2, BackupHoldsNothing DEF Inv, TypeOK, BackupLabels
    <2>4. Backing(j)
      BY DEF Inv, Commands
    <2>5. Backing(j)'
      BY <1>1, <2>1, <2>3, <2>4 DEF Backing, BackupLabels, disk
    <2>6. Restoring(j)'
      BY <2>1, <2>2, <2>3 DEF Restoring, RestoreLabels, Holding
    <2> QED BY <1>1, <2>1, <2>2, <2>5, <2>6, JobOnly
  <1>3. CASE ~ok
    BY <1>1, <1>3, CommandEnds DEF Step
  <1> QED BY <1>2, <1>3

\* What is published opens; no key of an archive is that of a machine without a
\* database, because the one that was backed up has its own.
LEMMA PublishStep ==
  ASSUME Inv, NEW j \in Jobs, Publish(j)
  PROVE  Inv'
  <1> DEFINE id == job[j].id
             new == [database |-> job[j].snapshot, envelope |-> job[j].envelope,
                     images |-> job[j].images]
  <1>1. /\ job[j].pc = "verified" /\ job' = [job EXCEPT ![j] = Idle]
        /\ UNCHANGED <<database, key_file, rotation, target, legacy, temps, known, backend, marker, lock, machine>>
        /\ archives' = IF Archive(j) # NoArchive THEN archives ELSE [archives EXCEPT ![id] = new]
    BY DEF Publish, NewArchive, Doing, disk
  <1>2. /\ database.exists /\ id \in Backups /\ job[j].envelope # None /\ job[j].envelope \in known
        /\ job[j].snapshot.exists /\ job[j].snapshot.key = job[j].envelope
        /\ job[j].snapshot.aek # None /\ job[j].images = job[j].snapshot.rows
    BY <1>1 DEF Inv, Commands, Backing, BackupLabels
  <1>3. new \in [database : Db, envelope : Key, images : SUBSET Assets]
    BY DEF Inv, TypeOK, Job
  <1>4. /\ archives' \in [Backups -> [database : Db, envelope : Key, images : SUBSET Assets]]
        /\ \A b \in Backups : Published(b) => archives'[b] = archives[b]
        /\ \A b \in Backups : archives'[b] = archives[b] \/ archives'[b] = new
    BY <1>1, <1>2, <1>3 DEF Inv, TypeOK, Published, Archive
  <1>5. /\ new.database.exists /\ new.envelope # None /\ new.envelope \in known
        /\ new.envelope = new.database.key /\ new.database.aek # None /\ new.images = new.database.rows
    BY <1>2
  <1> HIDE DEF new
  <1>6. Idle \in Job /\ Idle.pc = "idle"
    BY DEF Idle, Job, Key, Db, NoDatabase
  <1>7. TypeOK'
    BY <1>1, <1>4, <1>6 DEF Inv, TypeOK
  <1>8. ArchivesOK'
    BY <1>1, <1>4, <1>5 DEF Inv, ArchivesOK, Published, Opens
  <1>9. Plaintext' <=> Plaintext
    BY <1>1 DEF Plaintext
  <1>10. Files'
    BY <1>1, <1>9 DEF Inv, Disk, Files
  <1>11. Wrapped'
    BY <1>1, <1>2, <1>9 DEF Inv, Disk, Wrapped, Readable
  <1>12. Unwrapped'
    BY <1>1, <1>4, <1>9 DEF Inv, Disk, Unwrapped, Published
  <1>13. Started'
    BY <1>1, <1>9 DEF Inv, Started, At
  <1>14. ASSUME NEW q \in Jobs PROVE Backing(q)' /\ Restoring(q)'
    <2>1. CASE q = j
      <3>1. job'[j] = Idle /\ lock # j
        BY <1>1, BackupHoldsNothing DEF Inv, TypeOK, BackupLabels
      <3> QED BY <1>1, <1>6, <2>1, <3>1 DEF Backing, Restoring, BackupLabels, RestoreLabels, Holding
    <2>2. CASE q # j
      <3>1. job'[q] = job[q]
        BY <1>1, <2>2 DEF Inv, TypeOK
      <3> QED BY <1>1, <1>4, <1>9, <3>1, JobFrame DEF Inv, Commands
    <2> QED BY <2>1, <2>2
  <1>15. Managing'
    BY <1>1, <1>2, ManagingFrame DEF Inv, Managing
  <1> QED BY <1>7, <1>8, <1>10, <1>11, <1>12, <1>13, <1>14, <1>15 DEF Inv, Disk, Commands

-----------------------------------------------------------------------------
(***************************************************************************)
(* restore_backup.                                                         *)
(***************************************************************************)
\* The steps that neither hold the lock nor touch the disk.
LEMMA WaitingRestore ==
  ASSUME Inv, NEW j \in Jobs, NEW r \in Job, job' = [job EXCEPT ![j] = r], lock' = lock, lock # j,
         r.pc \in {"staged", "rechecked", "marked"}, Published(r.id),
         UNCHANGED <<disk, known, backend, marker, archives, machine>>
  PROVE  Inv'
  <1>1. job'[j] = r
    BY DEF Inv, TypeOK
  <1>2. Backing(j)'
    BY <1>1 DEF Backing, BackupLabels
  <1>3. Published(r.id)'
    BY DEF Published
  <1>4. Restoring(j)'
    BY <1>1, <1>3 DEF Restoring, RestoreLabels, Holding
  <1> QED BY <1>2, <1>4, JobOnly

LEMMA StartRestoreStep ==
  ASSUME Inv, NEW j \in Jobs, NEW b \in Backups, StartRestore(j, b)
  PROVE  Inv'
  <1>1. Published(b) /\ lock # j
    BY BackupHoldsNothing DEF StartRestore, Published, Doing
  <1>2. UNCHANGED <<disk, known, backend, marker, lock, archives, machine>>
    BY DEF StartRestore
  <1> DEFINE first == [Idle EXCEPT !.pc = "staged", !.id = b]
             again == [Idle EXCEPT !.pc = "marked", !.id = b, !.resume = TRUE]
  <1>3. first \in Job /\ first.pc = "staged" /\ first.id = b
    BY DEF Idle, Job, Key, Db, NoDatabase, RestoreLabels
  <1>4. again \in Job /\ again.pc = "marked" /\ again.id = b
    BY DEF Idle, Job, Key, Db, NoDatabase, RestoreLabels
  <1>5. job' = [job EXCEPT ![j] = first] \/ job' = [job EXCEPT ![j] = again]
    BY DEF StartRestore
  <1> HIDE DEF first, again
  <1>6. CASE job' = [job EXCEPT ![j] = first]
    BY <1>1, <1>2, <1>3, <1>6, WaitingRestore
  <1>7. CASE job' = [job EXCEPT ![j] = again]
    BY <1>1, <1>2, <1>4, <1>7, WaitingRestore
  <1> QED BY <1>5, <1>6, <1>7

LEMMA RecheckStep ==
  ASSUME Inv, NEW j \in Jobs, Recheck(j)
  PROVE  Inv'
  <1>1. Step(j, TargetsEmpty, To(j, "rechecked"))
        /\ UNCHANGED <<disk, known, backend, marker, archives, machine>> /\ job[j].pc = "staged"
    BY DEF Recheck, Doing
  <1>2. To(j, "rechecked") \in Job /\ To(j, "rechecked").pc = "rechecked"
        /\ To(j, "rechecked").id = job[j].id
    BY ToFields DEF Inv, RestoreLabels
  <1>3. Published(job[j].id) /\ lock # j
    BY <1>1, BackupHoldsNothing DEF Inv, Commands, Restoring, RestoreLabels
  <1>4. CASE TargetsEmpty
    <2>1. job' = [job EXCEPT ![j] = To(j, "rechecked")] /\ lock' = lock
      BY <1>1, <1>4 DEF Step
    <2> QED BY <1>1, <1>2, <1>3, <2>1, WaitingRestore
  <1>5. CASE ~TargetsEmpty
    BY <1>1, <1>5, CommandEnds DEF Step
  <1> QED BY <1>4, <1>5

\* The marker is linked on a machine where nothing was put without a key.
LEMMA MarkStep ==
  ASSUME Apart, Inv, NEW j \in Jobs, Mark(j)
  PROVE  Inv'
  <1> DEFINE ok == marker = None
             r == To(j, "marked")
  <1>1. Step(j, ok, r) /\ UNCHANGED <<disk, known, backend, archives, machine>>
        /\ job[j].pc = "rechecked" /\ ~At("initializing") /\ marker' = IF ok THEN job[j].id ELSE marker
    BY DEF Mark, Doing
  <1>2. CASE ok
    <2>1. r \in Job /\ r.pc = "marked" /\ r.id = job[j].id
      BY ToFields DEF Inv, RestoreLabels
    <2>2. job' = [job EXCEPT ![j] = r] /\ lock' = lock /\ marker' = job[j].id
      BY <1>1, <1>2 DEF Step
    <2>3. marker = None
      BY <1>2
    <2> HIDE DEF r, ok
    <2>4. job'[j] = r /\ lock # j
      BY <1>1, <2>2, BackupHoldsNothing DEF Inv, TypeOK
    <2>5. Published(job[j].id)
      BY <1>1 DEF Inv, Commands, Restoring, RestoreLabels
    <2>6. Backing(j)' /\ Restoring(j)'
      <3>1. archives' = archives
        BY <1>1
      <3> QED BY <2>1, <2>2, <2>4, <2>5, <3>1
              DEF Backing, Restoring, Published, BackupLabels, RestoreLabels, Holding
    <2>7. ASSUME NEW q \in Jobs, q # j PROVE Backing(q)' /\ Restoring(q)'
      <3>1. job'[q] = job[q] /\ (Plaintext' <=> Plaintext)
        BY <1>1, <2>2, <2>7 DEF Inv, TypeOK, Plaintext, disk
      <3> QED BY <1>1, <2>2, <2>3, <3>1, JobFrame DEF Inv, Commands, disk
    <2>8. TypeOK'
      BY <1>1, <2>1, <2>2, <2>5 DEF Inv, TypeOK, Published, disk
    <2>9. Disk'
      <3>1. (Plaintext' <=> Plaintext) /\ ~Published(marker)
        BY <1>1, <2>3, BackupAssumption DEF Plaintext, Published, disk
      <3>2. Files' /\ Wrapped'
        BY <1>1, <3>1 DEF Inv, Disk, Files, Wrapped, Readable, Published, disk
      <3>3. Unwrapped'
        BY <1>1, <3>1 DEF Inv, Disk, Unwrapped, disk
      <3> QED BY <3>2, <3>3 DEF Disk
    <2>10. Started' /\ ArchivesOK'
      BY <1>1, ArchivesFrame DEF Inv, Started, Plaintext, At, disk
    <2>11. Managing'
      BY <1>1, ManagingFrame DEF disk
    <2> QED BY <2>6, <2>7, <2>8, <2>9, <2>10, <2>11 DEF Inv, Commands
  <1>3. CASE ~ok
    BY <1>1, <1>3, CommandEnds DEF Step
  <1> QED BY <1>2, <1>3

LEMMA LockStep ==
  ASSUME Inv, NEW j \in Jobs, Lock(j)
  PROVE  Inv'
  <1>1. UNCHANGED <<disk, known, backend, marker, archives, machine>> /\ job[j].pc = "marked"
    BY DEF Lock, Doing
  <1>2. lock # j /\ Published(job[j].id)
    BY <1>1, BackupHoldsNothing DEF Inv, Commands, Restoring, RestoreLabels
  <1>3. CASE marker = job[j].id /\ lock = None
    <2> DEFINE r == To(j, "locked")
    <2>1. r \in Job /\ r.pc = "locked" /\ r.id = job[j].id
      BY ToFields DEF Inv, RestoreLabels, Holding
    <2>2. job' = [job EXCEPT ![j] = r] /\ lock' = j
      BY <1>3 DEF Lock
    <2> HIDE DEF r
    <2>3. job'[j] = r
      BY <2>2 DEF Inv, TypeOK
    <2>4. Backing(j)'
      BY <2>1, <2>3 DEF Backing, BackupLabels
    <2>5. Restoring(j)'
      BY <1>1, <1>2, <1>3, <2>1, <2>2, <2>3 DEF Restoring, Published, RestoreLabels, Holding
    <2> QED BY <1>1, <1>3, <2>1, <2>2, <2>4, <2>5, JobOnly
  <1>4. CASE ~(marker = job[j].id /\ lock = None)
    <2>1. job' = [job EXCEPT ![j] = Idle] /\ lock' = IF lock = j THEN None ELSE lock
      BY <1>2, <1>4 DEF Lock
    <2> QED BY <1>1, <2>1, CommandEnds
  <1> QED BY <1>3, <1>4

\* What is found there is the archive's, and a database key without a database
\* is not the archive's.
LEMMA CheckTargetsStep ==
  ASSUME Inv, NEW j \in Jobs, CheckTargets(j)
  PROVE  Inv'
  <1> DEFINE ok == TargetsMatch(Archive(j))
             r == [job[j] EXCEPT !.pc = "installing", !.left = Archive(j).images]
  <1>1. Step(j, ok, r) /\ UNCHANGED <<disk, known, backend, marker, archives, machine>>
        /\ job[j].pc = "locked"
    BY DEF CheckTargets, Doing
  <1>2. /\ Published(job[j].id) /\ lock = j
        /\ key_file = None => marker = job[j].id
        /\ Archive(j) = archives[job[j].id] /\ Opens(Archive(j)) /\ Archive(j).envelope # None
    BY <1>1 DEF Inv, Commands, Restoring, RestoreLabels, Holding, ArchivesOK, Archive, Published
  <1>3. Archive(j).images \in SUBSET Assets
    BY <1>2 DEF Inv, TypeOK, Published
  <1>4. CASE ok
    <2>1. r \in Job /\ r.pc = "installing" /\ r.left = Archive(j).images /\ r.id = job[j].id
      <3>1. job[j] \in Job
        BY DEF Inv, TypeOK
      <3> QED BY <1>3, <3>1 DEF Job, RestoreLabels, Holding
    <2>2. job' = [job EXCEPT ![j] = r] /\ lock' = lock
      BY <1>1, <1>4 DEF Step
    <2>3. /\ database.exists => database = Archive(j).database
          /\ key_file \in {None, Archive(j).envelope}
      BY <1>4 DEF TargetsMatch
    <2> HIDE DEF r, ok
    <2>4. job'[j] = r
      BY <2>2 DEF Inv, TypeOK
    <2>5. Archive(j)' = Archive(j)
      BY <1>1, <2>1, <2>4 DEF Archive
    <2>6. Backing(j)'
      BY <2>1, <2>4 DEF Backing, BackupLabels
    <2>7. database.exists => ~Plaintext /\ database.aek = Archive(j).database.aek
      BY <1>2, <2>3 DEF Opens, Plaintext
    <2>8. ~database.exists => key_file = None
      <3>1. ASSUME ~database.exists, key_file # None PROVE FALSE
        <4>1. \A b \in Backups : Published(b) => archives[b].envelope # key_file
          BY <3>1 DEF Inv, Disk, Wrapped
        <4> QED BY <1>2, <2>3, <3>1, <4>1 DEF Published
      <3> QED BY <3>1
    <2>9. Restoring(j)'
      <3>1. Published(job[j].id)'
        BY <1>1, <1>2, <2>1, <2>4 DEF Published
      <3>2. /\ database'.exists => ~Plaintext' /\ database'.aek = Archive(j)'.database.aek
            /\ ~database'.exists => key_file' = None
        BY <1>1, <2>7, <2>8, <2>5 DEF Plaintext, disk
      <3>3. Archive(j)'.images \ job'[j].left = {}
        BY <2>1, <2>4, <2>5
      <3>4. key_file' = None => marker' = job'[j].id
        BY <1>1, <1>2, <2>1, <2>4 DEF disk
      <3> QED BY <1>2, <2>1, <2>2, <2>4, <3>1, <3>2, <3>3, <3>4 DEF Restoring, RestoreLabels, Holding
    <2> QED BY <1>1, <2>1, <2>2, <2>6, <2>9, JobOnly
  <1>5. CASE ~ok
    BY <1>1, <1>5, CommandEnds DEF Step
  <1> QED BY <1>4, <1>5

LEMMA Holder ==
  ASSUME Inv, NEW j \in Jobs, job[j].pc \in Holding
  PROVE  /\ Published(job[j].id) /\ lock = j /\ Archive(j) = archives[job[j].id]
         /\ Archive(j).database.exists /\ Archive(j).database \in Db
         /\ Archive(j).envelope # None /\ Archive(j).envelope \in known
         /\ Archive(j).envelope \in Key
         /\ Archive(j).envelope = Archive(j).database.key /\ Archive(j).database.aek # None
         /\ Archive(j).database.aek \in Key
         /\ Archive(j).images = Archive(j).database.rows
  <1>1. Published(job[j].id) /\ lock = j
    BY DEF Inv, Commands, Restoring, RestoreLabels
  <1>2. Archive(j) = archives[job[j].id] /\ Archive(j) \in [database : Db, envelope : Key, images : SUBSET Assets]
    BY <1>1 DEF Inv, TypeOK, Published, Archive
  <1>3. Opens(Archive(j)) /\ Archive(j).database.exists /\ Archive(j).envelope # None
        /\ Archive(j).envelope \in known
    BY <1>1, <1>2 DEF Inv, ArchivesOK, Published
  <1> QED BY <1>1, <1>2, <1>3 DEF Opens, Db

\* What the holder of the lock installs disturbs no other command.
LEMMA InstallFrame ==
  ASSUME Inv, NEW j \in Jobs, lock = j, NEW r \in Job, job' = [job EXCEPT ![j] = r],
         lock' \in {j, None}, UNCHANGED <<known, marker, archives>>,
         database.exists => database'.exists, key_file # None => key_file' # None
  PROVE  \A q \in Jobs : q # j => Backing(q)' /\ Restoring(q)'
  <1> SUFFICES ASSUME NEW q \in Jobs, q # j PROVE Backing(q)' /\ Restoring(q)'
    OBVIOUS
  <1>1. job'[q] = job[q] /\ lock # q /\ lock' # q
    BY BackupAssumption DEF Inv, TypeOK
  <1>2. job[q].pc \notin Holding
    BY <1>1 DEF Inv, Commands, Restoring
  <1> QED BY <1>1, <1>2, JobFrame DEF Inv, Commands

\* It is never the holder that keyctl init is waiting for.
LEMMA NotInitializing ==
  ASSUME Inv, NEW j \in Jobs, job[j].pc \in Holding
  PROVE  ~At("initializing")
  <1>1. At("initializing") => key_file = None /\ marker = None
    BY DEF Inv, Managing
  <1>2. job[j].id # None
    BY Holder, BackupAssumption DEF Published
  <1> QED BY <1>1, <1>2 DEF Inv, Commands, Restoring, Holding

LEMMA InstallImageStep ==
  ASSUME Inv, NEW j \in Jobs, NEW a \in Assets, InstallImage(j, a)
  PROVE  Inv'
  <1> DEFINE ok == Installs(j, target[a] # None, target[a] = Archive(j).database.aek)
             r == [job[j] EXCEPT !.left = @ \ {a}]
  <1>1. /\ Step(j, ok, r) /\ job[j].pc = "installing" /\ a \in job[j].left
        /\ UNCHANGED <<database, key_file, rotation, legacy, temps, known, backend, marker, archives, machine>>
        /\ target' = [target EXCEPT ![a] = IF target[a] = None THEN Archive(j).database.aek ELSE target[a]]
    BY DEF InstallImage, Doing
  <1>2. job[j].pc \in Holding
    BY <1>1 DEF Holding
  <1>3. Restoring(j) /\ Files /\ Wrapped /\ Unwrapped
    BY DEF Inv, Commands, Disk
  <1>4. /\ database.exists => ~Plaintext /\ database.aek = Archive(j).database.aek
        /\ ~database.exists => key_file = None
    BY <1>1, <1>3 DEF Restoring
  <1>5. key_file = None => marker = job[j].id /\ ~Plaintext
    BY <1>1, <1>3, <1>4 DEF Restoring, Plaintext
  <1>6. CASE ok
    <2>1. r \in Job /\ r.pc = "installing" /\ r.left = job[j].left \ {a} /\ r.id = job[j].id
      BY <1>1 DEF Inv, TypeOK, Job
    <2>2. job' = [job EXCEPT ![j] = r] /\ lock' = lock
      BY <1>1, <1>6 DEF Step
    <2> HIDE DEF r, ok
    <2>3. job'[j] = r /\ Archive(j)' = Archive(j)
      BY <1>1, <2>1, <2>2 DEF Inv, TypeOK, Archive
    <2>4. /\ target' \in [Assets -> Key]
          /\ target'[a] = IF target[a] = None THEN Archive(j).database.aek ELSE target[a]
          /\ \A b \in Assets : b # a => target'[b] = target[b]
      BY <1>1, <1>2, Holder DEF Inv, TypeOK
    <2>5. TypeOK'
      BY <1>1, <2>1, <2>2, <2>4 DEF Inv, TypeOK
    <2>6. Plaintext' <=> Plaintext
      BY <1>1 DEF Plaintext
    <2>7. Files'
      BY <1>1, <1>3, <1>4, <2>4, <2>6 DEF Files
    <2>8. Wrapped'
      <3>1. \A b \in Assets : database.exists /\ Readable(b) => Readable(b)'
        BY <1>1, <1>4, <2>4 DEF Readable
      <3>2. key_file # None /\ machine > 0 => \A b \in database.rows : Readable(b)'
        BY <1>3, <1>4, <3>1 DEF Wrapped, Inv, TypeOK, Db
      <3>3. key_file # None => database.exists
        BY <1>4
      <3> QED BY <1>1, <1>3, <2>6, <3>2, <3>3 DEF Wrapped
    <2>9. Unwrapped'
      <3>1. Published(marker)' <=> Published(marker)
        BY <1>1 DEF Published
      <3>2. key_file = None => Published(marker) /\ Archive(j) = archives[marker]
        BY <1>2, <1>5, Holder
      <3> QED BY <1>1, <1>3, <2>4, <2>6, <3>1, <3>2 DEF Unwrapped
    <2>10. Started'
      BY <1>1, <2>6 DEF Inv, Started, At
    <2>14. Managing'
      BY <1>1, <1>2, ManagingFrame, NotInitializing
    <2>11. Backing(j)'
      BY <2>1, <2>3 DEF Backing, BackupLabels
    <2>12. Restoring(j)'
      <3>1. Published(job[j].id)'
        BY <1>1, <1>2, <2>1, <2>3, Holder DEF Published
      <3>2. /\ database'.exists => ~Plaintext' /\ database'.aek = Archive(j)'.database.aek
            /\ ~database'.exists => key_file' = None
        BY <1>1, <1>4, <2>3, <2>6
      <3>3. key_file' = None =>
              \A b \in Archive(j)'.images \ job'[j].left : target'[b] = Archive(j)'.database.aek
        <4> SUFFICES ASSUME key_file = None, NEW b \in Archive(j).images \ r.left
                     PROVE  target'[b] = Archive(j).database.aek
          BY <1>1, <2>3
        <4>1. CASE b = a
          <5>1. target[a] # None => target[a] = Archive(j).database.aek
            BY <1>2, <1>3, <1>5, Holder DEF Unwrapped
          <5> QED BY <2>4, <4>1, <5>1
        <4>2. CASE b # a
          <5>1. b \in Archive(j).images \ job[j].left
            BY <2>1, <4>2
          <5>2. b \in Assets
            BY <1>2, Holder DEF Db
          <5>3. target[b] = Archive(j).database.aek
            BY <1>1, <1>3, <5>1 DEF Restoring
          <5> QED BY <2>4, <4>2, <5>2, <5>3
        <4> QED BY <4>1, <4>2
      <3>4. key_file' = None => marker' = job'[j].id
        BY <1>1, <1>5, <2>1, <2>3
      <3>5. lock' = j
        BY <1>2, <2>2, Holder
      <3> QED BY <2>1, <2>3, <3>1, <3>2, <3>3, <3>4, <3>5 DEF Restoring, RestoreLabels, Holding
    <2>13. \A q \in Jobs : Backing(q)' /\ Restoring(q)'
      <3>1. lock = j /\ lock' \in {j, None}
        BY <1>2, <2>2, Holder
      <3> QED BY <1>1, <2>1, <2>2, <2>11, <2>12, <3>1, InstallFrame
    <2> QED BY <1>1, <2>5, <2>7, <2>8, <2>9, <2>10, <2>13, <2>14, ArchivesFrame DEF Inv, Disk, Commands
  <1>7. CASE ~ok
    <2>1. target[a] # None
      BY <1>7 DEF Installs
    <2>2. target' = target
      BY <1>1, <2>1 DEF Inv, TypeOK
    <2> QED BY <1>1, <1>7, <2>2, CommandEnds DEF Step, disk
  <1> QED BY <1>6, <1>7

LEMMA InstallDatabaseStep ==
  ASSUME Inv, NEW j \in Jobs, InstallDatabase(j)
  PROVE  Inv'
  <1> DEFINE ok == Installs(j, database.exists, database = Archive(j).database)
             r == To(j, "database")
  <1>1. /\ Step(j, ok, r) /\ job[j].pc = "installing" /\ job[j].left = {}
        /\ UNCHANGED <<key_file, rotation, target, legacy, temps, known, backend, marker, archives, machine>>
        /\ database' = IF database.exists THEN database ELSE Archive(j).database
    BY DEF InstallDatabase, Doing
  <1>2. job[j].pc \in Holding
    BY <1>1 DEF Holding
  <1>3. Restoring(j) /\ Files /\ Wrapped /\ Unwrapped /\ Started
    BY DEF Inv, Commands, Disk
  <1>4. /\ database.exists => ~Plaintext /\ database.aek = Archive(j).database.aek
        /\ ~database.exists => key_file = None
    BY <1>1, <1>3 DEF Restoring
  <1>5. key_file = None => marker = job[j].id /\ ~Plaintext
    BY <1>1, <1>3, <1>4 DEF Restoring, Plaintext
  <1>6. CASE ok
    <2>1. r \in Job /\ r.pc = "database" /\ r.left = {} /\ r.id = job[j].id
      BY <1>1, ToFields DEF Inv, RestoreLabels, Holding
    <2>2. job' = [job EXCEPT ![j] = r] /\ lock' = lock
      BY <1>1, <1>6 DEF Step
    <2> HIDE DEF r, ok
    <2>3. job'[j] = r /\ Archive(j)' = Archive(j)
      BY <1>1, <2>1, <2>2 DEF Inv, TypeOK, Archive
    <2>4. /\ database' \in Db /\ database'.exists
          /\ database'.aek = Archive(j).database.aek /\ ~Plaintext'
      BY <1>1, <1>2, <1>4, Holder DEF Inv, TypeOK, Plaintext
    <2>5. TypeOK'
      BY <1>1, <2>1, <2>2, <2>4 DEF Inv, TypeOK
    <2>6. ~database.exists =>
            /\ key_file = None /\ rotation = None /\ backend.pc \notin StartLabels
            /\ \A a \in Assets : legacy[a] = None /\ target[a] \in {None, Archive(j).database.aek}
      <3> SUFFICES ASSUME ~database.exists
                   PROVE  /\ key_file = None /\ rotation = None /\ backend.pc \notin StartLabels
                          /\ \A a \in Assets : legacy[a] = None /\ target[a] \in {None, Archive(j).database.aek}
        OBVIOUS
      <3>1. key_file = None /\ rotation = None /\ backend.pc \notin StartLabels
        BY <1>3, <1>4 DEF Wrapped, Started
      <3>2. \A a \in Assets : legacy[a] = None
        BY <1>3 DEF Files
      <3>3. Archive(j) = archives[marker]
        BY <1>2, <1>5, <3>1, Holder
      <3>4. \A a \in Assets : target[a] \in {None, Archive(j).database.aek}
        BY <1>3, <1>5, <3>1, <3>3 DEF Unwrapped
      <3> QED BY <3>1, <3>2, <3>4
    <2>7. Files'
      BY <1>1, <1>3, <2>4, <2>6 DEF Files
    <2>8. Wrapped'
      BY <1>1, <1>3, <1>4, <2>4 DEF Wrapped, Readable
    <2>9. Unwrapped'
      <3> SUFFICES ASSUME key_file = None
                   PROVE  /\ Published(marker)' /\ database' = archives[marker].database
                          /\ \A a \in Assets : target[a] # None => target[a] = archives[marker].database.aek
        BY <1>1 DEF Unwrapped
      <3>1. Published(marker) /\ Archive(j) = archives[marker]
        BY <1>2, <1>5, Holder
      <3>2. /\ database.exists => database = archives[marker].database
            /\ \A a \in Assets : target[a] # None => target[a] = archives[marker].database.aek
        BY <1>3, <1>5 DEF Unwrapped
      <3> QED BY <1>1, <3>1, <3>2 DEF Published
    <2>10. Started'
      <3>1. CASE database.exists
        <4>1. database' = database /\ (Plaintext' <=> Plaintext)
          BY <1>1, <3>1 DEF Plaintext
        <4> QED BY <1>1, <1>3, <4>1 DEF Started, At
      <3>2. CASE ~database.exists
        BY <1>1, <2>6, <3>2 DEF Started, At, StartLabels
      <3> QED BY <3>1, <3>2
    <2>14. Managing'
      BY <1>1, <1>2, <1>4, ManagingFrame, NotInitializing
    <2>11. Backing(j)'
      BY <2>1, <2>3 DEF Backing, BackupLabels
    <2>12. Restoring(j)'
      <3>1. Published(job[j].id)'
        BY <1>1, <1>2, <2>1, <2>3, Holder DEF Published
      <3>2. key_file' = None =>
              \A b \in Archive(j)'.images \ job'[j].left : target'[b] = Archive(j)'.database.aek
        BY <1>1, <1>3, <2>1, <2>3 DEF Restoring
      <3>3. key_file' = None => marker' = job'[j].id
        BY <1>1, <1>5, <2>1, <2>3
      <3>4. lock' = j
        BY <1>2, <2>2, Holder
      <3> QED BY <2>1, <2>3, <2>4, <3>1, <3>2, <3>3, <3>4 DEF Restoring, RestoreLabels, Holding
    <2>13. \A q \in Jobs : Backing(q)' /\ Restoring(q)'
      <3>1. lock = j /\ lock' \in {j, None}
        BY <1>2, <2>2, Holder
      <3> QED BY <1>1, <2>1, <2>2, <2>4, <2>11, <2>12, <3>1, InstallFrame
    <2> QED BY <1>1, <2>5, <2>7, <2>8, <2>9, <2>10, <2>13, <2>14, ArchivesFrame DEF Inv, Disk, Commands
  <1>7. CASE ~ok
    <2>1. database' = database
      BY <1>1, <1>7 DEF Installs
    <2> QED BY <1>1, <1>7, <2>1, CommandEnds DEF Step, disk
  <1> QED BY <1>6, <1>7

\* The key is only put beside its own database and all its images.
LEMMA InstallKeyStep ==
  ASSUME Inv, NEW j \in Jobs, InstallKey(j)
  PROVE  Inv'
  <1> DEFINE ok == Installs(j, key_file # None, key_file = Archive(j).envelope)
             r == To(j, "installed")
  <1>1. /\ Step(j, ok, r) /\ job[j].pc = "database"
        /\ UNCHANGED <<database, rotation, target, legacy, temps, known, backend, marker, archives, machine>>
        /\ key_file' = IF key_file = None THEN Archive(j).envelope ELSE key_file
    BY DEF InstallKey, Doing
  <1>2. job[j].pc \in Holding
    BY <1>1 DEF Holding
  <1>3. Restoring(j) /\ Files /\ Wrapped /\ Unwrapped /\ Started
    BY DEF Inv, Commands, Disk
  <1>4. database.exists /\ ~Plaintext /\ database.aek = Archive(j).database.aek /\ job[j].left = {}
    BY <1>1, <1>3 DEF Restoring
  <1>5. CASE ok
    <2>1. r \in Job /\ r.pc = "installed" /\ r.id = job[j].id
      BY ToFields DEF Inv, RestoreLabels, Holding
    <2>2. job' = [job EXCEPT ![j] = r] /\ lock' = lock
      BY <1>1, <1>5 DEF Step
    <2> HIDE DEF r, ok
    <2>3. job'[j] = r /\ (Plaintext' <=> Plaintext)
      BY <1>1, <2>2 DEF Inv, TypeOK, Plaintext
    <2>4. key_file' \in Key /\ key_file' # None /\ key_file' \in known
      BY <1>1, <1>2, <1>3, Holder DEF Inv, TypeOK, Wrapped
    <2>5. TypeOK'
      BY <1>1, <2>1, <2>2, <2>4 DEF Inv, TypeOK
    <2>6. Files'
      BY <1>1, <1>3, <2>3 DEF Files
    <2>7. key_file = None =>
            /\ backend.pc \notin StartLabels /\ database.key = Archive(j).envelope
            /\ \A a \in database.rows : target[a] = database.aek /\ database.aek # None
      <3> SUFFICES ASSUME key_file = None
                   PROVE  /\ backend.pc \notin StartLabels /\ database.key = Archive(j).envelope
                          /\ \A a \in database.rows : target[a] = database.aek /\ database.aek # None
        OBVIOUS
      <3>1. marker = job[j].id
        BY <1>1, <1>3 DEF Restoring
      <3>2. database = Archive(j).database
        BY <1>2, <1>3, <1>4, <3>1, Holder DEF Unwrapped
      <3>3. \A a \in Archive(j).images : target[a] = Archive(j).database.aek
        BY <1>1, <1>3, <1>4 DEF Restoring
      <3> QED BY <1>2, <1>3, <3>2, <3>3, Holder DEF Started
    <2>8. Wrapped'
      <3>1. rotation # None => key_file # None
        BY <1>3 DEF Wrapped
      <3>2. rotation = None => database.key = key_file'
        BY <1>1, <1>3, <1>4, <2>7 DEF Wrapped
      <3>3. machine > 0 => \A a \in database.rows : Readable(a)'
        BY <1>1, <1>3, <2>7 DEF Wrapped, Readable
      <3> QED BY <1>1, <1>3, <1>4, <2>3, <2>4, <3>1, <3>2, <3>3 DEF Wrapped
    <2>9. Unwrapped'
      BY <2>4 DEF Unwrapped
    <2>10. Started'
      <3>1. CASE key_file = None
        BY <1>1, <2>7, <3>1 DEF Started, At, StartLabels
      <3>2. CASE key_file # None
        BY <1>1, <1>3, <2>3, <3>2 DEF Started, At
      <3> QED BY <3>1, <3>2
    <2>14. Managing'
      BY <1>1, <1>2, ManagingFrame, NotInitializing
    <2>11. Backing(j)'
      BY <2>1, <2>3 DEF Backing, BackupLabels
    <2>12. Restoring(j)'
      <3>1. Published(job[j].id)'
        BY <1>1, <1>2, <2>1, <2>3, Holder DEF Published
      <3>2. lock' = j /\ database'.exists
        BY <1>1, <1>2, <1>4, <2>2, Holder
      <3> QED BY <2>1, <2>3, <2>4, <3>1, <3>2 DEF Restoring, RestoreLabels, Holding
    <2>13. \A q \in Jobs : Backing(q)' /\ Restoring(q)'
      <3>1. lock = j /\ lock' \in {j, None}
        BY <1>2, <2>2, Holder
      <3> QED BY <1>1, <2>1, <2>2, <2>4, <2>11, <2>12, <3>1, InstallFrame
    <2> QED BY <1>1, <2>5, <2>6, <2>8, <2>9, <2>10, <2>13, <2>14, ArchivesFrame DEF Inv, Disk, Commands
  <1>6. CASE ~ok
    <2>1. key_file' = key_file
      BY <1>1, <1>6 DEF Installs
    <2> QED BY <1>1, <1>6, <2>1, CommandEnds DEF Step, disk
  <1> QED BY <1>5, <1>6

LEMMA ReleaseStep ==
  ASSUME Inv, NEW j \in Jobs, Release(j)
  PROVE  Inv'
  <1> DEFINE r == To(j, "released")
  <1>1. /\ job[j].pc = "installed" /\ job' = [job EXCEPT ![j] = r]
        /\ lock' = IF lock = j THEN None ELSE lock
        /\ UNCHANGED <<disk, known, backend, marker, archives, machine>>
    BY DEF Release, Doing
  <1>2. r \in Job /\ r.pc = "released" /\ r.id = job[j].id
    BY ToFields DEF Inv, RestoreLabels
  <1> HIDE DEF r
  <1>3. job'[j] = r /\ Published(job[j].id) /\ lock = j /\ lock' = None
    BY <1>1, Holder DEF Inv, TypeOK, Holding
  <1>4. Backing(j)'
    BY <1>2, <1>3 DEF Backing, BackupLabels
  <1>5. database.exists /\ key_file # None
    BY <1>1 DEF Inv, Commands, Restoring
  <1>6. Restoring(j)'
    BY <1>1, <1>2, <1>3, <1>5, BackupAssumption DEF Restoring, Published, RestoreLabels, Holding, disk
  <1> QED BY <1>1, <1>2, <1>3, <1>4, <1>6, JobOnly

LEMMA FinishRestoreStep ==
  ASSUME Inv, NEW j \in Jobs, FinishRestore(j)
  PROVE  Inv'
  <1>1. /\ job[j].pc = "released" /\ job' = [job EXCEPT ![j] = Idle]
        /\ marker' = IF marker = job[j].id THEN None ELSE marker
        /\ UNCHANGED <<database, key_file, rotation, target, legacy, temps, known, backend, lock, archives, machine>>
    BY DEF FinishRestore, Doing, disk
  <1>2. key_file # None /\ lock # j
    BY <1>1, BackupHoldsNothing DEF Inv, Commands, Restoring
  <1>3. Idle \in Job /\ Idle.pc = "idle"
    BY DEF Idle, Job, Key, Db, NoDatabase
  <1>4. TypeOK'
    BY <1>1, <1>3 DEF Inv, TypeOK
  <1>5. Plaintext' <=> Plaintext
    BY <1>1 DEF Plaintext
  <1>6. Disk'
    <2>1. Files' /\ Wrapped'
      BY <1>1, <1>5 DEF Inv, Disk, Files, Wrapped, Readable, Published
    <2>2. Unwrapped'
      BY <1>1, <1>2 DEF Unwrapped
    <2> QED BY <2>1, <2>2 DEF Disk
  <1>7. Started'
    BY <1>1, <1>5 DEF Inv, Started, At
  <1>8. ASSUME NEW q \in Jobs PROVE Backing(q)' /\ Restoring(q)'
    <2>1. CASE q = j
      <3>1. job'[j] = Idle
        BY <1>1 DEF Inv, TypeOK
      <3> QED BY <1>1, <1>2, <1>3, <2>1, <3>1 DEF Backing, Restoring, BackupLabels, RestoreLabels, Holding
    <2>2. CASE q # j
      <3>1. job'[q] = job[q]
        BY <1>1, <2>2 DEF Inv, TypeOK
      <3> QED BY <1>1, <1>2, <1>5, <3>1, JobFrame DEF Inv, Commands
    <2> QED BY <2>1, <2>2
  <1>9. Managing'
    BY <1>1, ManagingFrame DEF Inv, Managing
  <1> QED BY <1>1, <1>4, <1>6, <1>7, <1>8, <1>9, ArchivesFrame DEF Inv, Commands

LEMMA KillStep ==
  ASSUME Inv, NEW j \in Jobs, Kill(j)
  PROVE  Inv'
  BY CommandEnds DEF Kill

LEMMA LoseMachineStep ==
  ASSUME Inv, LoseMachine
  PROVE  Inv'
  <1>1. /\ machine' = machine + 1 /\ database' = NoDatabase /\ key_file' = None /\ rotation' = None
        /\ target' = [a \in Assets |-> None] /\ legacy' = [a \in Assets |-> None] /\ temps' = {}
        /\ backend' = Stopped /\ marker' = None /\ lock' = None
        /\ job' = [j \in Jobs |-> Idle] /\ known' = known /\ archives' = archives
    BY DEF LoseMachine
  <1>2. NoDatabase \in Db /\ ~NoDatabase.exists /\ NoDatabase.rows = {}
    BY DEF NoDatabase, Db, Key
  <1>3. Stopped.pc = "stopped" /\ Stopped \in [pc : {"stopped"} \cup KeyLabels \cup StartLabels,
                       key : Key, candidate : Db, pending : SUBSET Assets, written : SUBSET Assets]
    BY <1>2 DEF Stopped, Key
  <1>4. Idle \in Job /\ Idle.pc = "idle"
    BY <1>2 DEF Idle, Job, Key
  <1>5. TypeOK'
    <2>1. target' \in [Assets -> Key] /\ legacy' \in [Assets -> Key \cup {Png}] /\ job' \in [Jobs -> Job]
      BY <1>1, <1>4 DEF Key
    <2>2. machine' \in Nat /\ key_file' \in Key /\ rotation' \in Key
      BY <1>1 DEF Inv, TypeOK, Key
    <2> QED BY <1>1, <1>2, <1>3, <2>1, <2>2 DEF Inv, TypeOK
  <1>6. Disk'
    BY <1>1, <1>2 DEF Disk, Files, Wrapped, Unwrapped, Plaintext
  <1>7. Started' /\ Managing'
    BY <1>1, <1>3 DEF Started, Managing, At, StartLabels
  <1>8. Commands'
    <2> SUFFICES ASSUME NEW q \in Jobs PROVE Backing(q)' /\ Restoring(q)'
      BY DEF Commands
    <2>1. job'[q] = Idle /\ lock' # q
      BY <1>1, BackupAssumption
    <2> QED BY <1>4, <2>1 DEF Backing, Restoring, BackupLabels, RestoreLabels, Holding
  <1> QED BY <1>1, <1>5, <1>6, <1>7, <1>8, ArchivesFrame DEF Inv

-----------------------------------------------------------------------------
(***************************************************************************)
(* Key management and the backend.                                         *)
(***************************************************************************)
Backends == [pc : {"stopped"} \cup KeyLabels \cup StartLabels, key : Key, candidate : Db,
             pending : SUBSET Assets, written : SUBSET Assets]

\* Steps beside a wrapped key.
LEMMA KeyedFrame ==
  ASSUME Inv, UNCHANGED backup_vars, known \subseteq known', key_file # None, key_file' # None,
         database.exists => database'.exists,
         database.exists /\ ~Plaintext => ~Plaintext',
         database.exists /\ database.aek # None => database'.aek = database.aek,
         TypeOK', Files', Wrapped', Started', Managing' \/ backend'.pc \notin KeyLabels
  PROVE  Inv'
  <1>1. Commands'
    BY CommandsFrame
  <1>2. Unwrapped'
    BY DEF Unwrapped
  <1>3. Managing'
    BY DEF Managing, At, KeyLabels
  <1> QED BY <1>1, <1>2, <1>3, ArchivesFrame DEF Inv, Disk, backup_vars

\* Steps that do not touch the disk.
LEMMA BackendOnly ==
  ASSUME Inv, UNCHANGED <<disk, backup_vars>>, known \subseteq known',
         backend' \in Backends, Started', Managing' \/ backend'.pc \notin KeyLabels
  PROVE  Inv'
  <1>1. UNCHANGED <<database, key_file, rotation, target, legacy, temps, marker, lock, archives, job, machine>>
    BY DEF disk, backup_vars
  <1>2. Plaintext' <=> Plaintext
    BY <1>1 DEF Plaintext
  <1>3. TypeOK'
    BY <1>1 DEF Inv, TypeOK, Backends
  <1>4. Files' /\ Wrapped'
    BY <1>1, <1>2 DEF Inv, Disk, Files, Wrapped, Readable, Published
  <1>5. Unwrapped'
    BY <1>1, <1>2 DEF Inv, Disk, Unwrapped, Published
  <1>6. Managing'
    BY DEF Managing, At, KeyLabels
  <1>7. Commands'
    BY <1>1, <1>2, CommandsFrame
  <1> QED BY <1>1, <1>3, <1>4, <1>5, <1>6, <1>7, ArchivesFrame DEF Inv, Disk

LEMMA StoppedIsOne ==
  Stopped \in Backends /\ Stopped.pc = "stopped" /\ Stopped.pc \notin KeyLabels
  BY DEF Stopped, Backends, NoDatabase, Db, Key, KeyLabels

\* A process that has begun something holds the key it has drawn or selected.
LEMMA Begun ==
  ASSUME NEW label \in {"unlocked"} \cup KeyLabels, NEW k \in Key
  PROVE  /\ [Stopped EXCEPT !.pc = label] \in Backends
         /\ [Stopped EXCEPT !.pc = label].pc = label
         /\ [Stopped EXCEPT !.pc = label, !.key = k] \in Backends
         /\ [Stopped EXCEPT !.pc = label, !.key = k].pc = label
         /\ [Stopped EXCEPT !.pc = label, !.key = k].key = k
  BY DEF Stopped, Backends, NoDatabase, Db, Key, StartLabels

LEMMA Starts ==
  ASSUME Inv, backend.pc \in StartLabels
  PROVE  key_file = backend.key /\ key_file # None /\ rotation = None /\ key_file \in Key
  BY DEF Inv, Started, TypeOK

LEMMA BeginStep ==
  ASSUME Inv, BeginStart \/ BeginRotate, UNCHANGED backup_vars
  PROVE  Inv'
  <1>1. PICK label \in {"starting", "rotating"} : backend' = [Stopped EXCEPT !.pc = label]
    BY DEF BeginStart, BeginRotate, Begin
  <1>2. UNCHANGED <<disk, known>> /\ rotation = None
    BY DEF BeginStart, BeginRotate, Begin
  <1>3. backend' \in Backends /\ backend'.pc \in {"starting", "rotating"}
    BY <1>1, Begun, BackupAssumption DEF KeyLabels, Key
  <1>4. Started'
    BY <1>3 DEF Started, At, StartLabels
  <1>5. Managing'
    BY <1>2, <1>3 DEF Managing, At, disk
  <1> QED BY <1>2, <1>3, <1>4, <1>5, BackendOnly

\* The key is a fresh one: no archive has it.
LEMMA BeginInitializeStep ==
  ASSUME Inv, BeginInitialize, marker = None, UNCHANGED backup_vars
  PROVE  Inv'
  <1>1. /\ key_file = None /\ rotation = None /\ UNCHANGED disk
        /\ ~(Keys \subseteq known) /\ known' = known \cup {FreshKey}
        /\ backend' = [Stopped EXCEPT !.pc = "initializing", !.key = FreshKey]
    BY DEF BeginInitialize, DrawKey, Draw
  <1>2. FreshKey \in Keys /\ FreshKey \notin known /\ FreshKey # None
    BY <1>1, FreshKeyIsNew
  <1>3. backend' \in Backends /\ backend'.pc = "initializing" /\ backend'.key = FreshKey
    BY <1>1, <1>2, Begun DEF KeyLabels, Key
  <1>4. Started'
    BY <1>3 DEF Started, At, StartLabels
  <1>5. \A b \in Backups : Published(b)' => archives'[b].envelope # FreshKey
    BY <1>2 DEF Inv, ArchivesOK, Published, backup_vars
  <1>6. Managing'
    <2>1. key_file' = None /\ rotation' = None /\ marker' = None
      BY <1>1 DEF disk, backup_vars
    <2> QED BY <1>1, <1>2, <1>3, <1>5, <2>1 DEF Managing, At
  <1> QED BY <1>1, <1>3, <1>4, <1>6, BackendOnly

\* No restore has been marked since the checks, so what they found still holds.
LEMMA WriteEnvelopeStep ==
  ASSUME Inv, WriteEnvelope, UNCHANGED backup_vars
  PROVE  Inv'
  <1>1. /\ At("initializing") /\ key_file' = backend.key /\ backend' = Stopped
        /\ UNCHANGED <<database, rotation, target, legacy, temps, known>>
    BY DEF WriteEnvelope
  <1>2. /\ key_file = None /\ rotation = None /\ marker = None
        /\ backend.key # None /\ backend.key \in known
        /\ ~database.exists => \A b \in Backups : Published(b) => archives[b].envelope # backend.key
    BY <1>1 DEF Inv, Managing
  <1>3. UNCHANGED <<marker, lock, archives, job, machine>> /\ (Plaintext' <=> Plaintext)
    BY <1>1 DEF backup_vars, Plaintext
  <1>4. TypeOK'
    <2>1. backend.key \in Key
      BY DEF Inv, TypeOK
    <2> QED BY <1>1, <1>3, <2>1, StoppedIsOne DEF Inv, TypeOK, Backends
  <1>5. Files'
    BY <1>1, <1>3 DEF Inv, Disk, Files
  <1>6. /\ database.exists => Plaintext
        /\ ~database.exists => database.rows = {} /\ \A a \in Assets : target[a] = None
    <2>1. ~Published(marker)
      BY <1>2, BackupAssumption DEF Published
    <2> QED BY <1>2, <2>1 DEF Inv, Disk, Files, Unwrapped, Plaintext, NoDatabase
  <1>7. Wrapped'
    <2>1. ~database.exists => \A b \in Backups : Published(b)' => archives'[b].envelope # key_file'
      BY <1>1, <1>2, <1>3 DEF Published
    <2>2. machine > 0 => database.rows = {}
      BY <1>6 DEF Inv, Disk, Files, TypeOK
    <2> QED BY <1>1, <1>2, <1>3, <1>6, <2>1, <2>2 DEF Wrapped
  <1>8. Started' /\ Managing'
    BY <1>1, StoppedIsOne DEF Started, Managing, At, StartLabels
  <1>9. Commands'
    BY <1>1, <1>2, <1>3, CommandsFrame
  <1>10. Unwrapped'
    BY <1>1, <1>2 DEF Unwrapped
  <1> QED BY <1>1, <1>3, <1>4, <1>5, <1>7, <1>8, <1>9, <1>10, ArchivesFrame DEF Inv, Disk

LEMMA BeginRecoveryStep ==
  ASSUME Inv, BeginRecovery, UNCHANGED backup_vars
  PROVE  Inv'
  <1>1. /\ rotation # None /\ database.exists /\ ~Plaintext /\ database.key \in {key_file, rotation}
        /\ backend' = [Stopped EXCEPT !.pc = "recovering", !.key = database.key]
        /\ UNCHANGED <<disk, known>>
    BY DEF BeginRecovery
  <1>2. database.key # None /\ database.key \in known /\ database.key \in Key
    BY <1>1 DEF Inv, Disk, Wrapped, Plaintext, TypeOK
  <1>3. backend' \in Backends /\ backend'.pc = "recovering" /\ backend'.key = database.key
    BY <1>1, <1>2, Begun DEF KeyLabels
  <1>4. Started'
    BY <1>3 DEF Started, At, StartLabels
  <1>5. Managing'
    BY <1>1, <1>2, <1>3 DEF Managing, At, disk
  <1> QED BY <1>1, <1>3, <1>4, <1>5, BackendOnly

LEMMA RotateStartStep ==
  ASSUME Inv, RotateStart, UNCHANGED backup_vars
  PROVE  Inv'
  <1> DEFINE b == [backend EXCEPT !.pc = "prepared", !.key = FreshKey]
  <1>1. /\ At("rotating") /\ key_file # None
        /\ ~(Keys \subseteq known) /\ known' = known \cup {FreshKey} /\ rotation' = FreshKey
        /\ backend' = b
        /\ UNCHANGED <<database, key_file, target, legacy, temps>>
    BY DEF RotateStart, DrawKey, Draw
  <1>2. FreshKey \in Keys /\ FreshKey # None
    BY <1>1, FreshKeyIsNew
  <1>3. UNCHANGED <<marker, lock, archives, job, machine>> /\ (Plaintext' <=> Plaintext)
    BY <1>1 DEF backup_vars, Plaintext
  <1>4. b \in Backends /\ b.pc = "prepared" /\ b.key = FreshKey
    BY <1>2 DEF Inv, TypeOK, Backends, KeyLabels, Key
  <1> HIDE DEF b
  <1>5. TypeOK'
    BY <1>1, <1>2, <1>3, <1>4 DEF Inv, TypeOK, Key, Backends
  <1>6. Files'
    BY <1>1, <1>3 DEF Inv, Disk, Files
  <1>7. Wrapped'
    BY <1>1, <1>2, <1>3 DEF Inv, Disk, Wrapped, Readable, Published
  <1>8. Started'
    BY <1>1, <1>4 DEF Started, At, StartLabels
  <1>9. Managing'
    <2>1. database.exists /\ ~Plaintext => database.key = key_file
      BY <1>1 DEF Inv, Managing, At, Disk, Wrapped
    <2> QED BY <1>1, <1>2, <1>3, <1>4, <2>1 DEF Managing, At
  <1> QED BY <1>1, <1>3, <1>5, <1>6, <1>7, <1>8, <1>9, KeyedFrame

LEMMA RotateDatabaseStep ==
  ASSUME Inv, RotateDatabase, UNCHANGED backup_vars
  PROVE  Inv'
  <1> DEFINE b == [backend EXCEPT !.pc = "replaced"]
  <1>1. /\ At("prepared") /\ database.exists /\ ~Plaintext
        /\ database' = [database EXCEPT !.key = rotation] /\ backend' = b
        /\ UNCHANGED <<key_file, rotation, target, legacy, temps, known>>
    BY DEF RotateDatabase, Goto
  <1>2. rotation # None /\ backend.key = rotation /\ rotation \in known /\ key_file # None
    BY <1>1 DEF Inv, Managing, Disk, Wrapped
  <1>3. /\ database' \in Db /\ database'.exists /\ database'.key = rotation
        /\ database'.rows = database.rows /\ database'.aek = database.aek
    BY <1>1 DEF Inv, TypeOK, Db
  <1>4. UNCHANGED <<marker, lock, archives, job, machine>> /\ ~Plaintext'
    BY <1>2, <1>3 DEF backup_vars, Plaintext
  <1>5. b \in Backends /\ b.pc = "replaced" /\ b.key = backend.key
    BY DEF Inv, TypeOK, Backends, KeyLabels
  <1> HIDE DEF b
  <1>6. TypeOK'
    BY <1>1, <1>3, <1>4, <1>5 DEF Inv, TypeOK, Backends
  <1>7. Files'
    BY <1>1, <1>3, <1>4 DEF Inv, Disk, Files
  <1>8. Wrapped'
    BY <1>1, <1>2, <1>3, <1>4 DEF Inv, Disk, Wrapped, Readable
  <1>9. Started'
    BY <1>1, <1>5 DEF Started, At, StartLabels
  <1>10. Managing'
    BY <1>1, <1>2, <1>3, <1>5 DEF Managing, At
  <1> QED BY <1>1, <1>2, <1>3, <1>4, <1>6, <1>7, <1>8, <1>9, <1>10, KeyedFrame

\* The key of a database that was not replaced is still the wrapped one.
LEMMA RotateBusyStep ==
  ASSUME Inv, RotateBusy, UNCHANGED backup_vars
  PROVE  Inv'
  <1>1. /\ At("prepared") /\ rotation' = None /\ backend' = Stopped
        /\ UNCHANGED <<database, key_file, target, legacy, temps, known>>
    BY DEF RotateBusy
  <1>2. /\ rotation # None /\ key_file # None
        /\ database.exists /\ ~Plaintext => database.key = key_file
    BY <1>1 DEF Inv, Managing, Disk, Wrapped
  <1>3. UNCHANGED <<marker, lock, archives, job, machine>> /\ (Plaintext' <=> Plaintext)
    BY <1>1 DEF backup_vars, Plaintext
  <1>4. TypeOK'
    BY <1>1, <1>3, StoppedIsOne DEF Inv, TypeOK, Backends, Key
  <1>5. Files'
    BY <1>1, <1>3 DEF Inv, Disk, Files
  <1>6. Wrapped'
    BY <1>1, <1>2, <1>3 DEF Inv, Disk, Wrapped, Readable, Published
  <1>7. Started' /\ Managing'
    BY <1>1, StoppedIsOne DEF Started, Managing, At, StartLabels
  <1> QED BY <1>1, <1>2, <1>3, <1>4, <1>5, <1>6, <1>7, KeyedFrame

LEMMA FinalizeEnvelopeStep ==
  ASSUME Inv, FinalizeEnvelope, UNCHANGED backup_vars
  PROVE  Inv'
  <1> DEFINE label == IF At("replaced") THEN "rotated" ELSE "recovered"
             b == [backend EXCEPT !.pc = label]
  <1>1. /\ backend.pc \in {"replaced", "recovering"} /\ key_file' = backend.key /\ backend' = b
        /\ UNCHANGED <<database, rotation, target, legacy, temps, known>>
    BY DEF FinalizeEnvelope, Goto
  <1>2. /\ rotation # None /\ database.exists /\ database.key = backend.key
        /\ backend.key # None /\ backend.key \in known /\ key_file # None /\ backend.key \in Key
    BY <1>1 DEF Inv, Managing, Disk, Wrapped, TypeOK
  <1>3. UNCHANGED <<marker, lock, archives, job, machine>> /\ (Plaintext' <=> Plaintext)
    BY <1>1 DEF backup_vars, Plaintext
  <1>4. label \in {"rotated", "recovered"}
    OBVIOUS
  <1> HIDE DEF label
  <1>5. b \in Backends /\ b.pc = label /\ b.key = backend.key
    BY <1>4 DEF Inv, TypeOK, Backends, KeyLabels
  <1> HIDE DEF b
  <1>6. TypeOK'
    BY <1>1, <1>2, <1>3, <1>5 DEF Inv, TypeOK, Backends
  <1>7. Files'
    BY <1>1, <1>3 DEF Inv, Disk, Files
  <1>8. Wrapped'
    BY <1>1, <1>2, <1>3 DEF Inv, Disk, Wrapped, Readable
  <1>9. Started'
    BY <1>1, <1>4, <1>5 DEF Started, At, StartLabels
  <1>10. Managing'
    BY <1>1, <1>2, <1>4, <1>5 DEF Managing, At
  <1> QED BY <1>1, <1>2, <1>3, <1>6, <1>7, <1>8, <1>9, <1>10, KeyedFrame

LEMMA RemoveJournalStep ==
  ASSUME Inv, RemoveJournal, UNCHANGED backup_vars
  PROVE  Inv'
  <1>1. /\ backend.pc \in {"rotated", "recovered"} /\ rotation' = None
        /\ UNCHANGED <<database, key_file, target, legacy, temps, known>>
    BY DEF RemoveJournal, At
  <1>2. /\ rotation # None /\ database.exists /\ database.key = key_file /\ key_file # None
    BY <1>1 DEF Inv, Managing, Disk, Wrapped
  <1>3. UNCHANGED <<marker, lock, archives, job, machine>> /\ (Plaintext' <=> Plaintext)
    BY <1>1 DEF backup_vars, Plaintext
  <1>4. backend' \in Backends /\ backend'.pc \in {"stopped", "starting", "rotating"}
    <2>1. CASE backend' = Stopped
      BY <2>1, StoppedIsOne
    <2>2. ASSUME NEW label \in {"starting", "rotating"}, backend' = [Stopped EXCEPT !.pc = label]
          PROVE  backend' \in Backends /\ backend'.pc = label
      BY <2>2, Begun, BackupAssumption DEF KeyLabels, Key
    <2> QED BY <2>1, <2>2 DEF RemoveJournal
  <1>5. TypeOK'
    BY <1>1, <1>3, <1>4 DEF Inv, TypeOK, Backends, Key
  <1>6. Files'
    BY <1>1, <1>3 DEF Inv, Disk, Files
  <1>7. Wrapped'
    BY <1>1, <1>2, <1>3 DEF Inv, Disk, Wrapped, Readable
  <1>8. Started'
    BY <1>4 DEF Started, At, StartLabels
  <1>9. Managing'
    BY <1>1, <1>4 DEF Managing, At
  <1> QED BY <1>1, <1>2, <1>3, <1>5, <1>6, <1>7, <1>8, <1>9, KeyedFrame

LEMMA UnlockStep ==
  ASSUME Inv, Unlock, UNCHANGED backup_vars
  PROVE  Inv'
  <1>1. /\ At("starting") /\ key_file # None /\ UNCHANGED <<disk, known>>
        /\ backend' = [Stopped EXCEPT !.pc = "unlocked", !.key = key_file]
    BY DEF Unlock
  <1>2. rotation = None /\ key_file \in Key
    BY <1>1 DEF Inv, Managing, At, TypeOK
  <1>3. backend' \in Backends /\ backend'.pc = "unlocked" /\ backend'.key = key_file
    BY <1>1, <1>2, Begun
  <1>4. Started'
    BY <1>1, <1>2, <1>3 DEF Started, At, disk
  <1>5. backend'.pc \notin KeyLabels
    BY <1>3 DEF KeyLabels
  <1> QED BY <1>1, <1>3, <1>4, <1>5, BackendOnly

LEMMA OpenDatabaseStep ==
  ASSUME Inv, OpenDatabase, UNCHANGED backup_vars
  PROVE  Inv'
  <1> DEFINE new == [NoDatabase EXCEPT !.exists = TRUE, !.key = backend.key]
             opened == [backend EXCEPT !.pc = "opened"]
  <1>1. /\ At("unlocked") /\ ~Plaintext
        /\ database' = IF database.exists THEN database ELSE new
        /\ \/ backend' = opened /\ database'.key = backend.key
           \/ backend' = Stopped
        /\ UNCHANGED <<key_file, rotation, target, legacy, temps, known>>
    BY DEF OpenDatabase, Goto
  <1>2. backend.pc \in StartLabels
    BY <1>1 DEF At, StartLabels
  <1>3. key_file = backend.key /\ key_file # None /\ rotation = None /\ key_file \in Key
    BY <1>2, Starts
  <1>4. /\ new \in Db /\ new.exists /\ new.key = key_file /\ new.rows = {} /\ new.aek = None
    BY <1>3 DEF NoDatabase, Db, Key
  <1>5. opened \in Backends /\ opened.pc = "opened" /\ opened.key = backend.key
    BY DEF Inv, TypeOK, Backends, StartLabels
  <1> HIDE DEF new, opened
  <1>6. /\ database' \in Db /\ database'.exists /\ database'.key = key_file /\ ~Plaintext'
    BY <1>1, <1>3, <1>4 DEF Inv, TypeOK, Disk, Wrapped, Plaintext
  <1>7. UNCHANGED <<marker, lock, archives, job, machine>>
    BY DEF backup_vars
  <1>8. TypeOK'
    <2>1. backend' \in Backends
      BY <1>1, <1>5, StoppedIsOne
    <2> QED BY <1>1, <1>6, <1>7, <2>1 DEF Inv, TypeOK, Backends
  <1>9. Files' /\ Wrapped'
    <2>1. CASE database.exists
      <3>1. database' = database
        BY <1>1, <2>1
      <3> QED BY <1>1, <1>3, <1>6, <1>7, <2>1, <3>1 DEF Inv, Disk, Files, Wrapped, Readable
    <2>2. CASE ~database.exists
      <3>1. database' = new /\ \A a \in Assets : legacy[a] = None /\ target[a] = None
        BY <1>1, <1>3, <2>2 DEF Inv, Disk, Files, Wrapped
      <3>2. Files'
        BY <1>1, <1>4, <1>6, <3>1 DEF Files
      <3> QED BY <1>1, <1>3, <1>4, <1>6, <1>7, <3>1, <3>2 DEF Inv, Disk, Wrapped
    <2> QED BY <2>1, <2>2
  <1>10. Started'
    <2>1. CASE backend' = opened
      BY <1>1, <1>3, <1>5, <1>6, <2>1 DEF Started, At
    <2>2. CASE backend' = Stopped
      BY <2>2, StoppedIsOne DEF Started, At, StartLabels
    <2> QED BY <1>1, <2>1, <2>2
  <1>11. backend'.pc \notin KeyLabels
    BY <1>1, <1>5, StoppedIsOne DEF KeyLabels, At
  <1> QED BY <1>1, <1>3, <1>4, <1>6, <1>8, <1>9, <1>10, <1>11, KeyedFrame

LEMMA ExportPlaintextStep ==
  ASSUME Inv, ExportPlaintext, UNCHANGED backup_vars
  PROVE  Inv'
  <1> DEFINE c == [database EXCEPT !.key = backend.key]
             b == [backend EXCEPT !.pc = "exported", !.candidate = c]
  <1>1. At("unlocked") /\ Plaintext /\ backend' = b /\ UNCHANGED <<disk, known>>
    BY DEF ExportPlaintext
  <1>2. backend.pc \in StartLabels
    BY <1>1 DEF At, StartLabels
  <1>3. key_file = backend.key /\ key_file # None /\ rotation = None /\ key_file \in Key
    BY <1>2, Starts
  <1>4. /\ c \in Db /\ c.exists /\ c.key = backend.key /\ c.rows = database.rows /\ c.aek = database.aek
    BY <1>1, <1>3 DEF Inv, TypeOK, Db, Plaintext
  <1> HIDE DEF c
  <1>5. b \in Backends /\ b.pc = "exported" /\ b.key = backend.key /\ b.candidate = c
    BY <1>4 DEF Inv, TypeOK, Backends, StartLabels
  <1> HIDE DEF b
  <1>6. Started'
    BY <1>1, <1>3, <1>4, <1>5 DEF Started, At, Plaintext, disk
  <1> QED BY <1>1, <1>3, <1>5, <1>6, BackendOnly DEF KeyLabels, At

LEMMA CompareSourceStep ==
  ASSUME Inv, CompareSource, UNCHANGED backup_vars
  PROVE  Inv'
  <1> DEFINE b == [backend EXCEPT !.pc = "compared"]
  <1>1. /\ At("exported") /\ UNCHANGED <<disk, known>>
        /\ \/ database.version = backend.candidate.version /\ backend' = b
           \/ backend' = Stopped
    BY DEF CompareSource, Goto
  <1>2. backend.pc \in StartLabels
    BY <1>1 DEF At, StartLabels
  <1>3. key_file = backend.key /\ key_file # None /\ rotation = None
    BY <1>2, Starts
  <1>4. b \in Backends /\ b.pc = "compared" /\ b.key = backend.key /\ b.candidate = backend.candidate
    BY DEF Inv, TypeOK, Backends, StartLabels
  <1> HIDE DEF b
  <1>5. CASE backend' = Stopped
    BY <1>1, <1>3, <1>5, StoppedIsOne, BackendOnly DEF Started, At, StartLabels
  <1>6. CASE backend' = b /\ database.version = backend.candidate.version
    <2>1. Started'
      BY <1>1, <1>3, <1>4, <1>6 DEF Inv, Started, At, Plaintext, disk
    <2> QED BY <1>1, <1>3, <1>4, <1>6, <2>1, BackendOnly DEF KeyLabels, At
  <1> QED BY <1>1, <1>5, <1>6

\* The candidate has the rows of the plaintext database, and a plaintext
\* database has neither encrypted images nor an asset key.
LEMMA ReplacePlaintextStep ==
  ASSUME Inv, ReplacePlaintext, UNCHANGED backup_vars
  PROVE  Inv'
  <1> DEFINE b == [backend EXCEPT !.pc = "opened", !.candidate = NoDatabase]
  <1>1. /\ At("compared") /\ database' = backend.candidate /\ backend' = b
        /\ UNCHANGED <<key_file, rotation, target, legacy, temps, known>>
    BY DEF ReplacePlaintext
  <1>2. backend.pc \in StartLabels
    BY <1>1 DEF At, StartLabels
  <1>3. key_file = backend.key /\ key_file # None /\ rotation = None
    BY <1>2, Starts
  <1>4. /\ Plaintext /\ database'.exists /\ database'.key = key_file /\ database'.rows = database.rows
        /\ database'.aek = database.aek /\ database'.aek = None /\ machine = 0
    BY <1>1, <1>3 DEF Inv, Started, At, Disk, Files
  <1>5. ~Plaintext' /\ database' \in Db /\ UNCHANGED <<marker, lock, archives, job, machine>>
    BY <1>1, <1>3, <1>4 DEF Inv, TypeOK, Plaintext, backup_vars
  <1>6. b \in Backends /\ b.pc = "opened" /\ b.key = backend.key
    BY DEF Inv, TypeOK, Backends, StartLabels, NoDatabase, Db, Key
  <1> HIDE DEF b
  <1>7. TypeOK'
    BY <1>1, <1>5, <1>6 DEF Inv, TypeOK, Backends
  <1>8. Files'
    BY <1>1, <1>4, <1>5 DEF Inv, Disk, Files, Plaintext
  <1>9. Wrapped'
    <2>1. ~(machine' > 0)
      BY <1>4, <1>5
    <2> QED BY <1>1, <1>3, <1>4, <1>5, <2>1 DEF Inv, Disk, Wrapped
  <1>10. Started'
    BY <1>1, <1>3, <1>4, <1>5, <1>6 DEF Started, At
  <1>11. backend'.pc \notin KeyLabels
    BY <1>1, <1>6 DEF KeyLabels, At
  <1> QED BY <1>1, <1>3, <1>4, <1>5, <1>7, <1>8, <1>9, <1>10, <1>11, KeyedFrame

LEMMA LegacyWriteStep ==
  ASSUME Inv, LegacyWrite, UNCHANGED backup_vars
  PROVE  Inv'
  <1>1. /\ database' \in Db /\ database'.exists = database.exists /\ database'.key = database.key
        /\ database'.rows = database.rows /\ database'.aek = database.aek
    BY DEF Inv, TypeOK, Db, LegacyWrite
  <1>2. UNCHANGED <<marker, lock, archives, job, machine>> /\ Plaintext /\ Plaintext'
    BY <1>1 DEF backup_vars, LegacyWrite, Plaintext
  <1>3. UNCHANGED <<key_file, rotation, target, legacy, temps, known, backend>>
    BY DEF LegacyWrite
  <1>4. TypeOK'
    BY <1>1, <1>2, <1>3 DEF Inv, TypeOK
  <1>5. Disk'
    <2>1. Files'
      BY <1>1, <1>2, <1>3 DEF Inv, Disk, Files, Plaintext
    <2>2. Wrapped'
      BY <1>1, <1>2, <1>3 DEF Inv, Disk, Wrapped, Readable, Published, Plaintext
    <2> QED BY <1>2, <2>1, <2>2 DEF Disk, Unwrapped
  <1>6. Started'
    BY <1>1, <1>2, <1>3 DEF Inv, Started, At, Plaintext, LegacyWrite
  <1>7. Commands'
    BY <1>1, <1>2, <1>3, CommandsFrame DEF Plaintext
  <1>8. Managing'
    BY <1>1, <1>2, <1>3 DEF Inv, Managing, At, Published, Plaintext
  <1> QED BY <1>2, <1>4, <1>5, <1>6, <1>7, <1>3, <1>8, ArchivesFrame DEF Inv

\* The asset key is drawn where no file needs another one.
LEMMA LoadAssetKeyStep ==
  ASSUME Inv, LoadAssetKey, UNCHANGED backup_vars
  PROVE  Inv'
  <1> DEFINE p == database.rows \cup { a \in Assets : target[a] # None \/ legacy[a] # None }
             b == [backend EXCEPT !.pc = "migrating", !.pending = p]
             d == [database EXCEPT !.aek = FreshKey]
  <1>1. /\ At("opened") /\ backend' = b /\ UNCHANGED <<key_file, rotation, target, legacy, temps>>
        /\ \/ database.aek # None /\ UNCHANGED <<database, known>>
           \/ /\ database.aek = None /\ KeyCreationSafe /\ ~(Keys \subseteq known)
              /\ known' = known \cup {FreshKey} /\ database' = d
    BY DEF LoadAssetKey, DrawKey, Draw
  <1>2. backend.pc \in StartLabels
    BY <1>1 DEF At, StartLabels
  <1>3. key_file = backend.key /\ key_file # None /\ rotation = None
    BY <1>2, Starts
  <1>4. database.exists /\ ~Plaintext
    BY <1>1 DEF Inv, Started, At
  <1>5. p \subseteq Assets /\ \A a \in Assets \ p : legacy[a] = None
    BY DEF Inv, TypeOK, Db
  <1> HIDE DEF p
  <1>6. b \in Backends /\ b.pc = "migrating" /\ b.key = backend.key /\ b.pending = p
    BY <1>5 DEF Inv, TypeOK, Backends, StartLabels
  <1>7. database.aek = None => FreshKey \in Keys /\ FreshKey # None
    BY <1>1, FreshKeyIsNew
  <1>8. database.aek = None =>
          d \in Db /\ d.exists /\ d.key = database.key /\ d.rows = database.rows /\ d.aek = FreshKey
    BY <1>4, <1>7 DEF Inv, TypeOK, Db, Key
  <1> HIDE DEF b, d
  <1>9. /\ database' \in Db /\ database'.exists /\ database'.key = database.key
        /\ database'.rows = database.rows /\ database'.aek # None
        /\ database.aek # None => database'.aek = database.aek
    BY <1>1, <1>4, <1>7, <1>8 DEF Inv, TypeOK
  <1>10. ~Plaintext' /\ known \subseteq known' /\ UNCHANGED <<marker, lock, archives, job, machine>>
    BY <1>1, <1>4, <1>9 DEF backup_vars, Plaintext
  <1>11. TypeOK'
    BY <1>1, <1>6, <1>9, <1>10 DEF Inv, TypeOK, Backends
  <1>12. Files'
    <2>1. CASE database.aek # None
      BY <1>1, <1>4, <1>9, <1>10, <2>1 DEF Inv, Disk, Files
    <2>2. CASE database.aek = None
      <3>1. \A a \in Assets : target[a] = None /\ legacy[a] \in {None, Png}
        BY <1>1, <2>2 DEF KeyCreationSafe
      <3> QED BY <1>1, <1>9, <1>10, <3>1 DEF Files
    <2> QED BY <2>1, <2>2
  <1>13. Wrapped'
    <2>1. machine > 0 => \A a \in database.rows : Readable(a)'
      <3>1. ASSUME NEW a \in database.rows, Readable(a) PROVE Readable(a)'
        BY <1>1, <1>9, <3>1 DEF Readable
      <3> QED BY <1>3, <3>1 DEF Inv, Disk, Wrapped
    <2>2. key_file = database'.key /\ key_file \in known
      BY <1>3, <1>4, <1>9 DEF Inv, Disk, Wrapped
    <2> QED BY <1>1, <1>3, <1>9, <1>10, <2>1, <2>2 DEF Wrapped
  <1>14. Started'
    BY <1>1, <1>3, <1>5, <1>6, <1>9, <1>10 DEF Started, At
  <1>15. backend'.pc \notin KeyLabels
    BY <1>1, <1>6 DEF KeyLabels, At
  <1> QED BY <1>1, <1>3, <1>9, <1>10, <1>11, <1>12, <1>13, <1>14, <1>15, KeyedFrame

\* What a serving or migrating backend has.
LEMMA HasKey ==
  ASSUME Inv, At("migrating") \/ At("serving")
  PROVE  /\ key_file = backend.key /\ key_file # None /\ rotation = None
         /\ database.exists /\ ~Plaintext /\ database.aek # None /\ database.aek \in Key
  <1>1. backend.pc \in StartLabels
    BY DEF At, StartLabels
  <1> QED BY <1>1, Starts DEF Inv, Started, At, TypeOK, Db

LEMMA CheckAssetStep ==
  ASSUME Inv, NEW a \in Assets, CheckAsset(a), UNCHANGED backup_vars
  PROVE  Inv'
  <1> DEFINE b == [backend EXCEPT !.pending = @ \ {a}, !.written = @ \ {a}]
  <1>1. At("migrating") /\ legacy[a] = None /\ backend' = b /\ UNCHANGED <<disk, known>>
    BY DEF CheckAsset, Migrating, Migrated
  <1>2. /\ b \in Backends /\ b.pc = backend.pc /\ b.key = backend.key /\ b.pending = backend.pending \ {a}
    BY DEF Inv, TypeOK, Backends
  <1> HIDE DEF b
  <1>3. Started'
    BY <1>1, <1>2, HasKey DEF Inv, Started, At, Plaintext, disk
  <1> QED BY <1>1, <1>2, <1>3, HasKey, BackendOnly DEF KeyLabels, At

LEMMA WriteCiphertextStep ==
  ASSUME Inv, NEW a \in Assets, WriteCiphertext(a), UNCHANGED backup_vars
  PROVE  Inv'
  <1> DEFINE b == [backend EXCEPT !.written = @ \cup {a}]
  <1>1. At("migrating") /\ backend' = b /\ UNCHANGED <<disk, known>>
    BY DEF WriteCiphertext, Migrating
  <1>2. /\ b \in Backends /\ b.pc = backend.pc /\ b.key = backend.key /\ b.pending = backend.pending
    BY DEF Inv, TypeOK, Backends
  <1> HIDE DEF b
  <1>3. Started'
    BY <1>1, <1>2, HasKey DEF Inv, Started, At, Plaintext, disk
  <1> QED BY <1>1, <1>2, <1>3, HasKey, BackendOnly DEF KeyLabels, At

LEMMA ReplaceLegacyStep ==
  ASSUME Inv, NEW a \in Assets, ReplaceLegacy(a), UNCHANGED backup_vars
  PROVE  Inv'
  <1> DEFINE b == [backend EXCEPT !.written = @ \ {a}]
  <1>1. /\ At("migrating") /\ a \in backend.pending /\ backend' = b
        /\ legacy' = [legacy EXCEPT ![a] = database.aek]
        /\ UNCHANGED <<database, key_file, rotation, target, temps, known>>
    BY DEF ReplaceLegacy, Migrating
  <1>2. /\ b \in Backends /\ b.pc = backend.pc /\ b.key = backend.key /\ b.pending = backend.pending
    BY DEF Inv, TypeOK, Backends
  <1> HIDE DEF b
  <1>3. /\ legacy' \in [Assets -> Key \cup {Png}] /\ legacy'[a] = database.aek
        /\ \A c \in Assets : c # a => legacy'[c] = legacy[c]
    BY <1>1, HasKey DEF Inv, TypeOK
  <1>4. UNCHANGED <<marker, lock, archives, job, machine>> /\ (Plaintext' <=> Plaintext)
    BY <1>1 DEF backup_vars, Plaintext
  <1>5. TypeOK'
    BY <1>1, <1>2, <1>3, <1>4 DEF Inv, TypeOK, Backends
  <1>6. Files'
    BY <1>1, <1>3, <1>4, HasKey DEF Inv, Disk, Files
  <1>7. Wrapped'
    <2>1. \A c \in database.rows : Readable(c) => Readable(c)'
      BY <1>1, <1>3, HasKey DEF Readable, Inv, TypeOK, Db
    <2> QED BY <1>1, <1>4, <2>1, HasKey DEF Inv, Disk, Wrapped
  <1>8. Started'
    BY <1>1, <1>2, <1>3, <1>4, HasKey DEF Inv, Started, At
  <1>9. backend'.pc \notin KeyLabels
    BY <1>1, <1>2 DEF KeyLabels, At
  <1> QED BY <1>1, <1>4, <1>5, <1>6, <1>7, <1>8, HasKey, <1>9, KeyedFrame

LEMMA RenameLegacyStep ==
  ASSUME Inv, NEW a \in Assets, RenameLegacy(a), UNCHANGED backup_vars
  PROVE  Inv'
  <1> DEFINE b == [backend EXCEPT !.pending = @ \ {a}, !.written = @ \ {a}]
  <1>1. /\ At("migrating") /\ legacy[a] = database.aek /\ backend' = b
        /\ legacy' = [legacy EXCEPT ![a] = None] /\ target' = [target EXCEPT ![a] = legacy[a]]
        /\ UNCHANGED <<database, key_file, rotation, temps, known>>
    BY DEF RenameLegacy, Migrating, Migrated
  <1>2. /\ b \in Backends /\ b.pc = backend.pc /\ b.key = backend.key /\ b.pending = backend.pending \ {a}
    BY DEF Inv, TypeOK, Backends
  <1> HIDE DEF b
  <1>3. /\ legacy' \in [Assets -> Key \cup {Png}] /\ target' \in [Assets -> Key]
        /\ legacy'[a] = None /\ target'[a] = database.aek
        /\ \A c \in Assets : c # a => legacy'[c] = legacy[c] /\ target'[c] = target[c]
    BY <1>1, HasKey DEF Inv, TypeOK, Key
  <1>4. UNCHANGED <<marker, lock, archives, job, machine>> /\ (Plaintext' <=> Plaintext)
    BY <1>1 DEF backup_vars, Plaintext
  <1>5. TypeOK'
    BY <1>1, <1>2, <1>3, <1>4 DEF Inv, TypeOK, Backends
  <1>6. Files'
    BY <1>1, <1>3, <1>4, HasKey DEF Inv, Disk, Files
  <1>7. Wrapped'
    <2>1. \A c \in database.rows : Readable(c) => Readable(c)'
      BY <1>1, <1>3, HasKey DEF Readable, Inv, TypeOK, Db
    <2> QED BY <1>1, <1>4, <2>1, HasKey DEF Inv, Disk, Wrapped
  <1>8. Started'
    BY <1>1, <1>2, <1>3, <1>4, HasKey DEF Inv, Started, At
  <1>9. backend'.pc \notin KeyLabels
    BY <1>1, <1>2 DEF KeyLabels, At
  <1> QED BY <1>1, <1>4, <1>5, <1>6, <1>7, <1>8, HasKey, <1>9, KeyedFrame

LEMMA ServeStep ==
  ASSUME Inv, Serve, UNCHANGED backup_vars
  PROVE  Inv'
  <1> DEFINE b == [backend EXCEPT !.pc = "serving"]
  <1>1. /\ At("migrating") /\ backend.pending = {} /\ backend' = b /\ temps' = {}
        /\ UNCHANGED <<database, key_file, rotation, target, legacy, known>>
    BY DEF Serve, Goto
  <1>2. b \in Backends /\ b.pc = "serving" /\ b.key = backend.key
    BY DEF Inv, TypeOK, Backends, StartLabels
  <1> HIDE DEF b
  <1>3. UNCHANGED <<marker, lock, archives, job, machine>> /\ (Plaintext' <=> Plaintext)
    BY <1>1 DEF backup_vars, Plaintext
  <1>4. TypeOK'
    BY <1>1, <1>2, <1>3 DEF Inv, TypeOK, Backends
  <1>5. Files' /\ Wrapped'
    <2>1. Files'
      BY <1>1, <1>3 DEF Inv, Disk, Files
    <2>2. Wrapped'
      BY <1>1, <1>3 DEF Inv, Disk, Wrapped, Readable, Published
    <2> QED BY <2>1, <2>2
  <1>6. Started'
    BY <1>1, <1>2, <1>3, HasKey DEF Inv, Started, At
  <1>7. backend'.pc \notin KeyLabels
    BY <1>1, <1>2 DEF KeyLabels, At
  <1> QED BY <1>1, <1>3, <1>4, <1>5, <1>6, HasKey, <1>7, KeyedFrame

LEMMA StopStep ==
  ASSUME Inv, Stop, UNCHANGED backup_vars
  PROVE  Inv'
  <1>1. /\ ~At("stopped") /\ backend' = Stopped /\ temps' = temps \cup backend.written
        /\ UNCHANGED <<database, key_file, rotation, target, legacy, known>>
    BY DEF Stop
  <1>2. UNCHANGED <<marker, lock, archives, job, machine>> /\ (Plaintext' <=> Plaintext)
    BY <1>1 DEF backup_vars, Plaintext
  <1>3. temps' \subseteq Assets
    BY <1>1 DEF Inv, TypeOK
  <1>4. TypeOK'
    BY <1>1, <1>2, <1>3, StoppedIsOne DEF Inv, TypeOK, Backends
  <1>5. Files' /\ Wrapped'
    <2>1. Files'
      BY <1>1, <1>2 DEF Inv, Disk, Files
    <2>2. Wrapped'
      BY <1>1, <1>2 DEF Inv, Disk, Wrapped, Readable, Published
    <2> QED BY <2>1, <2>2
  <1>6. Started' /\ Managing'
    BY <1>1, StoppedIsOne DEF Started, Managing, At, StartLabels
  <1>7. Unwrapped'
    BY <1>1, <1>2 DEF Inv, Disk, Unwrapped, Published
  <1>8. Commands'
    BY <1>1, <1>2, CommandsFrame
  <1> QED BY <1>1, <1>2, <1>4, <1>5, <1>6, <1>7, <1>8, ArchivesFrame DEF Inv, Disk

\* Uploads and deletions: files under the asset key, rows that have theirs.
LEMMA StoreOrRemoveStep ==
  ASSUME Inv, NEW a \in Assets, StoreFile(a) \/ RemoveFile(a), UNCHANGED backup_vars
  PROVE  Inv'
  <1>1. /\ At("serving") /\ known \subseteq known'
        /\ UNCHANGED <<database, key_file, rotation, legacy, temps, backend>>
        /\ \/ target' = [target EXCEPT ![a] = database.aek]
           \/ a \notin database.rows /\ target' = [target EXCEPT ![a] = None]
    BY DEF StoreFile, RemoveFile, Draw
  <1>2. /\ target' \in [Assets -> Key] /\ target'[a] \in {None, database.aek}
        /\ a \in database.rows => target'[a] = database.aek
        /\ \A c \in Assets : c # a => target'[c] = target[c]
    BY <1>1, HasKey DEF Inv, TypeOK, Key
  <1>3. UNCHANGED <<marker, lock, archives, job, machine>> /\ (Plaintext' <=> Plaintext)
    BY <1>1 DEF backup_vars, Plaintext
  <1>4. TypeOK'
    BY <1>1, <1>2, <1>3 DEF Inv, TypeOK
  <1>5. Files'
    BY <1>1, <1>2, <1>3, HasKey DEF Inv, Disk, Files
  <1>6. Wrapped'
    <2>1. \A c \in database.rows : Readable(c) => Readable(c)'
      BY <1>1, <1>2, HasKey DEF Readable, Inv, TypeOK, Db
    <2> QED BY <1>1, <1>3, <2>1, HasKey DEF Inv, Disk, Wrapped
  <1>7. Started'
    BY <1>1, <1>3, HasKey DEF Inv, Started, At
  <1> QED BY <1>1, <1>3, <1>4, <1>5, <1>6, <1>7, HasKey, KeyedFrame DEF KeyLabels, At

LEMMA CommitOrDeleteStep ==
  ASSUME Inv, NEW a \in Assets, CommitRow(a) \/ DeleteRow(a), UNCHANGED backup_vars
  PROVE  Inv'
  <1>1. /\ At("serving") /\ UNCHANGED <<key_file, rotation, target, legacy, temps, known, backend>>
        /\ \/ target[a] # None /\ database' = [database EXCEPT !.rows = @ \cup {a}, !.version = @ + 1]
           \/ database' = [database EXCEPT !.rows = @ \ {a}, !.version = @ + 1]
    BY DEF CommitRow, DeleteRow
  <1>2. /\ database' \in Db /\ database'.exists = database.exists /\ database'.key = database.key
        /\ database'.aek = database.aek
        /\ \A c \in database'.rows : c \in database.rows \/ (c = a /\ target[a] # None)
    <2>1. database \in Db
      BY DEF Inv, TypeOK
    <2>2. CASE target[a] # None /\ database' = [database EXCEPT !.rows = @ \cup {a}, !.version = @ + 1]
      <3> DEFINE d == [database EXCEPT !.rows = @ \cup {a}, !.version = @ + 1]
      <3>1. database.rows \cup {a} \in SUBSET Assets /\ database.version + 1 \in Nat
        BY <2>1 DEF Db
      <3>2. d \in Db
        BY <2>1, <3>1 DEF Db
      <3>3. /\ d.exists = database.exists /\ d.key = database.key /\ d.aek = database.aek
            /\ d.rows = database.rows \cup {a}
        BY <2>1 DEF Db
      <3>4. database' = d
        BY <2>2
      <3> HIDE DEF d
      <3> QED BY <2>2, <3>2, <3>3, <3>4
    <2>3. CASE database' = [database EXCEPT !.rows = @ \ {a}, !.version = @ + 1]
      <3> DEFINE d == [database EXCEPT !.rows = @ \ {a}, !.version = @ + 1]
      <3>1. database.rows \ {a} \in SUBSET Assets /\ database.version + 1 \in Nat
        BY <2>1 DEF Db
      <3>2. d \in Db
        BY <2>1, <3>1 DEF Db
      <3>3. /\ d.exists = database.exists /\ d.key = database.key /\ d.aek = database.aek
            /\ d.rows = database.rows \ {a}
        BY <2>1 DEF Db
      <3>4. database' = d
        BY <2>3
      <3> HIDE DEF d
      <3> QED BY <3>2, <3>3, <3>4
    <2> QED BY <1>1, <2>2, <2>3
  <1>3. UNCHANGED <<marker, lock, archives, job, machine>> /\ (Plaintext' <=> Plaintext)
    BY <1>2 DEF backup_vars, Plaintext
  <1>4. TypeOK'
    BY <1>1, <1>2, <1>3 DEF Inv, TypeOK
  <1>5. Files'
    BY <1>1, <1>2, <1>3, HasKey DEF Inv, Disk, Files
  <1>6. Wrapped'
    <2>1. \A c \in Assets : Readable(c) => Readable(c)'
      BY <1>1, <1>2 DEF Readable
    <2>2. target[a] # None => Readable(a)
      BY <1>1, HasKey DEF Readable, Inv, Disk, Files
    <2>3. database.rows \subseteq Assets
      BY DEF Inv, TypeOK, Db
    <2> QED BY <1>1, <1>2, <1>3, <2>1, <2>2, <2>3, HasKey DEF Inv, Disk, Wrapped
  <1>7. Started'
    BY <1>1, <1>2, <1>3, HasKey DEF Inv, Started, At
  <1> QED BY <1>1, <1>2, <1>3, <1>4, <1>5, <1>6, <1>7, HasKey, KeyedFrame DEF KeyLabels, At

-----------------------------------------------------------------------------
(***************************************************************************)
(* The invariant holds.                                                    *)
(***************************************************************************)
LEMMA InitInv == Init => Inv
  <1> SUFFICES ASSUME Init PROVE Inv
    OBVIOUS
  <1>1. /\ key_file = None /\ rotation = None /\ temps = {} /\ backend = Stopped /\ machine = 0
        /\ marker = None /\ lock = None /\ target = [a \in Assets |-> None]
        /\ archives = [b \in Backups |-> NoArchive] /\ job = [j \in Jobs |-> Idle]
    BY DEF Init, InitInstallation, EmptyDisk, LegacyDisk
  <1>2. /\ database \in Db /\ database.key = None /\ database.aek = None
        /\ ~database.exists => database = NoDatabase /\ \A a \in Assets : legacy[a] = None
        /\ legacy \in [Assets -> Key \cup {Png}] /\ \A a \in Assets : legacy[a] \in {None, Png}
    <2>1. CASE EmptyDisk
      BY <2>1 DEF EmptyDisk, NoDatabase, Db, Key
    <2>2. CASE LegacyDisk
      <3>1. PICK a \in Assets, found \in SUBSET Assets :
              /\ database = [NoDatabase EXCEPT !.exists = TRUE, !.rows = {a}]
              /\ legacy = [b \in Assets |-> IF b \in found THEN Png ELSE None]
        BY <2>2 DEF LegacyDisk
      <3> QED BY <3>1 DEF NoDatabase, Db, Key
    <2> QED BY <2>1, <2>2 DEF Init, InitInstallation
  <1>3. Idle \in Job /\ Idle.pc = "idle" /\ NoArchive \in [database : Db, envelope : Key, images : SUBSET Assets]
    BY DEF Idle, NoArchive, Job, Key, Db, NoDatabase
  <1>4. \A b \in Backups \cup {None} : ~Published(b)
    BY <1>1, BackupAssumption DEF Published
  <1>5. TypeOK
    <2>1. backend \in Backends /\ target \in [Assets -> Key] /\ key_file \in Key /\ rotation \in Key
      BY <1>1, StoppedIsOne DEF Key
    <2> QED BY <1>1, <1>2, <1>3, <2>1 DEF TypeOK, Backends
  <1>6. Disk
    BY <1>1, <1>2 DEF Disk, Files, Wrapped, Unwrapped, Plaintext
  <1>7. Started /\ Managing
    BY <1>1, StoppedIsOne DEF Started, Managing, At, StartLabels
  <1>8. ArchivesOK /\ Commands
    <2>1. \A j \in Jobs : job[j].pc = "idle" /\ lock # j
      BY <1>1, <1>3, BackupAssumption
    <2> QED BY <1>4, <2>1 DEF ArchivesOK, Commands, Backing, Restoring, BackupLabels, RestoreLabels, Holding
  <1> QED BY <1>5, <1>6, <1>7, <1>8 DEF Inv

LEMMA JobStepInv ==
  ASSUME Apart, Inv, NEW j \in Jobs, JobStep(j)
  PROVE  Inv'
  BY UnlockForBackupStep, SnapshotStep, VerifyStep, PublishStep, ReadImageStep, RecheckStep, MarkStep,
     LockStep, CheckTargetsStep, InstallImageStep, InstallDatabaseStep, InstallKeyStep, ReleaseStep,
     FinishRestoreStep DEF JobStep

LEMMA MayBeginInv ==
  ASSUME Inv, MayBegin, marker = None, UNCHANGED backup_vars
  PROVE  Inv'
  BY BeginStep, BeginInitializeStep, BeginRecoveryStep DEF MayBegin

LEMMA RunningInv ==
  ASSUME Inv, Running, UNCHANGED backup_vars
  PROVE  Inv'
  BY WriteEnvelopeStep, RotateStartStep, RotateDatabaseStep, RotateBusyStep, FinalizeEnvelopeStep,
     RemoveJournalStep, UnlockStep, OpenDatabaseStep, ExportPlaintextStep, CompareSourceStep, ReplacePlaintextStep, LegacyWriteStep,
     LoadAssetKeyStep, ServeStep, StopStep, CheckAssetStep, WriteCiphertextStep, ReplaceLegacyStep,
     RenameLegacyStep, StoreOrRemoveStep, CommitOrDeleteStep DEF Running

LEMMA StepInv ==
  ASSUME Apart, Inv, [Next]_vars
  PROVE  Inv'
  <1>1. CASE marker = None /\ MayBegin /\ UNCHANGED backup_vars
    BY <1>1, MayBeginInv
  <1>2. CASE Running /\ UNCHANGED backup_vars
    BY <1>2, RunningInv
  <1>3. ASSUME NEW j \in Jobs, JobStep(j) PROVE Inv'
    BY <1>3, JobStepInv
  <1>4. ASSUME NEW j \in Jobs, Kill(j) PROVE Inv'
    BY <1>4, KillStep
  <1>5. ASSUME NEW j \in Jobs, NEW b \in Backups, BeginBackup(j, b) \/ StartRestore(j, b) PROVE Inv'
    BY <1>5, BeginBackupStep, StartRestoreStep
  <1>6. CASE LoseMachine
    BY <1>6, LoseMachineStep
  <1>7. CASE UNCHANGED vars
    <2>1. UNCHANGED <<disk, known, backend, marker, lock, archives, job, machine>>
      BY <1>7 DEF vars, backup_vars
    <2>2. UNCHANGED <<database, key_file, rotation, target, legacy, temps>> /\ (Plaintext' <=> Plaintext)
      BY <2>1 DEF disk, Plaintext
    <2>3. TypeOK' /\ ArchivesOK'
      BY <2>1, <2>2, ArchivesFrame DEF Inv, TypeOK
    <2>4. Disk'
      BY <2>1, <2>2 DEF Inv, Disk, Files, Wrapped, Unwrapped, Readable, Published
    <2>5. Started' /\ Managing'
      BY <2>1, <2>2 DEF Inv, Started, Managing, At, Published
    <2>6. Commands'
      BY <2>1, <2>2, CommandsFrame, <1>7 DEF vars
    <2> QED BY <2>3, <2>4, <2>5, <2>6 DEF Inv
  <1> QED BY <1>1, <1>2, <1>3, <1>4, <1>5, <1>6, <1>7 DEF Next

\* The files, the markers and what each command knows of them fit together in
\* every state (restore_backup, create_backup and the start of the backend), if no
\* restore is marked between the checks and the write of KeyStore.initialize.
THEOREM InvAlways == Apart => (Spec => []Inv)
  <1> SUFFICES ASSUME Apart PROVE Spec => []Inv
    OBVIOUS
  <1>1. Inv /\ [Next]_vars => Inv'
    BY StepInv
  <1> QED BY <1>1, InitInv, PTL DEF Spec

-----------------------------------------------------------------------------
(***************************************************************************)
(* The properties.                                                         *)
(***************************************************************************)
\* Every archive ever published can be restored: its envelope is that of its
\* database and its images are those of its rows, however rotations, uploads and
\* deletions interleaved with create_backup (runtime/backup.py), under Apart.
THEOREM ArchivesAlwaysOpen == Apart => (Spec => []ArchivesOpen)
  <1>1. Inv => ArchivesOpen
    BY DEF Inv, ArchivesOK, ArchivesOpen, Published
  <1> QED BY <1>1, InvAlways, PTL

\* An installation that nothing keeps from starting has the database of its key,
\* and after a restore every image, wherever the restores before were killed
\* (the order of restore_backup's installs and its marker), as long as no restore
\* is marked between the checks and the write of a KeyStore.initialize: a write
\* that comes later replaces the wrapped key of a finished restore.
THEOREM UsableInstallationsAreWhole == Apart => (Spec => []UsableIsWhole)
  <1>1. Inv => UsableIsWhole
    <2> SUFFICES ASSUME Inv, key_file # None, rotation = None
                 PROVE  /\ ~database.exists => \A b \in Backups : archives[b].envelope # key_file
                        /\ database.exists /\ ~Plaintext => database.key = key_file
                        /\ machine > 0 => \A a \in database.rows : Readable(a)
      BY DEF UsableIsWhole
    <2>1. ~database.exists => \A b \in Backups : archives[b].envelope # key_file
      <3> SUFFICES ASSUME ~database.exists, NEW b \in Backups PROVE archives[b].envelope # key_file
        OBVIOUS
      <3>1. CASE Published(b)
        BY <3>1 DEF Inv, Disk, Wrapped
      <3>2. CASE ~Published(b)
        BY <3>2 DEF Published, NoArchive
      <3> QED BY <3>1, <3>2
    <2> QED BY <2>1 DEF Inv, Disk, Wrapped
  <1> QED BY <1>1, InvAlways, PTL

\* A backend that serves has migrated everything, after any number of stops in
\* between: no plaintext database, image or temporary file is left, and its
\* asset key opens what is there (create_app, migrate_assets), under Apart.
THEOREM ServingLeavesNoPlaintext == Apart => (Spec => []ServingIsEncrypted)
  <1>1. Inv => ServingIsEncrypted
    <2> SUFFICES ASSUME Inv, At("serving") PROVE ServingIsEncrypted
      BY DEF ServingIsEncrypted
    <2>1. /\ key_file = backend.key /\ key_file # None /\ rotation = None
          /\ database.exists /\ ~Plaintext
      BY HasKey
    <2>2. database.key = backend.key
      BY <2>1 DEF Inv, Disk, Wrapped
    <2>3. temps = {} /\ \A a \in Assets : legacy[a] = None /\ target[a] \in {None, database.aek}
      BY <2>1 DEF Inv, Started, Disk, Files
    <2> QED BY <2>2, <2>3 DEF ServingIsEncrypted
  <1> QED BY <1>1, InvAlways, PTL

-----------------------------------------------------------------------------
\* What a step short of losing the machine keeps.
Kept ==
  /\ database'.exists /\ database'.version >= database.version
  /\ \A a \in database.rows \cap database'.rows : Readable(a) => Readable(a)'

LEMMA UntouchedIsKept ==
  ASSUME Inv, database.exists, UNCHANGED <<database, legacy>>,
         \A a \in Assets : target[a] # None => target'[a] = target[a]
  PROVE  Kept
  <1>1. database.version \in Nat /\ database.rows \subseteq Assets
    BY DEF Inv, TypeOK, Db
  <1>2. \A a \in Assets : Readable(a) => Readable(a)'
    BY DEF Readable
  <1> QED BY <1>1, <1>2 DEF Kept

LEMMA JobsKeep ==
  ASSUME Inv, database.exists, NEW j \in Jobs, JobStep(j)
  PROVE  Kept
  <1>1. CASE \E a \in Assets : InstallImage(j, a)
    <2>1. UNCHANGED <<database, legacy>> /\ \A a \in Assets : target[a] # None => target'[a] = target[a]
      BY <1>1 DEF InstallImage, Inv, TypeOK
    <2> QED BY <2>1, UntouchedIsKept
  <1>2. CASE ~\E a \in Assets : InstallImage(j, a)
    <2>1. UNCHANGED <<database, legacy, target>>
      BY <1>2 DEF JobStep, UnlockForBackup, Snapshot, Verify, Publish, ReadImage, Recheck, Mark, Lock,
                  CheckTargets, InstallDatabase, InstallKey, Release, FinishRestore, disk
    <2> QED BY <2>1, UntouchedIsKept
  <1> QED BY <1>1, <1>2

LEMMA MayBeginKeeps ==
  ASSUME Inv, database.exists, MayBegin
  PROVE  Kept
  <1>1. UNCHANGED <<database, legacy, target>>
    BY DEF MayBegin, BeginInitialize, BeginStart, BeginRotate, BeginRecovery, Begin, disk
  <1> QED BY <1>1, UntouchedIsKept

\* A rotation changes the key of the database and nothing in it.
LEMMA RotationKeeps ==
  ASSUME Inv, RotateDatabase
  PROVE  Kept
  <1>1. database \in Db /\ database.exists
    BY DEF Inv, TypeOK, RotateDatabase
  <1>2. /\ database'.exists /\ database'.version = database.version /\ database'.rows = database.rows
        /\ database'.aek = database.aek /\ UNCHANGED <<target, legacy>> /\ database.version \in Nat
    BY <1>1 DEF RotateDatabase, Db
  <1> QED BY <1>2 DEF Kept, Readable

\* The plaintext database is only replaced by a candidate of its last commit.
LEMMA ReplacingKeeps ==
  ASSUME Inv, Offline, ReplacePlaintext
  PROVE  Kept
  <1>1. /\ At("compared") /\ database' = backend.candidate /\ UNCHANGED <<target, legacy>>
    BY DEF ReplacePlaintext
  <1>2. /\ database'.exists /\ database'.version = database.version /\ database'.rows = database.rows
        /\ database'.aek = database.aek
    BY <1>1 DEF Inv, Started, At
  <1>3. database.version \in Nat
    BY DEF Inv, TypeOK, Db
  <1> QED BY <1>1, <1>2, <1>3 DEF Kept, Readable

LEMMA LoadingKeeps ==
  ASSUME Inv, LoadAssetKey
  PROVE  Kept
  <1>1. database.exists /\ database \in Db
    BY DEF Inv, TypeOK, Started, LoadAssetKey, At
  <1>2. CASE database' = database
    <2>1. UNCHANGED <<database, legacy, target>>
      BY <1>2 DEF LoadAssetKey
    <2> QED BY <1>1, <2>1, UntouchedIsKept
  <1>3. CASE database.aek = None /\ database' = [database EXCEPT !.aek = FreshKey]
    <2>1. /\ database'.exists /\ database'.version = database.version /\ database'.rows = database.rows
          /\ database.version \in Nat
      BY <1>1, <1>3 DEF Db
    <2>2. \A a \in Assets : Readable(a) => Readable(a)'
      BY <1>3 DEF LoadAssetKey, Readable
    <2>3. database.rows \subseteq Assets
      BY <1>1 DEF Db
    <2> QED BY <2>1, <2>2, <2>3 DEF Kept
  <1> QED BY <1>2, <1>3 DEF LoadAssetKey

\* Steps that write or remove the files of one image: a row's stays readable.
LEMMA FilesKeep ==
  ASSUME Inv, NEW a \in Assets, ReplaceLegacy(a) \/ RenameLegacy(a) \/ StoreFile(a) \/ RemoveFile(a)
  PROVE  Kept
  <1>1. /\ UNCHANGED database /\ database.exists /\ database.aek # None
    BY HasKey DEF ReplaceLegacy, RenameLegacy, StoreFile, RemoveFile, Migrating
  <1>2. database.version \in Nat /\ database.rows \subseteq Assets
    BY DEF Inv, TypeOK, Db
  <1>3. \A c \in database.rows : Readable(c) => Readable(c)'
    <2> SUFFICES ASSUME NEW c \in database.rows, Readable(c) PROVE Readable(c)'
      OBVIOUS
    <2>1. CASE c # a
      <3>1. target'[c] = target[c] /\ legacy'[c] = legacy[c]
        BY <1>2, <2>1 DEF ReplaceLegacy, RenameLegacy, StoreFile, RemoveFile, Inv, TypeOK
      <3> QED BY <1>1, <3>1 DEF Readable
    <2>2. CASE c = a
      <3>1. target'[a] = database.aek \/ legacy'[a] = database.aek
        BY <1>1, <1>2, <2>2 DEF ReplaceLegacy, RenameLegacy, StoreFile, RemoveFile, Inv, TypeOK
      <3> QED BY <1>1, <2>2, <3>1 DEF Readable
    <2> QED BY <2>1, <2>2
  <1> QED BY <1>1, <1>2, <1>3 DEF Kept

LEMMA WritesKeep ==
  ASSUME Inv, database.exists, LegacyWrite \/ \E a \in Assets : CommitRow(a) \/ DeleteRow(a)
  PROVE  Kept
  <1>1. database \in Db
    BY DEF Inv, TypeOK
  <1>2. /\ database'.exists = database.exists /\ database'.version = database.version + 1
        /\ database'.aek = database.aek /\ UNCHANGED <<target, legacy>>
    BY <1>1 DEF LegacyWrite, CommitRow, DeleteRow, Db
  <1>3. database.version \in Nat
    BY <1>1 DEF Db
  <1> QED BY <1>2, <1>3 DEF Kept, Readable

LEMMA RunningKeeps ==
  ASSUME Inv, Offline, database.exists, Running
  PROVE  Kept
  <1>1. CASE ReplacePlaintext
    BY <1>1, ReplacingKeeps
  <1>2. CASE LoadAssetKey
    BY <1>2, LoadingKeeps
  <1>3. CASE LegacyWrite \/ \E a \in Assets : CommitRow(a) \/ DeleteRow(a)
    BY <1>3, WritesKeep
  <1>4. CASE \E a \in Assets : ReplaceLegacy(a) \/ RenameLegacy(a) \/ StoreFile(a) \/ RemoveFile(a)
    BY <1>4, FilesKeep
  <1>6. CASE RotateDatabase
    BY <1>6, RotationKeeps
  <1>7. CASE \/ WriteEnvelope \/ RotateStart \/ RotateBusy \/ FinalizeEnvelope \/ RemoveJournal \/ Unlock
    <2>1. UNCHANGED <<database, legacy, target>>
      BY <1>7 DEF WriteEnvelope, RotateStart, RotateBusy, FinalizeEnvelope, RemoveJournal, Unlock, disk
    <2> QED BY <2>1, UntouchedIsKept
  <1>5. CASE \/ OpenDatabase \/ ExportPlaintext \/ CompareSource \/ Serve \/ Stop
             \/ \E a \in Assets : CheckAsset(a) \/ WriteCiphertext(a)
    <2>1. UNCHANGED <<database, legacy, target>>
      BY <1>5 DEF OpenDatabase, ExportPlaintext, CompareSource, Serve, Stop, CheckAsset, WriteCiphertext, disk
    <2> QED BY <2>1, UntouchedIsKept
  <1> QED BY <1>1, <1>2, <1>3, <1>4, <1>5, <1>6, <1>7 DEF Running

\* While the obsolete release is offline for the replacement of its database, and
\* under Apart, no start, migration, rotation, backup or restore, killed anywhere,
\* takes a commit back or makes the image of a row unreadable; only losing the
\* machine does.
THEOREM NothingIsLost == Apart /\ Offline => (Spec => NothingLost)
  <1> SUFFICES ASSUME Apart, Offline PROVE Spec => NothingLost
    OBVIOUS
  <1>1. Inv /\ [Next]_vars =>
          [ machine' = machine /\ database.exists =>
              /\ database'.exists /\ database'.version >= database.version
              /\ \A a \in database.rows \cap database'.rows : Readable(a) => Readable(a)' ]_vars
    <2> SUFFICES ASSUME Inv, Next, machine' = machine, database.exists PROVE Kept
      BY DEF Kept
    <2>1. CASE MayBegin
      BY <2>1, MayBeginKeeps
    <2>2. CASE Running
      BY <2>2, RunningKeeps
    <2>3. ASSUME NEW j \in Jobs, JobStep(j) PROVE Kept
      BY <2>3, JobsKeep
    <2>4. CASE \E j \in Jobs : Kill(j) \/ \E b \in Backups : BeginBackup(j, b) \/ StartRestore(j, b)
      <3>1. UNCHANGED <<database, legacy, target>>
        BY <2>4 DEF Kill, BeginBackup, StartRestore, disk
      <3> QED BY <3>1, UntouchedIsKept
    <2>5. ~LoseMachine
      BY DEF LoseMachine, Inv, TypeOK
    <2> QED BY <2>1, <2>2, <2>3, <2>4, <2>5 DEF Next
  <1> QED BY <1>1, InvAlways, PTL DEF Spec, NothingLost
=============================================================================
