---------------------------- MODULE Installation ----------------------------
(***************************************************************************)
(* What an installation keeps on disk (the database, the wrapped database  *)
(* key, the image files) and the start of the backend on it: unlock, open  *)
(* or create the database, encrypt a plaintext one, load or create the     *)
(* asset key, encrypt legacy images (runtime/serve.py, backend/app.py,     *)
(* backend/database.py, asset_keys.py, asset_migration.py); and keyctl     *)
(* init and rotate-db-key, which KeyStore models in more detail.  Of these *)
(* one process runs at a time; it may stop or be killed between any two    *)
(* steps.  The obsolete release may still write a plaintext database.      *)
(*                                                                         *)
(* A definition named M_X is a faulty variant of the definition X that     *)
(* follows it; no behaviour of the specification uses one.                 *)
(***************************************************************************)
EXTENDS Naturals, FiniteSets

CONSTANTS
  Assets,      \* UUIDs of images
  Keys,        \* database keys and asset keys, all random
  None,        \* no key, no file, no archive
  Png,         \* a legacy image file: plaintext
  Offline,     \* TRUE: the obsolete release is stopped while its database is replaced
  MaxVersion   \* bound on the commits to the database

ASSUME InstallationAssumption ==
  /\ None \notin Keys /\ Png \notin Keys \cup {None}
  /\ Offline \in BOOLEAN /\ MaxVersion \in Nat

VARIABLES
  database,  \* the database file: its key (None: plaintext), rows, asset key, commits
  key_file,  \* the database key that the envelope wraps
  rotation,  \* the new key of a pending rotation
  target,    \* the file <asset>.asset: the key of its ciphertext
  legacy,    \* the file <asset>.png: Png, or the key of a ciphertext
  temps,     \* assets with an abandoned .tmp file
  known,     \* the UUIDs and the keys drawn so far
  backend    \* the process that has or manages the key: the backend or keyctl

disk == <<database, key_file, rotation, target, legacy, temps>>

NoDatabase == [exists |-> FALSE, key |-> None, rows |-> {}, aek |-> None, version |-> 0]
Stopped == [pc |-> "stopped", key |-> None, candidate |-> NoDatabase, pending |-> {}, written |-> {}]

Plaintext == database.exists /\ database.key = None
At(label) == backend.pc = label
Goto(label) == backend' = [backend EXCEPT !.pc = label]
Draw(x) == x \notin known /\ known' = known \cup {x}
\* A random key is a fresh one; which one makes no difference.
FreshKey == CHOOSE k \in Keys : k \notin known
DrawKey == ~(Keys \subseteq known) /\ Draw(FreshKey)

\* A new machine, or the data of the obsolete release.
EmptyDisk ==
  /\ database = NoDatabase /\ key_file = None /\ rotation = None
  /\ target = [a \in Assets |-> None] /\ legacy = [a \in Assets |-> None] /\ temps = {}

LegacyDisk ==
  /\ key_file = None /\ rotation = None
  /\ \E a \in Assets, found \in SUBSET Assets :
       /\ database = [NoDatabase EXCEPT !.exists = TRUE, !.rows = {a}]
       /\ legacy = [b \in Assets |-> IF b \in found THEN Png ELSE None]
  /\ target = [a \in Assets |-> None] /\ temps = {}

InitInstallation ==
  /\ EmptyDisk \/ LegacyDisk
  /\ known = { a \in Assets : a \in database.rows \/ legacy[a] # None }
  /\ backend = Stopped

-----------------------------------------------------------------------------
(***************************************************************************)
(* Keys.  Every operation looks for the marker of a restore, the envelope  *)
(* and the journal when it begins; the key derivation follows, and what it *)
(* then reads or replaces is whatever is there by that time.               *)
(***************************************************************************)
Begin(label) ==
  /\ At("stopped")
  /\ backend' = [Stopped EXCEPT !.pc = label]
  /\ UNCHANGED <<disk, known>>

\* KeyStore.initialize: refused beside an envelope or an encrypted database.
BeginInitialize ==
  /\ At("stopped") /\ key_file = None /\ rotation = None
  /\ database.exists => Plaintext
  /\ DrawKey /\ backend' = [Stopped EXCEPT !.pc = "initializing", !.key = FreshKey]
  /\ UNCHANGED disk

\* atomic_write_private: os.replace, over an envelope that has come since.
WriteEnvelope ==
  /\ At("initializing")
  /\ key_file' = backend.key
  /\ backend' = Stopped
  /\ UNCHANGED <<database, rotation, target, legacy, temps, known>>

\* The start of the backend, and keyctl rotate-db-key, without a journal ...
BeginStart == rotation = None /\ Begin("starting")
BeginRotate == rotation = None /\ Begin("rotating")

\* ... and with one: the key that opens the database is selected first.
BeginRecovery ==
  /\ At("stopped") /\ rotation # None
  /\ database.exists /\ ~Plaintext /\ database.key \in {key_file, rotation}
  /\ backend' = [Stopped EXCEPT !.pc = "recovering", !.key = database.key]
  /\ UNCHANGED <<disk, known>>

\* Both keys go into the journal before the database is looked at.
RotateStart ==
  /\ At("rotating") /\ key_file # None
  /\ DrawKey /\ rotation' = FreshKey
  /\ backend' = [backend EXCEPT !.pc = "prepared", !.key = FreshKey]
  /\ UNCHANGED <<database, key_file, target, legacy, temps>>

RotateDatabase ==
  /\ At("prepared") /\ database.exists /\ ~Plaintext /\ database.key = key_file
  /\ database' = [database EXCEPT !.key = rotation]
  /\ Goto("replaced")
  /\ UNCHANGED <<key_file, rotation, target, legacy, temps, known>>

\* The database is busy: the rotation is withdrawn.
RotateBusy ==
  /\ At("prepared")
  /\ rotation' = None
  /\ backend' = Stopped
  /\ UNCHANGED <<database, key_file, target, legacy, temps, known>>

\* The envelope of the new key, or of the one that a recovery has selected.
FinalizeEnvelope ==
  /\ backend.pc \in {"replaced", "recovering"}
  /\ key_file' = backend.key
  /\ Goto(IF At("replaced") THEN "rotated" ELSE "recovered")
  /\ UNCHANGED <<database, rotation, target, legacy, temps, known>>

\* The journal goes last; a start or a rotation that had to recover goes on.
RemoveJournal ==
  /\ \/ At("rotated") /\ backend' = Stopped
     \/ At("recovered") /\ \E label \in {"starting", "rotating"} :
                             backend' = [Stopped EXCEPT !.pc = label]
  /\ rotation' = None
  /\ UNCHANGED <<database, key_file, target, legacy, temps, known>>

\* _unlock_material; without an envelope there is nothing to unlock.
Unlock ==
  /\ At("starting") /\ key_file # None
  /\ backend' = [Stopped EXCEPT !.pc = "unlocked", !.key = key_file]
  /\ UNCHANGED <<disk, known>>

-----------------------------------------------------------------------------
(***************************************************************************)
(* Database.from_url: create, open, or migrate a plaintext database.       *)
(***************************************************************************)
OpenDatabase ==
  /\ At("unlocked") /\ ~Plaintext
  /\ database' = IF database.exists THEN database
                 ELSE [NoDatabase EXCEPT !.exists = TRUE, !.key = backend.key]
  /\ IF database'.key = backend.key THEN Goto("opened") ELSE backend' = Stopped
  /\ UNCHANGED <<key_file, rotation, target, legacy, temps, known>>

\* The export under BEGIN EXCLUSIVE, verified, with the fingerprint of its
\* source: what the candidate holds is the commit it was taken at.
ExportPlaintext ==
  /\ At("unlocked") /\ Plaintext
  /\ backend' = [backend EXCEPT !.pc = "exported", !.candidate = [database EXCEPT !.key = backend.key]]
  /\ UNCHANGED <<disk, known>>

\* The fingerprint again: a source that changed keeps its place.
M_CompareSource ==
  /\ At("exported")
  /\ Goto("compared")
  /\ UNCHANGED <<disk, known>>
CompareSource ==
  /\ At("exported")
  /\ IF database.version = backend.candidate.version THEN Goto("compared") ELSE backend' = Stopped
  /\ UNCHANGED <<disk, known>>

ReplacePlaintext ==
  /\ At("compared")
  /\ database' = backend.candidate
  /\ backend' = [backend EXCEPT !.pc = "opened", !.candidate = NoDatabase]
  /\ UNCHANGED <<key_file, rotation, target, legacy, temps, known>>

\* The obsolete release commits to the plaintext database.
LegacyWrite ==
  /\ Plaintext /\ database.version < MaxVersion
  /\ Offline => ~At("compared")
  /\ database' = [database EXCEPT !.version = @ + 1]
  /\ UNCHANGED <<key_file, rotation, target, legacy, temps, known, backend>>

-----------------------------------------------------------------------------
(***************************************************************************)
(* load_asset_key and migrate_assets.                                      *)
(***************************************************************************)
\* assert_key_creation_safe: no artifact of an earlier asset key.
KeyCreationSafe ==
  /\ \A a \in Assets : target[a] = None /\ legacy[a] \in {None, Png}
  /\ temps = {}

\* The singleton row is committed before any file is touched.
LoadAssetKey ==
  /\ At("opened")
  /\ \/ /\ database.aek # None
        /\ UNCHANGED <<database, known>>
     \/ /\ database.aek = None /\ KeyCreationSafe
        /\ DrawKey /\ database' = [database EXCEPT !.aek = FreshKey]
  /\ backend' = [backend EXCEPT !.pc = "migrating", !.pending =
       database.rows \cup { a \in Assets : target[a] # None \/ legacy[a] # None }]
  /\ UNCHANGED <<key_file, rotation, target, legacy, temps>>

Migrating(a) == At("migrating") /\ a \in backend.pending
Migrated(a) == backend' = [backend EXCEPT !.pending = @ \ {a}, !.written = @ \ {a}]

\* A file in its final form is authenticated; a missing one stays missing.
\* Start-up also refuses two files for one image and a ciphertext of another
\* key, which no step of this system produces.
CheckAsset(a) ==
  /\ Migrating(a) /\ legacy[a] = None /\ target[a] \in {None, database.aek}
  /\ Migrated(a)
  /\ UNCHANGED <<disk, known>>

\* Ciphertext to a temporary file, over the old name, then to the new name.
WriteCiphertext(a) ==
  /\ Migrating(a) /\ legacy[a] = Png /\ target[a] = None /\ a \notin backend.written
  /\ backend' = [backend EXCEPT !.written = @ \cup {a}]
  /\ UNCHANGED <<disk, known>>

ReplaceLegacy(a) ==
  /\ Migrating(a) /\ legacy[a] = Png /\ a \in backend.written
  /\ legacy' = [legacy EXCEPT ![a] = database.aek]
  /\ backend' = [backend EXCEPT !.written = @ \ {a}]
  /\ UNCHANGED <<database, key_file, rotation, target, temps, known>>

RenameLegacy(a) ==
  /\ Migrating(a) /\ legacy[a] = database.aek /\ target[a] = None
  /\ legacy' = [legacy EXCEPT ![a] = None]
  /\ target' = [target EXCEPT ![a] = legacy[a]]
  /\ Migrated(a)
  /\ UNCHANGED <<database, key_file, rotation, temps, known>>

\* clean_interrupted_temps, and the backend serves.
M_Serve ==
  /\ At("migrating")
  /\ temps' = {}
  /\ Goto("serving")
  /\ UNCHANGED <<database, key_file, rotation, target, legacy, known>>
Serve ==
  /\ At("migrating") /\ backend.pending = {}
  /\ temps' = {}
  /\ Goto("serving")
  /\ UNCHANGED <<database, key_file, rotation, target, legacy, known>>

\* The process is stopped or dies; a temporary file it was writing stays.
Stop ==
  /\ ~At("stopped")
  /\ backend' = Stopped
  /\ temps' = temps \cup backend.written
  /\ UNCHANGED <<database, key_file, rotation, target, legacy, known>>

-----------------------------------------------------------------------------
(***************************************************************************)
(* Uploads and deletions while it serves (AssetStore has the detail): the  *)
(* file is there before its row and until after it.                        *)
(***************************************************************************)
StoreFile(a) ==
  /\ At("serving") /\ Draw(a)
  /\ target' = [target EXCEPT ![a] = database.aek]
  /\ UNCHANGED <<database, key_file, rotation, legacy, temps, backend>>

CommitRow(a) ==
  /\ At("serving") /\ target[a] # None /\ a \notin database.rows
  /\ database.version < MaxVersion
  /\ database' = [database EXCEPT !.rows = @ \cup {a}, !.version = @ + 1]
  /\ UNCHANGED <<key_file, rotation, target, legacy, temps, known, backend>>

DeleteRow(a) ==
  /\ At("serving") /\ a \in database.rows /\ database.version < MaxVersion
  /\ database' = [database EXCEPT !.rows = @ \ {a}, !.version = @ + 1]
  /\ UNCHANGED <<key_file, rotation, target, legacy, temps, known, backend>>

RemoveFile(a) ==
  /\ At("serving") /\ a \notin database.rows /\ target[a] # None
  /\ target' = [target EXCEPT ![a] = None]
  /\ UNCHANGED <<database, key_file, rotation, legacy, temps, known, backend>>

\* What require_no_restore refuses while a restore is pending, and every other
\* step of key management, of the backend and of the obsolete release.
MayBegin == BeginInitialize \/ BeginStart \/ BeginRotate \/ BeginRecovery

Running ==
  \/ WriteEnvelope \/ RotateStart \/ RotateDatabase \/ RotateBusy
  \/ FinalizeEnvelope \/ RemoveJournal \/ Unlock
  \/ OpenDatabase \/ ExportPlaintext \/ CompareSource \/ ReplacePlaintext \/ LegacyWrite
  \/ LoadAssetKey \/ Serve \/ Stop
  \/ \E a \in Assets :
       \/ CheckAsset(a) \/ WriteCiphertext(a) \/ ReplaceLegacy(a) \/ RenameLegacy(a)
       \/ StoreFile(a) \/ CommitRow(a) \/ DeleteRow(a) \/ RemoveFile(a)
=============================================================================
