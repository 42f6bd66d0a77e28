# AmitAI in TLA+

This directory holds formal models of AmitAI: a local chat application with a
FastAPI backend, an encrypted SQLite store, saved memory, uploaded images, a
streaming chat protocol, local and remote inference, backups and a key store that
can rotate the database key. Each model is a TLA+ module translated from the Python source; TLC checks it on small
instances and TLAPS checks the proofs. Paths below are relative to the
repository root.

`PROJECT.json` records the details: which source lines each definition models
(`map`), what each run checks (`runs`), a plausible fault of the code for each
property under which the property fails (`mutants`), what the code is exposed to
(`hazards`) and the results that are proved (`theorems`).

## 1. The system

### Components

| Component | Source | State it keeps | Operations |
|---|---|---|---|
| Key store | `runtime/key_store.py`, `runtime/keyctl.py` | envelope file, rotation journal, restore marker | initialize, import, unlock, change passphrase, rotate, recover |
| Encrypted database | `backend/database.py` | SQLCipher file, rotation candidate, migration candidate | open, migrate plaintext, rotate |
| Saved memory | `backend/memory.py`, `backend/repositories.py` | `memory_slots`, `memory_revisions`, references in message metadata | stage and apply create, update, delete; retrieve |
| Streamed chat | `backend/app.py`, `backend/chat_service.py`, `backend/streaming.py` | gate, executor, event queue, cancel event per request | acquire, produce, relay, persist, close |
| Uploaded images | `backend/assets.py`, `backend/asset_storage.py` | `uploaded_assets`, `message_assets`, encrypted files | upload, attach, delete, expire, sweep |
| Asset key and legacy images | `backend/asset_keys.py`, `backend/asset_migration.py` | asset key file, `.png` and `.aasset` files | create key, migrate, rename |
| Conversations | `backend/app.py`, `backend/repositories.py` | conversations and messages | create, rename, list, delete, unstreamed chat |
| Inference service | `runtime/inference_app.py`, `runtime/vision_api.py`, `backend/streaming.py` | worker thread, bounded queue, end marker | stream a generation out of a worker |
| Inference providers | `runtime/providers.py`, `runtime/remote_transport.py` | engine state, initialization and generation locks; remote event stream | load, generate, stream, parse |
| Generation | `runtime/generator.py`, `runtime/context.py`, `runtime/tooling.py`, `runtime/calculator.py`, `evaluation/constraints.py` | rounds of one generation | history window, tool loop, calculator, validator retries |
| Backup and restore | `runtime/backup.py`, `runtime/backup_archive.py` | archive, restore marker, installed files | back up, validate, restore, resume |
| Frontend | `frontend/components/AmitaiApp.tsx`, `frontend/lib/*.ts` | owner of the running stream, messages on screen | send, stop, switch conversation |
| Evaluation | `evaluation/text_quality_storage.py` and others | manifest, run lock, JSONL of results | run, resume, repair a torn tail |
| Training data | `training/*.py` | files | prepare, validate, train |
| Start-up | `scripts/startup.py`, `runtime/serve.py`, `runtime/config.py` | child processes | start, supervise, stop |
| Secrets in memory, local authentication | `backend/secure_memory.py`, `backend/security.py` | key buffers | lock, wipe, compare |

### How they interact

* `runtime/serve.py` unlocks the key store and hands the key to
  `Database.from_url`, which opens the SQLCipher file, creates it, or migrates a
  plaintext one. Key management (`runtime/keyctl.py`) and restore run as
  processes of their own on the same files; nothing but the files and an
  operator's care connects them.
* A streamed chat passes through three threads: the event loop (event source,
  gate), the executor's thread (`produce`, `ChatService.stream_chat`) and, with a
  remote model, the worker behind `stream_in_worker`. They share a queue and a
  cancel event.
* A chat may carry a memory command and images. It stages both before it
  generates, and applies both in the one transaction of `_persist_chat` at its
  end, minutes later; REST calls and other chats commit in between.
* An image is a row and a file. No transaction spans the two, and a periodic
  cleanup works on both beside the requests.
* The frontend owns at most one stream and drops what an abandoned one still
  delivers.

### What is hard about it

| Behaviour | Where |
|---|---|
| a crash between two file replacements, and inside the recovery from it | key store, database, restore, asset migration |
| state read before a long generation or outside the write lock and used after it | memory, images, concurrent turns |
| a client that leaves while a thread still works for it | streamed chat, inference service |
| a one-place resource released by one of two parties | gate, generation lock |
| bytes and rows that have to agree with no transaction over both | images |
| queues with an end marker, bounded or not | streamed chat, inference service |
| something that must happen in the end: recovery, cleanup, the end of a stream | key store, images, streams |

### What makes each component correct

* **Key store.** No crash leaves the database under a key that no file holds; the
  passphrase of the envelope opens the journal; a pending rotation ends; a
  rotation loses no committed row; serve gets the key of the database.
* **Memory.** Each request acts on the fact that is current when it commits,
  although it was staged earlier; what was forgotten stays redacted; nothing
  becomes visible to remote inference unless a request says so.
* **Streamed chat.** One producer at a time and no lost gate; a client is told of
  success only after the commit and of an error only without one; a turn
  cancelled before its commit is not saved; every stream ends.
* **Images.** A row has its file; an image belongs to one conversation; the
  cleanup takes only what nobody attached; no bytes linger.
* **Inference service.** The consumer gets every item in order, then the failure
  or the end; neither side waits for ever; the worker has ended when the stream
  is closed.
* **Providers.** The engine is loaded at most once at a time; generations do not
  overlap; a failed load may be tried again.
* **Restore.** A resumed restore finishes exactly the archive that was begun and
  overwrites nothing else; the key is installed last.
* **Generation.** The history window is the longest suffix that fits; nothing of a
  tool call is ever shown, however it is streamed; an answer meets the constraints
  it claims to meet; the calculator tells the model what an expression means.
* **Frontend.** What an abandoned stream delivers never changes what another
  conversation shows.
* **Evaluation.** A resumed run repeats no result, and drops only a torn tail.

## 2. Plan

The order puts first what loses data when it goes wrong.

| | Module | Abstract specification | Status |
|---|---|---|---|
| 1 | `KeyStore` | - | checked, safety proved |
| 2 | `MemoryStore` over `MemoryBook` | `MemoryBook`, implemented by refinement | checked, proved |
| 3 | `ChatStream` | - | checked, safety proved |
| 4 | `AssetStore` | - | checked, safety proved |
| 5 | `LocalProvider` | - | checked, safety proved |
| 6 | `InferenceStream`, composed with `LocalProvider` | - | checked, safety proved |
| 7 | `RemoteProvider`, composed with `InferenceStream` | `InferenceStream`, implemented | checked, safety proved |
| 8 | `BackupRestore` over `Installation` | - | checked, safety proved |
| 9 | `Generation` over `ToolProtocol`, `Calculator` and `ResponseConstraints` | reference definitions of the window, the visible text, the claims, the meaning of an expression | checked, safety proved |
| 10 | `ChatClient` | - | checked, safety proved |
| 11 | `QualityRun` over `CaseLog` | `CaseLog`, implemented by refinement | checked, proved |

How the modules compose:

* `MemoryStore` implements `MemoryBook` through
  `Book == INSTANCE MemoryBook WITH book <- ...`, and `QualityRun` implements
  `CaseLog` in the same way.
* `InferenceStream` extends `LocalProvider`: its worker thread drives the
  generator of the provider, and the two share the cancel event.
* `RemoteProvider` extends `InferenceStream` with the client on the other
  machine and the connection in between. Every step of the service is a step of
  `InferenceStream`, so one run checks the properties of both.
* `BackupRestore` extends `Installation`: the backup and restore commands work on
  the files that the backend, the rotation and the obsolete release work on.
  `Installation` has of key management what these can see: when an operation
  begins, with its checks, and each file that it then replaces. `KeyStore` has the
  passphrases, the candidate, the phases of the journal, several processes at once
  and every step in between.
* `Generation` extends `ToolProtocol` and `ResponseConstraints`, and `ToolProtocol`
  extends `Calculator`: these three hold the pure algorithms.
* `ChatStream` and `MemoryStore` meet in one action, `PersistChat`: the former
  treats that transaction as committed or not, the latter says what it does to
  memory. `ChatClient` has of the server only what its answers tell the page.

## 3. The models

Every model is written at the level of the steps that others can observe: a file
that is replaced atomically is one variable and its replacement one step, a
transaction is one step or, when others see its lock, an open and a commit. A
definition `M_X` is a faulty variant of `X` used to test the properties; no
specification contains it.

### `KeyStore` (with `MCKeyStore`, `KeyStoreProofs`)

| Variable | Code |
|---|---|
| `envelope` | the key file: database key and the passphrase it is wrapped under |
| `journal` | the rotation journal: its phase, the old and the new key, the passphrase |
| `db` | the database file: the key that opens it (or plaintext, or none) and a revision that stands for its rows |
| `candidate` | the file that a rotation exports into |
| `restore` | the restore marker with the contents of its archive |
| `used` | keys drawn by `secrets.token_bytes`; a drawn key never repeats |
| `op` | program counter and locals of the call that a process runs |

`Initialize`, `ImportExisting`, `ChangePassphrase` and `Unlock` start a call;
`RotateDatabaseKey` starts a rotation, which walks through `RotatePrepare` (the
journal), `RotateAttach`, `RotateExport`, `RotateVerify` (the fingerprint of the
source), `RotateReplace`, `RotateConfirm`, `RotateEnvelope`, `RotateFinalize`
and `RotateDone`. A pending journal sends `Unlock` and `RotateDatabaseKey`
through `RecoverRead`, `RecoverSelect`, `RecoverEnvelope`, `RecoverClean` and
`RecoverDone`. `Crash` ends a call anywhere. `LateWrite` is a commit by a server
that was left running. The `Restore...` actions install database and key in the
order of `restore_backup`. Key derivation, wrapping and the formats of the files
are abstract: a key opens exactly what was encrypted under it.

### `MemoryBook` and `MemoryStore` (with `MCMemoryStore`, `RefinementProofs`)

`MemoryBook` is what a caller relies on: a map from keys to facts, on which each
request acts at once. `MemoryStore` has the two tables (`slots`, `revisions`),
the references in chat metadata (`metadata`), and for each client the staged
mutation with what it saw (`staged`). `StageChatCommand`, `StageCreate`,
`StageUpdate` and `StageDelete` read; `GetCurrentRevision` is the second read of
a patch that changes only the sensitivity; `Apply` writes if the slot is as it
was seen and `Conflict` refuses otherwise; `Abandon` is a request that is
cancelled. `Retrieve` and `PersistChat` are a turn that uses memory: the
references it commits carry no value. `served` is a history variable that names
the last committed request. The refinement maps a key to the value of its current
revision and its sensitivity, and a slot that is not active to the blank fact.

### `ChatStream` (with `MCChatStream`, `ChatProofs`)

Per request: `consumer` (the event source on the loop), `producer` (where the
executor's thread is in `produce` and `stream_chat`), `task`, `texts`, `cancel`,
the queue `events`, what the client received (`sent`); global: `gate` and
`persisted`. The label of a producer is a place where another thread can act: before
each `publish`, before the cancellation checks, at the transaction, at the
`close`. `Disconnect` closes the event source wherever it is suspended, and the
thread learns it only from `cancel`. A waiting request is any waiter: the code
cancels and restarts `acquire` for each keep-alive, which loses its place. A
`command` is a turn answered by an acknowledgment without a model, a `prompt` is
generated.

### `AssetStore` (with `MCAssetStore`, `AssetStoreProofs`)

`owner` and `links` are the committed rows, `files` the directory, `lock` the
holder of SQLite's write lock, `work` the program counter and locals of each
thread, `talks` the lives of conversations. `drawn` and `old` stand for time: a
UUID that was drawn is old after 24 hours, and with it its row and its file. A
SELECT sees the last commit and takes no lock; the first write of a transaction
takes it. `InsertAsset`, `WriteFile`, `CommitUpload` are an upload; `PrepareTurn`,
`BeginPersist`, `CommitTurn` an image turn; `SelectAssets`, `DeleteConversation`,
`RemoveFile` the deletion of a conversation; `SelectExpired`, `DeleteExpired`,
`StartSweep` the cleanup. A step that may fail has a disjunct guarded by `Fault`,
and `Crash` ends all threads.

### `LocalProvider` and `InferenceStream` (with `MCInferenceStream`, `RemoteProviderProofs`)

`LocalProvider` has the engine with its `initialization_state` and lock, the
generation lock, and for each caller where it is in the provider (`call`). A
caller is the thread of a stream, of an unstreamed generation, or of the preload
executor. `GetEngine`, `Initialize` and `Load` are `_get_engine`; `Acquire`,
`GiveUp` and `Release` are `_serialized_stream` around the streamed generation of
`evaluation/hf_backend.py` (`StartNative`, `Chunk`, `Finish`), whose native thread
(`native`) stops at the token after a cancellation and may otherwise run for
ever. The state lock is held only over single assignments and has no variable.

`InferenceStream` has, per stream, the worker thread (`worker`), the bounded
`queue`, the hand-over of `mark_finished` (`marked`), `finished`, whether
`failures` is empty (`failed`), the consumer with the way its loop ended
(`outcome`) and what it passed on (`got`). A put is the coroutine on the loop and
happens when there is room; `Drop` is the same put cancelled. A generator that
was resumed or closed continues in `LocalProvider` (`Resumed`). Chunks are
numbered, so that a lost or reordered one shows.

### `RemoteProvider` (with `RemoteProviderProofs`; `MCInferenceStream` instantiates it)

Per stream: `remote` (where the client's generator is, the deltas it yielded, the
text of the final event, its result), `cancelled` (the event of the chat turn),
`wire` (events sent and not read) and `link`, which is open, closed by the client,
or ended from the other side, cleanly or not. `Begin`, `Refused`, `Connected`,
`ReadEvent`, `ReadEnd`, `Take` and `GiveUpReading` are `_stream_request`;
`Interrupt` is its watcher thread, which shuts the socket down under a blocked
read. `Request`, `Send`, `Answer` and `Disconnected` are the actions of
`InferenceStream` that meet the connection, and `Cut` is the network: it may lose
the end of what was sent, and a proxy may end the response cleanly where the
service did not. Host pinning, the privacy guard and the encoding of images only
refuse a request before it is sent, which is one disjunct of `Begin`.

### `Installation` and `BackupRestore` (with `MCBackupRestore`, `BackupRestoreProofs`)

`Installation` is what is on disk (`database`, `key_file`, `rotation`, `target`
and `legacy` image files, `temps`), key management, and the start of the backend.
`BeginInitialize`, `BeginStart`, `BeginRotate` and `BeginRecovery` are the places
where the code looks for the marker of a restore (`require_no_restore`), for the
envelope and for the journal. It does that once and derives a key afterwards, so
what follows (`WriteEnvelope`; `RotateStart`, `RotateDatabase`, `FinalizeEnvelope`,
`RemoveJournal`; `Unlock`) has no guard on the marker and acts on whatever is there by
then. One process at a time has or manages the key (`backend`): two `keyctl init` at
once, which may overwrite each other's envelope in the same way, are left to
`KeyStore`, and so are `import-existing` and `change-passphrase`. The start is `Unlock`, `OpenDatabase`, the migration of a plaintext database (`ExportPlaintext`,
`CompareSource`, `ReplacePlaintext`), `LoadAssetKey`, the migration of legacy images
(`CheckAsset`, `WriteCiphertext`, `ReplaceLegacy`, `RenameLegacy`), `Serve`. A
backend that serves stores and deletes images; the obsolete release may write to
the plaintext database while it is being encrypted (`LegacyWrite`).

`BackupRestore` adds the restore `marker` with its `lock`, the published
`archives`, and per command its program counter and locals (`job`): the backup
steps `BeginBackup` ... `Publish`, and the restore steps `StartRestore`,
`Recheck`, `Mark`, `Lock`, `CheckTargets`, `InstallImage`, `InstallDatabase`,
`InstallKey`, `Release`, `FinishRestore`. `Kill` ends a command anywhere and
`LoseMachine` leaves only the archives. An archive is the parts it holds and
whether they belong together; a kill inside a write only leaves a staging
directory that nothing reads. The constant `Apart` is the one overlap of restore and
key management that the code does not survive: TRUE means that no restore is
marked while a `keyctl init` is between its checks and its write.

### `ToolProtocol`, `Calculator`, `ResponseConstraints` and `Generation` (with `MCGeneration`, `CalculatorProofs`, `GenerationProofs`)

A text is a sequence of tokens, fine enough that a chunk can end inside a tag of
the tool markup. `ToolProtocol` has the gate on the start of a response
(`Classify`), the filter of late envelopes (`Feed`, `Finish`, `Sanitize`) as the
code runs them, token by token, and the registry of tools (`IsEnvelope`,
`Execute`). `Calculator` has the only tool, with the limits of the code: the lexer,
the validator and the recursive descent parser. The methods of the last two are the
rules of one recursive function each, from a position and a nesting depth (and, for
the parser, the value of the left operand) to the position behind what was read, a
value, or the code of a failure; a loop is a rule that goes on from where it is
(`sum`, `product`, `percent`). Values are exact fractions, where the code rounds to
80 digits, and literals are natural numbers. A
literal of digits that `Decimal` does not take (a superscript two) is refused by the
model's lexer; the code refuses it with the same code, but only in the parser
(`runtime/calculator.py:188`), where another failure may come first. `ResponseConstraints` has
`parse_constraints`, the validators, the checks on a repair and the article repair.

`Generation` is one turn: `Compile` (the history window), `Guard` (an answer
without the model), `ModelWrites` with `StreamEnds` or `BufferEnds`, and for a
constrained request `FirstAnswer` and `Retry`. A tool call is `UseTool`, which uses
up an attempt and leaves in `tool` what the model is told, and `AskAgain`, the next
round. `Broken` is a failing provider or a cancellation. What the model writes is
any sequence of the chunks of the instance, and an envelope asks for any of its
payloads. Beside each algorithm stands the definition it is compared with:
`Visible` cuts the envelopes out of a whole text, `OnlyArticlesDeleted` quantifies
over the deleted words, `Meaning` splits an expression at the operator that binds
least.

### `ChatClient` (with `MCChatClient`, `ChatProofs`)

One mount of the chat page. Its React state and refs keep their names (`selected`,
`detail`, `pending`, `failed`, `streaming`, `owner`, `committed`, `loading`,
`sidebar`). A call in flight is a slot of `call`: the server serves it at some time
(`Serve`, `Commit`) or it is lost (`Lose`), and the answer arrives later
(`LoadEnds`, `Listed`, `RefreshEnds`, `HistoryEnds`, `DeleteEnds`, `RenameEnds`,
`Text`, `Final`, `Done`, `Break`, `Settle`), with any action of the user in
between. `conversationRequestRef` is a counter that is only compared with its
newest value, so a call carries `fresh` instead. `told` and `overlapped` are
history variables of the properties. Drafts, images, the memory view and the
framing of events are left out.

### `CaseLog` and `QualityRun` (with `MCQualityRun`, `RefinementProofs`)

`CaseLog` is what the directory of a benchmark run promises: an append-only log of
the cases in order, by one revision of the code. `QualityRun` has the files of the
directory (`manifest`, `results` as tokens, `summary`), the lock and the
invocations. A row is written token by token and a kill leaves any prefix of it,
so the resume meets torn tails, rows that only lack their newline, and rows that
were appended but not summarized. The refinement maps the files to the log that a
reader would find in them.

## 4. The runs

| Run | Instance | Shows |
|---|---|---|
| `key_store` | 3 keys, 2 passphrases, 1 process, 1 foreign write | no crash strands the database; recovery ends |
| `key_store_race` | 2 keys, 2 passphrases, 2 processes | a finding, see below |
| `memory_store` | 1 key, 2 values, 2 clients, 4 revisions | stale mutations are refused; the store implements the book |
| `chat_stream` | 2 requests, up to 2 deltas | gate, wire order, agreement with the database, termination |
| `asset_store` | 1 image, 2 conversations, 2 requests and the cleanup, 2 faults | rows and files agree under crashes; cleanup spares and cleans |
| `inference_stream` | 1 remote stream, 1 unstreamed generation, the preload; 2 chunks and the output, queue of 2 | one model, complete streams on both machines, closing ends and leaves nothing behind, a cancellation reaches the model |
| `asset_store_expiry` | `asset_store` without faults, expiry at any time | a finding, see below |
| `backup_restore` | 1 image, 4 keys, 2 commands, 1 archive, 1 kill, 1 lost machine | what unlocks is whole; archives open; serving leaves no plaintext; nothing is lost; a resumed restore finishes |
| `backup_restore_race` | 1 image, 4 keys, 1 command, 1 archive, 1 lost machine, without `Apart` | a finding, see below |
| `generation` | histories of up to 4 messages, 4 chunks out of 11, 2 tool calls, 7 requests, 99 answers, 3,149 expressions | the window, the visible text, the constrained answers and the calculator agree with their definitions |
| `chat_client` | 2 conversations, 2 messages, 2 calls in flight, 2 turns | a confirmed turn is not sent again; transcripts do not mix |
| `quality_run` | 3 invocations, 3 cases, 2 revisions, 6 kills | the directory implements the log |

**Why the bounds are enough.** A rotation concerns two keys; a third lets a
second rotation start from what the first one left. One foreign write is enough
to make an export stale. In memory, keys are independent of each other, and four
revisions hold remember, update, forget and remember again; two clients are a
staged request and another that overtakes it. Two requests show a gate held by
one and wanted by the other, and two deltas a text that is first, between and
last. An image interacts with other images only through the directory listing,
which `StartSweep` takes of all files; two requests beside the cleanup give three
actors per image, and two faults a failure within the repair of another. Two
chunks and the output overfill a queue of two (the code has 8), with an item
waiting outside; the unstreamed generation stands for everyone else who wants the
model, and it need not give it back. The proofs of section 5 lift these bounds for
safety.

In `backup_restore` four keys are the database and asset keys of one installation,
a rotated key, and those of a second installation or a second rotation; one archive
restored onto the lost machine by two commands, one of which is killed, has all
the overlaps of the marker, the lock and the installs. Larger instances were
checked once as well: two images with three keys (1,780,000 states), and two images
with four keys, one command and two kills (1,080,000 states). `generation` enumerates its inputs: eleven
pieces of the markup in four chunks have every way a tag can be split, begun and
not finished, or closed by the wrong word, and every expression of three tokens,
with longer ones of the documented shapes, meets each limit and each failure of the
calculator. In `chat_client`, two calls in flight
are any pair that can race, and two turns let a message of an earlier turn be
mistaken for the running one. Six kills let each of three cases be torn and torn
again in the resume.

`memory_store`, `key_store`, `asset_store` and `inference_stream` check for deadlock;
in the last, the unstreamed caller comes back again and again. `chat_stream`,
`generation`, `chat_client`, `quality_run` and `backup_restore` set
`CHECK_DEADLOCK FALSE`: a behaviour ends when every request is closed, the turn is
over, every turn or kill of the bound is used, or the run is complete.

**Fairness.**

* `KeyStore`: a running process goes on (weak), and the operator's next unlock
  with a given passphrase is tried again and again and does not always crash at
  the same step or meet a locked database (strong). `RecoveryEnds` is a promise
  about repeated unlocks, so it needs that they are repeated.
* `ChatStream`: the event loop and the executor's thread keep running, and a
  generation yields, ends or fails. Nobody is assumed to connect or to leave.
* `AssetStore`: the cleanup recurs every hour and now and then finds the database
  free (strong); time passes and an open transaction is closed (weak).
* `InferenceStream`: threads and the loop keep running, a load ends or fails, a
  caller gets the initialization lock some time (strong: others may take it and
  fail), and a native thread that is cancelled stops, because it looks at the
  event at every token. No generation is assumed to end by itself and no client
  to read on.
* `RemoteProvider`: a cancelled turn's thread and its watcher keep running, a
  connection attempt ends (the transport has timeouts), and the service learns that
  the client has closed the connection, because it listens for the disconnect
  (`backend/streaming.py` 18-45). It need not learn that the network has cut it,
  which is why `CancelReachesTheModel` excepts a cut connection.
* `BackupRestore`: a running command goes on (weak), and the operator repeats
  `--resume` until no marker is left (strong: another command may hold the lock).
  The backend, the rotation and the obsolete release have no fairness.
* `MemoryStore`, `Generation`, `ChatClient` and `QualityRun` have no liveness
  property.

**What the provisos of the properties exclude.**

* `RestoreFinishes` holds as long as `TargetsMatch` does: two fresh restores may
  both find the targets empty. If one of them stalls between its second look and the
  link of its marker while the other installs, finishes and removes its own
  marker, the first leaves a marker beside a finished installation; once the
  backend has changed the database, no `--resume` accepts it any more, and the
  operator has to remove the marker by hand. The data is whole.
* `UsableIsWhole`, and with it everything that is proved of `BackupRestore`, assumes
  `Apart`: no restore links its marker while a `keyctl init` derives its key (the
  finding `backup_restore_race`). An init between the checks of a restore and its
  marker is in the model; `CheckTargets` is what notices its envelope.
* `RecoveryEnds` has an encrypted database in its premise. A rotation before the first
  start writes its journal and then fails, as there is no database; neither of its
  keys opens anything, so `recover_rotation` refuses (`runtime/key_store.py:698`), and
  so does every later unlock. README.md 978 documents that recovery then fails
  closed and keeps the journal.
* `ServingIsEncrypted` speaks about the database, the images and their temporary
  files. The sidecar files of a plaintext database, which are removed after its
  replacement (`backend/database.py:424`), are not in the model.
* `NothingLost` also assumes `Offline`: the obsolete release does not commit between the
  last comparison and the replacement of its database. README.md 1003 and 1020 ask
  for that (migration is an offline operation, and the checks of the code only support
  it). Commits at every other time of a migration are in the model; `CompareSource`
  is what notices them.
* `OneTranscript` speaks about behaviours in which no delete was unanswered while
  another call of the page was in flight (`overlapped`). Nothing in the page
  prevents that overlap, and without the proviso TLC finds that a delete answered
  during a stream shows the stream's text in the conversation that is selected
  next and forgets the pending message, so that Stop leaves nothing to retry; that
  a history reload answered after the delete of the last conversation brings it
  back on the screen with nothing selected; and that a rename answered after a
  delete puts the renamed conversation's name and id over another one.
* `VisibleText` trims before it compares: an output that ends in the beginning of
  a tag and white space (`<tool_ `) is shown when it is streamed and dropped when
  it is buffered. Text around a removed envelope may form a tag again; it is shown,
  as the filter looks at every token once.
* `DeliveredIsHonest` says what is delivered is right, not that everything right is
  delivered: the check of a repair matches greedily (`KeepsWords`) and refuses some
  repairs that only delete articles.
* An invocation of the benchmark that is killed before it has written `run.json`
  leaves a directory that nothing can resume. Loss of data that was flushed is
  not modelled.

**Findings.** Three runs state a documented promise and end in a counterexample.

1. `key_store_race`: `change-passphrase` is said not to modify the database key.
   It reads the key at `runtime/key_store.py:509` and writes the envelope at line
   513; a rotation that completes in between leaves an envelope with the
   obsolete key. The README asks for exclusive access for rotation only.
2. `asset_store_expiry`: `cleanup` selects the expired ids before its
   transaction holds the write lock. If a turn attaches one of them in between,
   the DELETE spares the row, but the loop at `backend/assets.py:275` removes
   its file, and a committed message shows an image that is gone. The upload has
   to expire within the turn's commit, hence `Prompt` in `asset_store`, which
   excludes exactly that and leaves everything else in.
3. `backup_restore_race`: a leftover restore marker is said to block unlock and key
   mutations (`runtime/backup.py:348`, README.md 1106). `KeyStore.initialize` looks
   for it, for the envelope and for the database once (`runtime/key_store.py:448-457`),
   derives a key, and replaces the envelope (line 416) without looking again. A
   restore whose own checks fall into that time finds its targets empty and links its
   marker, and the new envelope is written under it. If the whole restore fits in,
   it reports success, and then its envelope is replaced by one that does not open
   its database: with these constants TLC refutes `UsableIsWhole` as well. The archive
   still has the right envelope. README.md 1053 asks the operator to restore before
   running `keyctl init`, and whoever follows it does not meet this.
   `Apart` in `backup_restore` excludes exactly that overlap.

## 5. The proofs

All theorems hold for every value of the constants that satisfies the module's
`ASSUME`.

| Theorem | Says |
|---|---|
| `KeyStoreProofs!TypeCorrect`, `AlwaysRecoverable`, `AlwaysOnePassphrase`, `UnlockedKeysOpen` | the invariants of `key_store` |
| `KeyStoreProofs!JournalPrecedesReplacement`, `RotationKeepsWrites` | its action properties |
| `RefinementProofs!MemoryTypeCorrect`, `AlwaysOneCurrentRevision`, `ForgetIsFinal` | the invariants of `memory_store` |
| `RefinementProofs!NoSilentPromotion`, `StoreImplementsBook` | its action property and the refinement |
| `RefinementProofs!RunInvariant`, `RunImplementsLog` | the inductive invariant of `QualityRun`, and the refinement checked by `quality_run` |
| `ChatProofs!StreamTypeCorrect`, `GateIsAccounted`, `ClientIsToldTheTruth`, `WireIsInOrder` | the invariants of `chat_stream` |
| `ChatProofs!StreamsEndTold`, `CancelledStaysUnsaved` | its action properties |
| `AssetStoreProofs!AssetTypeCorrect`, `ImagesHaveOneConversation`, `RowsAlwaysHaveFiles` | the types and the invariants of `asset_store`; the last under `Prompt` |
| `AssetStoreProofs!CleanupTakesNothingAttached` | its action property |
| `RemoteProviderProofs!InferenceTypeCorrect`, `ModelIsOne`, `ClosedStreamsAreClean`, `StreamsAreComplete` | the invariants of `InferenceStream` |
| `RemoteProviderProofs!RemoteServiceIsAService` | the service under remote clients implements `InferenceStream` |
| `RemoteProviderProofs!RemoteAnswersAreWhole` | what a remote client returns |
| `BackupRestoreProofs!ArchivesAlwaysOpen`, `UsableInstallationsAreWhole`, `ServingLeavesNoPlaintext` | the invariants of `backup_restore`, under `Apart` |
| `BackupRestoreProofs!NothingIsLost` | its action property, under `Apart` and `Offline` |
| `ChatProofs!ConfirmedTurnsAreSentOnce`, `TranscriptIsOne` | the invariants of `chat_client` |
| `GenerationProofs!WindowIsLongest`, `NothingIsLeaked`, `AnswersAreHonest`, `ToldIsTrue` | the invariants of `generation`: `HistoryWindow`, `VisibleText`, `DeliveredIsHonest`, `ToldTheTruth` |
| `CalculatorProofs!GrammarIsExact`, `ParseIsFaithful`, `EvaluationIsTrue` | the validator, the parser and the whole of `evaluate_expression` against `Meaning` |

**KeyStore.** Assumes `Exclusive`: one key-management process at a time, as the
documentation asks of rotation; without it `key_store_race` refutes the
invariant. `Recoverable` is not inductive: that the journal contains the key of
the database after `RotateReplace` follows from what the caller remembers. The
strengthening says, for each place in a rotation or a recovery, what the call's
locals have to do with the files: the journal holds them from `RotatePrepare`
on, the database is still under the old key before the replacement and under the
new one after it, a complete candidate is under the new key and no older than what
the fingerprint saw, and the key drawn last is in no file yet.

**MemoryStore.** The strengthening relates a staged mutation to the tables: its
expected revision never exceeds the current one; if both agree, status and value
are still those that were staged, because a revision number is used once. So
`Apply` acts on the current fact, which is the step of the refinement. Redaction
needs that values above a deleted revision are the only ones left and that
references hold no value.

**ChatStream.** Mutual exclusion needs that a request is served from its acquire
to the later of its two ends, and that exactly one of `Close` and `ProducerDone`
releases. The truth of the events needs the same claims about the events still
queued, and that `final` is queued only from labels that lie behind the commit.
`CancelledStaysUnsaved` rests on the labels before `persist` that a cancelled
request can no longer leave towards it. The order is a property of the whole wire,
what was sent followed by what is queued: neighbours on it are allowed by the
protocol (`Chain`), an end stands only at its end and after `done` or `error`
unless the consumer has gone (`Marked`), and the label of the producer determines
the last event (`Place`). `WireIsInOrder` then follows for its prefix `sent`, and
`StreamsEndTold` because the consumer stops at the end marker.

**AssetStore.** Everything rests on the write lock: a thread inside a transaction
holds it, so what it checked there is still true when it commits (`Locals`). That
is enough for one conversation per image and for the cleanup (`BInv`).
`RowsHaveFiles` needs in addition what a thread knows that removes files: nothing
it will remove has a row or can get one, because a UUID is drawn once and no
upload in progress is among the files selected (`SInv`, with `Apart`). It is here
that `Prompt` enters: `asset_store_expiry` shows the step that would break it.

**InferenceStream.** A lock determines the place of its holder: whoever loads has
the initialization lock and there is no engine, and a caller has the generation
lock exactly while it is between acquire and release, suspended or not. A native
thread runs only within that stretch, because `Release` comes after the join. A
worker past its loop has a generator that is outside of the provider, and a
consumer is closed only when its worker has ended; together that is
`ClosedMeansClean`. For `StreamedInFull` the strengthening (`DInv`) says that what
was passed on, what is queued and what the worker holds are the chunks from the
first on without a gap, and that the marker is set only behind the last of them.

**RemoteProvider.** A step of the composition is a step of the service or leaves
it alone, so `RemoteSpec` implies the `Spec` of `InferenceStream`, its fairness
included, and the theorems there hold of it. For the client (`RInv`), what it has read
followed by what is on the wire is the beginning of what the service passed on,
and all of it while the connection is open; a final event is the last one and
holds the text of a stream that ended.

**BackupRestore.** Neither the marker nor the lock is enough by itself: a command
may be stalled for as long as the others need to finish, start the backend and
rotate. The strengthening (`Inv`) says what belongs together on the disk and what a
command still knows of it. Beside a wrapped key are its own database and, after a
loss of the machine, all its images; a key without a database is the key of no
archive, because keys are drawn once (`Wrapped`). Without a wrapped key, whatever is
there is the archive of the marker (`Unwrapped`), so what a stalled restore checked
remains true until its own key is installed, or another has finished and it finds
everything there (`Restoring`). A backup unlocked its snapshot with the key of the
envelope it publishes (`Backing`). A process that manages the key has looked for the marker, the envelope and the journal
some time ago; what is still true of them when it writes is `Managing`. That an init
still finds neither an envelope nor a marker needs `Apart`: it is the one operation
with something to write that begins on an empty machine, where a restore may begin as
well. A started backend has the key on the disk and no
rotation beside it, and a migration forgets an image only when its plaintext is gone
(`Started`). `NothingIsLost` needs `Offline` only for the replacement of the plaintext
database by the candidate that was compared with it.

**ChatClient.** Stop and a broken stream offer the pending message to Retry, so the
proof is about who owns the stream: the pending message is that of the owner's call,
`committed` is set exactly when its `final` event has arrived, and before that the
page was not told that it is saved (`Owned`). While no stream is owned, what Retry
would send was not confirmed (`Unsent`). Answers of calls that the page has moved on
from change neither, as what is told is saved before it is told (`ToldIsSaved`).
`ConfirmedTurnsAreSentOnce` needs no proviso about overlapping deletes.

`TranscriptIsOne` follows every answer in flight, as long as no delete overlapped
another call (`Page`). At most one load will still be used, and the page is loading
while it is (`OneLoader`); an answer that will be used has every turn the page was
told of, and only saved ones (`Answered`); a rename or the reload of a history is
about the selected conversation (`Renaming`, `Reloading`); and while a turn runs, no
other answer will be used, so its user message and the conversation under it stay
(`Running`). Section 4 shows what an overlapping delete does to them.

**QualityRun.** Each of its rows is three tokens, so a run that nobody disturbs
writes one certain sequence of tokens (`Text`). The strengthening (`RunInv`) says
that `results.jsonl` is at any moment its first k tokens, for some k, whatever was
killed in between: a kill leaves a prefix, a truncation takes the last token off, and
`Separator` adds exactly the newline that a kill cut off, so what is appended
continues that sequence. What the holder of the lock knows is a matter of k (`At`):
how many rows it counted, whether a torn one is left, and which tokens it still has to
write. That the holder is alone and the manifest its own is the other half
(`Locked`, `Made`). What the reader makes of k tokens is a recursion over them,
followed by the same induction over numbers as in `GenerationProofs` (`ScanIs`):
(k + 1) div 3 rows, and a torn one if k leaves the remainder 1. With that a step of
the program is a step of `CaseLog`: the closing token of a row records it, and the
other tokens, the newline, a kill and a repair change nothing a reader can see.

**Generation.** The algorithms are recursive functions over texts of any length, and
the library's induction takes an operator as a parameter. `CalculatorProofs` states
induction for a *set* of numbers instead (`CountingUp`), which follows from strict
inclusion of finite sets being well founded; everything below is by that lemma, or by
the one on the rank of the elements of a set that follows from it (`RankInduction`).

* `WindowIsLongest`: after n messages from the newest back, either all of them are
  kept and fit, or the loop has stopped at the longest suffix that does
  (`Windows`); as sizes are not negative, nothing longer fits. Dropping leading
  answers is then the longest such suffix that begins with a question. That the last
  turn is reported truly needs that positions of the history and of its public part
  correspond in order (`Rank`, `Nth`, `Selected`).
* `AnswersAreHonest`: a repair that passes the greedy match is, up to case,
  the original without the words that were skipped, and these are removable articles;
  the article repair deletes the first of them by definition.
* `NothingIsLeaked`: the filter and `Visible` read a text in opposite directions.
  After k tokens, what the filter has let out, followed by what the text says from
  the first token it holds back (`Normally`) or from the envelope it is inside of
  (`Suppressing`), is `Visible` of the whole (`Filtering`). `FeedMore` says that
  feeding a text in pieces is feeding it at once. The invariant of a turn (`VInv`,
  `Gate`) adds the gate: nothing is shown while the beginning is undecided or a tool
  call, and otherwise what is shown and what is held for its white space are together
  what the filter lets out of all that was written. The trimming is that of the
  whole text because white space is held until something follows it.
* `ToldIsTrue`: what the model is told of a call is a refusal of the registry or what
  `EvaluateExpression` gives, and only a call that passed `ValidateArguments` is kept
  in the record (`ExecuteIs`, `Reported`). That this is true of the expression is
  `EvaluationIsTrue`, below. It holds for payloads of any length, and for any limits.

**Calculator.** The code reads an expression twice from left to right, the second time
with the arithmetic; `Meaning` splits it from the outside in, at the last of the
operators that bind least. The proof relates the three for every sequence of lexemes.

* *The recursions exist.* A recursive function is a `CHOOSE`, and says something only
  when a solution exists. `Recursion` gives one to every body that looks only at
  arguments of smaller rank. The rank is the length of a piece for `Meaning`, and
  for the two readers how many lexemes are ahead, then the place of the rule in the
  grammar. That needs the answers to be bounded as well: a reader never moves
  back, and never beyond the end marker.
* *The validator accepts what has a meaning* (`GrammarIsExact`). Downwards, by the rank
  of the reader: what a rule reads is a piece of its kind, and two pieces around an
  operator make a piece, for which the operators of the whole must be those of its
  parts and the one between (the lemmas *from the parts to the whole*). Upwards, by the
  length of a piece (`PieceInduction`): a piece that means something is cut where
  `Meaning` cuts it, and each rule reads on to the cut, then across it. The depth of
  the parentheses is carried through both, so a piece that is nowhere deeper than
  the limit is read to its end and the limit is reported only where it is exceeded.
* *The parser computes the meaning* (`ParseIsFaithful`). It goes on from a left operand,
  so the claim about a rule is about all left operands at once: reading `a - b - c`
  from the value of `a` gives what `Meaning` gives of `(a - b)` and `c`. If no part has
  a failure, the values agree; otherwise the parser stops at one of the failures
  of the parts, the first that it comes to.
* The arithmetic is opaque in all of this: both sides apply the same operations to the
  same operands, and the facts needed are that these give a fraction or one of three
  failures. The rounding of the code to 80 digits is in no model.

## 6. Only model-checked

* Liveness, which is out of the prover's reach: `RecoveryEnds`, `EveryStreamEnds`,
  `NothingLingers`, `EveryStreamCloses`, `CancelReachesTheModel`,
  `RestoreFinishes`.

The type invariants of `AssetStore`, `MemoryStore` and `InferenceStream` are proved
and not checked again in their runs.

## 7. Not modelled

* Cryptography, file formats, the SQL dialect and the operating system: a model
  takes what the code relies on (atomic `os.replace`, one write lock, a key opens
  only its own database) as given.
* The language side: recognition of memory commands and of constraints in a
  prompt, ranking of retrieval, secret detection, epistemic rules. A
  model has the outcomes these may have.
* Conversations and the unstreamed chat routes: short single transactions;
  `AssetStore` and `ChatClient` have what images and the page depend on. The
  order of concurrent turns in one conversation is left open, as no document says
  what it should be.
* Vision routes and the authentication of the inference service: one validation
  and one answer. Vision calls take the same way through the provider. An engine
  without a streaming method and the unstreamed remote request are calls with one
  answer.
* Schema migrations, and the temporary files that a failed export leaves.
* In the frontend: the memory view, image drafts, the proxy, the framing of
  events, rendering.
* The scoring of the evaluation, the baseline runner, the preparation of training
  data and training itself: batch computations without shared state.
* Start-up and supervision (`scripts/startup.py`): calls to the operating system.
  What a start does to the files is in `Installation`.
* Secrets in memory and local authentication: wiping of buffers and comparisons,
  sequential code without a protocol.
