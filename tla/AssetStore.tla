----------------------------- MODULE AssetStore -----------------------------
(***************************************************************************)
(* Uploaded images: a row in the database and a file beside it, written    *)
(* and removed by AssetService (backend/assets.py), by image turns         *)
(* (chat_service.py), by the deletion of conversations and by the periodic *)
(* cleanup (app.py).  No transaction spans both, so the order of the steps *)
(* is what keeps row and file together.                                    *)
(*                                                                         *)
(* SQLite: a SELECT sees the last commit and locks nothing, the first      *)
(* INSERT, UPDATE or DELETE of a transaction takes the one write lock.     *)
(*                                                                         *)
(* A definition named M_X is a faulty variant of the definition X that     *)
(* follows it; no behaviour of the specification uses one.                 *)
(***************************************************************************)
EXTENDS Naturals, FiniteSets

CONSTANTS
  Assets,         \* UUIDs drawn for uploads
  Conversations,  \* UUIDs of conversations
  Workers,        \* threads that serve requests
  Cleaner,        \* the thread of the cleanup, one at a time
  Nobody,         \* no holder of the write lock
  Prompt,         \* TRUE: no image expires while a turn commits it
  MaxFaults       \* bound on crashes and failing steps

ASSUME AssetAssumption ==
  /\ Cleaner \notin Workers /\ Nobody \notin Workers \cup {Cleaner}
  /\ Prompt \in BOOLEAN /\ MaxFaults \in Nat
  /\ Conversations \cap {"absent", "temporary"} = {}

VARIABLES
  owner,   \* row of an asset: "absent", "temporary" or the conversation that has it
  links,   \* the conversations with a message that shows it
  files,   \* assets with an encrypted file
  drawn,   \* assets whose UUID was drawn
  old,     \* drawn longer than TEMPORARY_TTL ago: row and file have expired
  talks,   \* life of a conversation: "unborn", "live", "deleted"
  lock,    \* holder of the write lock
  work,    \* what each thread is doing, with its local variables
  faults   \* crashes and failures so far

vars == <<owner, links, files, drawn, old, talks, lock, work, faults>>
rows == <<owner, links, talks>>

Threads == Workers \cup {Cleaner}
Idle == [pc |-> "idle", ids |-> {}, conversation |-> Nobody, cutoff |-> {}, active |-> {}]

At(w, label) == work[w].pc = label
Goto(w, label) == work' = [work EXCEPT ![w].pc = label]
Finish(w) == work' = [work EXCEPT ![w] = Idle]
Fault == faults < MaxFaults /\ faults' = faults + 1

Rows == { a \in Assets : owner[a] # "absent" }

\* AssetService.get and validate_links: c may show a.
MayShow(c, a) ==
  \/ owner[a] = "temporary" /\ a \notin old
  \/ owner[a] = c

Init ==
  /\ owner = [a \in Assets |-> "absent"]
  /\ links = [a \in Assets |-> {}]
  /\ files = {} /\ drawn = {} /\ old = {}
  /\ talks = [c \in Conversations |-> "unborn"]
  /\ lock = Nobody
  /\ work = [w \in Threads |-> Idle]
  /\ faults = 0

-----------------------------------------------------------------------------
(***************************************************************************)
(* Upload: AssetService.create, in one transaction.                        *)
(***************************************************************************)
\* The INSERT; the foreign key wants the conversation alive.
InsertAsset(w) ==
  /\ At(w, "idle") /\ lock = Nobody
  /\ \E a \in Assets \ drawn, c \in {Nobody} \cup { d \in Conversations : talks[d] = "live" } :
       /\ drawn' = drawn \cup {a}
       /\ work' = [work EXCEPT ![w] = [Idle EXCEPT !.pc = "inserted", !.ids = {a}, !.conversation = c]]
  /\ lock' = w
  /\ UNCHANGED <<rows, files, old, faults>>

\* AssetStorage.write replaces a complete file; it may fail before or after that.
WriteFile(w) ==
  /\ At(w, "inserted")
  /\ \/ files' = files \cup work[w].ids /\ Goto(w, "written") /\ UNCHANGED <<lock, faults>>
     \/ /\ Fault
        /\ files' = files \/ files' = files \cup work[w].ids
        /\ lock' = Nobody
        /\ Finish(w)
  /\ UNCHANGED <<rows, drawn, old>>

\* The commit, or the rollback and the removal of the file.
CommitUpload(w) ==
  /\ At(w, "written")
  /\ lock' = Nobody
  /\ \/ /\ owner' = [a \in Assets |-> IF a \notin work[w].ids THEN owner[a]
                                      ELSE IF work[w].conversation = Nobody THEN "temporary"
                                      ELSE work[w].conversation]
        /\ Finish(w)
        /\ UNCHANGED faults
     \/ Fault /\ Goto(w, "removing") /\ UNCHANGED owner
  /\ UNCHANGED <<links, files, drawn, old, talks>>

-----------------------------------------------------------------------------
(***************************************************************************)
(* An image turn: it is prepared, generated, and persisted later.          *)
(***************************************************************************)
PrepareTurn(w) ==
  /\ At(w, "idle")
  /\ \E a \in Assets, c \in Conversations :
       /\ talks[c] # "deleted" /\ MayShow(c, a)
       /\ work' = [work EXCEPT ![w] = [Idle EXCEPT !.pc = "prepared", !.ids = {a}, !.conversation = c]]
  /\ UNCHANGED <<rows, files, drawn, old, lock, faults>>

M_BeginPersist(w) ==   \* what was true when the turn was prepared is trusted
  /\ At(w, "prepared") /\ lock = Nobody
  /\ IF talks[work[w].conversation] # "deleted" /\ work[w].ids \subseteq Rows
     THEN lock' = w /\ Goto(w, "attached")
     ELSE Finish(w) /\ UNCHANGED lock
  /\ UNCHANGED <<rows, files, drawn, old, faults>>

\* _persist_chat: the message takes the lock, attach checks again and updates.
BeginPersist(w) ==
  /\ At(w, "prepared") /\ lock = Nobody
  /\ IF /\ talks[work[w].conversation] # "deleted"
        /\ \A a \in work[w].ids : MayShow(work[w].conversation, a)
     THEN lock' = w /\ Goto(w, "attached")
     ELSE Finish(w) /\ UNCHANGED lock
  /\ UNCHANGED <<rows, files, drawn, old, faults>>

\* Everything at once: a new conversation, the messages, the owner and the link.
CommitTurn(w) ==
  /\ At(w, "attached")
  /\ lock' = Nobody
  /\ \/ /\ owner' = [a \in Assets |-> IF a \in work[w].ids THEN work[w].conversation ELSE owner[a]]
        /\ links' = [a \in Assets |-> IF a \in work[w].ids THEN links[a] \cup {work[w].conversation}
                                                           ELSE links[a]]
        /\ talks' = [talks EXCEPT ![work[w].conversation] = "live"]
        /\ UNCHANGED faults
     \/ Fault /\ UNCHANGED rows
  /\ Finish(w)
  /\ UNCHANGED <<files, drawn, old>>

-----------------------------------------------------------------------------
(***************************************************************************)
(* Deletion commits the rows first and removes the files afterwards.       *)
(***************************************************************************)
DeleteAsset(w) ==
  /\ At(w, "idle") /\ lock = Nobody
  /\ \E a \in Rows :
       /\ owner' = [owner EXCEPT ![a] = "absent"]
       /\ links' = [links EXCEPT ![a] = {}]
       /\ work' = [work EXCEPT ![w] = [Idle EXCEPT !.pc = "removing", !.ids = {a}]]
  /\ UNCHANGED <<files, drawn, old, talks, lock, faults>>

\* delete_conversation reads its assets without a lock ...
SelectAssets(w) ==
  /\ At(w, "idle")
  /\ \E c \in Conversations :
       /\ talks[c] = "live"
       /\ work' = [work EXCEPT ![w] = [Idle EXCEPT !.pc = "deleting", !.conversation = c,
                                                   !.ids = { a \in Assets : owner[a] = c }]]
  /\ UNCHANGED <<rows, files, drawn, old, lock, faults>>

\* ... and the cascade takes the messages, the links and the assets it has by then.
DeleteConversation(w) ==
  LET c == work[w].conversation IN
  /\ At(w, "deleting") /\ lock = Nobody
  /\ IF talks[c] = "live"
     THEN /\ talks' = [talks EXCEPT ![c] = "deleted"]
          /\ owner' = [a \in Assets |-> IF owner[a] = c THEN "absent" ELSE owner[a]]
          /\ links' = [a \in Assets |-> IF owner[a] = c THEN {} ELSE links[a] \ {c}]
          /\ Goto(w, "removing")
     ELSE Finish(w) /\ UNCHANGED rows
  /\ UNCHANGED <<files, drawn, old, lock, faults>>

\* storage.delete of one file after the other; an error ends the loop.
RemoveFile(w) ==
  /\ work[w].pc \in {"removing", "sweeping"}
  /\ \/ \E a \in work[w].ids : /\ files' = files \ {a}
                               /\ work' = [work EXCEPT ![w].ids = @ \ {a}]
                               /\ UNCHANGED faults
     \/ work[w].ids # {} /\ Fault /\ Finish(w) /\ UNCHANGED files
  /\ UNCHANGED <<rows, drawn, old, lock>>

FilesRemoved(w) ==
  /\ work[w].ids = {} /\ (At(w, "sweeping") \/ (At(w, "removing") /\ w # Cleaner))
  /\ Finish(w)
  /\ UNCHANGED <<rows, files, drawn, old, lock, faults>>

-----------------------------------------------------------------------------
(***************************************************************************)
(* AssetService.cleanup and AssetStorage.clean_orphans.                    *)
(***************************************************************************)
SelectExpired ==
  /\ At(Cleaner, "idle")
  /\ work' = [work EXCEPT ![Cleaner] =
                [Idle EXCEPT !.pc = "expired", !.cutoff = old,
                             !.ids = { a \in old : owner[a] = "temporary" }]]
  /\ UNCHANGED <<rows, files, drawn, old, lock, faults>>

M_DeleteExpired ==   \* whatever is old enough goes, attached or not
  LET gone == Rows \cap work[Cleaner].cutoff IN
  /\ At(Cleaner, "expired") /\ lock = Nobody
  /\ owner' = [a \in Assets |-> IF a \in gone THEN "absent" ELSE owner[a]]
  /\ links' = [a \in Assets |-> IF a \in gone THEN {} ELSE links[a]]
  /\ work' = [work EXCEPT ![Cleaner].pc = "removing", ![Cleaner].active = Rows \ gone]
  /\ UNCHANGED <<files, drawn, old, talks, lock, faults>>

\* The DELETE asks again; the rows that are left are the active ones.
DeleteExpired ==
  LET gone == { a \in work[Cleaner].cutoff : owner[a] = "temporary" } IN
  /\ At(Cleaner, "expired") /\ lock = Nobody
  /\ \/ /\ owner' = [a \in Assets |-> IF a \in gone THEN "absent" ELSE owner[a]]
        /\ work' = [work EXCEPT ![Cleaner].pc = "removing", ![Cleaner].active = Rows \ gone]
        /\ UNCHANGED faults
     \/ Fault /\ Finish(Cleaner) /\ UNCHANGED owner
  /\ UNCHANGED <<links, files, drawn, old, talks, lock>>

M_StartSweep ==   \* no grace for a file without a row
  /\ At(Cleaner, "removing") /\ work[Cleaner].ids = {}
  /\ work' = [work EXCEPT ![Cleaner].pc = "sweeping",
                          ![Cleaner].ids = files \ work[Cleaner].active]
  /\ UNCHANGED <<rows, files, drawn, old, lock, faults>>

M_StartSweepOfNone ==   \* only the files of the rows just deleted are removed
  /\ At(Cleaner, "removing") /\ work[Cleaner].ids = {}
  /\ Goto(Cleaner, "sweeping")
  /\ UNCHANGED <<rows, files, drawn, old, lock, faults>>

\* Files that no row accounted for at the commit, and old enough.
StartSweep ==
  /\ At(Cleaner, "removing") /\ work[Cleaner].ids = {}
  /\ work' = [work EXCEPT ![Cleaner].pc = "sweeping",
                          ![Cleaner].ids = (files \cap work[Cleaner].cutoff) \ work[Cleaner].active]
  /\ UNCHANGED <<rows, files, drawn, old, lock, faults>>

-----------------------------------------------------------------------------
CreateConversation ==
  /\ \E c \in Conversations : talks[c] = "unborn" /\ talks' = [talks EXCEPT ![c] = "live"]
  /\ lock = Nobody
  /\ UNCHANGED <<owner, links, files, drawn, old, lock, work, faults>>

\* The client of a turn goes away, or its generation fails.
AbandonTurn(w) ==
  /\ At(w, "prepared")
  /\ Finish(w)
  /\ UNCHANGED <<rows, files, drawn, old, lock, faults>>

\* Twenty-four hours have passed since a was drawn.
Expire(a) ==
  /\ a \in drawn \ old
  /\ Prompt => \A w \in Workers : At(w, "attached") => a \notin work[w].ids
  /\ old' = old \cup {a}
  /\ UNCHANGED <<rows, files, drawn, lock, work, faults>>

\* The process dies: files and committed rows stay, open transactions do not.
Crash ==
  /\ Fault
  /\ work' = [w \in Threads |-> Idle]
  /\ lock' = Nobody
  /\ UNCHANGED <<rows, files, drawn, old>>

Serve(w) ==
  \/ InsertAsset(w) \/ PrepareTurn(w) \/ DeleteAsset(w) \/ SelectAssets(w)
  \/ WriteFile(w) \/ CommitUpload(w) \/ BeginPersist(w) \/ CommitTurn(w) \/ AbandonTurn(w)
  \/ DeleteConversation(w)

Remove(w) == RemoveFile(w) \/ FilesRemoved(w)
Cleanup == SelectExpired \/ DeleteExpired \/ StartSweep \/ Remove(Cleaner)

Next ==
  \/ \E w \in Workers : Serve(w) \/ Remove(w)
  \/ Cleanup \/ CreateConversation \/ Crash
  \/ \E a \in Assets : Expire(a)

(***************************************************************************)
(* The cleanup recurs and finds the database free now and then, time goes  *)
(* on, and a transaction that is open is closed.                           *)
(***************************************************************************)
Fairness ==
  /\ SF_vars(Cleanup)
  /\ \A a \in Assets : WF_vars(Expire(a))
  /\ \A w \in Workers : WF_vars(WriteFile(w) \/ CommitUpload(w) \/ CommitTurn(w))

Spec == Init /\ [][Next]_vars /\ Fairness

-----------------------------------------------------------------------------
Labels == {"idle", "inserted", "written", "prepared", "attached", "deleting", "removing",
           "expired", "sweeping"}

\* The types, and that a thread inside a transaction holds the lock.
TypeOK ==
  /\ owner \in [Assets -> {"absent", "temporary"} \cup Conversations]
  /\ links \in [Assets -> SUBSET Conversations]
  /\ files \subseteq drawn /\ old \subseteq drawn /\ drawn \subseteq Assets
  /\ talks \in [Conversations -> {"unborn", "live", "deleted"}]
  /\ work \in [Threads -> [pc : Labels, ids : SUBSET Assets, cutoff : SUBSET Assets,
                           active : SUBSET Assets, conversation : Conversations \cup {Nobody}]]
  /\ faults \in 0..MaxFaults
  /\ \A w \in Threads : lock = w <=> work[w].pc \in {"inserted", "written", "attached"}

(***************************************************************************)
(* An image that the database knows can be read: its file is there, from   *)
(* the commit of its row to the commit of its deletion, whatever crashes   *)
(* or fails and however a cleanup runs beside it.                          *)
(***************************************************************************)
RowsHaveFiles == Rows \subseteq files

(***************************************************************************)
(* An image is shown by the messages of one conversation, the one that     *)
(* owns it, also when two turns compete for one upload.                    *)
(***************************************************************************)
OneConversation == \A a \in Assets : links[a] \subseteq {owner[a]}

(***************************************************************************)
(* Whatever a conversation owns goes only when the image or that           *)
(* conversation is deleted, never by the cleanup.                          *)
(***************************************************************************)
CleanupSparesAttached ==
  [][\A a \in Assets :
       owner[a] \in Conversations /\ owner'[a] # owner[a] =>
         \E w \in Workers : DeleteAsset(w) \/ DeleteConversation(w)]_vars

(***************************************************************************)
(* No bytes linger: a file without a row, or of an upload nobody uses, is  *)
(* removed in the end, or a conversation takes the upload.                 *)
(***************************************************************************)
NothingLingers ==
  \A a \in Assets :
    a \in files ~> a \notin files \/ owner[a] \in Conversations

(***************************************************************************)
(* "Successful commit promotes temporary assets": the image of a message   *)
(* outlives the expiry of the upload.                                      *)
(***************************************************************************)
ShownImagesStay == \A a \in Assets : links[a] # {} => a \in files
=============================================================================
