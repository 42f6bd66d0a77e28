---------------------------- MODULE MemoryStore ----------------------------
(***************************************************************************)
(* Saved memory: MemoryService of backend/memory.py over the tables        *)
(* memory_slots and memory_revisions, as the chat and the REST routes of   *)
(* backend/app.py use it.                                                  *)
(*                                                                         *)
(* A request first stages a mutation: it reads the slot and writes down    *)
(* what it saw.  apply() later writes under the condition that the slot is *)
(* as it was seen.  A chat generates or acknowledges in between, and SQLite *)
(* takes its write lock only at the first write, so other requests commit  *)
(* between the two.  The writes of apply() are one transaction and here    *)
(* one step.  A cancelled or crashed request leaves nothing.               *)
(*                                                                         *)
(* A definition named M_X is a faulty variant of the definition X that     *)
(* follows it; no behaviour of the specification uses one.                 *)
(***************************************************************************)
EXTENDS Naturals

CONSTANTS
  MemKeys,   \* (category, key) pairs of the one owner
  Values,    \* remembered values
  NoValue,   \* SQL NULL in the value column
  NoPolicy,  \* no sensitivity given
  Clients,   \* requests in progress
  MaxRev     \* bound on the revisions of a slot

ASSUME MemoryAssumption ==
  /\ NoValue \notin Values
  /\ NoPolicy \notin {"local_only", "remote_allowed"}
  /\ MaxRev \in Nat \ {0}

VARIABLES
  slots,      \* memory_slots by key: status, current_revision, sensitivity
  revisions,  \* memory_revisions by key and number: value and status
  metadata,   \* values in memory_refs_json that refer to the slot
  staged,     \* the request of a client and its staged mutation
  served      \* history: the request whose transaction committed last

vars == <<slots, revisions, metadata, staged, served>>

Book == INSTANCE MemoryBook WITH
  book <- [k \in MemKeys |->
             IF slots[k].status = "active"
             THEN [value  |-> revisions[k][slots[k].current_revision].value,
                   policy |-> slots[k].sensitivity]
             ELSE [value |-> NoValue, policy |-> "local_only"]]

Policies == {"local_only", "remote_allowed"}
Requests == Book!Requests
NoRequest == [task |-> "none"]
Numbers  == 1 .. MaxRev

NoSlot == [status |-> "none", current_revision |-> 0, sensitivity |-> "local_only"]
NoRow  == [value |-> NoValue, status |-> "none"]
Idle   == [pc |-> "idle", request |-> NoRequest, expected_revision |-> 0,
           expected_status |-> "none", value |-> NoValue, sensitivity |-> "local_only",
           context |-> {}]

\* The first row of a slot and nothing else.
FirstRow(v) == [n \in Numbers |-> IF n = 1 THEN [value |-> v, status |-> "active"] ELSE NoRow]

-----------------------------------------------------------------------------
\* A fresh database, or one of an earlier build: its slots took the default of
\* the added column, and its chat metadata may hold raw values.
Init ==
  /\ \E old \in [MemKeys -> Values \cup {NoValue}] :
       /\ slots = [k \in MemKeys |->
            IF old[k] = NoValue THEN NoSlot
            ELSE [status |-> "active", current_revision |-> 1, sensitivity |-> "local_only"]]
       /\ revisions = [k \in MemKeys |->
            IF old[k] = NoValue THEN [n \in Numbers |-> NoRow] ELSE FirstRow(old[k])]
       /\ metadata = [k \in MemKeys |-> {old[k]}]
  /\ staged = [c \in Clients |-> Idle]
  /\ served = NoRequest

Return(c) == staged' = [staged EXCEPT ![c] = Idle]

\* Every stage_ method ends in the mutation as read, with its sensitivity s.
Stage(c, r, label, s) ==
  /\ staged[c].pc = "idle"
  /\ staged' = [staged EXCEPT ![c] =
       [pc |-> label, request |-> r,
        expected_revision |-> slots[r.key].current_revision,
        expected_status |-> slots[r.key].status,
        value |-> r.value, sensitivity |-> s, context |-> {}]]
  /\ UNCHANGED <<slots, revisions, metadata, served>>

M_StageChatCommand(c, r) ==   \* a forgotten slot comes back with its old policy
  /\ r.task \in {"remember", "update", "forget"}
  /\ r.task # "remember" => slots[r.key].status = "active"
  /\ Stage(c, r, "staged", slots[r.key].sensitivity)

\* The chat remembers whatever the slot is, updates and forgets an active one.
\* Only an active slot hands its sensitivity on.
StageChatCommand(c, r) ==
  /\ r.task \in {"remember", "update", "forget"}
  /\ r.task # "remember" => slots[r.key].status = "active"
  /\ Stage(c, r, "staged",
           IF slots[r.key].status = "active" THEN slots[r.key].sensitivity ELSE "local_only")

StageCreate(c, r) ==
  /\ r.task = "create"
  /\ slots[r.key].status # "active"
  /\ Stage(c, r, "staged", r.policy)

\* A policy-only patch still has to read the value that it keeps.
StageUpdate(c, r) ==
  /\ r.task = "patch"
  /\ slots[r.key].status = "active"
  /\ Stage(c, r, IF r.value = NoValue THEN "read_value" ELSE "staged",
           IF r.policy = NoPolicy THEN slots[r.key].sensitivity ELSE r.policy)

\* get_current_revision, a second query: by the revision number of the first.
GetCurrentRevision(c) ==
  LET s == staged[c]
      row == revisions[s.request.key][s.expected_revision]
  IN  /\ s.pc = "read_value"
      /\ \/ row.value # NoValue
            /\ staged' = [staged EXCEPT ![c].pc = "staged", ![c].value = row.value]
         \/ row.value = NoValue /\ Return(c)
      /\ UNCHANGED <<slots, revisions, metadata, served>>

StageDelete(c, r) ==
  /\ r.task = "delete"
  /\ slots[r.key].status = "active"
  /\ Stage(c, r, "staged", slots[r.key].sensitivity)

-----------------------------------------------------------------------------
Deletes(c) == staged[c].request.task \in {"forget", "delete"}
FromChat(c) == staged[c].request.task \in {"remember", "update", "forget"}

M_AsExpected(c) ==   \* the revision is not compared
  slots[staged[c].request.key].status = staged[c].expected_status

\* The WHERE clause of the slot update; for a new slot, the unique key.
AsExpected(c) ==
  LET s == staged[c] IN
  /\ slots[s.request.key].current_revision = s.expected_revision
  /\ slots[s.request.key].status = s.expected_status

M_NextRevisions(c, rows) ==   \* the previous revision does not become stale
  LET s == staged[c] IN
  [n \in Numbers |->
     IF n = s.expected_revision + 1
     THEN IF Deletes(c) THEN [value |-> NoValue, status |-> "deleted"]
                        ELSE [value |-> s.value, status |-> "active"]
     ELSE IF Deletes(c) /\ rows[n].status # "none"
     THEN [value |-> NoValue, status |-> IF rows[n].status = "deleted" THEN "deleted" ELSE "stale"]
     ELSE rows[n]]

\* The rows of the slot afterwards: the previous active one is stale, a delete
\* strips every value and leaves a tombstone.
NextRevisions(c, rows) ==
  LET s == staged[c] IN
  [n \in Numbers |->
     IF n = s.expected_revision + 1
     THEN IF Deletes(c) THEN [value |-> NoValue, status |-> "deleted"]
                        ELSE [value |-> s.value, status |-> "active"]
     ELSE IF Deletes(c) /\ rows[n].status # "none"
     THEN [value |-> NoValue, status |-> IF rows[n].status = "deleted" THEN "deleted" ELSE "stale"]
     ELSE IF n = s.expected_revision /\ s.expected_status = "active"
     THEN [rows[n] EXCEPT !.status = "stale"]
     ELSE rows[n]]

\* The references of the committed chat turn carry no value; a delete strips the
\* values that earlier builds wrote.
NextMetadata(c, refs) ==
  LET kept == IF Deletes(c) /\ refs # {} THEN {NoValue} ELSE refs
  IN  IF FromChat(c) THEN kept \cup {NoValue} ELSE kept

Apply(c) ==
  LET s == staged[c]
      k == s.request.key
  IN  /\ s.pc = "staged" /\ AsExpected(c) /\ s.expected_revision < MaxRev
      /\ slots' = [slots EXCEPT ![k] =
           [status |-> IF Deletes(c) THEN "deleted" ELSE "active",
            current_revision |-> s.expected_revision + 1,
            sensitivity |-> s.sensitivity]]
      /\ revisions' = [revisions EXCEPT ![k] = NextRevisions(c, @)]
      /\ metadata' = [metadata EXCEPT ![k] = NextMetadata(c, @)]
      /\ served' = s.request
      /\ Return(c)

\* MemoryConflictError rolls the transaction back.
Conflict(c) ==
  /\ staged[c].pc = "staged" /\ ~AsExpected(c)
  /\ Return(c)
  /\ UNCHANGED <<slots, revisions, metadata, served>>

\* The client cancels, the generation fails or the process stops.
Abandon(c) ==
  /\ staged[c].pc # "idle"
  /\ Return(c)
  /\ UNCHANGED <<slots, revisions, metadata, served>>

-----------------------------------------------------------------------------
\* list_current: the rows an ordinary chat turn may put into its context.
Current ==
  { [key |-> k, value |-> revisions[k][slots[k].current_revision].value] :
      k \in { j \in MemKeys : /\ slots[j].status = "active"
                              /\ revisions[j][slots[j].current_revision].status = "active" } }

\* A chat turn without a command selects some of them, then generates.
Retrieve(c) ==
  /\ staged[c].pc = "idle"
  /\ \E chosen \in SUBSET Current \ {{}} :
       staged' = [staged EXCEPT ![c] = [Idle EXCEPT !.pc = "generate", !.context = chosen]]
  /\ UNCHANGED <<slots, revisions, metadata, served>>

M_PersistChat(c) ==   \* the metadata keeps the retrieved record
  /\ staged[c].pc = "generate"
  /\ metadata' = [k \in MemKeys |->
       metadata[k] \cup { r.value : r \in { x \in staged[c].context : x.key = k } }]
  /\ Return(c)
  /\ UNCHANGED <<slots, revisions, served>>

\* The turn commits with a reference to each record, whatever became of it.
PersistChat(c) ==
  /\ staged[c].pc = "generate"
  /\ metadata' = [k \in MemKeys |->
       IF \E r \in staged[c].context : r.key = k THEN metadata[k] \cup {NoValue}
                                                 ELSE metadata[k]]
  /\ Return(c)
  /\ UNCHANGED <<slots, revisions, served>>

-----------------------------------------------------------------------------
Next ==
  \E c \in Clients :
    \/ \E r \in Requests :
         StageChatCommand(c, r) \/ StageCreate(c, r) \/ StageUpdate(c, r) \/ StageDelete(c, r)
    \/ GetCurrentRevision(c) \/ Apply(c) \/ Conflict(c) \/ Abandon(c)
    \/ Retrieve(c) \/ PersistChat(c)

Spec == Init /\ [][Next]_vars

-----------------------------------------------------------------------------
Rows == [value : Values \cup {NoValue}, status : {"none", "active", "stale", "deleted"}]
Records == [key : MemKeys, value : Values \cup {NoValue}]
Staged ==
  [pc : {"idle", "read_value", "staged", "generate"}, request : Requests \cup {NoRequest},
   expected_revision : 0 .. MaxRev, expected_status : {"none", "active", "deleted"},
   value : Values \cup {NoValue}, sensitivity : Policies, context : SUBSET Records]

\* The types of the tables and of the requests in progress.
TypeOK ==
  /\ slots \in [MemKeys -> [status : {"none", "active", "deleted"},
                            current_revision : 0 .. MaxRev, sensitivity : Policies]]
  /\ revisions \in [MemKeys -> [Numbers -> Rows]]
  /\ metadata \in [MemKeys -> SUBSET (Values \cup {NoValue})]
  /\ staged \in [Clients -> Staged]
  /\ served \in Requests \cup {NoRequest}

\* The revision that the slot points at has the slot's status, it is the only
\* active one, and the numbers up to it are the ones in use (apply; list_current
\* joins on exactly this).
OneCurrentRevision ==
  \A k \in MemKeys :
    LET cur == slots[k].current_revision IN
    /\ cur > 0 => revisions[k][cur].status = slots[k].status
    /\ \A n \in Numbers :
         /\ revisions[k][n].status = "none" <=> n > cur
         /\ revisions[k][n].status = "active" => n = cur /\ revisions[k][n].value # NoValue

\* Once a slot was forgotten, no earlier revision and no chat metadata holds a
\* value of it again, also when a turn that read the value commits after the
\* forget, or the slot comes back ("old values remain redacted").
ForgottenStaysRedacted ==
  \A k \in MemKeys : \A d \in Numbers :
    revisions[k][d].status = "deleted" =>
      /\ \A n \in 1 .. d : revisions[k][n].value = NoValue
      /\ metadata[k] \subseteq {NoValue}

\* A memory becomes visible to remote inference only through a REST request that
\* says so ("no mode switch promotes memories"; a forgotten one comes back local).
OnlyRequestsPromote ==
  [][\A k \in MemKeys :
       LET Remote(s) == s.status = "active" /\ s.sensitivity = "remote_allowed" IN
       ~Remote(slots[k]) /\ Remote(slots'[k]) =>
         served'.key = k /\ served'.policy = "remote_allowed"]_vars

\* Every committed request acts on the fact current at its commit, and what it
\* does not mention stays: no update is lost between staging and apply.
ImplementsBook == Book!Spec
=============================================================================
