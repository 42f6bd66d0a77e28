-------------------------- MODULE RefinementProofs --------------------------
(***************************************************************************)
(* The two components that implement an abstract specification.            *)
(*                                                                         *)
(* First MemoryStore, for any set of keys, values and clients: the type    *)
(* invariant, the safety invariants, and that it implements MemoryBook.    *)
(* The strengthening IInv adds what a staged mutation still knows: as long *)
(* as its revision is the current one, what it saw of the slot is true.    *)
(*                                                                         *)
(* Then QualityRun, for any number of invocations, cases, revisions and    *)
(* kills: that it implements CaseLog.  Its inductive invariant RunInv says *)
(* that results.jsonl is always the first k tokens of the one file that a  *)
(* run nobody disturbs would write, and where in that file the holder of   *)
(* the lock is.                                                            *)
(***************************************************************************)
EXTENDS MemoryStore, QualityRun, FiniteSetTheorems, WellFoundedInduction, TLAPS
-----------------------------------------------------------------------------
(* Saved memory. *)

\* A slot without a row has revision zero and the default sensitivity.
SlotNumbered ==
  \A k \in MemKeys :
    /\ slots[k].status = "none" <=> slots[k].current_revision = 0
    /\ slots[k].status = "none" => slots[k].sensitivity = "local_only"

\* What the request of client c asks for, in terms of the slot it saw.
Asked(s) ==
  /\ s.request.task = "create" => s.expected_status # "active"
  /\ s.request.task \notin {"create", "remember"} => s.expected_status = "active"
  /\ s.request.value # NoValue => s.value = s.request.value
  /\ s.request.policy # NoPolicy => s.sensitivity = s.request.policy
  /\ s.request.policy = NoPolicy /\ s.expected_status # "active" => s.sensitivity = "local_only"

\* What stays true of the slot while its revision is the expected one.
Fresh(s) ==
  LET k == s.request.key IN
  slots[k].current_revision = s.expected_revision =>
    /\ slots[k].status = s.expected_status
    /\ s.request.policy = NoPolicy /\ s.expected_status = "active" =>
         s.sensitivity = slots[k].sensitivity
    /\ s.pc = "staged" /\ s.request.task = "patch" /\ s.request.value = NoValue =>
         s.value = revisions[k][s.expected_revision].value

Coherent(s) ==
  s.pc \in {"read_value", "staged"} =>
    /\ s.request \in Requests
    /\ s.expected_revision <= slots[s.request.key].current_revision
    /\ s.expected_status = "active" => s.expected_revision > 0
    /\ s.pc = "read_value" => s.request.task = "patch" /\ s.request.value = NoValue
    /\ s.pc = "staged" /\ s.request.task \notin {"forget", "delete"} => s.value \in Values
    /\ Asked(s)
    /\ Fresh(s)

StagedCoherent == \A c \in Clients : Coherent(staged[c])

IInv == TypeOK /\ SlotNumbered /\ OneCurrentRevision /\ ForgottenStaysRedacted /\ StagedCoherent

-----------------------------------------------------------------------------
\* The fields of a request.
LEMMA RequestFields ==
  ASSUME NEW r \in Requests
  PROVE  /\ r.task \in {"remember", "update", "forget", "create", "patch", "delete"}
         /\ r.key \in MemKeys
         /\ r.value \in Values \cup {NoValue}
         /\ r.policy \in Policies \cup {NoPolicy}
         /\ r.task \in {"remember", "update", "create"} => r.value # NoValue
         /\ r.task \in {"forget", "delete"} => r.value = NoValue
         /\ r.task = "create" => r.policy # NoPolicy
         /\ r.task \notin {"create", "patch"} => r.policy = NoPolicy
  BY DEF Requests, Book!Requests, Book!Tasks, Book!Policies, Policies

LEMMA NoRequestIsNone == NoRequest \notin Requests
  <1>1. NoRequest.task = "none" BY DEF NoRequest
  <1> QED BY <1>1, RequestFields

LEMMA InitIInv == Init => IInv
  <1> SUFFICES ASSUME Init PROVE IInv
    OBVIOUS
  <1> USE MemoryAssumption
  <1>1. PICK old \in [MemKeys -> Values \cup {NoValue}] :
          /\ slots = [k \in MemKeys |->
               IF old[k] = NoValue THEN NoSlot
               ELSE [status |-> "active", current_revision |-> 1, sensitivity |-> "local_only"]]
          /\ revisions = [k \in MemKeys |->
               IF old[k] = NoValue THEN [n \in Numbers |-> NoRow] ELSE FirstRow(old[k])]
          /\ metadata = [k \in MemKeys |-> {old[k]}]
    BY DEF Init
  <1>2. staged = [c \in Clients |-> Idle] /\ served = NoRequest
    BY DEF Init
  <1>3. \A k \in MemKeys : revisions[k] \in [Numbers -> Rows]
    BY <1>1 DEF FirstRow, NoRow, Rows
  <1>4. TypeOK
    <2>1. slots \in [MemKeys -> [status : {"none", "active", "deleted"},
                                 current_revision : 0 .. MaxRev, sensitivity : Policies]]
      BY <1>1 DEF NoSlot, Policies
    <2>2. revisions \in [MemKeys -> [Numbers -> Rows]]
      BY <1>1, <1>3
    <2>3. metadata \in [MemKeys -> SUBSET (Values \cup {NoValue})]
      BY <1>1
    <2>4. Idle \in Staged
      BY DEF Idle, Staged, Policies
    <2> QED BY <2>1, <2>2, <2>3, <2>4, <1>2 DEF TypeOK
  <1>5. ASSUME NEW k \in MemKeys
        PROVE  \/ /\ slots[k] = NoSlot
                  /\ \A n \in Numbers : revisions[k][n] = NoRow
               \/ /\ slots[k] = [status |-> "active", current_revision |-> 1,
                                 sensitivity |-> "local_only"]
                  /\ old[k] \in Values
                  /\ \A n \in Numbers :
                       revisions[k][n] = IF n = 1 THEN [value |-> old[k], status |-> "active"]
                                                  ELSE NoRow
    BY <1>1, <1>5 DEF FirstRow
  <1>6. ASSUME NEW k \in MemKeys
        PROVE  /\ slots[k].status = "none" <=> slots[k].current_revision = 0
               /\ slots[k].status = "none" => slots[k].sensitivity = "local_only"
               /\ LET cur == slots[k].current_revision IN
                  /\ cur > 0 => revisions[k][cur].status = slots[k].status
                  /\ \A n \in Numbers :
                       /\ revisions[k][n].status = "none" <=> n > cur
                       /\ revisions[k][n].status = "active" =>
                            n = cur /\ revisions[k][n].value # NoValue
               /\ \A d \in Numbers : revisions[k][d].status # "deleted"
    <2>1. CASE slots[k] = NoSlot /\ \A n \in Numbers : revisions[k][n] = NoRow
      BY <2>1 DEF NoSlot, NoRow, Numbers
    <2>2. CASE /\ slots[k] = [status |-> "active", current_revision |-> 1,
                              sensitivity |-> "local_only"]
               /\ old[k] \in Values
               /\ \A n \in Numbers :
                    revisions[k][n] = IF n = 1 THEN [value |-> old[k], status |-> "active"]
                                               ELSE NoRow
      BY <2>2 DEF NoRow, Numbers
    <2> QED BY <1>5, <1>6, <2>1, <2>2
  <1>7. SlotNumbered /\ OneCurrentRevision
    BY <1>6 DEF SlotNumbered, OneCurrentRevision
  <1>8. ForgottenStaysRedacted
    BY <1>6 DEF ForgottenStaysRedacted
  <1>9. StagedCoherent
    BY <1>2 DEF StagedCoherent, Coherent, Idle
  <1> QED BY <1>4, <1>7, <1>8, <1>9 DEF IInv

-----------------------------------------------------------------------------
\* A step that leaves the tables alone keeps every staged mutation coherent.
LEMMA MovedStaged ==
  ASSUME StagedCoherent, TypeOK, NEW c \in Clients, NEW t \in Staged, Coherent(t),
         staged' = [staged EXCEPT ![c] = t], slots' = slots, revisions' = revisions
  PROVE  StagedCoherent' /\ staged' \in [Clients -> Staged]
  <1>1. staged' \in [Clients -> Staged]
    BY DEF TypeOK
  <1>2. ASSUME NEW d \in Clients PROVE Coherent(staged[d])'
    <2>1. CASE d = c
      <3>1. staged'[d] = t
        BY <2>1, <1>1 DEF TypeOK
      <3> QED BY <3>1 DEF Coherent, Asked, Fresh
    <2>2. CASE d # c
      <3>1. staged'[d] = staged[d]
        BY <2>2 DEF TypeOK
      <3>2. Coherent(staged[d])
        BY DEF StagedCoherent
      <3> QED BY <3>1, <3>2 DEF Coherent, Asked, Fresh
    <2> QED BY <2>1, <2>2
  <1> QED BY <1>1, <1>2 DEF StagedCoherent

\* So it keeps the whole invariant.
LEMMA TablesKept ==
  ASSUME IInv, NEW c \in Clients, NEW t \in Staged, Coherent(t),
         staged' = [staged EXCEPT ![c] = t], UNCHANGED <<slots, revisions, metadata, served>>
  PROVE  IInv'
  <1>1. StagedCoherent' /\ staged' \in [Clients -> Staged]
    BY MovedStaged DEF IInv
  <1>2. TypeOK'
    BY <1>1 DEF IInv, TypeOK
  <1>3. SlotNumbered' /\ OneCurrentRevision' /\ ForgottenStaysRedacted'
    BY DEF IInv, SlotNumbered, OneCurrentRevision, ForgottenStaysRedacted
  <1> QED BY <1>1, <1>2, <1>3 DEF IInv

LEMMA IdleCoherent == Idle \in Staged /\ Coherent(Idle)
  BY MemoryAssumption DEF Idle, Staged, Policies, Coherent

\* The facts about one slot that the step proofs use.
LEMMA SlotFacts ==
  ASSUME IInv, NEW k \in MemKeys
  PROVE  /\ slots[k].status \in {"none", "active", "deleted"}
         /\ slots[k].current_revision \in 0 .. MaxRev
         /\ slots[k].sensitivity \in Policies
         /\ slots[k].status = "none" <=> slots[k].current_revision = 0
         /\ slots[k].status = "none" => slots[k].sensitivity = "local_only"
         /\ slots[k].status = "active" =>
              /\ slots[k].current_revision \in Numbers
              /\ revisions[k][slots[k].current_revision].status = "active"
              /\ revisions[k][slots[k].current_revision].value \in Values
  <1>1. slots[k] \in [status : {"none", "active", "deleted"},
                      current_revision : 0 .. MaxRev, sensitivity : Policies]
        /\ revisions[k] \in [Numbers -> Rows]
    BY DEF IInv, TypeOK
  <1>2. /\ slots[k].status = "none" <=> slots[k].current_revision = 0
        /\ slots[k].status = "none" => slots[k].sensitivity = "local_only"
    BY DEF IInv, SlotNumbered
  <1>3. ASSUME slots[k].status = "active"
        PROVE  /\ slots[k].current_revision \in Numbers
               /\ revisions[k][slots[k].current_revision].status = "active"
               /\ revisions[k][slots[k].current_revision].value \in Values
    <2>1. slots[k].current_revision \in Numbers /\ slots[k].current_revision > 0
      BY <1>1, <1>2, <1>3, MemoryAssumption DEF Numbers
    <2>2. revisions[k][slots[k].current_revision].status = "active"
      BY <1>3, <2>1 DEF IInv, OneCurrentRevision
    <2>3. revisions[k][slots[k].current_revision].value # NoValue
      BY <2>1, <2>2 DEF IInv, OneCurrentRevision
    <2>4. revisions[k][slots[k].current_revision].value \in Values \cup {NoValue}
      BY <1>1, <2>1 DEF Rows
    <2> QED BY <2>1, <2>2, <2>3, <2>4
  <1> QED BY <1>1, <1>2, <1>3

\* Staging keeps the invariant when the sensitivity s follows the rules.
LEMMA StageStep ==
  ASSUME IInv, NEW c \in Clients, NEW r \in Requests, NEW s \in Policies,
         NEW label \in {"read_value", "staged"}, Stage(c, r, label, s),
         label = "read_value" <=> r.task = "patch" /\ r.value = NoValue,
         r.task = "create" => slots[r.key].status # "active",
         r.task \notin {"create", "remember"} => slots[r.key].status = "active",
         r.policy # NoPolicy => s = r.policy,
         r.policy = NoPolicy => s = IF slots[r.key].status = "active"
                                    THEN slots[r.key].sensitivity ELSE "local_only"
  PROVE  IInv'
  <1> DEFINE t == [pc |-> label, request |-> r,
                   expected_revision |-> slots[r.key].current_revision,
                   expected_status |-> slots[r.key].status,
                   value |-> r.value, sensitivity |-> s, context |-> {}]
  <1>1. r.key \in MemKeys
    BY RequestFields
  <1>2. t \in Staged
    BY <1>1, SlotFacts, RequestFields DEF Staged
  <1>3. Coherent(t)
    <2>1. label = "staged" /\ r.task \notin {"forget", "delete"} => r.value \in Values
      BY RequestFields
    <2>2. slots[r.key].current_revision <= slots[r.key].current_revision
      BY <1>1, SlotFacts
    <2>3. slots[r.key].status = "active" => slots[r.key].current_revision > 0
      BY <1>1, SlotFacts DEF Numbers
    <2>4. Asked(t)
      BY RequestFields DEF Asked
    <2>5. Fresh(t)
      BY RequestFields DEF Fresh
    <2> QED BY <2>1, <2>2, <2>3, <2>4, <2>5 DEF Coherent
  <1>4. staged' = [staged EXCEPT ![c] = t] /\ UNCHANGED <<slots, revisions, metadata, served>>
    BY DEF Stage
  <1> HIDE DEF t
  <1> QED BY <1>2, <1>3, <1>4, TablesKept

LEMMA StagesKeepIInv ==
  ASSUME IInv, NEW c \in Clients, NEW r \in Requests,
         \/ StageChatCommand(c, r) \/ StageCreate(c, r)
         \/ StageUpdate(c, r) \/ StageDelete(c, r)
  PROVE  IInv'
  <1>0. r.key \in MemKeys
    BY RequestFields
  <1>1. CASE StageChatCommand(c, r)
    <2> DEFINE s == IF slots[r.key].status = "active"
                    THEN slots[r.key].sensitivity ELSE "local_only"
    <2>1. s \in Policies
      BY <1>0, SlotFacts DEF Policies
    <2>2. Stage(c, r, "staged", s)
      BY <1>1 DEF StageChatCommand
    <2>3. r.task \in {"remember", "update", "forget"}
          /\ (r.task # "remember" => slots[r.key].status = "active")
      BY <1>1 DEF StageChatCommand
    <2>4. r.policy = NoPolicy
      BY <2>3, RequestFields
    <2> QED BY <2>1, <2>2, <2>3, <2>4, StageStep
  <1>2. CASE StageCreate(c, r)
    <2>1. r.task = "create" /\ slots[r.key].status # "active" /\ Stage(c, r, "staged", r.policy)
      BY <1>2 DEF StageCreate
    <2>2. r.policy \in Policies /\ r.policy # NoPolicy
      BY <2>1, RequestFields
    <2> QED BY <2>1, <2>2, StageStep
  <1>3. CASE StageUpdate(c, r)
    <2> DEFINE s == IF r.policy = NoPolicy THEN slots[r.key].sensitivity ELSE r.policy
               label == IF r.value = NoValue THEN "read_value" ELSE "staged"
    <2>1. r.task = "patch" /\ slots[r.key].status = "active" /\ Stage(c, r, label, s)
      BY <1>3 DEF StageUpdate
    <2>2. s \in Policies /\ label \in {"read_value", "staged"}
      BY <1>0, SlotFacts, RequestFields
    <2>3. label = "read_value" <=> r.task = "patch" /\ r.value = NoValue
      BY <2>1
    <2>4. (r.policy # NoPolicy => s = r.policy)
          /\ (r.policy = NoPolicy => s = IF slots[r.key].status = "active"
                                    THEN slots[r.key].sensitivity ELSE "local_only")
      BY <2>1
    <2> HIDE DEF s, label
    <2> QED BY <2>1, <2>2, <2>3, <2>4, StageStep
  <1>4. CASE StageDelete(c, r)
    <2>1. r.task = "delete" /\ slots[r.key].status = "active"
          /\ Stage(c, r, "staged", slots[r.key].sensitivity)
      BY <1>4 DEF StageDelete
    <2>2. r.policy = NoPolicy
      BY <2>1, RequestFields
    <2> QED BY <1>0, <2>1, <2>2, SlotFacts, StageStep
  <1> QED BY <1>1, <1>2, <1>3, <1>4

LEMMA GetCurrentRevisionKeepsIInv ==
  ASSUME IInv, NEW c \in Clients, GetCurrentRevision(c)
  PROVE  IInv'
  <1> DEFINE s == staged[c]
             row == revisions[s.request.key][s.expected_revision]
             t == [s EXCEPT !.pc = "staged", !.value = row.value]
  <1>1. s \in Staged
    BY DEF IInv, TypeOK
  <1>2. s.pc = "read_value" /\ UNCHANGED <<slots, revisions, metadata, served>>
    BY DEF GetCurrentRevision
  <1>3. Coherent(s)
    BY DEF IInv, StagedCoherent
  <1>4. /\ s.request \in Requests /\ s.request.task = "patch" /\ s.request.value = NoValue
        /\ Asked(s) /\ Fresh(s)
        /\ s.expected_revision <= slots[s.request.key].current_revision
        /\ s.expected_status = "active" /\ s.expected_revision > 0
    BY <1>2, <1>3 DEF Coherent, Asked
  <1>5. CASE row.value # NoValue /\ staged' = [staged EXCEPT ![c].pc = "staged", ![c].value = row.value]
    <2>1. row.value \in Values
      <3>1. s.request.key \in MemKeys /\ s.expected_revision \in Numbers
        BY <1>1, <1>4, RequestFields DEF Staged, Numbers
      <3>2. row \in Rows
        BY <3>1 DEF IInv, TypeOK
      <3> QED BY <3>2, <1>5 DEF Rows
    <2>2. t \in Staged
      BY <1>1, <2>1 DEF Staged
    <2>3. /\ t.pc = "staged" /\ t.value = row.value /\ t.request = s.request
          /\ t.expected_revision = s.expected_revision
          /\ t.expected_status = s.expected_status /\ t.sensitivity = s.sensitivity
      BY <1>1 DEF Staged
    <2>4. staged' = [staged EXCEPT ![c] = t]
      BY <1>5
    <2> HIDE DEF t
    <2>5. Coherent(t)
      BY <1>4, <2>1, <2>3 DEF Coherent, Asked, Fresh
    <2> QED BY <1>2, <2>2, <2>4, <2>5, TablesKept
  <1>6. CASE row.value = NoValue /\ Return(c)
    BY <1>2, <1>6, IdleCoherent, TablesKept DEF Return
  <1> QED BY <1>5, <1>6 DEF GetCurrentRevision

LEMMA ReturnsKeepIInv ==
  ASSUME IInv, NEW c \in Clients, Conflict(c) \/ Abandon(c)
  PROVE  IInv'
  BY IdleCoherent, TablesKept DEF Conflict, Abandon, Return

LEMMA RetrieveKeepsIInv ==
  ASSUME IInv, NEW c \in Clients, Retrieve(c)
  PROVE  IInv'
  <1>1. PICK chosen \in SUBSET Current :
          staged' = [staged EXCEPT ![c] = [Idle EXCEPT !.pc = "generate", !.context = chosen]]
    BY DEF Retrieve
  <1> DEFINE t == [Idle EXCEPT !.pc = "generate", !.context = chosen]
  <1>2. Current \in SUBSET Records
    <2>1. ASSUME NEW k \in MemKeys, slots[k].status = "active"
          PROVE  [key |-> k, value |-> revisions[k][slots[k].current_revision].value] \in Records
      BY <2>1, SlotFacts DEF Records
    <2> QED BY <2>1 DEF Current
  <1>3. t \in Staged /\ t.pc = "generate"
    BY <1>1, <1>2, IdleCoherent DEF Idle, Staged
  <1>4. Coherent(t)
    BY <1>3 DEF Coherent
  <1>5. staged' = [staged EXCEPT ![c] = t] /\ UNCHANGED <<slots, revisions, metadata, served>>
    BY <1>1 DEF Retrieve
  <1> HIDE DEF t
  <1> QED BY <1>3, <1>4, <1>5, TablesKept

LEMMA PersistChatKeepsIInv ==
  ASSUME IInv, NEW c \in Clients, PersistChat(c)
  PROVE  IInv'
  <1>1. staged' = [staged EXCEPT ![c] = Idle] /\ UNCHANGED <<slots, revisions, served>>
    BY DEF PersistChat, Return
  <1>2. StagedCoherent' /\ staged' \in [Clients -> Staged]
    BY <1>1, IdleCoherent, MovedStaged DEF IInv
  <1>3. \A k \in MemKeys : metadata'[k] = metadata[k] \/ metadata'[k] = metadata[k] \cup {NoValue}
    BY DEF PersistChat
  <1>4. metadata' \in [MemKeys -> SUBSET (Values \cup {NoValue})]
    BY DEF PersistChat, IInv, TypeOK
  <1>5. TypeOK'
    BY <1>1, <1>2, <1>4 DEF IInv, TypeOK
  <1>6. SlotNumbered' /\ OneCurrentRevision'
    BY <1>1 DEF IInv, SlotNumbered, OneCurrentRevision
  <1>7. ForgottenStaysRedacted'
    BY <1>1, <1>3 DEF IInv, ForgottenStaysRedacted
  <1> QED BY <1>2, <1>5, <1>6, <1>7 DEF IInv

\* What apply() writes: the slot, and each row of it by its number.
LEMMA ApplyWrites ==
  ASSUME IInv, NEW c \in Clients, Apply(c)
  PROVE  LET s == staged[c]
             k == s.request.key
             n == s.expected_revision + 1
             new == revisions'[k]
         IN  /\ s \in Staged /\ Coherent(s) /\ s.pc = "staged" /\ s.request \in Requests
             /\ k \in MemKeys /\ n \in Numbers
             /\ slots[k].current_revision = s.expected_revision
             /\ slots[k].status = s.expected_status
             /\ slots' = [slots EXCEPT ![k] =
                  [status |-> IF Deletes(c) THEN "deleted" ELSE "active",
                   current_revision |-> n, sensitivity |-> s.sensitivity]]
             /\ \A j \in MemKeys \ {k} : revisions'[j] = revisions[j] /\ metadata'[j] = metadata[j]
             /\ new \in [Numbers -> Rows]
             /\ new[n] = IF Deletes(c) THEN [value |-> NoValue, status |-> "deleted"]
                                       ELSE [value |-> s.value, status |-> "active"]
             /\ \A m \in Numbers : m > n => new[m].status = "none"
             /\ \A m \in Numbers : m < n =>
                  /\ new[m].status \in {"stale", "deleted"}
                  /\ new[m].status = "deleted" <=> revisions[k][m].status = "deleted"
                  /\ new[m].value = IF Deletes(c) THEN NoValue ELSE revisions[k][m].value
             /\ ~Deletes(c) => s.value \in Values
             /\ metadata' \in [MemKeys -> SUBSET (Values \cup {NoValue})]
             /\ metadata'[k] \subseteq metadata[k] \cup {NoValue}
             /\ Deletes(c) => metadata'[k] \subseteq {NoValue}
             /\ served' = s.request /\ Return(c)
  <1> DEFINE s == staged[c]
             k == s.request.key
             n == s.expected_revision + 1
             kept == revisions[k]
             new == revisions'[k]
  <1>1. s \in Staged /\ Coherent(s) /\ s.pc = "staged"
    BY DEF IInv, TypeOK, StagedCoherent, Apply
  <1>2. s.request \in Requests /\ k \in MemKeys /\ (~Deletes(c) => s.value \in Values)
    BY <1>1, RequestFields DEF Coherent, Deletes
  <1>3. n \in Numbers /\ s.expected_revision \in 0 .. MaxRev
    BY <1>1, MemoryAssumption DEF Apply, Staged, Numbers
  <1>4. slots[k].current_revision = s.expected_revision /\ slots[k].status = s.expected_status
    BY DEF Apply, AsExpected
  <1>5. /\ slots' = [slots EXCEPT ![k] =
             [status |-> IF Deletes(c) THEN "deleted" ELSE "active",
              current_revision |-> n, sensitivity |-> s.sensitivity]]
        /\ revisions' = [revisions EXCEPT ![k] = NextRevisions(c, @)]
        /\ metadata' = [metadata EXCEPT ![k] = NextMetadata(c, @)]
        /\ served' = s.request /\ Return(c)
    BY DEF Apply
  <1>6. kept \in [Numbers -> Rows] /\ new = NextRevisions(c, kept)
    BY <1>2, <1>5 DEF IInv, TypeOK
  <1>7. \A m \in Numbers :
          /\ kept[m].status = "none" <=> m > s.expected_revision
          /\ kept[m].status = "active" => m = s.expected_revision
    BY <1>2, <1>4 DEF IInv, OneCurrentRevision
  <1>8. s.expected_revision > 0 => kept[s.expected_revision].status = s.expected_status
    BY <1>2, <1>4 DEF IInv, OneCurrentRevision
  <1>9. new[n] = IF Deletes(c) THEN [value |-> NoValue, status |-> "deleted"]
                               ELSE [value |-> s.value, status |-> "active"]
    BY <1>3, <1>6 DEF NextRevisions
  <1>10. ASSUME NEW m \in Numbers, m # n
         PROVE  new[m] = IF Deletes(c) /\ kept[m].status # "none"
                         THEN [value |-> NoValue, status |->
                                 IF kept[m].status = "deleted" THEN "deleted" ELSE "stale"]
                         ELSE IF m = s.expected_revision /\ s.expected_status = "active"
                         THEN [kept[m] EXCEPT !.status = "stale"]
                         ELSE kept[m]
    BY <1>6, <1>10 DEF NextRevisions
  <1>11. ASSUME NEW m \in Numbers
         PROVE  kept[m] \in Rows /\ m \in Nat
    BY <1>6, <1>11, MemoryAssumption DEF Numbers
  <1>12. ASSUME NEW m \in Numbers, m > n PROVE new[m].status = "none"
    <2>1. kept[m].status = "none" /\ m # n /\ m # s.expected_revision
      BY <1>3, <1>7, <1>11, <1>12 DEF Numbers
    <2> QED BY <1>10, <2>1
  <1>13. ASSUME NEW m \in Numbers, m < n
         PROVE  /\ new[m].status \in {"stale", "deleted"}
                /\ new[m].status = "deleted" <=> kept[m].status = "deleted"
                /\ new[m].value = IF Deletes(c) THEN NoValue ELSE kept[m].value
    <2>1. m # n /\ m <= s.expected_revision /\ ~(m > s.expected_revision) /\ m \in Nat
      BY <1>3, <1>11, <1>13 DEF Numbers
    <2>2. kept[m].status \in {"active", "stale", "deleted"}
      BY <1>7, <1>11, <2>1 DEF Rows
    <2>3. kept[m].status = "active" => m = s.expected_revision /\ s.expected_status = "active"
      BY <1>7, <1>8, <2>1 DEF Numbers
    <2>4. m = s.expected_revision /\ s.expected_status = "active" => kept[m].status = "active"
      BY <1>8, <2>1 DEF Numbers
    <2>5. CASE Deletes(c)
      <3>1. new[m] = [value |-> NoValue, status |->
                        IF kept[m].status = "deleted" THEN "deleted" ELSE "stale"]
        BY <1>10, <2>1, <2>2, <2>5
      <3> QED BY <3>1, <2>2, <2>5
    <2>6. CASE ~Deletes(c) /\ m = s.expected_revision /\ s.expected_status = "active"
      <3>1. new[m] = [kept[m] EXCEPT !.status = "stale"]
        BY <1>10, <2>1, <2>6
      <3> QED BY <3>1, <2>4, <2>6, <1>11 DEF Rows
    <2>7. CASE ~Deletes(c) /\ ~(m = s.expected_revision /\ s.expected_status = "active")
      <3>1. new[m] = kept[m]
        BY <1>10, <2>1, <2>7
      <3> QED BY <3>1, <2>2, <2>3, <2>7
    <2> QED BY <2>5, <2>6, <2>7
  <1>14. new \in [Numbers -> Rows]
    <2>1. ASSUME NEW m \in Numbers PROVE new[m] \in Rows
      <3>1. CASE m = n
        BY <3>1, <1>2, <1>9 DEF Rows
      <3>2. CASE m # n
        <4>1. kept[m] \in Rows
          BY <1>11
        <4>2. \/ new[m] = [value |-> NoValue, status |-> "deleted"]
              \/ new[m] = [value |-> NoValue, status |-> "stale"]
              \/ new[m] = [kept[m] EXCEPT !.status = "stale"]
              \/ new[m] = kept[m]
          BY <1>10, <3>2
        <4> HIDE DEF kept, new
        <4> QED BY <4>1, <4>2 DEF Rows
      <3> QED BY <3>1, <3>2
    <2>2. new = [m \in Numbers |-> new[m]]
      BY <1>6 DEF NextRevisions
    <2> QED BY <2>1, <2>2
  <1>15. metadata[k] \subseteq Values \cup {NoValue}
    BY <1>2 DEF IInv, TypeOK
  <1>16. metadata'[k] = NextMetadata(c, metadata[k])
    BY <1>2, <1>5 DEF IInv, TypeOK
  <1>17. /\ metadata'[k] \subseteq metadata[k] \cup {NoValue}
         /\ Deletes(c) => metadata'[k] \subseteq {NoValue}
    BY <1>16 DEF NextMetadata
  <1>18. metadata' \in [MemKeys -> SUBSET (Values \cup {NoValue})]
    BY <1>5, <1>15, <1>16, <1>17 DEF IInv, TypeOK
  <1>19. \A j \in MemKeys \ {k} : revisions'[j] = revisions[j] /\ metadata'[j] = metadata[j]
    BY <1>5 DEF IInv, TypeOK
  <1> HIDE DEF s, k, n, kept, new
  <1>20. \A m \in Numbers : m > n => new[m].status = "none"
    BY <1>12
  <1>21. \A m \in Numbers : m < n =>
           /\ new[m].status \in {"stale", "deleted"}
           /\ new[m].status = "deleted" <=> kept[m].status = "deleted"
           /\ new[m].value = IF Deletes(c) THEN NoValue ELSE kept[m].value
    BY <1>13
  <1> USE DEF s, k, n, kept, new
  <1> QED BY <1>1, <1>2, <1>3, <1>4, <1>5, <1>9, <1>14, <1>17, <1>18, <1>19, <1>20, <1>21

LEMMA ApplyKeepsIInv ==
  ASSUME IInv, NEW c \in Clients, Apply(c)
  PROVE  IInv'
  <1> DEFINE s == staged[c]
             k == s.request.key
             n == s.expected_revision + 1
             new == revisions'[k]
  <1>1. /\ s \in Staged /\ Coherent(s) /\ s.pc = "staged" /\ s.request \in Requests
        /\ k \in MemKeys /\ n \in Numbers
        /\ slots[k].current_revision = s.expected_revision
        /\ slots[k].status = s.expected_status
        /\ slots' = [slots EXCEPT ![k] =
             [status |-> IF Deletes(c) THEN "deleted" ELSE "active",
              current_revision |-> n, sensitivity |-> s.sensitivity]]
        /\ served' = s.request /\ Return(c) /\ (~Deletes(c) => s.value \in Values)
    BY ApplyWrites
  <1>2. /\ new \in [Numbers -> Rows]
        /\ new[n] = IF Deletes(c) THEN [value |-> NoValue, status |-> "deleted"]
                                  ELSE [value |-> s.value, status |-> "active"]
        /\ \A m \in Numbers : m > n => new[m].status = "none"
        /\ \A m \in Numbers : m < n =>
             /\ new[m].status \in {"stale", "deleted"}
             /\ new[m].status = "deleted" <=> revisions[k][m].status = "deleted"
             /\ new[m].value = IF Deletes(c) THEN NoValue ELSE revisions[k][m].value
    BY ApplyWrites
  <1>3. /\ metadata' \in [MemKeys -> SUBSET (Values \cup {NoValue})]
        /\ metadata'[k] \subseteq metadata[k] \cup {NoValue}
        /\ Deletes(c) => metadata'[k] \subseteq {NoValue}
    BY ApplyWrites
  <1>4. /\ \A j \in MemKeys \ {k} : revisions'[j] = revisions[j] /\ metadata'[j] = metadata[j]
        /\ \A j \in MemKeys \ {k} : slots'[j] = slots[j]
        /\ slots'[k] = [status |-> IF Deletes(c) THEN "deleted" ELSE "active",
                        current_revision |-> n, sensitivity |-> s.sensitivity]
    BY <1>1, ApplyWrites, ZenonT(60) DEF IInv, TypeOK
  <1>5. n \in 1 .. MaxRev /\ n \in Nat /\ s.sensitivity \in Policies /\ s.expected_revision \in 0 .. MaxRev
    BY <1>1, MemoryAssumption DEF Numbers, Staged
  <1>6. staged' = [staged EXCEPT ![c] = Idle] /\ Idle \in Staged
    BY <1>1, IdleCoherent DEF Return
  <1> HIDE DEF s, k, n, new
  <1>7. TypeOK'
    <2>1. slots' \in [MemKeys -> [status : {"none", "active", "deleted"},
                                  current_revision : 0 .. MaxRev, sensitivity : Policies]]
      BY <1>1, <1>5 DEF IInv, TypeOK
    <2>2. revisions' \in [MemKeys -> [Numbers -> Rows]]
      <3>1. revisions' = [revisions EXCEPT ![k] = new]
        BY DEF Apply, k, s, new, IInv, TypeOK
      <3> QED BY <3>1, <1>1, <1>2 DEF IInv, TypeOK
    <2>3. staged' \in [Clients -> Staged]
      BY <1>6 DEF IInv, TypeOK
    <2> QED BY <2>1, <2>2, <2>3, <1>1, <1>3 DEF TypeOK
  <1>8. SlotNumbered'
    <2>1. ASSUME NEW j \in MemKeys
          PROVE  /\ slots'[j].status = "none" <=> slots'[j].current_revision = 0
                 /\ slots'[j].status = "none" => slots'[j].sensitivity = "local_only"
      BY <1>4, <1>5, SlotFacts
    <2> QED BY <2>1 DEF SlotNumbered
  <1>9. OneCurrentRevision'
    <2>1. ASSUME NEW j \in MemKeys
          PROVE  LET cur == slots'[j].current_revision IN
                 /\ cur > 0 => revisions'[j][cur].status = slots'[j].status
                 /\ \A m \in Numbers :
                      /\ revisions'[j][m].status = "none" <=> m > cur
                      /\ revisions'[j][m].status = "active" => m = cur /\ revisions'[j][m].value # NoValue
      <3>1. CASE j # k
        BY <1>4, <3>1 DEF IInv, OneCurrentRevision
      <3>2. CASE j = k
        <4>1. slots'[j].current_revision = n /\ slots'[j].status = new[n].status
              /\ revisions'[j] = new
          BY <1>2, <1>4, <3>2 DEF new
        <4>2. ASSUME NEW m \in Numbers
              PROVE  /\ new[m].status = "none" <=> m > n
                     /\ new[m].status = "active" => m = n /\ new[m].value # NoValue
          <5>1. m < n \/ m = n \/ m > n
            BY <1>5, <4>2, MemoryAssumption DEF Numbers
          <5>2. CASE m = n
            BY <5>2, <1>1, <1>2, <1>5, MemoryAssumption
          <5>3. CASE m < n
            BY <5>3, <1>2, <1>5, <4>2, MemoryAssumption DEF Numbers
          <5>4. CASE m > n
            BY <5>4, <1>2
          <5> QED BY <5>1, <5>2, <5>3, <5>4
        <4> QED BY <4>1, <4>2
      <3> QED BY <3>1, <3>2
    <2> QED BY <2>1 DEF OneCurrentRevision
  <1>10. ForgottenStaysRedacted'
    <2>1. ASSUME NEW j \in MemKeys, NEW d \in Numbers, revisions'[j][d].status = "deleted"
          PROVE  /\ \A m \in 1 .. d : revisions'[j][m].value = NoValue
                 /\ metadata'[j] \subseteq {NoValue}
      <3>1. CASE j # k
        BY <1>4, <2>1, <3>1 DEF IInv, ForgottenStaysRedacted
      <3>2. CASE j = k /\ Deletes(c)
        <4>1. d <= n
          BY <1>2, <1>5, <2>1, <3>2, MemoryAssumption DEF new, Numbers
        <4>2. \A m \in 1 .. d : m \in Numbers /\ (m = n \/ m < n)
          BY <4>1, <1>5, <2>1, MemoryAssumption DEF Numbers
        <4>3. \A m \in 1 .. d : new[m].value = NoValue
          BY <4>2, <1>2, <3>2
        <4> QED BY <4>3, <1>3, <3>2 DEF new
      <3>3. CASE j = k /\ ~Deletes(c)
        <4>1. d < n
          <5>1. new[d].status = "deleted"
            BY <2>1, <3>3 DEF new
          <5>2. d # n
            BY <5>1, <1>2, <3>3
          <5>3. ~(d > n)
            BY <5>1, <1>2
          <5> QED BY <5>2, <5>3, <1>5, <2>1, MemoryAssumption DEF Numbers
        <4>2. revisions[k][d].status = "deleted"
          BY <4>1, <1>2, <2>1, <3>3 DEF new
        <4>3. (\A m \in 1 .. d : revisions[k][m].value = NoValue) /\ metadata[k] \subseteq {NoValue}
          BY <4>2, <1>1, <2>1 DEF IInv, ForgottenStaysRedacted
        <4>4. \A m \in 1 .. d : m \in Numbers /\ m < n
          BY <4>1, <1>5, <2>1, MemoryAssumption DEF Numbers
        <4>5. \A m \in 1 .. d : new[m].value = NoValue
          BY <4>3, <4>4, <1>2, <3>3
        <4> QED BY <4>3, <4>5, <1>3, <3>3 DEF new
      <3> QED BY <3>1, <3>2, <3>3
    <2> QED BY <2>1 DEF ForgottenStaysRedacted
  <1>11. StagedCoherent'
    <2>1. ASSUME NEW d \in Clients PROVE Coherent(staged[d])'
      <3>1. CASE d = c
        BY <3>1, <1>6 DEF IInv, TypeOK, Coherent, Idle
      <3>2. CASE d # c /\ staged[d].pc \in {"read_value", "staged"}
        <4>1. staged'[d] = staged[d] /\ staged[d] \in Staged /\ Coherent(staged[d])
          BY <3>2, <1>6 DEF IInv, TypeOK, StagedCoherent
        <4>2. staged[d].request \in Requests /\ staged[d].request.key \in MemKeys
          BY <3>2, <4>1, RequestFields DEF Coherent
        <4>3. CASE staged[d].request.key # k
          <5>1. slots'[staged[d].request.key] = slots[staged[d].request.key]
                /\ revisions'[staged[d].request.key] = revisions[staged[d].request.key]
            BY <4>2, <4>3, <1>4
          <5> QED BY <4>1, <5>1 DEF Coherent, Asked, Fresh
        <4>4. CASE staged[d].request.key = k
          <5>1. slots'[k].current_revision = n /\ staged[d].expected_revision < n
                /\ staged[d].expected_revision <= n
            BY <3>2, <4>1, <4>4, <1>1, <1>4, <1>5 DEF Coherent, Staged, n
          <5>2. slots'[k].current_revision # staged[d].expected_revision
            BY <5>1, <1>5, <4>1 DEF Staged
          <5> QED BY <3>2, <4>1, <4>4, <5>1, <5>2 DEF Coherent, Asked, Fresh
        <4> QED BY <4>3, <4>4
      <3>3. CASE d # c /\ staged[d].pc \notin {"read_value", "staged"}
        BY <3>3, <1>6 DEF IInv, TypeOK, Coherent
      <3> QED BY <3>1, <3>2, <3>3
    <2> QED BY <2>1 DEF StagedCoherent
  <1> QED BY <1>7, <1>8, <1>9, <1>10, <1>11 DEF IInv

LEMMA NextKeepsIInv == IInv /\ [Next]_vars => IInv'
  <1> SUFFICES ASSUME IInv, [Next]_vars PROVE IInv'
    OBVIOUS
  <1>1. CASE UNCHANGED vars
    BY <1>1 DEF vars, IInv, TypeOK, SlotNumbered, OneCurrentRevision, ForgottenStaysRedacted,
                StagedCoherent, Coherent, Asked, Fresh
  <1>2. CASE Next
    <2>1. PICK c \in Clients :
            \/ \E r \in Requests :
                 StageChatCommand(c, r) \/ StageCreate(c, r) \/ StageUpdate(c, r) \/ StageDelete(c, r)
            \/ GetCurrentRevision(c) \/ Apply(c) \/ Conflict(c) \/ Abandon(c)
            \/ Retrieve(c) \/ PersistChat(c)
      BY <1>2 DEF Next
    <2> QED BY <2>1, StagesKeepIInv, GetCurrentRevisionKeepsIInv, ApplyKeepsIInv,
               ReturnsKeepIInv, RetrieveKeepsIInv, PersistChatKeepsIInv
  <1> QED BY <1>1, <1>2

THEOREM MemoryInvariant == Spec => []IInv
  BY InitIInv, NextKeepsIInv, PTL DEF Spec

\* The tables and the staged requests keep their types.
THEOREM MemoryTypeCorrect == Spec => []TypeOK
  <1>1. IInv => TypeOK
    BY DEF IInv
  <1> QED BY <1>1, MemoryInvariant, PTL

\* Whatever commits between staging and apply, a slot points at its one active
\* revision or at its tombstone.
THEOREM AlwaysOneCurrentRevision == Spec => []OneCurrentRevision
  <1>1. IInv => OneCurrentRevision
    BY DEF IInv
  <1> QED BY <1>1, MemoryInvariant, PTL

\* No interleaving brings a forgotten value back into the tables.
THEOREM ForgetIsFinal == Spec => []ForgottenStaysRedacted
  <1>1. IInv => ForgottenStaysRedacted
    BY DEF IInv
  <1> QED BY <1>1, MemoryInvariant, PTL

-----------------------------------------------------------------------------
\* A step other than Apply leaves slots, revisions and served alone.
LEMMA OnlyApplyWrites ==
  ASSUME [Next]_vars, ~(\E c \in Clients : Apply(c))
  PROVE  UNCHANGED <<slots, revisions, served>>
  BY DEF Next, vars, Stage, StageChatCommand, StageCreate, StageUpdate, StageDelete,
         GetCurrentRevision, Conflict, Abandon, Retrieve, PersistChat

\* No chat command, value edit or reactivation makes a memory remote.
THEOREM NoSilentPromotion == Spec => OnlyRequestsPromote
  <1> DEFINE Remote(s) == s.status = "active" /\ s.sensitivity = "remote_allowed"
             Explicit == \A k \in MemKeys :
               ~Remote(slots[k]) /\ Remote(slots'[k]) =>
                 served'.key = k /\ served'.policy = "remote_allowed"
  <1>1. ASSUME IInv, [Next]_vars PROVE Explicit
    <2>1. CASE ~(\E c \in Clients : Apply(c))
      BY <1>1, <2>1, OnlyApplyWrites
    <2>2. ASSUME NEW c \in Clients, Apply(c) PROVE Explicit
      <3> DEFINE s == staged[c]
      <3>1. /\ s \in Staged /\ Coherent(s) /\ s.pc = "staged" /\ s.request \in Requests
            /\ s.request.key \in MemKeys
            /\ slots[s.request.key].current_revision = s.expected_revision
            /\ slots[s.request.key].status = s.expected_status
            /\ slots' = [slots EXCEPT ![s.request.key] =
                 [status |-> IF Deletes(c) THEN "deleted" ELSE "active",
                  current_revision |-> s.expected_revision + 1, sensitivity |-> s.sensitivity]]
            /\ served' = s.request
        BY <1>1, <2>2, ApplyWrites
      <3>2. Asked(s) /\ Fresh(s)
        BY <3>1 DEF Coherent
      <3> SUFFICES ASSUME NEW k \in MemKeys, ~Remote(slots[k]), Remote(slots'[k])
                   PROVE  served'.key = k /\ served'.policy = "remote_allowed"
        OBVIOUS
      <3>3. k = s.request.key /\ s.sensitivity = "remote_allowed"
        BY <1>1, <3>1 DEF IInv, TypeOK
      <3>4. s.request.policy # NoPolicy
        BY <3>1, <3>2, <3>3 DEF Asked, Fresh
      <3> QED BY <3>1, <3>2, <3>3, <3>4 DEF Asked
    <2> QED BY <2>1, <2>2
  <1>2. IInv /\ [Next]_vars => [Explicit]_vars
    BY <1>1
  <1> QED BY <1>2, MemoryInvariant, PTL DEF Spec, OnlyRequestsPromote

-----------------------------------------------------------------------------
(***************************************************************************)
(* The refinement: the fact of a key is the value of the current revision  *)
(* and the sensitivity of the slot while the slot is active.               *)
(***************************************************************************)
BookOf == [k \in MemKeys |->
             IF slots[k].status = "active"
             THEN [value  |-> revisions[k][slots[k].current_revision].value,
                   policy |-> slots[k].sensitivity]
             ELSE [value |-> NoValue, policy |-> "local_only"]]

LEMMA InitIsBlank == Init => Book!Init
  <1> SUFFICES ASSUME Init PROVE Book!Init
    OBVIOUS
  <1>1. PICK old \in [MemKeys -> Values \cup {NoValue}] :
          /\ slots = [k \in MemKeys |->
               IF old[k] = NoValue THEN NoSlot
               ELSE [status |-> "active", current_revision |-> 1, sensitivity |-> "local_only"]]
          /\ revisions = [k \in MemKeys |->
               IF old[k] = NoValue THEN [n \in Numbers |-> NoRow] ELSE FirstRow(old[k])]
    BY DEF Init
  <1>2. 1 \in Numbers
    BY MemoryAssumption DEF Numbers
  <1>3. ASSUME NEW k \in MemKeys
        PROVE  BookOf[k] \in [value : Values, policy : {"local_only"}] \cup {Book!Blank}
    <2>1. CASE old[k] = NoValue
      BY <1>1, <2>1 DEF BookOf, NoSlot, Book!Blank
    <2>2. CASE old[k] # NoValue
      <3>1. revisions[k][1].value = old[k] /\ old[k] \in Values
        BY <1>1, <1>2, <2>2 DEF FirstRow
      <3> QED BY <1>1, <2>2, <3>1 DEF BookOf
    <2> QED BY <2>1, <2>2
  <1>4. BookOf \in [MemKeys -> [value : Values, policy : {"local_only"}] \cup {Book!Blank}]
    BY <1>3 DEF BookOf
  <1>5. served \notin Requests
    BY NoRequestIsNone DEF Init
  <1> QED BY <1>4, <1>5 DEF Book!Init, BookOf, Requests

\* An applied mutation is one request served on the fact that is current now.
LEMMA ApplyServes ==
  ASSUME IInv, NEW c \in Clients, Apply(c)
  PROVE  \E r \in Requests : Book!Serve(r)
  <1> DEFINE s == staged[c]
             r == s.request
             k == r.key
             n == s.expected_revision + 1
  <1>1. /\ s \in Staged /\ Coherent(s) /\ s.pc = "staged" /\ r \in Requests
        /\ k \in MemKeys /\ n \in Numbers
        /\ slots[k].current_revision = s.expected_revision
        /\ slots[k].status = s.expected_status
        /\ slots' = [slots EXCEPT ![k] =
             [status |-> IF Deletes(c) THEN "deleted" ELSE "active",
              current_revision |-> n, sensitivity |-> s.sensitivity]]
        /\ \A j \in MemKeys \ {k} : revisions'[j] = revisions[j]
        /\ revisions'[k][n] = IF Deletes(c) THEN [value |-> NoValue, status |-> "deleted"]
                                            ELSE [value |-> s.value, status |-> "active"]
        /\ ~Deletes(c) => s.value \in Values
        /\ served' = r
    BY ApplyWrites
  <1>2. Asked(s) /\ Fresh(s)
    BY <1>1 DEF Coherent
  <1>3. /\ \A j \in MemKeys \ {k} : slots'[j] = slots[j]
        /\ slots'[k] = [status |-> IF Deletes(c) THEN "deleted" ELSE "active",
                        current_revision |-> n, sensitivity |-> s.sensitivity]
    BY <1>1 DEF IInv, TypeOK
  <1>4. Deletes(c) <=> r.task \in {"forget", "delete"}
    BY DEF Deletes
  <1>5. BookOf[k] = IF s.expected_status = "active"
                    THEN [value |-> revisions[k][s.expected_revision].value,
                          policy |-> slots[k].sensitivity]
                    ELSE Book!Blank
    BY <1>1 DEF BookOf, Book!Blank
  <1>6. s.expected_status = "active" => revisions[k][s.expected_revision].value \in Values
    BY <1>1, SlotFacts
  <1>7. Book!Permitted(BookOf[k], r)
    <2>1. (r.task = "create" => s.expected_status # "active")
          /\ (r.task \notin {"create", "remember"} => s.expected_status = "active")
      BY <1>2 DEF Asked
    <2>2. BookOf[k].value = NoValue <=> s.expected_status # "active"
      BY <1>5, <1>6, MemoryAssumption DEF Book!Blank
    <2> QED BY <2>1, <2>2 DEF Book!Permitted
  <1>8. BookOf'[k] = Book!Effect(BookOf[k], r)
    <2>1. CASE Deletes(c)
      <3>1. slots'[k].status = "deleted"
        BY <1>3, <2>1
      <3>2. BookOf'[k] = [value |-> NoValue, policy |-> "local_only"]
        BY <1>1, <3>1 DEF BookOf
      <3>3. r.task \in {"forget", "delete"}
        BY <1>4, <2>1
      <3> HIDE DEF r, k
      <3> QED BY <3>2, <3>3 DEF Book!Effect, Book!Blank
    <2>2. CASE ~Deletes(c)
      <3>1. BookOf'[k] = [value |-> s.value, policy |-> s.sensitivity]
        <4>1. slots'[k] = [status |-> "active", current_revision |-> n,
                           sensitivity |-> s.sensitivity]
          BY <1>3, <2>2
        <4>2. /\ slots'[k].status = "active"
              /\ slots'[k].current_revision = n
              /\ slots'[k].sensitivity = s.sensitivity
          BY <4>1
        <4>3. revisions'[k][n].value = s.value
          BY <1>1, <2>2
        <4>4. k \in MemKeys
          BY <1>1
        <4>5. BookOf'[k] = IF slots'[k].status = "active"
                           THEN [value |-> revisions'[k][slots'[k].current_revision].value,
                                 policy |-> slots'[k].sensitivity]
                           ELSE [value |-> NoValue, policy |-> "local_only"]
          BY <4>4 DEF BookOf
        <4> HIDE DEF s, r, k, n
        <4> QED BY <4>2, <4>3, <4>5
      <3>2. s.value = IF r.value = NoValue THEN BookOf[k].value ELSE r.value
        <4>1. CASE r.value # NoValue
          BY <1>2, <4>1 DEF Asked
        <4>2. CASE r.value = NoValue
          <5>1. r.task = "patch"
            BY <1>1, <1>4, <2>2, <4>2, RequestFields
          <5>2. s.expected_status = "active"
            BY <5>1, <1>2 DEF Asked
          <5>3. s.value = revisions[k][s.expected_revision].value
            BY <1>1, <1>2, <4>2, <5>1 DEF Fresh
          <5> QED BY <4>2, <5>2, <5>3, <1>5
        <4> QED BY <4>1, <4>2
      <3>3. s.sensitivity = IF r.policy = NoPolicy THEN BookOf[k].policy ELSE r.policy
        <4>1. CASE r.policy # NoPolicy
          BY <1>2, <4>1 DEF Asked
        <4>2. CASE r.policy = NoPolicy /\ s.expected_status = "active"
          BY <1>1, <1>2, <1>5, <4>2 DEF Fresh
        <4>3. CASE r.policy = NoPolicy /\ s.expected_status # "active"
          BY <1>2, <1>5, <4>3 DEF Asked, Book!Blank
        <4> QED BY <4>1, <4>2, <4>3
      <3> QED BY <3>1, <3>2, <3>3, <1>4, <2>2 DEF Book!Effect
    <2> QED BY <2>1, <2>2
  <1>9. \A j \in MemKeys \ {k} : BookOf'[j] = BookOf[j]
    BY <1>1, <1>3 DEF BookOf
  <1>10. BookOf' = [BookOf EXCEPT ![k] = Book!Effect(@, r)]
    <2>1. BookOf' = [j \in MemKeys |-> BookOf'[j]] /\ BookOf = [j \in MemKeys |-> BookOf[j]]
      BY DEF BookOf
    <2> HIDE DEF BookOf
    <2> QED BY <2>1, <1>1, <1>8, <1>9
  <1>11. /\ Book!Permitted(BookOf[k], r)
         /\ BookOf' = [BookOf EXCEPT ![k] = Book!Effect(@, r)]
         /\ served' = r /\ r \in Requests
    BY <1>1, <1>7, <1>10
  <1> HIDE DEF s, r, k, n
  <1>12. \E x \in Requests : /\ Book!Permitted(BookOf[x.key], x)
                              /\ BookOf' = [BookOf EXCEPT ![x.key] = Book!Effect(@, x)]
                              /\ served' = x
    BY <1>11 DEF k
  <1> QED BY <1>12 DEF BookOf, Book!Serve

\* The implementation theorem: for its callers the revisioned, staged store is
\* the book in which every request acts at once.
THEOREM StoreImplementsBook == Spec => ImplementsBook
  <1>1. IInv /\ [Next]_vars => [Book!Next]_<<BookOf, served>>
    <2> SUFFICES ASSUME IInv, [Next]_vars PROVE [Book!Next]_<<BookOf, served>>
      OBVIOUS
    <2>1. CASE \E c \in Clients : Apply(c)
      BY <2>1, ApplyServes DEF Book!Next, Requests
    <2>2. CASE ~(\E c \in Clients : Apply(c))
      <3>1. UNCHANGED <<slots, revisions, served>>
        BY <2>2, OnlyApplyWrites
      <3> QED BY <3>1 DEF BookOf
    <2> QED BY <2>1, <2>2
  <1>2. Book!Spec <=> Book!Init /\ [][Book!Next]_<<BookOf, served>>
    BY DEF Book!Spec, BookOf
  <1> QED BY <1>1, <1>2, InitIsBlank, MemoryInvariant, PTL DEF Spec, ImplementsBook

-----------------------------------------------------------------------------
(* Counting. *)

LEMMA LeastNumber ==
  ASSUME NEW T \in SUBSET Nat, T # {}
  PROVE  \E n \in T : \A k \in T : n <= k
  <1> DEFINE S == FiniteSubsetsOf(Nat)
             R == StrictSubsetOrdering(Nat)
             U == { 0..n : n \in T }
  <1>1. IsWellFoundedOn(R, S)
    BY FS_StrictSubsetOrderingWellFounded
  <1>2. \A n \in Nat : IsFiniteSet(0..n)
    BY FS_Interval
  <1>3. U \subseteq S /\ U # {}
    <2>1. \A n \in T : 0..n \in S
      <3> TAKE n \in T
      <3>1. 0..n \in SUBSET Nat /\ IsFiniteSet(0..n)
        BY <1>2
      <3> QED BY <3>1 DEF FiniteSubsetsOf
    <2> QED BY <2>1
  <1> HIDE DEF R, S, U
  <1>4. PICK x \in U : \A y \in U : ~(<<y, x>> \in R)
    BY <1>1, <1>3, WFMin
  <1>5. PICK n \in T : x = 0..n
    BY <1>4 DEF U
  <1>6. ASSUME NEW k \in T, k < n PROVE FALSE
    <2>1. 0..k \in U /\ 0..k \subseteq 0..n /\ n \in 0..n /\ n \notin 0..k
      BY <1>6 DEF U
    <2>2. <<0..k, 0..n>> \in R
      BY <2>1 DEF R, StrictSubsetOrdering
    <2> QED BY <1>4, <1>5, <2>1, <2>2
  <1> QED BY <1>6

LEMMA CountingUp ==
  ASSUME NEW S, 0 \in S, \A n \in Nat : n \in S => n + 1 \in S
  PROVE  Nat \subseteq S
  <1> SUFFICES ASSUME Nat \ S # {} PROVE FALSE
    OBVIOUS
  <1>1. PICK n \in Nat \ S : \A k \in Nat \ S : n <= k
    BY LeastNumber
  <1>2. n - 1 \in Nat /\ n - 1 < n
    BY <1>1
  <1> QED BY <1>1, <1>2

-----------------------------------------------------------------------------
(* The run directory: the file, and where an invocation is in it. *)

\* The token at position i of the whole file, and its first k tokens.
Token(i, r) ==
  CASE i % 3 = 1 -> [part |-> "open", row |-> Row(i \div 3 + 1, r)]
    [] i % 3 = 2 -> [part |-> "close", row |-> Row(i \div 3 + 1, r)]
    [] i % 3 = 0 -> NL
Text(k, r) == [i \in 1..k |-> Token(i, r)]

\* The rows a reader finds in the first k tokens.
Readable(k) == (k + 1) \div 3
RowsOf(n, r) == [j \in 1..n |-> Row(j, r)]

Making == {"created", "new", "manifest"}
Working == {"truncate", "summary", "next", "append"}
Holding == {"new", "manifest", "recheck"} \cup Working
Places == {"idle", "checked"} \cup Making \cup Holding

RunTyped ==
  /\ manifest \in Manifests \cup {None}
  /\ summary \in Nat /\ directory \in BOOLEAN
  /\ holder \in Runs \cup {None}
  /\ pc \in [Runs -> Places] /\ revision \in [Runs -> Revisions]
  /\ rows \in [Runs -> 0..Len(Cases)] /\ unwritten \in [Runs -> Seq(Tokens)]

\* One invocation made the directory, and until it has written the manifest nobody
\* else does anything.
Made ==
  /\ \A p \in Runs : pc[p] \in Making =>
       /\ directory /\ manifest = None
       /\ results = IF pc[p] = "manifest" THEN <<>> ELSE None
       /\ \A q \in Runs : pc[q] \in Making => q = p
  /\ ~directory => manifest = None /\ results = None
  /\ manifest = None => results \in {None, <<>>} /\ \A p \in Runs : pc[p] \in Making \cup {"idle"}

\* Where the holder of the lock is in a file of k tokens.
At(p, k) ==
  /\ pc[p] = "truncate" => k % 3 = 1
  /\ pc[p] \in {"summary", "next"} => k % 3 # 1
  /\ pc[p] \in {"truncate", "summary", "next"} => rows[p] = Readable(k)
  /\ pc[p] = "next" => summary = rows[p]
  /\ pc[p] = "append" =>
       /\ rows[p] < Len(Cases)
       /\ 3 * rows[p] <= k + 1 /\ k <= 3 * rows[p] + 3
       /\ unwritten[p] = [i \in 1..(3 * rows[p] + 3 - k) |-> Token(k + i, manifest.revision)]

Locked ==
  \A p \in Runs :
    /\ pc[p] \in Holding => holder = p
    /\ pc[p] \in Working => Resumable(p)

\* The file is a beginning of what a run that nobody disturbs writes.
Begun ==
  manifest # None =>
    \E k \in Nat :
      /\ results = Text(k, manifest.revision) /\ k <= 3 * Len(Cases)
      /\ \A p \in Runs : At(p, k)

RunInv == RunTyped /\ Made /\ Locked /\ Begun

-----------------------------------------------------------------------------
LEMMA Thirds ==
  ASSUME NEW k \in Nat
  PROVE  /\ k \div 3 \in Nat /\ k % 3 \in {0, 1, 2} /\ k = 3 * (k \div 3) + (k % 3)
         /\ k % 3 = 0 => (k + 1) % 3 = 1 /\ (k + 1) \div 3 = k \div 3
         /\ k % 3 = 1 => (k + 1) % 3 = 2 /\ (k + 1) \div 3 = k \div 3
         /\ k % 3 = 2 => (k + 1) % 3 = 0 /\ (k + 1) \div 3 = k \div 3 + 1
  <1>1. ASSUME NEW q \in Nat, q = k \div 3, NEW n \in 0..2, n = k % 3 PROVE k = 3 * q + n
    BY <1>1
  <1>2. k \div 3 \in Nat /\ k % 3 \in 0..2
    OBVIOUS
  <1>3. k = 3 * (k \div 3) + (k % 3)
    BY <1>1, <1>2
  <1>4. k % 3 \in {0, 1, 2}
    OBVIOUS
  <1>5. /\ k % 3 = 0 => (k + 1) % 3 = 1 /\ (k + 1) \div 3 = k \div 3
        /\ k % 3 = 1 => (k + 1) % 3 = 2 /\ (k + 1) \div 3 = k \div 3
        /\ k % 3 = 2 => (k + 1) % 3 = 0 /\ (k + 1) \div 3 = k \div 3 + 1
    OBVIOUS
  <1> QED BY <1>2, <1>3, <1>4, <1>5

LEMMA TokenIs ==
  ASSUME NEW i \in Nat, NEW r
  PROVE  /\ Token(i, r) # NL <=> i % 3 # 0
         /\ i % 3 = 0 => Token(i, r) = NL
         /\ i % 3 = 1 => Token(i, r) = [part |-> "open", row |-> Row(i \div 3 + 1, r)]
         /\ i % 3 = 2 => Token(i, r) = [part |-> "close", row |-> Row(i \div 3 + 1, r)]
  <1>1. i % 3 = 0 \/ i % 3 = 1 \/ i % 3 = 2
    BY Thirds
  <1>2. CASE i % 3 = 0
    BY <1>2 DEF Token
  <1>3. CASE i % 3 = 1
    <2>1. Token(i, r) = [part |-> "open", row |-> Row(i \div 3 + 1, r)]
      BY <1>3 DEF Token
    <2>2. Token(i, r).part = "open" /\ NL.part = "newline"
      BY <2>1 DEF NL
    <2> QED BY <1>3, <2>1, <2>2
  <1>4. CASE i % 3 = 2
    <2>1. Token(i, r) = [part |-> "close", row |-> Row(i \div 3 + 1, r)]
      BY <1>4 DEF Token
    <2>2. Token(i, r).part = "close" /\ NL.part = "newline"
      BY <2>1 DEF NL
    <2> QED BY <1>4, <2>1, <2>2
  <1> QED BY <1>1, <1>2, <1>3, <1>4

LEMMA CasesAre == Len(Cases) \in Nat /\ Len(Cases) > 0 /\ \A i \in 1..Len(Cases) : Cases[i] \in Range(Cases)
  <1>1. Cases \in Seq(Range(Cases)) /\ Cases # <<>>
    BY QualityRunAssumption
  <1> QED BY <1>1

LEMMA TokenTyped ==
  ASSUME NEW i \in Nat, 0 < i, i <= 3 * Len(Cases), NEW r \in Revisions
  PROVE  Token(i, r) \in Tokens
  <1>1. CASE i % 3 = 0
    BY <1>1, TokenIs DEF Tokens
  <1>2. CASE i % 3 # 0
    <2>1. i \div 3 + 1 \in 1..Len(Cases)
      BY <1>2, CasesAre, Thirds
    <2>2. Row(i \div 3 + 1, r) \in ResultRows
      BY <2>1, CasesAre DEF Row, ResultRows
    <2>3. \A row \in ResultRows, x \in {"open", "close"} : [part |-> x, row |-> row] \in Tokens
      BY DEF Tokens
    <2>4. i % 3 = 1 \/ i % 3 = 2
      BY <1>2, Thirds
    <2>5. \/ Token(i, r) = [part |-> "open", row |-> Row(i \div 3 + 1, r)]
          \/ Token(i, r) = [part |-> "close", row |-> Row(i \div 3 + 1, r)]
      BY <2>4, TokenIs
    <2> QED BY <2>2, <2>3, <2>5
  <1> QED BY <1>1, <1>2

LEMMA TextIs ==
  ASSUME NEW k \in Nat, NEW r
  PROVE  /\ Text(k, r) \in Seq({ Token(i, r) : i \in Nat }) /\ Len(Text(k, r)) = k
         /\ \A i \in 1..k : Text(k, r)[i] = Token(i, r)
         /\ DOMAIN Text(k, r) = 1..k
  <1>1. \A i \in 1..k : Token(i, r) \in { Token(j, r) : j \in Nat }
    OBVIOUS
  <1> QED BY <1>1 DEF Text

LEMMA TextTyped ==
  ASSUME NEW k \in Nat, k <= 3 * Len(Cases), NEW r \in Revisions
  PROVE  Text(k, r) \in Seq(Tokens)
  <1>1. \A i \in 1..k : Token(i, r) \in Tokens
    BY CasesAre, TokenTyped
  <1> QED BY <1>1 DEF Text

LEMMA TextGrows ==
  ASSUME NEW k \in Nat, NEW r
  PROVE  /\ Append(Text(k, r), Token(k + 1, r)) = Text(k + 1, r)
         /\ k > 0 => SubSeq(Text(k, r), 1, k - 1) = Text(k - 1, r)
         /\ SubSeq(Text(k, r), 1, k) = Text(k, r)
  <1> DEFINE T == { Token(i, r) : i \in Nat }
             s == Text(k, r)
  <1>1. s \in Seq(T) /\ Len(s) = k /\ (\A i \in 1..k : s[i] = Token(i, r)) /\ Token(k + 1, r) \in T
    <2>1. Token(k + 1, r) \in T
      OBVIOUS
    <2> QED BY <2>1, TextIs
  <1> HIDE DEF s, T
  <1>2. Append(s, Token(k + 1, r)) = Text(k + 1, r)
    <2> DEFINE a == Append(s, Token(k + 1, r))
    <2>1. a \in Seq(T) /\ Len(a) = k + 1 /\ \A i \in 1..(k + 1) : a[i] = Token(i, r)
      BY <1>1
    <2>2. a = [i \in 1..(k + 1) |-> a[i]]
      BY <2>1
    <2> HIDE DEF a
    <2>3. a = Text(k + 1, r)
      BY <2>1, <2>2 DEF Text
    <2> QED BY <2>3 DEF a
  <1>3. ASSUME NEW n \in Nat, n <= k PROVE SubSeq(s, 1, n) = Text(n, r)
    <2> DEFINE a == SubSeq(s, 1, n)
    <2>1. a \in Seq(T) /\ Len(a) = n /\ \A i \in 1..n : a[i] = Token(i, r)
      BY <1>1, <1>3
    <2>2. a = [i \in 1..n |-> a[i]]
      BY <2>1
    <2> HIDE DEF a
    <2>3. a = Text(n, r)
      BY <2>1, <2>2 DEF Text
    <2> QED BY <2>3 DEF a
  <1> QED BY <1>2, <1>3 DEF s

LEMMA RowsAre ==
  ASSUME NEW n \in Nat, NEW r
  PROVE  /\ RowsOf(n, r) \in Seq({ Row(j, r) : j \in Nat }) /\ Len(RowsOf(n, r)) = n
         /\ \A j \in 1..n : RowsOf(n, r)[j] = Row(j, r)
         /\ Append(RowsOf(n, r), Row(n + 1, r)) = RowsOf(n + 1, r)
         /\ n = 0 => RowsOf(n, r) = <<>>
  <1> DEFINE T == { Row(j, r) : j \in Nat }
             s == RowsOf(n, r)
  <1>1. s \in Seq(T) /\ Len(s) = n /\ (\A j \in 1..n : s[j] = Row(j, r)) /\ Row(n + 1, r) \in T
    <2>1. \A j \in 1..n : Row(j, r) \in T
      OBVIOUS
    <2> QED BY <2>1 DEF RowsOf
  <1>2. Append(s, Row(n + 1, r)) = RowsOf(n + 1, r)
    <2> DEFINE a == Append(s, Row(n + 1, r))
    <2>1. a \in Seq(T) /\ Len(a) = n + 1 /\ \A i \in 1..(n + 1) : a[i] = Row(i, r)
      BY <1>1
    <2>2. a = [i \in 1..(n + 1) |-> a[i]]
      BY <2>1
    <2> HIDE DEF a
    <2> QED BY <2>1, <2>2 DEF RowsOf
  <1> QED BY <1>1, <1>2

-----------------------------------------------------------------------------
\* What the reader knows after the first n tokens.
Frame(n, r) ==
  IF n % 3 = 0 THEN <<>>
  ELSE IF n % 3 = 1 THEN <<Token(n, r)>> ELSE <<Token(n - 1, r), Token(n, r)>>
Scanned(n, r) == [valid |-> TRUE, found |-> RowsOf(n \div 3, r), frame |-> Frame(n, r)]

LEMMA FrameIs ==
  ASSUME NEW n \in Nat, NEW r
  PROVE  /\ n % 3 = 0 => Frame(n, r) = <<>> /\ ~IsObject(<<>>) /\ ~Torn(<<>>)
         /\ n % 3 = 1 => Torn(Frame(n, r)) /\ ~IsObject(Frame(n, r)) /\ Frame(n, r) # <<>>
         /\ n % 3 = 2 => /\ IsObject(Frame(n, r)) /\ ~Torn(Frame(n, r)) /\ Frame(n, r) # <<>>
                         /\ Frame(n, r)[1].row = Row(n \div 3 + 1, r)
  <1>1. CASE n % 3 = 0
    BY <1>1 DEF Frame, IsObject, Torn
  <1>2. CASE n % 3 = 1
    BY <1>2 DEF Frame, IsObject, Torn
  <1>3. CASE n % 3 = 2
    <2>1. n - 1 \in Nat /\ (n - 1) % 3 = 1 /\ (n - 1) \div 3 = n \div 3
      BY <1>3
    <2>2. Token(n - 1, r) = [part |-> "open", row |-> Row(n \div 3 + 1, r)]
      BY <2>1, TokenIs
    <2>3. Token(n, r) = [part |-> "close", row |-> Row(n \div 3 + 1, r)]
      BY <1>3, TokenIs
    <2> DEFINE f == Frame(n, r)
    <2>4. f = <<Token(n - 1, r), Token(n, r)>>
      BY <1>3 DEF Frame
    <2>5. Len(f) = 2 /\ f # <<>> /\ f[1] = Token(n - 1, r)
      BY <2>4
    <2>6. f[1].row = Row(n \div 3 + 1, r)
      BY <2>2, <2>5
    <2>7. f = Object(f[1].row)
      BY <2>2, <2>3, <2>4, <2>6 DEF Object
    <2> HIDE DEF f
    <2>8. IsObject(f) /\ ~Torn(f)
      BY <2>5, <2>7 DEF IsObject, Torn
    <2> QED BY <1>3, <2>5, <2>6, <2>8 DEF f
  <1> QED BY <1>1, <1>2, <1>3, Thirds

LEMMA NextFrame ==
  ASSUME NEW s, NEW g, NEW b, b = [valid |-> TRUE, found |-> s, frame |-> g]
  PROVE  \A f : [b EXCEPT !.frame = f] = [valid |-> TRUE, found |-> s, frame |-> f]
  <1> TAKE f
  <1>1. \A x : [[valid |-> x, found |-> s, frame |-> g] EXCEPT !.frame = f]
               = [valid |-> x, found |-> s, frame |-> f]
    OBVIOUS
  <1>2. [[valid |-> TRUE, found |-> s, frame |-> g] EXCEPT !.frame = f]
          = [valid |-> TRUE, found |-> s, frame |-> f]
    BY <1>1, Zenon
  <1> QED BY <1>2, Zenon

LEMMA PairGrows ==
  ASSUME NEW x, NEW y
  PROVE  Append(<<x>>, y) = <<x, y>>
  <1> DEFINE a == Append(<<x>>, y)
             T == {x, y}
  <1>1. <<x>> \in Seq(T) /\ y \in T
    OBVIOUS
  <1>2. a \in Seq(T) /\ Len(a) = 2 /\ a[1] = x /\ a[2] = y
    BY <1>1
  <1> HIDE DEF a
  <1>3. a = <<x, y>>
    BY <1>2
  <1> QED BY <1>3 DEF a

LEMMA PassIs ==
  ASSUME NEW n \in Nat, NEW r
  PROVE  Pass(Scanned(n, r), Token(n + 1, r)) = Scanned(n + 1, r)
  <1> DEFINE b == Scanned(n, r)
  <1>1. b.valid = TRUE /\ b.found = RowsOf(n \div 3, r) /\ b.frame = Frame(n, r)
    BY DEF Scanned
  <1>2. \A f : [b EXCEPT !.frame = f] = [valid |-> TRUE, found |-> RowsOf(n \div 3, r), frame |-> f]
    <2> DEFINE s == RowsOf(n \div 3, r)
               g == Frame(n, r)
    <2>1. b = [valid |-> TRUE, found |-> s, frame |-> g]
      BY DEF Scanned
    <2> HIDE DEF b, s, g
    <2>2. \A f : [b EXCEPT !.frame = f] = [valid |-> TRUE, found |-> s, frame |-> f]
      BY <2>1, NextFrame
    <2> QED BY <2>2 DEF s
  <1> HIDE DEF b
  <1>3. CASE n % 3 = 0
    <2>1. (n + 1) % 3 = 1 /\ (n + 1) \div 3 = n \div 3 /\ n + 1 \in Nat
      BY <1>3
    <2>2. Token(n + 1, r) # NL
      BY <2>1, TokenIs
    <2>3. Append(Frame(n, r), Token(n + 1, r)) = Frame(n + 1, r)
      BY <1>3, <2>1 DEF Frame
    <2>4. Pass(b, Token(n + 1, r)) = [valid |-> TRUE, found |-> RowsOf(n \div 3, r), frame |-> Frame(n + 1, r)]
      BY <1>1, <1>2, <2>2, <2>3 DEF Pass
    <2> QED BY <2>1, <2>4 DEF Scanned, b
  <1>4. CASE n % 3 = 1
    <2>1. (n + 1) % 3 = 2 /\ (n + 1) \div 3 = n \div 3 /\ n + 1 \in Nat /\ (n + 1) - 1 = n
      BY <1>4
    <2>2. Token(n + 1, r) # NL
      BY <2>1, TokenIs
    <2>3. Append(Frame(n, r), Token(n + 1, r)) = Frame(n + 1, r)
      <3>1. Frame(n, r) = <<Token(n, r)>> /\ Frame(n + 1, r) = <<Token(n, r), Token(n + 1, r)>>
        BY <1>4, <2>1 DEF Frame
      <3> QED BY <3>1, PairGrows
    <2>4. Pass(b, Token(n + 1, r)) = [valid |-> TRUE, found |-> RowsOf(n \div 3, r), frame |-> Frame(n + 1, r)]
      BY <1>1, <1>2, <2>2, <2>3 DEF Pass
    <2> QED BY <2>1, <2>4 DEF Scanned, b
  <1>5. CASE n % 3 = 2
    <2>1. (n + 1) % 3 = 0 /\ (n + 1) \div 3 = n \div 3 + 1 /\ n + 1 \in Nat
      BY <1>5
    <2>2. Token(n + 1, r) = NL
      BY <2>1, TokenIs
    <2>3. /\ IsObject(Frame(n, r)) /\ Frame(n, r) # <<>>
          /\ Frame(n, r)[1].row = Row(n \div 3 + 1, r)
      BY <1>5, FrameIs
    <2>4. Append(RowsOf(n \div 3, r), Row(n \div 3 + 1, r)) = RowsOf((n + 1) \div 3, r)
      <3>1. n \div 3 \in Nat
        OBVIOUS
      <3>2. ASSUME NEW q \in Nat PROVE Append(RowsOf(q, r), Row(q + 1, r)) = RowsOf(q + 1, r)
        BY RowsAre
      <3> QED BY <2>1, <3>1, <3>2
    <2>5. Frame(n + 1, r) = <<>>
      BY <2>1 DEF Frame
    <2>6. Pass(b, NL) = [valid |-> b.valid /\ IsObject(b.frame),
                         found |-> Append(b.found, b.frame[1].row), frame |-> <<>>]
      BY <1>1, <2>3 DEF Pass
    <2>7. (b.valid /\ IsObject(b.frame)) = TRUE
      BY <1>1, <2>3
    <2>8. Append(b.found, b.frame[1].row) = RowsOf((n + 1) \div 3, r)
      BY <1>1, <2>3, <2>4
    <2>9. Pass(b, NL) = [valid |-> TRUE, found |-> RowsOf((n + 1) \div 3, r), frame |-> <<>>]
      BY <2>6, <2>7, <2>8
    <2> QED BY <2>2, <2>5, <2>9 DEF Scanned, b
  <1> QED BY <1>3, <1>4, <1>5, Thirds DEF b

LEMMA ScanIs ==
  ASSUME NEW k \in Nat, NEW r
  PROVE  Scan(Text(k, r)) = Scanned(k, r)
  <1> DEFINE t == Text(k, r)
             D(f) == f = [n \in 0..Len(t) |-> IF n = 0 THEN Unread ELSE Pass(f[n - 1], t[n])]
  <1>1. Len(t) = k /\ \A n \in 1..k : t[n] = Token(n, r)
    BY TextIs
  <1>2. Scan(t) = (CHOOSE f : D(f))[k]
    BY <1>1 DEF Scan
  <1>3. Unread = Scanned(0, r)
    <2>1. 0 % 3 = 0 /\ 0 \div 3 = 0
      OBVIOUS
    <2>2. RowsOf(0, r) = <<>>
      BY RowsAre
    <2> QED BY <2>1, <2>2 DEF Unread, Scanned, Frame
  <1> HIDE DEF t
  <1>4. D([n \in 0..k |-> Scanned(n, r)])
    <2> DEFINE g == [n \in 0..k |-> Scanned(n, r)]
    <2>1. ASSUME NEW n \in 0..k
          PROVE  Scanned(n, r) = IF n = 0 THEN Unread ELSE Pass(g[n - 1], t[n])
      <3>1. CASE n = 0
        BY <1>3, <3>1
      <3>2. CASE n # 0
        <4>1. n - 1 \in 0..k /\ n - 1 \in Nat /\ (n - 1) + 1 = n /\ n \in 1..k
          BY <3>2
        <4>2. Pass(Scanned(n - 1, r), Token(n, r)) = Scanned(n, r)
          BY <4>1, PassIs
        <4> QED BY <1>1, <3>2, <4>1, <4>2
      <3> QED BY <3>1, <3>2
    <2> QED BY <1>1, <2>1
  <1> DEFINE f == CHOOSE f : D(f)
  <1>5. D(f)
    BY <1>4
  <1> HIDE DEF f
  <1>6. /\ f[0] = Unread
        /\ \A n \in 1..k : f[n] = Pass(f[n - 1], Token(n, r))
    <2>1. \A n \in 0..k : f[n] = IF n = 0 THEN Unread ELSE Pass(f[n - 1], t[n])
      BY <1>1, <1>5
    <2> QED BY <1>1, <2>1
  <1> DEFINE S == { n \in Nat : n <= k => f[n] = Scanned(n, r) }
  <1>7. 0 \in S
    BY <1>3, <1>6
  <1>8. ASSUME NEW n \in Nat, n \in S PROVE n + 1 \in S
    <2> SUFFICES ASSUME n + 1 <= k PROVE f[n + 1] = Scanned(n + 1, r)
      OBVIOUS
    <2>1. n + 1 \in 1..k /\ (n + 1) - 1 = n /\ f[n] = Scanned(n, r)
      BY <1>8
    <2> QED BY <1>6, <2>1, PassIs
  <1> HIDE DEF S
  <1>9. k \in S
    BY <1>7, <1>8, CountingUp
  <1> QED BY <1>2, <1>9 DEF S, f, t

LEMMA ReadIs ==
  ASSUME NEW k \in Nat, k <= 3 * Len(Cases), NEW r
  PROVE  /\ ReadResults(Text(k, r)).ok
         /\ ReadResults(Text(k, r)).rows = RowsOf(Readable(k), r)
         /\ ReadResults(Text(k, r)).torn = IF k % 3 = 1 THEN 1 ELSE 0
  <1> DEFINE s == Scan(Text(k, r))
             found == IF IsObject(s.frame) THEN Append(s.found, s.frame[1].row) ELSE s.found
             R == ReadResults(Text(k, r))
  <1>1. s.valid /\ s.found = RowsOf(k \div 3, r) /\ s.frame = Frame(k, r)
    BY ScanIs DEF Scanned
  <1>2. /\ R.ok <=> /\ s.valid /\ (s.frame = <<>> \/ IsObject(s.frame) \/ Torn(s.frame))
                    /\ Len(found) <= Len(Cases)
        /\ R.rows = found
        /\ R.torn = IF Torn(s.frame) THEN 1 ELSE 0
    BY DEF ReadResults
  <1> HIDE DEF s, R
  <1>3. found = RowsOf(Readable(k), r)
    <2>1. CASE k % 3 = 2
      <3>1. IsObject(s.frame) /\ s.frame[1].row = Row(k \div 3 + 1, r)
        BY <1>1, <2>1, FrameIs
      <3>2. Readable(k) = k \div 3 + 1 /\ k \div 3 \in Nat
        BY <2>1 DEF Readable
      <3>3. ASSUME NEW q \in Nat PROVE Append(RowsOf(q, r), Row(q + 1, r)) = RowsOf(q + 1, r)
        BY RowsAre
      <3> QED BY <1>1, <3>1, <3>2, <3>3
    <2>2. CASE k % 3 # 2
      <3>1. ~IsObject(s.frame)
        BY <1>1, <2>2, FrameIs, Thirds
      <3>2. Readable(k) = k \div 3
        BY <2>2 DEF Readable
      <3> QED BY <1>1, <3>1, <3>2
    <2> QED BY <2>1, <2>2
  <1>4. Readable(k) \in Nat /\ Readable(k) <= Len(Cases)
    BY CasesAre DEF Readable
  <1>5. Len(found) <= Len(Cases)
    BY <1>3, <1>4, RowsAre
  <1> HIDE DEF found
  <1>6. s.frame = <<>> \/ IsObject(s.frame) \/ Torn(s.frame)
    BY <1>1, FrameIs, Thirds
  <1>7. Torn(s.frame) <=> k % 3 = 1
    BY <1>1, FrameIs, Thirds
  <1> QED BY <1>1, <1>2, <1>3, <1>5, <1>6, <1>7 DEF R

-----------------------------------------------------------------------------
LEMMA ManifestIs ==
  ASSUME NEW m \in Manifests
  PROVE  /\ m # None /\ m.status \in {"running", "complete"} /\ m.revision \in Revisions
         /\ m = [status |-> m.status, revision |-> m.revision]
  BY QualityRunAssumption DEF Manifests

LEMMA Running ==
  ASSUME RunTyped, NEW p \in Runs, Resumable(p)
  PROVE  /\ manifest # None /\ manifest.status = "running" /\ manifest.revision = revision[p]
         /\ revision[p] \in Revisions
  <1>1. revision[p] \in Revisions
    BY DEF RunTyped
  <1>2. manifest \in Manifests
    BY <1>1 DEF Resumable, Manifests
  <1> QED BY <1>1, <1>2, ManifestIs DEF Resumable

LEMMA RecordedIs ==
  ASSUME NEW k \in Nat, k <= 3 * Len(Cases), NEW r \in Revisions, results = Text(k, r)
  PROVE  Recorded = RowsOf(Readable(k), r)
  <1>1. results # None
    BY TextTyped, QualityRunAssumption
  <1> QED BY <1>1, ReadIs DEF Recorded

LEMMA NothingReads == ReadResults(<<>>).ok /\ ReadResults(<<>>).rows = <<>>
  <1> DEFINE r == CHOOSE x : TRUE
  <1>1. <<>> = Text(0, r)
    BY DEF Text
  <1> HIDE DEF r
  <1>2. Readable(0) = 0 /\ 0 \in Nat /\ 0 <= 3 * Len(Cases)
    BY CasesAre DEF Readable
  <1>3. ReadResults(Text(0, r)).ok /\ ReadResults(Text(0, r)).rows = RowsOf(0, r)
    BY <1>2, ReadIs
  <1>4. RowsOf(0, r) = <<>>
    BY RowsAre
  <1> QED BY <1>1, <1>3, <1>4

LEMMA NothingRecorded ==
  ASSUME results \in {None, <<>>}
  PROVE  Recorded = <<>>
  BY NothingReads DEF Recorded

LEMMA LastToken ==
  ASSUME NEW k \in Nat, k > 0, NEW r
  PROVE  Text(k, r) # <<>> /\ Last(Text(k, r)) = Token(k, r)
  <1>1. Len(Text(k, r)) = k /\ Text(k, r)[k] = Token(k, r)
    <2>1. k \in 1..k
      OBVIOUS
    <2> QED BY <2>1, TextIs
  <1>2. Text(k, r) # <<>>
    BY <1>1
  <1> QED BY <1>1, <1>2 DEF Last

\* What Evaluate hands to the file completes the row that is due.
LEMMA UnwrittenIs ==
  ASSUME NEW n \in Nat, n < Len(Cases), NEW k \in Nat, Readable(k) = n, k % 3 # 1,
         NEW r \in Revisions
  PROVE  /\ Separator(Text(k, r)) \o Object(Row(n + 1, r)) \o <<NL>>
              = [i \in 1..(3 * n + 3 - k) |-> Token(k + i, r)]
         /\ 3 * n <= k + 1 /\ k <= 3 * n
         /\ \A i \in 1..(3 * n + 3 - k) : Token(k + i, r) \in Tokens
  <1> DEFINE o == [part |-> "open", row |-> Row(n + 1, r)]
             c == [part |-> "close", row |-> Row(n + 1, r)]
             u == [i \in 1..(3 * n + 3 - k) |-> Token(k + i, r)]
  <1>1. k = 3 * n \/ (k = 3 * n - 1 /\ k > 0)
    <2>1. CASE k % 3 = 0
      BY <2>1, Thirds DEF Readable
    <2>2. CASE k % 3 = 2
      BY <2>2, Thirds DEF Readable
    <2> QED BY <2>1, <2>2, Thirds
  <1>2. Token(3 * n + 1, r) = o /\ Token(3 * n + 2, r) = c /\ Token(3 * n + 3, r) = NL
    <2>1. /\ (3 * n + 1) % 3 = 1 /\ (3 * n + 1) \div 3 = n
          /\ (3 * n + 2) % 3 = 2 /\ (3 * n + 2) \div 3 = n
          /\ (3 * n + 3) % 3 = 0
      OBVIOUS
    <2>2. 3 * n + 1 \in Nat /\ 3 * n + 2 \in Nat /\ 3 * n + 3 \in Nat
      OBVIOUS
    <2> QED BY <2>1, <2>2, TokenIs
  <1>3. Object(Row(n + 1, r)) = <<o, c>>
    BY DEF Object
  <1> HIDE DEF o, c
  <1> DEFINE T == {o, c, NL}
  <1>4. /\ <<o, c>> \in Seq(T) /\ <<NL>> \in Seq(T) /\ <<>> \in Seq(T)
    OBVIOUS
  <1>5. ASSUME k = 3 * n PROVE Separator(Text(k, r)) \o Object(Row(n + 1, r)) \o <<NL>> = u
    <2>1. Separator(Text(k, r)) = <<>>
      <3>1. CASE n = 0
        <4>1. Text(k, r) = <<>>
          BY <1>5, <3>1 DEF Text
        <4> QED BY <4>1 DEF Separator
      <3>2. CASE n # 0
        <4>1. k \in 1..k /\ k % 3 = 0
          BY <1>5, <3>2
        <4> QED BY <4>1, LastToken, TokenIs DEF Separator
      <3> QED BY <3>1, <3>2
    <2> DEFINE w == <<>> \o <<o, c>> \o <<NL>>
    <2>2. w \in Seq(T) /\ Len(w) = 3 /\ w[1] = o /\ w[2] = c /\ w[3] = NL
      BY <1>4
    <2> HIDE DEF w
    <2>3. w = [i \in 1..3 |-> Token(k + i, r)]
      BY <1>2, <1>5, <2>2
    <2>4. 3 * n + 3 - k = 3
      BY <1>5
    <2>5. u = [i \in 1..3 |-> Token(k + i, r)]
      BY <2>4
    <2>6. w = u
      BY <2>3, <2>5
    <2>7. Separator(Text(k, r)) \o Object(Row(n + 1, r)) \o <<NL>> = w
      BY <1>3, <2>1 DEF w
    <2> HIDE DEF u
    <2> QED BY <2>6, <2>7
  <1>6. ASSUME k = 3 * n - 1, k > 0 PROVE Separator(Text(k, r)) \o Object(Row(n + 1, r)) \o <<NL>> = u
    <2>1. Separator(Text(k, r)) = <<NL>>
      <3>1. k \in 1..k /\ k % 3 = 2
        BY <1>6
      <3> QED BY <3>1, LastToken, TokenIs DEF Separator
    <2> DEFINE w == <<NL>> \o <<o, c>> \o <<NL>>
    <2>2. w \in Seq(T) /\ Len(w) = 4 /\ w[1] = NL /\ w[2] = o /\ w[3] = c /\ w[4] = NL
      BY <1>4
    <2> HIDE DEF w
    <2>3. Token(3 * n, r) = NL
      <3>1. 3 * n \in Nat /\ (3 * n) % 3 = 0
        OBVIOUS
      <3> QED BY <3>1, TokenIs
    <2>4. w = [i \in 1..4 |-> Token(k + i, r)]
      BY <1>2, <1>6, <2>2, <2>3
    <2>5. 3 * n + 3 - k = 4
      BY <1>6
    <2>6. u = [i \in 1..4 |-> Token(k + i, r)]
      BY <2>5
    <2>7. w = u
      BY <2>4, <2>6
    <2>8. Separator(Text(k, r)) \o Object(Row(n + 1, r)) \o <<NL>> = w
      BY <1>3, <2>1 DEF w
    <2> HIDE DEF u
    <2> QED BY <2>7, <2>8
  <1>7. \A i \in 1..(3 * n + 3 - k) : Token(k + i, r) \in Tokens
    <2> TAKE i \in 1..(3 * n + 3 - k)
    <2>1. k + i \in Nat /\ 0 < k + i /\ k + i <= 3 * Len(Cases)
      BY <1>1, CasesAre
    <2> QED BY <2>1, TokenTyped
  <1>8. 3 * n <= k + 1 /\ k <= 3 * n
    BY <1>1
  <1>9. Separator(Text(k, r)) \o Object(Row(n + 1, r)) \o <<NL>> = u
    BY <1>1, <1>5, <1>6
  <1> QED BY <1>7, <1>8, <1>9

LEMMA TailIs ==
  ASSUME NEW T, NEW s \in Seq(T), s # <<>>
  PROVE  /\ Head(s) = s[1]
         /\ Tail(s) \in Seq(T) /\ Len(Tail(s)) = Len(s) - 1
         /\ \A i \in 1..(Len(s) - 1) : Tail(s)[i] = s[i + 1]
  OBVIOUS

LEMMA ListedIs ==
  ASSUME NEW T, NEW s \in Seq(T), NEW n \in Nat, Len(s) = n
  PROVE  s = [i \in 1..n |-> s[i]]
  OBVIOUS

\* Writing the next token of it.
LEMMA UnwrittenShrinks ==
  ASSUME NEW n \in Nat, NEW k \in Nat, k <= 3 * n + 3, NEW r, NEW u,
         u = [i \in 1..(3 * n + 3 - k) |-> Token(k + i, r)]
  PROVE  /\ u = <<>> <=> k = 3 * n + 3
         /\ u # <<>> => /\ Head(u) = Token(k + 1, r)
                        /\ Tail(u) = [i \in 1..(3 * n + 3 - (k + 1)) |-> Token((k + 1) + i, r)]
  <1> DEFINE T == { Token(i, r) : i \in Nat }
             N == 3 * n + 3 - k
  <1>1. N \in Nat
    OBVIOUS
  <1>2. u \in Seq(T) /\ Len(u) = N /\ \A i \in 1..N : u[i] = Token(k + i, r)
    <2>1. \A i \in 1..N : Token(k + i, r) \in T
      OBVIOUS
    <2> QED BY <1>1, <2>1
  <1> HIDE DEF N, T
  <1>3. u = <<>> <=> N = 0
    <2>1. u = <<>> <=> Len(u) = 0
      BY <1>2
    <2> QED BY <1>2, <2>1
  <1>4. ASSUME u # <<>>
        PROVE  /\ Head(u) = Token(k + 1, r)
               /\ Tail(u) = [i \in 1..(N - 1) |-> Token((k + 1) + i, r)]
    <2>1. N > 0 /\ N - 1 \in Nat
      BY <1>1, <1>3, <1>4
    <2>2. Head(u) = u[1]
      BY <1>2, <1>4
    <2> DEFINE t == Tail(u)
    <2>3. t \in Seq(T) /\ Len(t) = N - 1 /\ \A i \in 1..(N - 1) : t[i] = u[i + 1]
      <3>1. u \in Seq(T) /\ u # <<>> /\ Len(u) = N
        BY <1>2, <1>4
      <3> QED BY <3>1, TailIs
    <2>4. \A i \in 1..(N - 1) : t[i] = Token((k + 1) + i, r)
      <3> TAKE i \in 1..(N - 1)
      <3>1. i + 1 \in 1..N /\ k + (i + 1) = (k + 1) + i
        BY <1>1
      <3> QED BY <1>2, <2>3, <3>1
    <2> HIDE DEF t
    <2>5. t = [i \in 1..(N - 1) |-> t[i]]
      BY <2>1, <2>3, ListedIs
    <2>6. t = [i \in 1..(N - 1) |-> Token((k + 1) + i, r)]
      BY <2>4, <2>5
    <2> QED BY <1>2, <2>1, <2>2, <2>6 DEF t
  <1>5. N - 1 = 3 * n + 3 - (k + 1)
    BY DEF N
  <1>6. N = 0 <=> k = 3 * n + 3
    BY DEF N
  <1> QED BY <1>3, <1>4, <1>5, <1>6

LEMMA AllWritten ==
  ASSUME NEW n \in Nat, NEW k \in Nat, k <= 3 * n + 3, NEW r,
         [i \in 1..(3 * n + 3 - k) |-> Token(k + i, r)] = <<>>
  PROVE  k = 3 * n + 3
  <1> DEFINE u == [i \in 1..(3 * n + 3 - k) |-> Token(k + i, r)]
  <1>1. u = <<>> <=> k = 3 * n + 3
    BY UnwrittenShrinks
  <1> QED BY <1>1

-----------------------------------------------------------------------------
(* The invariant. *)

LEMMA OneHolder ==
  ASSUME RunInv, NEW p \in Runs, pc[p] \in Holding, NEW q \in Runs, q # p
  PROVE  pc[q] \notin Holding
  BY DEF RunInv, Locked

LEMMA Written ==
  ASSUME RunInv, manifest # None
  PROVE  /\ manifest \in Manifests /\ manifest.revision \in Revisions
         /\ \E k \in Nat : /\ k <= 3 * Len(Cases) /\ results = Text(k, manifest.revision)
                           /\ \A p \in Runs : At(p, k)
         /\ \A p \in Runs : pc[p] \notin Making
         /\ directory
  <1>1. manifest \in Manifests
    BY DEF RunInv, RunTyped
  <1> QED BY <1>1, ManifestIs DEF RunInv, Made, Begun

LEMMA RunStarts ==
  ASSUME InitRun
  PROVE  RunInv
  <1>1. RunTyped
    <2>1. 0 \in 0..Len(Cases) /\ <<>> \in Seq(Tokens) /\ "idle" \in Places
      BY CasesAre DEF Places
    <2>2. /\ pc \in [Runs -> Places] /\ revision \in [Runs -> Revisions]
          /\ rows \in [Runs -> 0..Len(Cases)] /\ unwritten \in [Runs -> Seq(Tokens)]
      BY <2>1 DEF InitRun
    <2> QED BY <2>2 DEF InitRun, RunTyped
  <1>2. Made /\ Locked /\ Begun
    BY DEF InitRun, Made, Locked, Begun, Making, Holding, Working
  <1> QED BY <1>1, <1>2 DEF RunInv

\* The holder works on: its own place and the file are all that changes.
LEMMA HolderWorks ==
  ASSUME RunInv, NEW p \in Runs, holder = p, Resumable(p), pc[p] \in Holding,
         UNCHANGED <<manifest, directory, holder, revision>>,
         pc' \in [Runs -> Places], \A q \in Runs : q # p => pc'[q] = pc[q], pc'[p] \in Working,
         summary' \in Nat, rows' \in [Runs -> 0..Len(Cases)],
         unwritten' \in [Runs -> Seq(Tokens)],
         NEW k \in Nat, k <= 3 * Len(Cases), results' = Text(k, revision[p]), At(p, k)'
  PROVE  RunInv'
  <1>1. manifest # None /\ manifest.revision = revision[p]
    BY Running DEF RunInv
  <1>2. \A q \in Runs : pc[q] \notin Making
    BY <1>1, Written
  <1>3. \A q \in Runs : q # p => pc'[q] \notin Holding
    BY OneHolder
  <1>4. \A q \in Runs : pc'[q] \notin Making
    BY <1>2 DEF Working, Making
  <1>5. RunTyped'
    BY DEF RunInv, RunTyped
  <1>6. Made'
    BY <1>1, <1>4, Written DEF Made
  <1>7. Locked'
    BY <1>3 DEF Locked, Resumable, Holding
  <1>8. \A q \in Runs : At(q, k)'
    <2>1. ASSUME NEW q \in Runs, q # p PROVE At(q, k)'
      BY <1>3, <2>1 DEF At, Holding, Working
    <2> QED BY <2>1
  <1>9. Begun'
    BY <1>1, <1>8 DEF Begun
  <1> QED BY <1>5, <1>6, <1>7, <1>9 DEF RunInv

\* An invocation ends and may drop its lock; no file changes.
LEMMA InvocationEnds ==
  ASSUME RunInv, NEW p \in Runs, UNCHANGED <<files, revision>>,
         pc' \in [Runs -> Places], \A q \in Runs : q # p => pc'[q] = pc[q],
         pc'[p] = "idle",
         holder' \in Runs \cup {None}, \A q \in Runs : q # p /\ holder = q => holder' = q,
         rows' \in [Runs -> 0..Len(Cases)], unwritten' \in [Runs -> Seq(Tokens)],
         \A q \in Runs : q # p => rows'[q] = rows[q] /\ unwritten'[q] = unwritten[q]
  PROVE  RunInv'
  <1> USE DEF files
  <1>1. RunTyped'
    BY DEF RunInv, RunTyped
  <1>2. Made'
    BY DEF RunInv, Made, Making
  <1>3. Locked'
    BY DEF RunInv, Locked, Resumable, Working, Holding
  <1>4. ASSUME NEW k \in Nat, NEW q \in Runs, At(q, k) PROVE At(q, k)'
    BY <1>4 DEF At
  <1>5. Begun'
    BY <1>4 DEF RunInv, Begun
  <1> QED BY <1>1, <1>2, <1>3, <1>5 DEF RunInv

LEMMA CreateKeeps ==
  ASSUME RunInv, NEW p \in Runs, Create(p)
  PROVE  RunInv'
  <1> USE DEF Create, Goto
  <1>0. pc \in [Runs -> Places] /\ \A q \in Runs : pc'[q] = IF q = p THEN "created" ELSE pc[q]
    BY DEF RunInv, RunTyped
  <1>1. manifest = None /\ results = None /\ \A q \in Runs : pc[q] \notin Making
    BY DEF RunInv, Made
  <1>2. RunTyped'
    BY DEF RunInv, RunTyped, Places, Making
  <1>3. Made'
    BY <1>0, <1>1 DEF RunInv, Made, Making
  <1>4. Locked'
    BY <1>0 DEF RunInv, Locked, Resumable, Working, Holding
  <1>5. Begun'
    BY <1>1 DEF Begun
  <1> QED BY <1>2, <1>3, <1>4, <1>5 DEF RunInv

LEMMA ResumeKeeps ==
  ASSUME RunInv, NEW p \in Runs, Resume(p)
  PROVE  RunInv'
  <1> USE DEF Resume, Goto, files
  <1>0. pc \in [Runs -> Places] /\ \A q \in Runs : pc'[q] = IF q = p THEN "checked" ELSE pc[q]
    BY DEF RunInv, RunTyped
  <1>1. manifest # None /\ \A q \in Runs : pc[q] \notin Making
    BY Running, Written DEF RunInv
  <1>2. RunTyped'
    BY DEF RunInv, RunTyped, Places
  <1>3. Made'
    BY <1>0, <1>1 DEF RunInv, Made, Making
  <1>4. Locked'
    BY <1>0 DEF RunInv, Locked, Resumable, Working, Holding
  <1>5. ASSUME NEW k \in Nat, NEW q \in Runs, At(q, k) PROVE At(q, k)'
    BY <1>0, <1>5 DEF At
  <1>6. Begun'
    BY <1>5 DEF RunInv, Begun
  <1> QED BY <1>2, <1>3, <1>4, <1>6 DEF RunInv

LEMMA LockKeeps ==
  ASSUME RunInv, NEW p \in Runs, Lock(p)
  PROVE  RunInv'
  <1> USE DEF Lock, files
  <1>1. CASE holder # None
    <2>1. UNCHANGED <<files, revision, rows, unwritten, holder>> /\ pc' = [pc EXCEPT ![p] = "idle"]
      BY <1>1
    <2>2. pc' \in [Runs -> Places] /\ pc'[p] = "idle" /\ \A q \in Runs : q # p => pc'[q] = pc[q]
      BY <2>1 DEF RunInv, RunTyped, Places
    <2>3. holder' \in Runs \cup {None} /\ rows' \in [Runs -> 0..Len(Cases)]
          /\ unwritten' \in [Runs -> Seq(Tokens)]
      BY <2>1 DEF RunInv, RunTyped
    <2> QED BY <2>1, <2>2, <2>3, InvocationEnds
  <1>2. CASE holder = None
    <2> DEFINE x == IF pc[p] = "created" THEN "new" ELSE "recheck"
    <2>0. pc \in [Runs -> Places] /\ pc' = [pc EXCEPT ![p] = x] /\ holder' = p
      BY <1>2 DEF RunInv, RunTyped
    <2>1. \A q \in Runs : pc'[q] = IF q = p THEN x ELSE pc[q]
      BY <2>0
    <2>2. \A q \in Runs : pc[q] \notin Holding
      BY <1>2, QualityRunAssumption DEF RunInv, Locked
    <2>3. pc[p] \in {"created", "checked"} /\ UNCHANGED <<files, revision, rows, unwritten>>
      OBVIOUS
    <2>4. RunTyped'
      BY <2>0, <2>3 DEF RunInv, RunTyped, Places, Making, Holding
    <2>5. Made'
      BY <2>1, <2>3 DEF RunInv, Made, Making
    <2>6. Locked'
      <3>1. \A q \in Runs : pc'[q] \notin Working
        BY <2>1, <2>2 DEF Working, Holding
      <3>2. \A q \in Runs : pc'[q] \in Holding => q = p
        BY <2>1, <2>2
      <3> QED BY <2>0, <3>1, <3>2 DEF Locked
    <2>7. ASSUME NEW k \in Nat, NEW q \in Runs, At(q, k) PROVE At(q, k)'
      BY <2>1, <2>3, <2>7 DEF At
    <2>8. Begun'
      BY <2>3, <2>7 DEF RunInv, Begun
    <2> QED BY <2>4, <2>5, <2>6, <2>8 DEF RunInv
  <1> QED BY <1>1, <1>2

LEMMA CreateResultsKeeps ==
  ASSUME RunInv, NEW p \in Runs, CreateResults(p)
  PROVE  RunInv'
  <1> USE DEF CreateResults, Goto
  <1>0. pc \in [Runs -> Places] /\ \A q \in Runs : pc'[q] = IF q = p THEN "manifest" ELSE pc[q]
    BY DEF RunInv, RunTyped
  <1>1. /\ manifest = None /\ directory /\ holder = p
        /\ \A q \in Runs : pc[q] \in Making => q = p
    BY DEF RunInv, Made, Making, Locked, Holding
  <1>2. RunTyped'
    BY DEF RunInv, RunTyped, Places, Making
  <1>3. Made'
    BY <1>0, <1>1 DEF RunInv, Made, Making
  <1>4. Locked'
    BY <1>0, <1>1 DEF RunInv, Locked, Resumable, Working, Holding
  <1>5. Begun'
    BY <1>1 DEF Begun
  <1> QED BY <1>2, <1>3, <1>4, <1>5 DEF RunInv

LEMMA WriteManifestKeeps ==
  ASSUME RunInv, NEW p \in Runs, WriteManifest(p)
  PROVE  RunInv'
  <1> USE DEF WriteManifest, Goto
  <1>0. pc \in [Runs -> Places] /\ \A q \in Runs : pc'[q] = IF q = p THEN "summary" ELSE pc[q]
    BY DEF RunInv, RunTyped
  <1>1. /\ directory /\ holder = p /\ results = <<>>
        /\ \A q \in Runs : q # p => pc[q] = "idle"
    BY DEF RunInv, Made, Making, Locked, Holding
  <1>2. manifest' \in Manifests /\ manifest' # None /\ manifest'.revision = revision[p]
    <2>1. manifest' \in Manifests
      BY DEF RunInv, RunTyped, Manifests
    <2> QED BY <2>1, ManifestIs
  <1>3. RunTyped'
    BY <1>2, CasesAre DEF RunInv, RunTyped, Places, Holding, Working
  <1>4. Made'
    BY <1>0, <1>1, <1>2 DEF Made, Making
  <1>5. Locked'
    BY <1>0, <1>1 DEF Locked, Resumable, Working, Holding
  <1>6. Begun'
    <2>1. results' = Text(0, revision[p]) /\ 0 \in Nat /\ 0 <= 3 * Len(Cases)
      BY <1>1, CasesAre DEF Text
    <2>2. rows'[p] = 0 /\ Readable(0) = 0
      BY DEF RunInv, RunTyped, Readable
    <2>3. \A q \in Runs : At(q, 0)'
      BY <1>0, <1>1, <2>2 DEF At
    <2> QED BY <1>2, <2>1, <2>3 DEF Begun
  <1> QED BY <1>3, <1>4, <1>5, <1>6 DEF RunInv

LEMMA ReadSavedKeeps ==
  ASSUME RunInv, NEW p \in Runs, ReadSaved(p)
  PROVE  RunInv'
  <1> DEFINE read == ReadResults(results)
             good == Resumable(p) /\ read.ok /\ ValidRows(read.rows)
  <1>0. /\ pc[p] = "recheck" /\ UNCHANGED <<files, revision, unwritten>>
        /\ pc \in [Runs -> Places] /\ rows \in [Runs -> 0..Len(Cases)]
        /\ unwritten \in [Runs -> Seq(Tokens)] /\ holder = p /\ summary \in Nat
    BY DEF ReadSaved, RunInv, RunTyped, Locked, Holding
  <1>1. CASE good
    <2>1. /\ pc' = [pc EXCEPT ![p] = IF read.torn > 0 THEN "truncate" ELSE "summary"]
          /\ rows' = [rows EXCEPT ![p] = Len(read.rows)]
          /\ UNCHANGED holder
      BY <1>1 DEF ReadSaved
    <2>2. manifest # None /\ manifest.revision = revision[p]
      BY <1>1, Running DEF RunInv
    <2>3. PICK k \in Nat : k <= 3 * Len(Cases) /\ results = Text(k, revision[p])
      BY <2>2, Written
    <2>4. read.rows = RowsOf(Readable(k), revision[p]) /\ read.torn = IF k % 3 = 1 THEN 1 ELSE 0
      BY <2>3, ReadIs
    <2> HIDE DEF read
    <2>5. Readable(k) \in 0..Len(Cases) /\ Len(read.rows) = Readable(k)
      <3>1. Readable(k) \in 0..Len(Cases)
        BY <2>3, CasesAre DEF Readable
      <3>2. Readable(k) \in Nat
        BY <3>1
      <3>3. Len(RowsOf(Readable(k), revision[p])) = Readable(k)
        BY <3>2, RowsAre
      <3> QED BY <2>4, <3>1, <3>3
    <2>6. rows' \in [Runs -> 0..Len(Cases)] /\ rows'[p] = Readable(k)
      BY <1>0, <2>1, <2>5
    <2>7. /\ pc' \in [Runs -> Places] /\ \A q \in Runs : q # p => pc'[q] = pc[q]
          /\ pc'[p] = IF k % 3 = 1 THEN "truncate" ELSE "summary"
      <3>1. read.torn > 0 <=> k % 3 = 1
        BY <2>4
      <3> QED BY <1>0, <2>1, <3>1 DEF Places, Holding, Working
    <2>8. At(p, k)'
      BY <2>6, <2>7 DEF At
    <2>9. pc[p] \in Holding /\ pc'[p] \in Working
      BY <1>0, <2>7 DEF Holding, Working
    <2> QED BY <1>0, <1>1, <2>1, <2>3, <2>6, <2>7, <2>8, <2>9, HolderWorks DEF files
  <1>2. CASE ~good
    <2>1. pc' = [pc EXCEPT ![p] = "idle"] /\ holder' = None /\ UNCHANGED rows
      BY <1>0, <1>2 DEF ReadSaved, Release
    <2>2. pc' \in [Runs -> Places] /\ pc'[p] = "idle" /\ \A q \in Runs : q # p => pc'[q] = pc[q]
      BY <1>0, <2>1 DEF Places
    <2> HIDE DEF good
    <2>3. /\ holder' \in Runs \cup {None} /\ \A q \in Runs : q # p /\ holder = q => holder' = q
          /\ rows' \in [Runs -> 0..Len(Cases)] /\ unwritten' \in [Runs -> Seq(Tokens)]
          /\ \A q \in Runs : q # p => rows'[q] = rows[q] /\ unwritten'[q] = unwritten[q]
      BY <1>0, <2>1
    <2> QED BY <1>0, <2>2, <2>3, InvocationEnds
  <1> QED BY <1>1, <1>2

LEMMA TruncateKeeps ==
  ASSUME RunInv, NEW p \in Runs, Truncate(p)
  PROVE  RunInv' /\ Recorded' = Recorded
  <1>0. /\ pc[p] = "truncate" /\ pc[p] \in Holding /\ Resumable(p) /\ holder = p
        /\ pc' = [pc EXCEPT ![p] = "summary"]
        /\ pc \in [Runs -> Places] /\ rows \in [Runs -> 0..Len(Cases)]
        /\ unwritten \in [Runs -> Seq(Tokens)] /\ summary \in Nat
        /\ UNCHANGED <<manifest, summary, directory, holder, revision, rows, unwritten>>
    BY DEF Truncate, Goto, RunInv, RunTyped, Locked, Holding, Working
  <1>1. manifest # None /\ manifest.revision = revision[p] /\ revision[p] \in Revisions
    BY <1>0, Running DEF RunInv
  <1>2. PICK k \in Nat : k <= 3 * Len(Cases) /\ results = Text(k, revision[p]) /\ At(p, k)
    BY <1>1, Written
  <1>3. k % 3 = 1 /\ rows[p] = Readable(k)
    BY <1>0, <1>2 DEF At
  <1>4. k - 1 \in Nat /\ k > 0 /\ (k - 1) % 3 = 0 /\ Readable(k - 1) = Readable(k)
    BY <1>3 DEF Readable
  <1>5. results' = Text(k - 1, revision[p])
    <2>1. ReadResults(results).torn = 1 /\ Len(results) = k
      BY <1>2, <1>3, ReadIs, TextIs
    <2>2. results' = SubSeq(results, 1, k - 1)
      BY <2>1 DEF Truncate
    <2> QED BY <1>2, <1>4, <2>2, TextGrows
  <1>6. /\ pc' \in [Runs -> Places] /\ pc'[p] = "summary" /\ \A q \in Runs : q # p => pc'[q] = pc[q]
    BY <1>0 DEF Places, Holding, Working
  <1>7. At(p, k - 1)'
    BY <1>0, <1>3, <1>4, <1>6 DEF At
  <1>8. k - 1 <= 3 * Len(Cases)
    BY <1>2, <1>4, CasesAre
  <1>9. RunInv'
    <2>1. rows' \in [Runs -> 0..Len(Cases)] /\ unwritten' \in [Runs -> Seq(Tokens)] /\ summary' \in Nat
      BY <1>0
    <2> DEFINE m == k - 1
    <2>2. m \in Nat /\ m <= 3 * Len(Cases) /\ results' = Text(m, revision[p]) /\ At(p, m)'
      BY <1>4, <1>5, <1>7, <1>8
    <2> HIDE DEF m
    <2>3. UNCHANGED <<manifest, directory, holder, revision>> /\ pc'[p] \in Working
      BY <1>0, <1>6 DEF Working
    <2>4. holder = p /\ Resumable(p) /\ pc[p] \in Holding
      BY <1>0
    <2> QED BY <1>6, <2>1, <2>2, <2>3, <2>4, HolderWorks
  <1>10. Recorded = RowsOf(Readable(k), revision[p])
    BY <1>1, <1>2, RecordedIs
  <1>11. Recorded' = RowsOf(Readable(k - 1), revision[p])
    <2> DEFINE m == k - 1
    <2>1. m \in Nat /\ m <= 3 * Len(Cases) /\ results' = Text(m, revision[p])
      BY <1>4, <1>5, <1>8
    <2> HIDE DEF m
    <2>2. results' # None
      BY <1>1, <2>1, TextTyped, QualityRunAssumption
    <2>3. ReadResults(results').ok /\ ReadResults(results').rows = RowsOf(Readable(m), revision[p])
      BY <2>1, ReadIs
    <2>4. Recorded' = IF results' = None THEN <<>>
                      ELSE IF ReadResults(results').ok THEN ReadResults(results').rows ELSE <<None>>
      BY DEF Recorded
    <2> QED BY <2>2, <2>3, <2>4 DEF m
  <1> QED BY <1>4, <1>9, <1>10, <1>11

LEMMA WriteSummaryKeeps ==
  ASSUME RunInv, NEW p \in Runs, WriteSummary(p)
  PROVE  RunInv' /\ summary' = Len(Recorded)
  <1>0. /\ pc[p] = "summary" /\ pc[p] \in Holding /\ Resumable(p) /\ holder = p
        /\ pc' = [pc EXCEPT ![p] = "next"] /\ summary' = rows[p]
        /\ pc \in [Runs -> Places] /\ rows \in [Runs -> 0..Len(Cases)]
        /\ unwritten \in [Runs -> Seq(Tokens)]
        /\ UNCHANGED <<results, manifest, directory, holder, revision, rows, unwritten>>
    BY DEF WriteSummary, Goto, RunInv, RunTyped, Locked, Holding, Working
  <1>1. manifest # None /\ manifest.revision = revision[p] /\ revision[p] \in Revisions
    BY <1>0, Running DEF RunInv
  <1>2. PICK k \in Nat : k <= 3 * Len(Cases) /\ results = Text(k, revision[p]) /\ At(p, k)
    BY <1>1, Written
  <1>3. k % 3 # 1 /\ rows[p] = Readable(k)
    BY <1>0, <1>2 DEF At
  <1>4. /\ pc' \in [Runs -> Places] /\ pc'[p] = "next" /\ \A q \in Runs : q # p => pc'[q] = pc[q]
        /\ summary' \in Nat
    BY <1>0, CasesAre DEF Places, Holding, Working
  <1>5. At(p, k)'
    BY <1>0, <1>3, <1>4 DEF At
  <1>6. RunInv'
    <2>1. /\ rows' \in [Runs -> 0..Len(Cases)] /\ unwritten' \in [Runs -> Seq(Tokens)]
          /\ results' = Text(k, revision[p])
      BY <1>0, <1>2
    <2>2. UNCHANGED <<manifest, directory, holder, revision>> /\ pc'[p] \in Working
      BY <1>0, <1>4 DEF Working
    <2>3. holder = p /\ Resumable(p) /\ pc[p] \in Holding
      BY <1>0
    <2> QED BY <1>2, <1>4, <1>5, <2>1, <2>2, <2>3, HolderWorks
  <1>7. Readable(k) \in Nat /\ Recorded = RowsOf(Readable(k), revision[p])
    BY <1>1, <1>2, RecordedIs DEF Readable
  <1> QED BY <1>0, <1>3, <1>6, <1>7, RowsAre

LEMMA EvaluateKeeps ==
  ASSUME RunInv, NEW p \in Runs, Evaluate(p)
  PROVE  RunInv'
  <1>0. /\ pc[p] = "next" /\ pc[p] \in Holding /\ Resumable(p) /\ holder = p
        /\ pc' = [pc EXCEPT ![p] = "append"] /\ rows[p] < Len(Cases)
        /\ pc \in [Runs -> Places] /\ rows \in [Runs -> 0..Len(Cases)]
        /\ unwritten \in [Runs -> Seq(Tokens)] /\ summary \in Nat
        /\ UNCHANGED <<results, summary, manifest, directory, holder, revision, rows>>
    BY DEF Evaluate, Goto, RunInv, RunTyped, Locked, Holding, Working, files
  <1>1. manifest # None /\ manifest.revision = revision[p] /\ revision[p] \in Revisions
    BY <1>0, Running DEF RunInv
  <1>2. PICK k \in Nat : k <= 3 * Len(Cases) /\ results = Text(k, revision[p]) /\ At(p, k)
    BY <1>1, Written
  <1>3. k % 3 # 1 /\ rows[p] = Readable(k)
    BY <1>0, <1>2 DEF At
  <1> DEFINE n == rows[p]
             u == [i \in 1..(3 * n + 3 - k) |-> Token(k + i, revision[p])]
  <1>4. n \in Nat /\ n < Len(Cases) /\ Readable(k) = n
    BY <1>0, <1>3
  <1>5. /\ Separator(results) \o Object(Row(n + 1, revision[p])) \o <<NL>> = u
        /\ 3 * n <= k + 1 /\ k <= 3 * n
        /\ \A i \in 1..(3 * n + 3 - k) : Token(k + i, revision[p]) \in Tokens
    BY <1>1, <1>2, <1>3, <1>4, UnwrittenIs
  <1>6. unwritten' = [unwritten EXCEPT ![p] = u]
    BY <1>5 DEF Evaluate
  <1>7. u \in Seq(Tokens)
    <2>1. 3 * n + 3 - k \in Nat
      BY <1>4, <1>5
    <2> QED BY <1>5, <2>1
  <1>8. unwritten' \in [Runs -> Seq(Tokens)] /\ unwritten'[p] = u
    <2> HIDE DEF u
    <2> QED BY <1>0, <1>6, <1>7
  <1>9. /\ pc' \in [Runs -> Places] /\ pc'[p] = "append" /\ \A q \in Runs : q # p => pc'[q] = pc[q]
    BY <1>0 DEF Places, Holding, Working
  <1>10. At(p, k)'
    <2>1. rows'[p] = n /\ manifest'.revision = revision[p] /\ k <= 3 * n + 3
      BY <1>0, <1>1, <1>4, <1>5
    <2> QED BY <1>4, <1>5, <1>8, <1>9, <2>1 DEF At
  <1> QED BY <1>0, <1>2, <1>8, <1>9, <1>10, HolderWorks DEF Working

LEMMA AppendedKeeps ==
  ASSUME RunInv, NEW p \in Runs, Appended(p)
  PROVE  RunInv'
  <1>0. /\ pc[p] = "append" /\ pc[p] \in Holding /\ Resumable(p) /\ holder = p
        /\ pc' = [pc EXCEPT ![p] = "summary"] /\ unwritten[p] = <<>>
        /\ rows' = [rows EXCEPT ![p] = @ + 1]
        /\ pc \in [Runs -> Places] /\ rows \in [Runs -> 0..Len(Cases)]
        /\ unwritten \in [Runs -> Seq(Tokens)] /\ summary \in Nat
        /\ UNCHANGED <<results, summary, manifest, directory, holder, revision, unwritten>>
    BY DEF Appended, Goto, RunInv, RunTyped, Locked, Holding, Working, files
  <1>1. manifest # None /\ manifest.revision = revision[p] /\ revision[p] \in Revisions
    BY <1>0, Running DEF RunInv
  <1>2. PICK k \in Nat : k <= 3 * Len(Cases) /\ results = Text(k, revision[p]) /\ At(p, k)
    BY <1>1, Written
  <1> DEFINE n == rows[p]
  <1>3. /\ n \in Nat /\ n < Len(Cases) /\ k <= 3 * n + 3
        /\ unwritten[p] = [i \in 1..(3 * n + 3 - k) |-> Token(k + i, revision[p])]
    BY <1>0, <1>1, <1>2 DEF At
  <1> HIDE DEF n
  <1>4. k = 3 * n + 3
    <2>1. [i \in 1..(3 * n + 3 - k) |-> Token(k + i, revision[p])] = <<>>
      BY <1>0, <1>3
    <2> QED BY <1>3, <2>1, AllWritten
  <1>5. rows' \in [Runs -> 0..Len(Cases)] /\ rows'[p] = n + 1
    BY <1>0, <1>3, CasesAre DEF n
  <1>6. k % 3 = 0 /\ Readable(k) = n + 1
    BY <1>3, <1>4 DEF Readable
  <1>7. /\ pc' \in [Runs -> Places] /\ pc'[p] = "summary" /\ \A q \in Runs : q # p => pc'[q] = pc[q]
    BY <1>0 DEF Places, Holding, Working
  <1>8. At(p, k)'
    BY <1>5, <1>6, <1>7 DEF At
  <1> QED BY <1>0, <1>2, <1>5, <1>7, <1>8, HolderWorks DEF Working

\* One token of the row: the closing one records it, no other shows to a reader.
LEMMA AppendTokenKeeps ==
  ASSUME RunInv, NEW p \in Runs, AppendToken(p)
  PROVE  /\ RunInv'
         /\ \/ Recorded' = Recorded
            \/ \E n \in Nat : /\ n < Len(Cases) /\ Recorded = RowsOf(n, revision[p])
                              /\ Recorded' = RowsOf(n + 1, revision[p])
  <1>0. /\ pc[p] = "append" /\ pc[p] \in Holding /\ Resumable(p) /\ holder = p
        /\ unwritten[p] # <<>> /\ results' = Append(results, Head(unwritten[p]))
        /\ unwritten' = [unwritten EXCEPT ![p] = Tail(@)]
        /\ pc \in [Runs -> Places] /\ rows \in [Runs -> 0..Len(Cases)]
        /\ unwritten \in [Runs -> Seq(Tokens)] /\ summary \in Nat
        /\ UNCHANGED <<summary, manifest, directory, holder, pc, revision, rows>>
    BY DEF AppendToken, RunInv, RunTyped, Locked, Holding, Working
  <1>1. manifest # None /\ manifest.revision = revision[p] /\ revision[p] \in Revisions
    BY <1>0, Running DEF RunInv
  <1>2. PICK k \in Nat : k <= 3 * Len(Cases) /\ results = Text(k, revision[p]) /\ At(p, k)
    BY <1>1, Written
  <1> DEFINE n == rows[p]
             u == unwritten[p]
             m == k + 1
  <1>3. /\ n \in Nat /\ n < Len(Cases) /\ k <= 3 * n + 3 /\ 3 * n <= k + 1
        /\ u = [i \in 1..(3 * n + 3 - k) |-> Token(k + i, revision[p])]
    BY <1>0, <1>1, <1>2 DEF At
  <1>4. u # <<>> /\ results' = Append(results, Head(u)) /\ u \in Seq(Tokens)
    BY <1>0
  <1>5. unwritten' \in [Runs -> Seq(Tokens)] /\ unwritten'[p] = Tail(u)
    <2>1. Tail(u) \in Seq(Tokens)
      BY <1>4, TailIs
    <2> QED BY <1>0, <2>1
  <1>6. rows[p] = n
    OBVIOUS
  <1> HIDE DEF n, u
  <1>7. /\ k # 3 * n + 3 /\ Head(u) = Token(k + 1, revision[p])
        /\ Tail(u) = [i \in 1..(3 * n + 3 - (k + 1)) |-> Token((k + 1) + i, revision[p])]
    BY <1>3, <1>4, UnwrittenShrinks
  <1>8. results' = Text(m, revision[p])
    <2>1. results' = Append(Text(k, revision[p]), Token(k + 1, revision[p]))
      BY <1>2, <1>4, <1>7
    <2> QED BY <2>1, TextGrows
  <1>9. m \in Nat /\ m <= 3 * n + 3 /\ 3 * n <= m + 1 /\ m <= 3 * Len(Cases)
    BY <1>3, <1>7, CasesAre
  <1>10. unwritten'[p] = [i \in 1..(3 * n + 3 - m) |-> Token(m + i, revision[p])]
    BY <1>5, <1>7
  <1>11. RunInv'
    <2> HIDE DEF m
    <2>1. rows'[p] = n /\ manifest'.revision = revision[p] /\ pc'[p] = "append"
      BY <1>0, <1>1, <1>6
    <2>2. At(p, m)'
      BY <1>3, <1>9, <1>10, <2>1 DEF At
    <2>3. /\ rows' \in [Runs -> 0..Len(Cases)] /\ summary' \in Nat /\ pc' \in [Runs -> Places]
          /\ \A q \in Runs : q # p => pc'[q] = pc[q]
      BY <1>0
    <2>4. UNCHANGED <<manifest, directory, holder, revision>> /\ pc'[p] \in Working
      BY <1>0, <2>1 DEF Working
    <2>5. holder = p /\ Resumable(p) /\ pc[p] \in Holding
      BY <1>0
    <2> QED BY <1>5, <1>8, <1>9, <2>2, <2>3, <2>4, <2>5, HolderWorks
  <1>12. Recorded = RowsOf(Readable(k), revision[p])
    BY <1>1, <1>2, RecordedIs
  <1>13. Recorded' = RowsOf(Readable(m), revision[p])
    <2> HIDE DEF m
    <2>1. results' # None
      BY <1>1, <1>8, <1>9, TextTyped, QualityRunAssumption
    <2>2. ReadResults(results').ok /\ ReadResults(results').rows = RowsOf(Readable(m), revision[p])
      BY <1>8, <1>9, ReadIs
    <2>3. Recorded' = IF results' = None THEN <<>>
                      ELSE IF ReadResults(results').ok THEN ReadResults(results').rows ELSE <<None>>
      BY DEF Recorded
    <2> QED BY <2>1, <2>2, <2>3
  <1>14. \/ Readable(m) = Readable(k)
         \/ Readable(k) = n /\ Readable(m) = n + 1
    <2>1. k \in 3 * n - 1 .. 3 * n + 2
      BY <1>3, <1>7
    <2>2. CASE k = 3 * n - 1
      BY <1>3, <2>2 DEF Readable
    <2>3. CASE k = 3 * n
      BY <1>3, <2>3 DEF Readable
    <2>4. CASE k = 3 * n + 1
      BY <1>3, <2>4 DEF Readable
    <2>5. CASE k = 3 * n + 2
      BY <1>3, <2>5 DEF Readable
    <2> QED BY <1>3, <2>1, <2>2, <2>3, <2>4, <2>5
  <1> QED BY <1>3, <1>11, <1>12, <1>13, <1>14

LEMMA CompleteKeeps ==
  ASSUME RunInv, NEW p \in Runs, Complete(p)
  PROVE  /\ RunInv' /\ summary = Len(Cases) /\ Len(Recorded) = Len(Cases)
         /\ manifest' # None /\ manifest'.status = "complete"
  <1>0. /\ pc[p] = "next" /\ pc[p] \in Holding /\ Resumable(p) /\ holder = p
        /\ pc' = [pc EXCEPT ![p] = "idle"] /\ rows[p] = Len(Cases) /\ holder' = None
        /\ manifest' = [status |-> "complete", revision |-> revision[p]]
        /\ pc \in [Runs -> Places]
        /\ UNCHANGED <<results, summary, directory, revision, rows, unwritten>>
    BY DEF Complete, Goto, Release, RunInv, RunTyped, Locked, Holding, Working
  <1>1. /\ manifest # None /\ manifest.revision = revision[p] /\ revision[p] \in Revisions
        /\ directory
    BY <1>0, Running, Written DEF RunInv
  <1>2. PICK k \in Nat : k <= 3 * Len(Cases) /\ results = Text(k, revision[p]) /\ At(p, k)
    BY <1>1, Written
  <1>3. rows[p] = Readable(k) /\ summary = rows[p]
    BY <1>0, <1>2 DEF At
  <1>4. manifest' \in Manifests /\ manifest' # None /\ manifest'.status = "complete"
        /\ manifest'.revision = revision[p]
    <2>1. manifest' \in Manifests
      BY <1>0, <1>1 DEF Manifests
    <2> QED BY <1>0, <2>1, ManifestIs
  <1>5. \A q \in Runs : pc'[q] \notin Holding /\ pc'[q] \notin Making
    <2>1. pc'[p] = "idle" /\ \A q \in Runs : q # p => pc'[q] = pc[q]
      BY <1>0
    <2>2. \A q \in Runs : q # p => pc[q] \notin Holding
      BY <1>0, OneHolder
    <2>3. \A q \in Runs : pc[q] \notin Making
      BY <1>1, Written
    <2> QED BY <2>1, <2>2, <2>3 DEF Holding, Working, Making
  <1>6. RunTyped'
    <2>1. pc' \in [Runs -> Places]
      BY <1>0 DEF Places
    <2> QED BY <1>0, <1>4, <2>1 DEF RunInv, RunTyped
  <1>7. Made'
    BY <1>0, <1>1, <1>4, <1>5 DEF Made
  <1>8. Locked'
    BY <1>5 DEF Locked, Holding
  <1>9. Begun'
    <2>1. \A q \in Runs : At(q, k)'
      BY <1>5 DEF At, Holding, Working
    <2> QED BY <1>0, <1>2, <1>4, <2>1 DEF Begun
  <1>10. RunInv'
    BY <1>6, <1>7, <1>8, <1>9 DEF RunInv
  <1>11. Len(Recorded) = Readable(k)
    <2>1. Readable(k) \in Nat
      BY DEF Readable
    <2>2. Recorded = RowsOf(Readable(k), revision[p])
      BY <1>1, <1>2, RecordedIs
    <2>3. Len(RowsOf(Readable(k), revision[p])) = Readable(k)
      BY <2>1, RowsAre
    <2> QED BY <2>2, <2>3
  <1> QED BY <1>0, <1>3, <1>4, <1>10, <1>11

LEMMA KillKeeps ==
  ASSUME RunInv, NEW p \in Runs, Kill(p)
  PROVE  RunInv'
  <1>0. /\ pc' = [pc EXCEPT ![p] = "idle"] /\ holder' = IF holder = p THEN None ELSE holder
        /\ rows' = [rows EXCEPT ![p] = 0] /\ unwritten' = [unwritten EXCEPT ![p] = <<>>]
        /\ pc \in [Runs -> Places] /\ rows \in [Runs -> 0..Len(Cases)]
        /\ unwritten \in [Runs -> Seq(Tokens)] /\ holder \in Runs \cup {None}
        /\ UNCHANGED <<files, revision>>
    BY DEF Kill, Release, RunInv, RunTyped
  <1>1. pc' \in [Runs -> Places] /\ pc'[p] = "idle" /\ \A q \in Runs : q # p => pc'[q] = pc[q]
    BY <1>0 DEF Places
  <1>2. rows' \in [Runs -> 0..Len(Cases)] /\ unwritten' \in [Runs -> Seq(Tokens)]
    <2>1. 0 \in 0..Len(Cases) /\ <<>> \in Seq(Tokens)
      BY CasesAre
    <2> QED BY <1>0, <2>1
  <1>3. \A q \in Runs : q # p => rows'[q] = rows[q] /\ unwritten'[q] = unwritten[q]
    BY <1>0
  <1>4. holder' \in Runs \cup {None} /\ \A q \in Runs : q # p /\ holder = q => holder' = q
    BY <1>0
  <1> QED BY <1>0, <1>1, <1>2, <1>3, <1>4, InvocationEnds

LEMMA NothingHappens ==
  ASSUME RunInv, UNCHANGED runVars
  PROVE  RunInv'
  <1> USE DEF runVars, files
  <1>1. RunTyped' /\ Made' /\ Locked'
    BY DEF RunInv, RunTyped, Made, Locked, Resumable
  <1>2. ASSUME NEW k \in Nat, NEW q \in Runs, At(q, k) PROVE At(q, k)'
    BY <1>2 DEF At
  <1>3. Begun'
    BY <1>2 DEF RunInv, Begun
  <1> QED BY <1>1, <1>3 DEF RunInv

LEMMA RunStep ==
  ASSUME RunInv, [RunNext]_runVars
  PROVE  RunInv'
  <1>1. CASE UNCHANGED runVars
    BY <1>1, NothingHappens
  <1>2. ASSUME NEW p \in Runs, Step(p) \/ Kill(p) PROVE RunInv'
    BY <1>2, CreateKeeps, ResumeKeeps, LockKeeps, CreateResultsKeeps, WriteManifestKeeps,
       ReadSavedKeeps, TruncateKeeps, WriteSummaryKeeps, EvaluateKeeps, AppendTokenKeeps,
       AppendedKeeps, CompleteKeeps, KillKeeps DEF Step
  <1> QED BY <1>1, <1>2 DEF RunNext

\* Whoever holds the lock and works is the only one, the manifest is its own, and
\* results.jsonl is a beginning of the file an undisturbed run writes, up to the
\* token its place in the code says (text_quality_storage.py, read_results and
\* durable_append; aevon_text_quality.py, the run lock).
THEOREM RunInvariant == RunSpec => []RunInv
  <1> QED BY RunStarts, RunStep, PTL DEF RunSpec

-----------------------------------------------------------------------------
(* The directory implements CaseLog. *)

Finished == manifest # None /\ manifest.status = "complete"

LEMMA RecordIs ==
  ASSUME NEW n \in Nat, n < Len(Cases), NEW r \in Revisions, ~Finished, UNCHANGED <<summary, Finished>>,
         Recorded = RowsOf(n, r), Recorded' = RowsOf(n + 1, r)
  PROVE  Log!Record
  <1>1. Len(Recorded) = n
    BY RowsAre
  <1>2. \A i \in 1..n : Recorded[i].revision = r
    <2> TAKE i \in 1..n
    <2>1. RowsOf(n, r)[i] = Row(i, r)
      BY RowsAre
    <2>2. Recorded[i] = Row(i, r)
      BY <2>1
    <2>3. Row(i, r).revision = r
      BY DEF Row
    <2> QED BY <2>2, <2>3
  <1>3. Recorded' = Append(Recorded, [case |-> Cases[n + 1], revision |-> r])
    <2>1. Append(RowsOf(n, r), Row(n + 1, r)) = RowsOf(n + 1, r)
      BY RowsAre
    <2> QED BY <2>1 DEF Row
  <1>4. \E x \in Revisions :
          /\ \A i \in 1..Len(Recorded) : Recorded[i].revision = x
          /\ Recorded' = Append(Recorded, [case |-> Cases[Len(Recorded) + 1], revision |-> x])
    BY <1>1, <1>2, <1>3
  <1> HIDE DEF Recorded
  <1> QED BY <1>1, <1>4 DEF Log!Record, Finished

LEMMA LogStep ==
  ASSUME RunInv, NEW p \in Runs, Step(p) \/ Kill(p)
  PROVE  \/ Log!Record \/ Log!Report \/ Log!Finish
         \/ UNCHANGED <<Recorded, summary, Finished>>
  <1>1. ASSUME Resumable(p) PROVE ~Finished /\ revision[p] \in Revisions
    BY <1>1, Running DEF RunInv, Finished
  <1>2. pc[p] \in Working => Resumable(p)
    BY DEF RunInv, Locked
  <1>3. CASE UNCHANGED <<manifest, results, summary>>
    BY <1>3 DEF Recorded, Finished
  <1>4. CASE CreateResults(p)
    <2>1. manifest = None /\ results \in {None, <<>>} /\ results' = <<>> /\ UNCHANGED <<manifest, summary>>
      BY <1>4 DEF CreateResults, Goto, RunInv, Made, Making
    <2>2. Recorded = <<>>
      BY <2>1, NothingRecorded
    <2>3. Recorded' = <<>>
      BY <2>1, NothingReads DEF Recorded
    <2> QED BY <2>1, <2>2, <2>3 DEF Finished
  <1>5. CASE WriteManifest(p)
    <2>1. manifest = None /\ UNCHANGED <<results, summary>>
      BY <1>5 DEF WriteManifest, Goto, RunInv, Made, Making
    <2>2. manifest'.status = "running"
      BY <1>5 DEF WriteManifest
    <2> QED BY <2>1, <2>2 DEF Recorded, Finished
  <1>6. CASE Truncate(p)
    <2>1. Recorded' = Recorded
      BY <1>6, TruncateKeeps
    <2>2. UNCHANGED <<manifest, summary>>
      BY <1>6 DEF Truncate
    <2> QED BY <2>1, <2>2 DEF Finished
  <1>7. CASE WriteSummary(p)
    <2>1. pc[p] \in Working /\ UNCHANGED <<manifest, results>>
      BY <1>7 DEF WriteSummary, Goto, Working
    <2>2. summary' = Len(Recorded)
      BY <1>7, WriteSummaryKeeps
    <2>3. UNCHANGED <<Recorded, Finished>> /\ ~Finished
      BY <1>1, <1>2, <2>1 DEF Recorded, Finished
    <2> QED BY <2>2, <2>3 DEF Log!Report, Finished
  <1>8. CASE AppendToken(p)
    <2>1. pc[p] \in Working /\ UNCHANGED <<manifest, summary>>
      BY <1>8 DEF AppendToken, Working
    <2>2. ~Finished /\ UNCHANGED Finished /\ revision[p] \in Revisions
      BY <1>1, <1>2, <2>1 DEF Finished
    <2>3. CASE Recorded' = Recorded
      BY <2>1, <2>2, <2>3
    <2>4. CASE Recorded' # Recorded
      <3>1. PICK n \in Nat : /\ n < Len(Cases) /\ Recorded = RowsOf(n, revision[p])
                             /\ Recorded' = RowsOf(n + 1, revision[p])
        BY <1>8, <2>4, AppendTokenKeeps
      <3> QED BY <2>1, <2>2, <3>1, RecordIs
    <2> QED BY <2>3, <2>4
  <1>9. CASE Complete(p)
    <2>1. pc[p] \in Working /\ UNCHANGED <<results, summary>>
      BY <1>9 DEF Complete, Goto, Working
    <2>2. ~Finished /\ Finished' /\ summary = Len(Cases) /\ Len(Recorded) = Len(Cases)
      BY <1>1, <1>2, <1>9, <2>1, CompleteKeeps DEF Finished
    <2>3. UNCHANGED Recorded
      BY <2>1 DEF Recorded
    <2> HIDE DEF Recorded
    <2> QED BY <2>1, <2>2, <2>3 DEF Log!Finish, Finished
  <1> QED BY <1>3, <1>4, <1>5, <1>6, <1>7, <1>8, <1>9
      DEF Step, Kill, Create, Resume, Lock, ReadSaved, Evaluate, Appended, files

\* The second implementation theorem: whatever invocations, kills and resumes
\* there are, the directory is a log in which whole rows of one revision follow
\* each other, the summary counts rows that are there, and "complete" comes last.
THEOREM RunImplementsLog == RunSpec => ResumeIsExact
  <1>1. InitRun => Log!Init
    <2> SUFFICES ASSUME InitRun PROVE Log!Init
      OBVIOUS
    <2>1. manifest = None /\ results = None /\ summary = 0
      BY DEF InitRun
    <2>2. Recorded = <<>>
      BY <2>1, NothingRecorded
    <2> QED BY <2>1, <2>2 DEF Log!Init
  <1>2. RunInv /\ [RunNext]_runVars
          => [Log!Record \/ Log!Report \/ Log!Finish]_<<Recorded, summary, Finished>>
    <2> SUFFICES ASSUME RunInv, [RunNext]_runVars
                 PROVE  [Log!Record \/ Log!Report \/ Log!Finish]_<<Recorded, summary, Finished>>
      OBVIOUS
    <2>1. CASE UNCHANGED runVars
      BY <2>1 DEF runVars, files, Recorded, Finished
    <2>2. CASE ~UNCHANGED runVars
      BY <2>2, LogStep DEF RunNext
    <2> QED BY <2>1, <2>2
  <1>3. Log!Spec <=> Log!Init /\ [][Log!Record \/ Log!Report \/ Log!Finish]_<<Recorded, summary, Finished>>
    BY DEF Log!Spec, Log!vars, Finished
  <1> QED BY <1>1, <1>2, <1>3, RunInvariant, PTL DEF RunSpec, ResumeIsExact
=============================================================================
