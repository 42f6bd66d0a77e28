-------------------------- MODULE AssetStoreProofs --------------------------
(***************************************************************************)
(* Proofs about AssetStore for any number of images, conversations and     *)
(* requests: the types, that an image is shown by one conversation, that   *)
(* the cleanup takes nothing attached and, when no upload expires inside   *)
(* the commit of a turn (Prompt), that every row has its file.             *)
(*                                                                         *)
(* BInv says what a thread inside a transaction may rely on.  SInv adds    *)
(* what a thread that removes files knows: nothing it will remove has a    *)
(* row, or can get one, because no upload in progress is among it (Apart). *)
(***************************************************************************)
EXTENDS AssetStore, TLAPS

In(w, labels) == work[w].pc \in labels
Uploading(w) == In(w, {"inserted", "written"})

Accounted ==
  /\ Rows \subseteq drawn
  /\ \A w \in Threads : work[w].ids \subseteq drawn /\ work[w].cutoff \subseteq drawn

Locals(w) ==
  /\ Uploading(w) => \A a \in work[w].ids : owner[a] = "absent"
  /\ In(w, {"prepared", "attached", "deleting"}) => work[w].conversation \in Conversations
  /\ At(w, "attached") => \A a \in work[w].ids : owner[a] \in {"temporary", work[w].conversation}

BInv == TypeOK /\ Accounted /\ OneConversation /\ \A w \in Workers : Locals(w)

LEMMA InitBase == Init => BInv
  BY AssetAssumption DEF Init, BInv, TypeOK, Accounted, OneConversation, Locals, Rows, Threads, Idle,
     Labels, Uploading, In, At

\* The write lock is held by at most one thread, the one inside a transaction.
LEMMA OneWriter ==
  ASSUME TypeOK, NEW v \in Threads, NEW w \in Threads,
         work[v].pc \in {"inserted", "written", "attached"}
  PROVE  /\ lock # Nobody
         /\ work[w].pc \in {"inserted", "written", "attached"} => v = w
  BY AssetAssumption DEF TypeOK, Threads

(***************************************************************************)
(* A step of one thread, after which its locals are r: either it leaves    *)
(* the owners alone, or no other thread is inside a transaction.           *)
(***************************************************************************)
Writers == {"inserted", "written", "attached"}
Locked == \A v \in Threads : lock = v <=> work[v].pc \in Writers
Calls == [pc : Labels, ids : SUBSET Assets, cutoff : SUBSET Assets, active : SUBSET Assets,
          conversation : Conversations \cup {Nobody}]
Tables ==
  /\ owner \in [Assets -> {"absent", "temporary"} \cup Conversations]
  /\ links \in [Assets -> SUBSET Conversations]
  /\ talks \in [Conversations -> {"unborn", "live", "deleted"}]
  /\ files \subseteq drawn /\ old \subseteq drawn /\ drawn \subseteq Assets
  /\ Rows \subseteq drawn
  /\ OneConversation

LEMMA ThreadStep ==
  ASSUME BInv, NEW w \in Threads, NEW r \in Calls, work' = [work EXCEPT ![w] = r],
         Tables', drawn \subseteq drawn', faults' \in 0 .. MaxFaults, Locked',
         owner' = owner \/ \A v \in Threads \ {w} : work[v].pc \notin Writers,
         r.ids \subseteq drawn', r.cutoff \subseteq drawn',
         r.pc \in {"prepared", "attached", "deleting"} => r.conversation \in Conversations,
         r.pc \in {"inserted", "written"} => \A a \in r.ids : owner'[a] = "absent",
         r.pc = "attached" => \A a \in r.ids : owner'[a] \in {"temporary", r.conversation}
  PROVE  BInv'
  <1> USE DEF BInv
  <1>1. /\ work'[w] = r /\ work' \in [Threads -> Calls]
        /\ \A v \in Threads \ {w} : work'[v] = work[v]
    BY DEF TypeOK, Calls
  <1>2. TypeOK'
    BY <1>1 DEF TypeOK, Tables, Locked, Calls, Writers
  <1>3. Accounted'
    BY <1>1 DEF Accounted, Tables
  <1>4. OneConversation'
    BY DEF Tables
  <1>5. ASSUME NEW v \in Workers PROVE Locals(v)'
    <2>1. CASE v = w
      BY <1>1, <2>1 DEF Locals, Uploading, In, At
    <2>2. CASE v # w
      BY <1>1, <2>2 DEF Locals, Uploading, In, At, Threads, Writers
    <2> QED BY <2>1, <2>2
  <1> QED BY <1>2, <1>3, <1>4, <1>5

\* What BInv says of the tables and of the lock.
LEMMA BaseFacts ==
  ASSUME BInv
  PROVE  /\ Tables /\ Locked /\ work \in [Threads -> Calls] /\ faults \in 0 .. MaxFaults
         /\ \A w \in Threads : work[w].ids \subseteq drawn /\ work[w].cutoff \subseteq drawn
         /\ Idle \in Calls /\ Idle.ids = {} /\ Idle.cutoff = {} /\ Idle.pc = "idle"
         /\ lock = Nobody => \A w \in Threads : work[w].pc \notin Writers
         /\ \A v, w \in Threads :
              work[v].pc \in Writers /\ work[w].pc \in Writers => v = w
  BY AssetAssumption DEF BInv, TypeOK, Tables, Locked, Calls, Accounted, Idle, Labels, Threads, Writers

\* A step that leaves the rows and the locals of every thread alone.
LEMMA QuietStep ==
  ASSUME BInv, UNCHANGED <<owner, links, drawn, work, lock, faults>>,
         files' \subseteq drawn, old' \subseteq drawn,
         talks' \in [Conversations -> {"unborn", "live", "deleted"}]
  PROVE  BInv'
  BY DEF BInv, TypeOK, Accounted, Rows, OneConversation, Locals, Uploading, In, At

LEMMA TablesKept ==
  ASSUME BInv, UNCHANGED rows, drawn \subseteq drawn', drawn' \subseteq Assets,
         files' \subseteq drawn', old' \subseteq drawn'
  PROVE  Tables'
  BY BaseFacts DEF Tables, rows, Rows, OneConversation

\* A thread that only moves on to another place.
LEMMA MovedOn ==
  ASSUME BInv, NEW w \in Threads, NEW label \in Labels
  PROVE  Goto(w, label) =>
           LET r == [work[w] EXCEPT !.pc = label] IN
           /\ work' = [work EXCEPT ![w] = r] /\ r \in Calls
           /\ r.pc = label /\ r.ids = work[w].ids /\ r.cutoff = work[w].cutoff
           /\ r.conversation = work[w].conversation
  BY BaseFacts DEF Goto, Calls

\* What becomes of the lock when w takes it, keeps its relation to it or gives it up.
LEMMA LockStep ==
  ASSUME BInv, NEW w \in Threads, NEW r \in Calls, work' = [work EXCEPT ![w] = r],
         \/ lock' = lock /\ (work[w].pc \in Writers <=> r.pc \in Writers)
         \/ lock' = Nobody /\ lock \in {w, Nobody} /\ r.pc \notin Writers
         \/ lock = Nobody /\ lock' = w /\ r.pc \in Writers
  PROVE  Locked'
  <1>1. work'[w] = r /\ \A v \in Threads \ {w} : work'[v] = work[v]
    BY BaseFacts
  <1>2. Locked
    BY BaseFacts
  <1> QED BY <1>1, <1>2, AssetAssumption DEF Locked, Threads

LEMMA UploadBase ==
  ASSUME BInv, NEW w \in Workers, InsertAsset(w) \/ WriteFile(w) \/ CommitUpload(w)
  PROVE  BInv'
  <1> USE AssetAssumption DEF Locked, Writers, Threads
  <1>1. CASE InsertAsset(w)
    <2>1. PICK a \in Assets \ drawn, c \in {Nobody} \cup Conversations :
               /\ drawn' = drawn \cup {a}
               /\ work' = [work EXCEPT ![w] =
                             [Idle EXCEPT !.pc = "inserted", !.ids = {a}, !.conversation = c]]
      BY <1>1 DEF InsertAsset
    <2> DEFINE r == [Idle EXCEPT !.pc = "inserted", !.ids = {a}, !.conversation = c]
    <2>2. r \in Calls /\ r.pc = "inserted" /\ r.ids = {a} /\ r.cutoff = {}
      BY BaseFacts DEF Idle, Calls, Labels
    <2>3. owner' = owner /\ owner[a] = "absent" /\ lock = Nobody /\ lock' = w
      BY <1>1, BaseFacts DEF InsertAsset, rows, Tables, Rows
    <2> HIDE DEF r
    <2>4. Locked'
      BY <2>1, <2>2, <2>3, BaseFacts DEF r
    <2>5. Tables' /\ faults' = faults
      BY <1>1, <2>1, BaseFacts, TablesKept DEF InsertAsset, Tables
    <2> QED BY <2>1, <2>2, <2>3, <2>4, <2>5, ThreadStep, BaseFacts DEF r
  <1>2. CASE WriteFile(w)
    <2>1. UNCHANGED <<owner, drawn>> /\ faults' \in 0 .. MaxFaults
      BY <1>2, BaseFacts DEF WriteFile, rows, Fault
    <2>2. Tables'
      BY <1>2, BaseFacts, TablesKept DEF WriteFile, Tables
    <2>3. CASE Goto(w, "written") /\ UNCHANGED lock
      <3> DEFINE r == [work[w] EXCEPT !.pc = "written"]
      <3>1. /\ work' = [work EXCEPT ![w] = r] /\ r \in Calls /\ r.pc = "written"
            /\ r.ids = work[w].ids /\ r.cutoff = work[w].cutoff
        BY <2>3, MovedOn DEF Labels
      <3> HIDE DEF r
      <3>2. Locked' /\ \A a \in r.ids : owner'[a] = "absent"
        BY <1>2, <2>1, <2>3, <3>1, LockStep DEF WriteFile, At, BInv, Locals, Uploading, In
      <3> QED BY <1>2, <2>1, <2>2, <3>1, <3>2, ThreadStep, BaseFacts
    <2>4. CASE lock' = Nobody /\ Finish(w)
      <3>1. Locked'
        BY <1>2, <2>4, LockStep, BaseFacts DEF WriteFile, At, Finish
      <3> QED BY <2>1, <2>2, <2>4, <3>1, ThreadStep, BaseFacts DEF Finish
    <2> QED BY <1>2, <2>3, <2>4 DEF WriteFile
  <1>3. CASE CommitUpload(w)
    <2>1. At(w, "written") /\ lock' = Nobody /\ UNCHANGED <<links, files, drawn, old, talks>>
          /\ faults' \in 0 .. MaxFaults
      BY <1>3, BaseFacts DEF CommitUpload, Fault
    <2>2. \A a \in work[w].ids : owner[a] = "absent" /\ a \in drawn
      BY <2>1, BaseFacts DEF BInv, Locals, Uploading, In, At
    <2>3. CASE UNCHANGED owner /\ Goto(w, "removing")
      <3> DEFINE r == [work[w] EXCEPT !.pc = "removing"]
      <3>1. /\ work' = [work EXCEPT ![w] = r] /\ r \in Calls /\ r.pc = "removing"
            /\ r.ids = work[w].ids /\ r.cutoff = work[w].cutoff
        BY <2>3, MovedOn DEF Labels
      <3> HIDE DEF r
      <3>2. Tables' /\ Locked'
        BY <2>1, <2>3, <3>1, LockStep, TablesKept, BaseFacts DEF At, rows, Tables
      <3> QED BY <2>1, <2>3, <3>1, <3>2, ThreadStep, BaseFacts
    <2>4. CASE /\ owner' = [a \in Assets |-> IF a \notin work[w].ids THEN owner[a]
                                             ELSE IF work[w].conversation = Nobody THEN "temporary"
                                             ELSE work[w].conversation]
               /\ Finish(w)
      <3>1. Tables'
        BY <2>1, <2>2, <2>4, BaseFacts DEF Tables, Rows, OneConversation, Calls
      <3>2. Locked' /\ \A v \in Threads \ {w} : work[v].pc \notin Writers
        BY <2>1, <2>4, LockStep, BaseFacts DEF At, Finish
      <3> QED BY <2>1, <2>4, <3>1, <3>2, ThreadStep, BaseFacts DEF Finish
    <2> QED BY <1>3, <2>3, <2>4 DEF CommitUpload
  <1> QED BY <1>1, <1>2, <1>3

\* A step of a thread outside of any transaction that leaves the rows alone.
LEMMA LightStep ==
  ASSUME BInv, NEW w \in Threads, NEW r \in Calls, work' = [work EXCEPT ![w] = r],
         UNCHANGED <<rows, drawn, old, lock>>, files' \subseteq drawn, faults' \in 0 .. MaxFaults,
         work[w].pc \notin Writers, r.pc \notin Writers,
         r.ids \subseteq drawn, r.cutoff \subseteq drawn,
         r.pc \in {"prepared", "deleting"} => r.conversation \in Conversations
  PROVE  BInv'
  <1>1. Locked' /\ Tables' /\ owner' = owner
    BY LockStep, TablesKept, BaseFacts DEF Tables, rows
  <1> QED BY <1>1, ThreadStep DEF Writers

LEMMA TurnBase ==
  ASSUME BInv, NEW w \in Workers,
         PrepareTurn(w) \/ BeginPersist(w) \/ CommitTurn(w) \/ AbandonTurn(w)
  PROVE  BInv'
  <1> USE DEF Threads, Writers, At
  <1>1. CASE PrepareTurn(w)
    <2>1. PICK a \in Assets, c \in Conversations :
               /\ MayShow(c, a)
               /\ work' = [work EXCEPT ![w] =
                             [Idle EXCEPT !.pc = "prepared", !.ids = {a}, !.conversation = c]]
      BY <1>1 DEF PrepareTurn
    <2> DEFINE r == [Idle EXCEPT !.pc = "prepared", !.ids = {a}, !.conversation = c]
    <2>2. /\ r \in Calls /\ r.pc = "prepared" /\ r.ids = {a} /\ r.cutoff = {}
          /\ r.conversation = c
      BY BaseFacts DEF Idle, Calls, Labels
    <2>3. a \in drawn
      BY <2>1, BaseFacts, AssetAssumption DEF MayShow, Tables, Rows
    <2>4. work' = [work EXCEPT ![w] = r]
      BY <2>1
    <2> HIDE DEF r
    <2>5. /\ UNCHANGED <<rows, files, drawn, old, lock, faults>>
          /\ work[w].pc \notin Writers
      BY <1>1 DEF PrepareTurn
    <2> QED BY <2>2, <2>3, <2>4, <2>5, LightStep, BaseFacts DEF Tables
  <1>2. CASE BeginPersist(w)
    <2>1. /\ UNCHANGED <<rows, files, drawn, old, faults>>
          /\ work[w].conversation \in Conversations
      BY <1>2, BaseFacts DEF BeginPersist, BInv, Locals, In
    <2>2. CASE Finish(w) /\ UNCHANGED lock
      BY <1>2, <2>1, <2>2, LightStep, BaseFacts DEF BeginPersist, Finish, Tables
    <2>3. CASE /\ Goto(w, "attached") /\ lock' = w /\ lock = Nobody
               /\ \A a \in work[w].ids : MayShow(work[w].conversation, a)
      <3> DEFINE r == [work[w] EXCEPT !.pc = "attached"]
      <3>1. /\ work' = [work EXCEPT ![w] = r] /\ r \in Calls /\ r.pc = "attached"
            /\ r.ids = work[w].ids /\ r.cutoff = work[w].cutoff
            /\ r.conversation = work[w].conversation
        BY <2>3, MovedOn DEF Labels
      <3> HIDE DEF r
      <3>2. Locked' /\ Tables' /\ owner' = owner
        BY <2>1, <2>3, <3>1, LockStep, TablesKept, BaseFacts DEF Tables, rows
      <3>3. \A a \in r.ids : owner'[a] \in {"temporary", r.conversation}
        BY <2>3, <3>1, <3>2 DEF MayShow
      <3> QED BY <2>1, <3>1, <3>2, <3>3, ThreadStep, BaseFacts
    <2> QED BY <1>2, <2>2, <2>3 DEF BeginPersist
  <1>3. CASE CommitTurn(w)
    <2>1. At(w, "attached") /\ lock' = Nobody /\ Finish(w) /\ UNCHANGED <<files, drawn, old>>
      BY <1>3 DEF CommitTurn
    <2>2. faults' \in 0 .. MaxFaults
      BY <1>3, BaseFacts, AssetAssumption DEF CommitTurn, Fault
    <2>3. Locked' /\ \A v \in Threads \ {w} : work[v].pc \notin Writers
      BY <2>1, LockStep, BaseFacts DEF Finish, Locked
    <2>4. Tables'
      <3>1. CASE UNCHANGED rows
        BY <2>1, <3>1, TablesKept, BaseFacts DEF Tables
      <3>2. CASE /\ owner' = [a \in Assets |-> IF a \in work[w].ids THEN work[w].conversation
                                                                    ELSE owner[a]]
                 /\ links' = [a \in Assets |-> IF a \in work[w].ids
                                               THEN links[a] \cup {work[w].conversation}
                                               ELSE links[a]]
                 /\ talks' = [talks EXCEPT ![work[w].conversation] = "live"]
        <4>1. /\ work[w].conversation \in Conversations /\ work[w].ids \subseteq drawn
              /\ \A a \in work[w].ids : owner[a] \in {"temporary", work[w].conversation}
          BY <2>1, BaseFacts DEF BInv, Locals, In
        <4>2. \A a \in Assets : links[a] \subseteq {owner[a]} /\ links[a] \subseteq Conversations
          BY BaseFacts DEF Tables, OneConversation
        <4>3. OneConversation'
          BY <3>2, <4>1, <4>2, AssetAssumption DEF OneConversation
        <4> QED BY <2>1, <3>2, <4>1, <4>3, BaseFacts DEF Tables, Rows
      <3> QED BY <1>3, <3>1, <3>2 DEF CommitTurn
    <2> QED BY <2>1, <2>2, <2>3, <2>4, ThreadStep, BaseFacts DEF Finish
  <1>4. CASE AbandonTurn(w)
    BY <1>4, LightStep, BaseFacts DEF AbandonTurn, Finish, Tables
  <1> QED BY <1>1, <1>2, <1>3, <1>4

LEMMA DeletionBase ==
  ASSUME BInv, NEW w \in Threads,
         DeleteAsset(w) \/ SelectAssets(w) \/ DeleteConversation(w) \/ Remove(w),
         w = Cleaner => Remove(w)
  PROVE  BInv'
  <1> USE DEF Writers, At
  <1>1. CASE DeleteAsset(w)
    <2>1. PICK a \in Rows :
               /\ owner' = [owner EXCEPT ![a] = "absent"] /\ links' = [links EXCEPT ![a] = {}]
               /\ work' = [work EXCEPT ![w] = [Idle EXCEPT !.pc = "removing", !.ids = {a}]]
      BY <1>1 DEF DeleteAsset
    <2> DEFINE r == [Idle EXCEPT !.pc = "removing", !.ids = {a}]
    <2>2. r \in Calls /\ r.pc = "removing" /\ r.ids \subseteq drawn /\ r.cutoff = {}
      BY BaseFacts DEF Idle, Calls, Labels, Tables, Rows
    <2>3. work' = [work EXCEPT ![w] = r]
      BY <2>1
    <2> HIDE DEF r
    <2>4. lock = Nobody /\ UNCHANGED <<files, drawn, old, talks, lock, faults>> /\ work[w].pc = "idle"
      BY <1>1 DEF DeleteAsset
    <2>5. Locked'
      BY <2>2, <2>3, <2>4, LockStep
    <2>6. Tables'
      BY <2>1, <2>4, BaseFacts DEF Tables, Rows, OneConversation
    <2> QED BY <2>2, <2>3, <2>4, <2>5, <2>6, ThreadStep, BaseFacts
  <1>2. CASE SelectAssets(w)
    <2>1. PICK c \in Conversations :
               work' = [work EXCEPT ![w] = [Idle EXCEPT !.pc = "deleting", !.conversation = c,
                                                        !.ids = { a \in Assets : owner[a] = c }]]
      BY <1>2 DEF SelectAssets
    <2> DEFINE r == [Idle EXCEPT !.pc = "deleting", !.conversation = c,
                                 !.ids = { a \in Assets : owner[a] = c }]
    <2>2. /\ r \in Calls /\ r.pc = "deleting" /\ r.cutoff = {}
          /\ r.conversation = c /\ r.ids = { a \in Assets : owner[a] = c }
      BY BaseFacts DEF Idle, Calls, Labels
    <2>3. r.ids \subseteq drawn
      BY <2>2, BaseFacts, AssetAssumption DEF Tables, Rows
    <2>4. work' = [work EXCEPT ![w] = r]
      BY <2>1
    <2> HIDE DEF r
    <2>5. UNCHANGED <<rows, files, drawn, old, lock, faults>> /\ work[w].pc \notin Writers
      BY <1>2 DEF SelectAssets
    <2> QED BY <2>2, <2>3, <2>4, <2>5, LightStep, BaseFacts DEF Tables
  <1>3. CASE DeleteConversation(w)
    <2>1. /\ UNCHANGED <<files, drawn, old, lock, faults>> /\ lock = Nobody
          /\ work[w].pc = "deleting"
      BY <1>3 DEF DeleteConversation
    <2>2. CASE Finish(w) /\ UNCHANGED rows
      BY <2>1, <2>2, LightStep, BaseFacts DEF Finish, Tables
    <2> DEFINE c == work[w].conversation
    <2>3. CASE /\ talks' = [talks EXCEPT ![c] = "deleted"]
               /\ owner' = [a \in Assets |-> IF owner[a] = c THEN "absent" ELSE owner[a]]
               /\ links' = [a \in Assets |-> IF owner[a] = c THEN {} ELSE links[a] \ {c}]
               /\ Goto(w, "removing")
      <3> DEFINE r == [work[w] EXCEPT !.pc = "removing"]
      <3>1. /\ work' = [work EXCEPT ![w] = r] /\ r \in Calls /\ r.pc = "removing"
            /\ r.ids = work[w].ids /\ r.cutoff = work[w].cutoff
        BY <2>3, MovedOn DEF Labels
      <3> HIDE DEF r
      <3>2. Locked'
        BY <2>1, <3>1, LockStep
      <3>3. Tables'
        BY <2>1, <2>3, BaseFacts DEF Tables, Rows, OneConversation
      <3> QED BY <2>1, <3>1, <3>2, <3>3, ThreadStep, BaseFacts
    <2> QED BY <1>3, <2>2, <2>3 DEF DeleteConversation
  <1>4. CASE RemoveFile(w)
    <2>1. /\ UNCHANGED <<rows, drawn, old, lock>> /\ work[w].pc \notin Writers
          /\ files' \subseteq files
      BY <1>4 DEF RemoveFile
    <2>2. faults' \in 0 .. MaxFaults
      BY <1>4, BaseFacts, AssetAssumption DEF RemoveFile, Fault
    <2>3. CASE Finish(w)
      BY <2>1, <2>2, <2>3, LightStep, BaseFacts DEF Finish, Tables
    <2>4. ASSUME NEW a \in work[w].ids, work' = [work EXCEPT ![w].ids = @ \ {a}] PROVE BInv'
      <3> DEFINE r == [work[w] EXCEPT !.ids = @ \ {a}]
      <3>1. /\ work' = [work EXCEPT ![w] = r] /\ r \in Calls /\ r.pc = work[w].pc
            /\ r.ids \subseteq work[w].ids /\ r.cutoff = work[w].cutoff
        BY <2>4, BaseFacts DEF Calls
      <3>2. work[w].pc \in {"removing", "sweeping"}
        BY <1>4 DEF RemoveFile
      <3> HIDE DEF r
      <3> QED BY <2>1, <2>2, <3>1, <3>2, LightStep, BaseFacts DEF Tables
    <2> QED BY <1>4, <2>3, <2>4 DEF RemoveFile
  <1>5. CASE FilesRemoved(w)
    BY <1>5, LightStep, BaseFacts DEF FilesRemoved, Finish, Tables
  <1> QED BY <1>1, <1>2, <1>3, <1>4, <1>5 DEF Remove

LEMMA CleanupBase ==
  ASSUME BInv, SelectExpired \/ DeleteExpired \/ StartSweep
  PROVE  BInv'
  <1> USE DEF Writers, At
  <1>1. Cleaner \in Threads
    BY DEF Threads
  <1>2. CASE SelectExpired
    <2> DEFINE r == [Idle EXCEPT !.pc = "expired", !.cutoff = old,
                                 !.ids = { a \in old : owner[a] = "temporary" }]
    <2>1. /\ r \in Calls /\ r.pc = "expired" /\ r.cutoff = old /\ r.ids \subseteq drawn
      BY BaseFacts DEF Idle, Calls, Labels, Tables
    <2>2. work' = [work EXCEPT ![Cleaner] = r]
      BY <1>2 DEF SelectExpired
    <2> HIDE DEF r
    <2>3. UNCHANGED <<rows, files, drawn, old, lock, faults>> /\ work[Cleaner].pc \notin Writers
      BY <1>2 DEF SelectExpired
    <2> QED BY <1>1, <2>1, <2>2, <2>3, LightStep, BaseFacts DEF Tables
  <1>3. CASE DeleteExpired
    <2>1. /\ work[Cleaner].pc = "expired" /\ lock = Nobody
          /\ UNCHANGED <<links, files, drawn, old, talks, lock>>
      BY <1>3 DEF DeleteExpired
    <2>2. faults' \in 0 .. MaxFaults
      BY <1>3, BaseFacts, AssetAssumption DEF DeleteExpired, Fault
    <2>3. CASE Finish(Cleaner) /\ UNCHANGED owner
      BY <1>1, <2>1, <2>2, <2>3, LightStep, BaseFacts DEF Finish, Tables, rows
    <2> DEFINE gone == { a \in work[Cleaner].cutoff : owner[a] = "temporary" }
               r == [work[Cleaner] EXCEPT !.pc = "removing", !.active = Rows \ gone]
    <2>4. CASE /\ owner' = [a \in Assets |-> IF a \in gone THEN "absent" ELSE owner[a]]
               /\ work' = [work EXCEPT ![Cleaner].pc = "removing", ![Cleaner].active = Rows \ gone]
      <3>1. /\ work' = [work EXCEPT ![Cleaner] = r] /\ r \in Calls /\ r.pc = "removing"
            /\ r.ids = work[Cleaner].ids /\ r.cutoff = work[Cleaner].cutoff
        BY <1>1, <2>4, BaseFacts DEF Calls, Labels, Rows
      <3>2. Tables'
        BY <2>1, <2>4, BaseFacts, AssetAssumption DEF Tables, Rows, OneConversation
      <3> HIDE DEF r
      <3>3. Locked'
        BY <1>1, <2>1, <3>1, LockStep
      <3> QED BY <1>1, <2>1, <2>2, <3>1, <3>2, <3>3, ThreadStep, BaseFacts
    <2> QED BY <1>3, <2>3, <2>4 DEF DeleteExpired
  <1>4. CASE StartSweep
    <2> DEFINE ids == (files \cap work[Cleaner].cutoff) \ work[Cleaner].active
               r == [work[Cleaner] EXCEPT !.pc = "sweeping", !.ids = ids]
    <2>1. work' = [work EXCEPT ![Cleaner] = r] /\ work[Cleaner].pc = "removing"
      BY <1>1, <1>4, BaseFacts DEF StartSweep
    <2>2. /\ r \in Calls /\ r.pc = "sweeping" /\ r.ids \subseteq drawn
          /\ r.cutoff = work[Cleaner].cutoff
      BY <1>1, BaseFacts DEF Calls, Labels, Tables
    <2> HIDE DEF r
    <2>3. UNCHANGED <<rows, files, drawn, old, lock, faults>>
      BY <1>4 DEF StartSweep
    <2> QED BY <1>1, <2>1, <2>2, <2>3, LightStep, BaseFacts DEF Tables
  <1> QED BY <1>2, <1>3, <1>4

LEMMA NextBase == BInv /\ [Next]_vars => BInv'
  <1> SUFFICES ASSUME BInv, [Next]_vars PROVE BInv'
    OBVIOUS
  <1>1. ASSUME NEW w \in Workers, Serve(w) \/ Remove(w) PROVE BInv'
    BY <1>1, AssetAssumption, UploadBase, TurnBase, DeletionBase DEF Serve, Threads
  <1>2. CASE Cleanup
    BY <1>2, CleanupBase, DeletionBase DEF Cleanup, Threads
  <1>3. CASE CreateConversation
    BY <1>3, BaseFacts, QuietStep DEF CreateConversation, Tables
  <1>4. CASE Crash
    BY <1>4, BaseFacts, AssetAssumption
       DEF Crash, Fault, rows, BInv, TypeOK, Tables, Calls, Accounted, Rows, OneConversation,
           Locals, Uploading, In, At, Threads, Labels, Idle
  <1>5. ASSUME NEW a \in Assets, Expire(a) PROVE BInv'
    BY <1>5, BaseFacts, QuietStep DEF Expire, Tables, rows
  <1>6. CASE UNCHANGED vars
    BY <1>6, BaseFacts, QuietStep DEF vars, Tables
  <1> QED BY <1>1, <1>2, <1>3, <1>4, <1>5, <1>6 DEF Next

LEMMA BaseInvariant == Spec => []BInv
  <1> QED BY InitBase, NextBase, PTL DEF Spec

\* Types are kept, and a thread inside a transaction holds the write lock.
THEOREM AssetTypeCorrect == Spec => []TypeOK
  <1>1. BInv => TypeOK
    BY DEF BInv
  <1> QED BY <1>1, BaseInvariant, PTL

\* Every image is shown by the messages of its owner only, whatever competes for it.
THEOREM ImagesHaveOneConversation == Spec => []OneConversation
  <1>1. BInv => OneConversation
    BY DEF BInv
  <1> QED BY <1>1, BaseInvariant, PTL

-----------------------------------------------------------------------------
(***************************************************************************)
(* Who takes an image from a conversation.  An upload commits a row that   *)
(* was absent, a turn one that was temporary or is the conversation's own, *)
(* and the DELETE of the cleanup asks for temporary rows.                  *)
(***************************************************************************)
LEMMA OnlyDeletion ==
  ASSUME BInv, [Next]_vars, NEW a \in Assets, owner[a] \in Conversations, owner'[a] # owner[a]
  PROVE  \E w \in Workers : DeleteAsset(w) \/ DeleteConversation(w)
  <1>1. ASSUME NEW w \in Workers, Serve(w) PROVE DeleteAsset(w) \/ DeleteConversation(w)
    <2>1. CASE CommitUpload(w)
      <3>1. a \notin work[w].ids
        BY <2>1, AssetAssumption DEF CommitUpload, BInv, Locals, Uploading, In, At
      <3> QED BY <2>1, <3>1 DEF CommitUpload
    <2>2. CASE CommitTurn(w)
      <3>1. a \in work[w].ids => owner[a] = work[w].conversation
        BY <2>2, AssetAssumption DEF CommitTurn, BInv, Locals, At
      <3> QED BY <2>2, <3>1 DEF CommitTurn, rows
    <2> QED BY <1>1, <2>1, <2>2
            DEF Serve, InsertAsset, WriteFile, PrepareTurn, BeginPersist, AbandonTurn, SelectAssets,
                rows
  <1>2. ASSUME NEW w \in Threads, Remove(w) PROVE FALSE
    BY <1>2 DEF Remove, RemoveFile, FilesRemoved, rows
  <1>3. ~Cleanup
    <2>1. ~DeleteExpired
      BY AssetAssumption DEF DeleteExpired
    <2> QED BY <1>2, <2>1 DEF Cleanup, SelectExpired, StartSweep, rows, Threads
  <1>4. ~CreateConversation /\ ~Crash /\ \A b \in Assets : ~Expire(b)
    BY DEF CreateConversation, Crash, Expire, rows
  <1> QED BY <1>1, <1>2, <1>3, <1>4 DEF Next, vars, Threads

\* The cleanup never takes what a conversation owns, however it interleaves with turns.
THEOREM CleanupTakesNothingAttached == Spec => CleanupSparesAttached
  <1>1. BInv /\ [Next]_vars =>
          [\A a \in Assets :
             owner[a] \in Conversations /\ owner'[a] # owner[a] =>
               \E w \in Workers : DeleteAsset(w) \/ DeleteConversation(w)]_vars
    BY OnlyDeletion
  <1> QED BY <1>1, BaseInvariant, PTL DEF Spec, CleanupSparesAttached

-----------------------------------------------------------------------------
(***************************************************************************)
(* What a thread will remove without a further question has no row.  What  *)
(* it has selected has none by now, or still the owner it had: a turn does *)
(* not attach an expired upload, which is where Prompt comes in.           *)
(***************************************************************************)
Doomed(w) ==
  IF In(w, {"removing", "sweeping"})
  THEN work[w].ids \cup (work[w].cutoff \ work[w].active)
  ELSE {}

Selected(w) == IF In(w, {"deleting", "expired"}) THEN work[w].ids ELSE {}

Removal(w) ==
  /\ \A a \in Doomed(w) : owner[a] = "absent"
  /\ At(w, "deleting") => /\ work[w].conversation \in Conversations
                          /\ \A a \in work[w].ids : owner[a] \in {"absent", work[w].conversation}
  /\ At(w, "expired") => /\ work[w].ids \subseteq work[w].cutoff /\ work[w].cutoff \subseteq old
                         /\ \A a \in work[w].ids : owner[a] \in {"absent", "temporary"}

Service(w) ==
  /\ At(w, "written") => work[w].ids \subseteq files
  /\ At(w, "attached") => \A a \in work[w].ids : MayShow(work[w].conversation, a)
  /\ ~At(w, "expired") /\ work[w].cutoff = {}

Apart ==
  \A v \in Workers, w \in Threads :
    Uploading(v) => work[v].ids \cap (Doomed(w) \cup Selected(w)) = {}

SInv ==
  /\ BInv /\ RowsHaveFiles /\ Apart
  /\ \A w \in Workers : Service(w)
  /\ \A w \in Threads : Removal(w)

LEMMA InitRemoval == Init => SInv
  <1> SUFFICES ASSUME Init PROVE SInv
    OBVIOUS
  <1>1. BInv
    BY InitBase
  <1>2. RowsHaveFiles
    BY DEF Init, RowsHaveFiles, Rows
  <1>3. \A w \in Threads : work[w] = Idle
    BY DEF Init
  <1> QED BY <1>1, <1>2, <1>3 DEF SInv, Apart, Service, Removal, Doomed, Selected, Uploading, In, At,
             Idle, Threads

(***************************************************************************)
(* What the other threads may do to the owner of an image: delete its row, *)
(* attach an upload that has not expired, commit an upload.                *)
(***************************************************************************)
OwnersMove ==
  \A a \in Assets :
    \/ owner'[a] \in {owner[a], "absent"}
    \/ owner[a] = "temporary" /\ a \notin old
    \/ \E v \in Workers : Uploading(v) /\ a \in work[v].ids

LEMMA RemovalKept ==
  ASSUME SInv, NEW w \in Threads, UNCHANGED work[w], old \subseteq old', OwnersMove
  PROVE  Removal(w)'
  <1>1. Removal(w) /\ work[w] \in Calls /\ work'[w] = work[w] /\ old \subseteq Assets
    BY BaseFacts DEF SInv, Tables
  <1>2. /\ Doomed(w)' = Doomed(w) /\ Doomed(w) \subseteq Assets
        /\ Selected(w)' = Selected(w)
    BY <1>1 DEF Doomed, Selected, In, Calls
  <1>3. \A a \in Doomed(w) \cup Selected(w), v \in Workers : Uploading(v) => a \notin work[v].ids
    BY DEF SInv, Apart
  <1>4. ASSUME NEW a \in Doomed(w) PROVE owner'[a] = "absent"
    BY <1>1, <1>2, <1>3, <1>4 DEF OwnersMove, Removal
  <1>5. ASSUME At(w, "deleting"), NEW a \in work[w].ids
        PROVE  owner'[a] \in {"absent", work[w].conversation}
    <2>1. work[w].conversation \in Conversations
      BY <1>1, <1>5 DEF Removal
    <2>2. a \in Selected(w) /\ a \in Assets
      BY <1>1, <1>5 DEF Selected, In, At, Calls
    <2> QED BY <1>1, <1>3, <1>5, <2>1, <2>2, AssetAssumption DEF OwnersMove, Removal
  <1>6. ASSUME At(w, "expired")
        PROVE  /\ work[w].ids \subseteq work[w].cutoff /\ work[w].cutoff \subseteq old'
               /\ \A a \in work[w].ids : owner'[a] \in {"absent", "temporary"}
    <2>1. work[w].ids \subseteq work[w].cutoff /\ work[w].cutoff \subseteq old
      BY <1>1, <1>6 DEF Removal
    <2>2. work[w].ids \subseteq Selected(w)
      BY <1>6 DEF Selected, In, At
    <2> QED BY <1>1, <1>3, <1>6, <2>1, <2>2 DEF OwnersMove, Removal
  <1> QED BY <1>1, <1>2, <1>4, <1>5, <1>6 DEF Removal, At

(***************************************************************************)
(* A step of one thread: what is left to show is that rows keep their      *)
(* files, that it spares the files of uploads in progress, and the claims  *)
(* about that thread itself.                                               *)
(***************************************************************************)
LEMMA OneThread ==
  ASSUME SInv, BInv', NEW w \in Threads, \A v \in Threads \ {w} : UNCHANGED work[v],
         OwnersMove, UNCHANGED old, RowsHaveFiles',
         owner' = owner \/ \A v \in Threads \ {w} : work[v].pc \notin Writers,
         \A v \in Workers \ {w} : At(v, "written") => work[v].ids \subseteq files',
         w \in Workers => Service(w)', Removal(w)',
         Uploading(w)' => \A x \in Threads \ {w} : work'[w].ids \cap (Doomed(x) \cup Selected(x)) = {},
         \A v \in Workers \ {w} : Uploading(v) => work[v].ids \cap (Doomed(w)' \cup Selected(w)') = {}
  PROVE  SInv'
  <1>1. ASSUME NEW v \in Threads \ {w} PROVE Removal(v)'
    BY <1>1, RemovalKept
  <1>2. ASSUME NEW v \in Workers \ {w} PROVE Service(v)'
    <2>1. work'[v] = work[v] /\ Service(v)
      BY <1>2 DEF SInv, Threads
    <2>2. At(v, "attached") => owner' = owner
      BY <1>2 DEF At, Writers, Threads
    <2> QED BY <1>2, <2>1, <2>2 DEF Service, At, MayShow
  <1>3. \A x \in Threads \ {w} : Doomed(x)' = Doomed(x) /\ Selected(x)' = Selected(x)
    BY DEF Doomed, Selected, In
  <1>4. ASSUME NEW v \in Workers, NEW x \in Threads, Uploading(v)'
        PROVE  work'[v].ids \cap (Doomed(x)' \cup Selected(x)') = {}
    <2>1. v # w => Uploading(v) /\ work'[v] = work[v]
      BY <1>4 DEF Uploading, In, Threads
    <2>2. Uploading(x)' => Doomed(x)' = {} /\ Selected(x)' = {}
      BY DEF Uploading, Doomed, Selected, In
    <2>3. CASE v # w /\ x # w
      BY <1>3, <2>1, <2>3 DEF SInv, Apart
    <2>4. CASE v = w /\ x # w
      BY <1>3, <1>4, <2>4
    <2>5. CASE v # w /\ x = w
      BY <2>1, <2>5
    <2>6. CASE v = w /\ x = w
      BY <1>4, <2>2, <2>6
    <2> QED BY <2>3, <2>4, <2>5, <2>6
  <1>5. Apart'
    BY <1>4 DEF Apart
  <1> QED BY <1>1, <1>2, <1>5 DEF SInv

LEMMA UploadKeeps ==
  ASSUME SInv, BInv', NEW w \in Workers, InsertAsset(w) \/ WriteFile(w) \/ CommitUpload(w)
  PROVE  SInv'
  <1> USE DEF Threads
  <1>1. /\ BInv /\ RowsHaveFiles /\ Apart /\ Service(w) /\ Removal(w) /\ Locals(w)
        /\ \A v \in Workers : Service(v)
    BY DEF SInv, BInv
  <1>2. /\ work \in [Threads -> Calls] /\ files \subseteq drawn
        /\ \A x \in Threads : Doomed(x) \subseteq drawn /\ Selected(x) \subseteq drawn
    BY <1>1, BaseFacts DEF Doomed, Selected, Tables
  <1>3. CASE InsertAsset(w)
    <2>1. PICK a \in Assets \ drawn :
               /\ work'[w].pc = "inserted" /\ work'[w].ids = {a} /\ work'[w].cutoff = {}
               /\ \A v \in Threads \ {w} : UNCHANGED work[v]
      BY <1>2, <1>3 DEF InsertAsset, Idle
    <2>2. UNCHANGED <<owner, files, old>> /\ lock = Nobody
      BY <1>3 DEF InsertAsset, rows
    <2>3. RowsHaveFiles' /\ OwnersMove
      BY <1>1, <2>2 DEF RowsHaveFiles, Rows, OwnersMove
    <2>4. \A v \in Workers \ {w} : At(v, "written") => work[v].ids \subseteq files'
      BY <1>1, <2>2 DEF Service
    <2>5. Service(w)' /\ Removal(w)'
      BY <2>1 DEF Service, Removal, Doomed, In, At
    <2>6. \A x \in Threads \ {w} : work'[w].ids \cap (Doomed(x) \cup Selected(x)) = {}
      BY <1>2, <2>1
    <2>7. \A v \in Workers \ {w} : ~Uploading(v)
      BY <1>1, <2>2, BaseFacts DEF Uploading, In, Writers
    <2> QED BY <2>1, <2>2, <2>3, <2>4, <2>5, <2>6, <2>7, OneThread
  <1>4. CASE WriteFile(w)
    <2>1. /\ UNCHANGED <<owner, old>> /\ files \subseteq files' /\ At(w, "inserted")
          /\ \A v \in Threads \ {w} : UNCHANGED work[v]
          /\ \/ work'[w].pc = "written" /\ work'[w].ids = work[w].ids /\ work'[w].cutoff = work[w].cutoff
                /\ files' = files \cup work[w].ids
             \/ work'[w] = Idle
      <3>1. CASE Goto(w, "written") /\ files' = files \cup work[w].ids
        BY <1>2, <1>4, <3>1 DEF WriteFile, rows, Goto, Calls
      <3>2. CASE Finish(w)
        BY <1>2, <1>4, <3>2 DEF WriteFile, rows, Finish
      <3> QED BY <1>4, <3>1, <3>2 DEF WriteFile
    <2>2. RowsHaveFiles' /\ OwnersMove
      BY <1>1, <2>1 DEF RowsHaveFiles, Rows, OwnersMove
    <2>3. \A v \in Workers \ {w} : At(v, "written") => work[v].ids \subseteq files'
      BY <1>1, <2>1 DEF Service
    <2>4. Service(w)' /\ Removal(w)' /\ Doomed(w)' = {} /\ Selected(w)' = {}
      BY <1>1, <2>1 DEF Service, Removal, Doomed, Selected, In, At, Idle
    <2>5. Uploading(w)' => \A x \in Threads \ {w} : work'[w].ids \cap (Doomed(x) \cup Selected(x)) = {}
      BY <1>1, <2>1 DEF Apart, Uploading, In, At, Idle
    <2> QED BY <2>1, <2>2, <2>3, <2>4, <2>5, OneThread
  <1>5. CASE CommitUpload(w)
    <2>1. /\ At(w, "written") /\ UNCHANGED <<files, old>>
          /\ \A v \in Threads \ {w} : UNCHANGED work[v]
          /\ \/ /\ owner' = owner /\ work'[w].pc = "removing"
                /\ work'[w].ids = work[w].ids /\ work'[w].cutoff = work[w].cutoff
             \/ work'[w] = Idle /\ \A a \in Assets \ work[w].ids : owner'[a] = owner[a]
      <3>1. CASE Goto(w, "removing") /\ UNCHANGED owner
        BY <1>2, <1>5, <3>1 DEF CommitUpload, Goto, Calls
      <3>2. CASE Finish(w)
        BY <1>2, <1>5, <3>2 DEF CommitUpload, Finish
      <3> QED BY <1>5, <3>1, <3>2 DEF CommitUpload
    <2>2. /\ Uploading(w) /\ work[w].ids \subseteq files /\ work[w].cutoff = {}
          /\ \A a \in work[w].ids : owner[a] = "absent"
      BY <1>1, <2>1 DEF Locals, Service, Uploading, In, At
    <2>3. RowsHaveFiles'
      BY <1>1, <2>1, <2>2 DEF RowsHaveFiles, Rows
    <2>4. OwnersMove
      BY <2>1, <2>2 DEF OwnersMove
    <2>5. \A v \in Threads \ {w} : work[v].pc \notin Writers
      BY <1>1, <2>1, BaseFacts DEF At, Writers
    <2>6. \A v \in Workers \ {w} : ~Uploading(v) /\ (At(v, "written") => work[v].ids \subseteq files')
      BY <2>5 DEF Uploading, In, At, Writers
    <2>7. Service(w)' /\ Removal(w)' /\ ~Uploading(w)'
      BY <2>1, <2>2 DEF Service, Removal, Doomed, Uploading, In, At, Idle
    <2> QED BY <2>1, <2>3, <2>4, <2>5, <2>6, <2>7, OneThread
  <1> QED BY <1>3, <1>4, <1>5

LEMMA TurnKeeps ==
  ASSUME SInv, BInv', NEW w \in Workers,
         PrepareTurn(w) \/ BeginPersist(w) \/ CommitTurn(w) \/ AbandonTurn(w)
  PROVE  SInv'
  <1> USE DEF Threads
  <1>1. /\ BInv /\ RowsHaveFiles /\ Service(w) /\ Locals(w) /\ \A v \in Workers : Service(v)
    BY DEF SInv, BInv
  <1>2. work \in [Threads -> Calls]
    BY <1>1, BaseFacts
  <1>3. /\ UNCHANGED <<files, old>> /\ \A v \in Threads \ {w} : UNCHANGED work[v]
        /\ work'[w].pc \in {"idle", "prepared", "attached"} /\ work'[w].cutoff = {}
    <2>1. CASE PrepareTurn(w)
      BY <1>2, <2>1 DEF PrepareTurn, Idle
    <2>2. CASE BeginPersist(w)
      BY <1>1, <1>2, <2>2 DEF BeginPersist, Goto, Finish, Idle, Service, Calls
    <2>3. CASE CommitTurn(w)
      BY <1>2, <2>3 DEF CommitTurn, Finish, Idle
    <2>4. CASE AbandonTurn(w)
      BY <1>2, <2>4 DEF AbandonTurn, Finish, Idle
    <2> QED BY <2>1, <2>2, <2>3, <2>4
  <1>4. CASE UNCHANGED owner
    <2>1. At(w, "attached")' => \A a \in work'[w].ids : MayShow(work'[w].conversation, a)
      <3>1. CASE /\ Goto(w, "attached")
                 /\ \A a \in work[w].ids : MayShow(work[w].conversation, a)
        <4>1. work'[w].ids = work[w].ids /\ work'[w].conversation = work[w].conversation
          BY <1>2, <3>1 DEF Goto, Calls
        <4> QED BY <3>1, <4>1
      <3>2. CASE work'[w].pc \in {"idle", "prepared"}
        BY <3>2 DEF At
      <3>3. CASE Finish(w)
        BY <1>2, <3>2, <3>3 DEF Finish, Idle
      <3>4. CASE PrepareTurn(w)
        BY <1>2, <3>2, <3>4 DEF PrepareTurn, Idle
      <3> QED BY <3>1, <3>3, <3>4 DEF BeginPersist, CommitTurn, AbandonTurn
    <2>2. RowsHaveFiles' /\ OwnersMove
      BY <1>1, <1>3, <1>4 DEF RowsHaveFiles, Rows, OwnersMove
    <2>3. \A v \in Workers \ {w} : At(v, "written") => work[v].ids \subseteq files'
      BY <1>1, <1>3 DEF Service
    <2>4. /\ Service(w)' /\ Removal(w)' /\ Doomed(w)' = {} /\ Selected(w)' = {} /\ ~Uploading(w)'
      BY <1>3, <1>4, <2>1 DEF Service, Removal, Doomed, Selected, Uploading, In, At, MayShow
    <2> QED BY <1>3, <1>4, <2>2, <2>3, <2>4, OneThread
  <1>5. CASE /\ CommitTurn(w)
             /\ owner' = [a \in Assets |-> IF a \in work[w].ids THEN work[w].conversation ELSE owner[a]]
    <2>1. /\ At(w, "attached") /\ work'[w] = Idle
          /\ \A a \in work[w].ids : MayShow(work[w].conversation, a)
      BY <1>1, <1>2, <1>5 DEF CommitTurn, Finish, Service
    <2>2. RowsHaveFiles'
      BY <1>1, <1>3, <1>5, <2>1, AssetAssumption DEF RowsHaveFiles, Rows, MayShow, Locals, In, At
    <2>3. OwnersMove
      BY <1>5, <2>1 DEF OwnersMove, MayShow
    <2>4. \A v \in Threads \ {w} : work[v].pc \notin Writers
      BY <1>1, <2>1, BaseFacts DEF At, Writers
    <2>5. \A v \in Workers \ {w} : ~Uploading(v) /\ (At(v, "written") => work[v].ids \subseteq files')
      BY <2>4 DEF Uploading, In, At, Writers
    <2>6. Service(w)' /\ Removal(w)' /\ ~Uploading(w)'
      BY <2>1 DEF Service, Removal, Doomed, Uploading, In, At, Idle
    <2> QED BY <1>3, <2>2, <2>3, <2>4, <2>5, <2>6, OneThread
  <1> QED BY <1>4, <1>5 DEF PrepareTurn, BeginPersist, CommitTurn, AbandonTurn, rows

LEMMA DeletionKeeps ==
  ASSUME SInv, BInv', NEW w \in Threads,
         DeleteAsset(w) \/ SelectAssets(w) \/ DeleteConversation(w) \/ Remove(w),
         w = Cleaner => Remove(w)
  PROVE  SInv'
  <1>1. /\ BInv /\ RowsHaveFiles /\ Apart /\ Removal(w) /\ \A v \in Workers : Service(v)
        /\ work \in [Threads -> Calls]
    BY BaseFacts DEF SInv
  <1>2. w # Cleaner => w \in Workers /\ Service(w) /\ Locals(w)
    BY <1>1 DEF Threads, BInv
  <1>3. \A v \in Workers : Uploading(v) => lock # Nobody
    BY <1>1, BaseFacts DEF Uploading, In, Writers, Threads
  <1>4. CASE DeleteAsset(w)
    <2>1. PICK a \in Rows : owner' = [owner EXCEPT ![a] = "absent"] /\ work'[w].ids = {a}
      BY <1>1, <1>4 DEF DeleteAsset, Idle
    <2>2. /\ work'[w].pc = "removing" /\ work'[w].cutoff = {}
          /\ \A v \in Threads \ {w} : UNCHANGED work[v]
          /\ UNCHANGED <<files, old>> /\ lock = Nobody
      BY <1>1, <1>4 DEF DeleteAsset, Idle
    <2>3. RowsHaveFiles' /\ OwnersMove
      BY <1>1, <2>1, <2>2 DEF RowsHaveFiles, Rows, OwnersMove
    <2>4. \A v \in Workers \ {w} : At(v, "written") => work[v].ids \subseteq files'
      BY <1>1, <2>2 DEF Service
    <2>5. (w \in Workers => Service(w)') /\ Removal(w)' /\ ~Uploading(w)'
      BY <1>1, <2>1, <2>2, BaseFacts DEF Service, Removal, Doomed, Uploading, In, At, Rows, Tables
    <2>6. \A v \in Threads \ {w} : work[v].pc \notin Writers
      BY <1>1, <2>2, BaseFacts
    <2> QED BY <1>3, <2>2, <2>3, <2>4, <2>5, <2>6, OneThread
  <1>5. CASE SelectAssets(w)
    <2>1. PICK c \in Conversations :
               work' = [work EXCEPT ![w] = [Idle EXCEPT !.pc = "deleting", !.conversation = c,
                                                        !.ids = { a \in Assets : owner[a] = c }]]
      BY <1>5 DEF SelectAssets
    <2>2. /\ work'[w].pc = "deleting" /\ work'[w].cutoff = {} /\ work'[w].conversation = c
          /\ work'[w].ids = { a \in Assets : owner[a] = c }
          /\ \A v \in Threads \ {w} : UNCHANGED work[v]
      BY <1>1, <2>1 DEF Idle
    <2>3. UNCHANGED <<owner, files, old>>
      BY <1>5 DEF SelectAssets, rows
    <2>4. RowsHaveFiles' /\ OwnersMove
      BY <1>1, <2>3 DEF RowsHaveFiles, Rows, OwnersMove
    <2>5. \A v \in Workers \ {w} : At(v, "written") => work[v].ids \subseteq files'
      BY <1>1, <2>3 DEF Service
    <2>6. (w \in Workers => Service(w)') /\ Removal(w)' /\ ~Uploading(w)'
      BY <2>2, <2>3 DEF Service, Removal, Doomed, Uploading, In, At
    <2>7. Doomed(w)' = {} /\ Selected(w)' = { a \in Assets : owner[a] = c }
      BY <2>2 DEF Doomed, Selected, In
    <2>8. \A v \in Workers, a \in Selected(w)' : Uploading(v) => a \notin work[v].ids
      BY <1>1, <2>7, AssetAssumption DEF BInv, Locals
    <2> QED BY <2>2, <2>3, <2>4, <2>5, <2>6, <2>7, <2>8, OneThread
  <1>6. CASE DeleteConversation(w)
    <2>1. /\ UNCHANGED <<files, old>> /\ lock = Nobody /\ At(w, "deleting")
          /\ \A v \in Threads \ {w} : UNCHANGED work[v]
          /\ \/ work'[w] = Idle /\ UNCHANGED owner
             \/ /\ work'[w].pc = "removing" /\ work'[w].ids = work[w].ids
                /\ work'[w].cutoff = work[w].cutoff
                /\ owner' = [a \in Assets |-> IF owner[a] = work[w].conversation THEN "absent"
                                                                                ELSE owner[a]]
      <3>1. CASE Finish(w) /\ UNCHANGED rows
        BY <1>1, <1>6, <3>1 DEF DeleteConversation, Finish, rows
      <3>2. CASE /\ Goto(w, "removing")
                 /\ owner' = [a \in Assets |-> IF owner[a] = work[w].conversation THEN "absent"
                                                                                 ELSE owner[a]]
        BY <1>1, <1>6, <3>2 DEF DeleteConversation, Goto, Calls
      <3> QED BY <1>6, <3>1, <3>2 DEF DeleteConversation
    <2>2. RowsHaveFiles' /\ OwnersMove
      BY <1>1, <2>1 DEF RowsHaveFiles, Rows, OwnersMove
    <2>3. \A v \in Workers \ {w} : At(v, "written") => work[v].ids \subseteq files'
      BY <1>1, <2>1 DEF Service
    <2>4. w \in Workers /\ work[w].cutoff = {} /\ work[w].ids \subseteq Assets
      BY <1>1, <1>2, <1>6, AssetAssumption
         DEF Service, Remove, RemoveFile, FilesRemoved, DeleteConversation, At, Calls
    <2>5. Service(w)' /\ Removal(w)' /\ ~Uploading(w)'
      BY <1>1, <2>1, <2>4 DEF Service, Removal, Doomed, Uploading, In, At, Idle
    <2>6. \A v \in Threads \ {w} : work[v].pc \notin Writers
      BY <1>1, <2>1, BaseFacts
    <2> QED BY <1>3, <2>1, <2>2, <2>3, <2>5, <2>6, OneThread
  <1>7. CASE Remove(w)
    <2>1. /\ UNCHANGED <<owner, old>> /\ In(w, {"removing", "sweeping"})
          /\ \A v \in Threads \ {w} : UNCHANGED work[v]
          /\ \/ work'[w] = Idle /\ files' = files
             \/ /\ work'[w].pc = work[w].pc /\ work'[w].cutoff = work[w].cutoff
                /\ work'[w].active = work[w].active /\ work'[w].ids \subseteq work[w].ids
                /\ \E a \in work[w].ids : files' = files \ {a}
      BY <1>1, <1>7 DEF Remove, RemoveFile, FilesRemoved, Finish, rows, In, At, Calls
    <2>2. \A a \in work[w].ids : a \in Doomed(w)
      BY <2>1 DEF Doomed
    <2>3. RowsHaveFiles' /\ OwnersMove
      BY <1>1, <2>1, <2>2 DEF RowsHaveFiles, Rows, OwnersMove, Removal
    <2>4. \A v \in Workers \ {w} : At(v, "written") => work[v].ids \subseteq files'
      BY <1>1, <2>1, <2>2 DEF Service, Apart, Uploading, In, At
    <2>5. Doomed(w)' \subseteq Doomed(w) /\ Selected(w)' = {} /\ ~Uploading(w)'
      BY <2>1 DEF Doomed, Selected, Uploading, In, Idle
    <2>6. (w \in Workers => Service(w)') /\ Removal(w)'
      BY <1>1, <2>1, <2>5 DEF Service, Removal, In, At, Idle
    <2> QED BY <1>1, <2>1, <2>3, <2>4, <2>5, <2>6, OneThread DEF Apart
  <1> QED BY <1>4, <1>5, <1>6, <1>7

LEMMA CleanupKeeps ==
  ASSUME SInv, BInv', SelectExpired \/ DeleteExpired \/ StartSweep
  PROVE  SInv'
  <1> USE AssetAssumption
  <1>1. /\ BInv /\ RowsHaveFiles /\ Apart /\ Removal(Cleaner) /\ Cleaner \in Threads
        /\ work \in [Threads -> Calls]
        /\ \A v \in Workers : Service(v) /\ Locals(v)
    BY BaseFacts DEF SInv, BInv, Threads
  <1>2. UNCHANGED <<files, old>> /\ \A v \in Threads \ {Cleaner} : UNCHANGED work[v]
    BY <1>1 DEF SelectExpired, DeleteExpired, StartSweep, Goto, Finish
  <1>3. \A v \in Workers : At(v, "written") => work[v].ids \subseteq files'
    BY <1>1, <1>2 DEF Service
  <1>4. CASE SelectExpired
    <2>1. /\ work'[Cleaner].pc = "expired" /\ work'[Cleaner].cutoff = old /\ UNCHANGED owner
          /\ work'[Cleaner].ids = { a \in old : owner[a] = "temporary" }
      BY <1>1, <1>4 DEF SelectExpired, Idle, rows
    <2>2. RowsHaveFiles' /\ OwnersMove
      BY <1>1, <1>2, <2>1 DEF RowsHaveFiles, Rows, OwnersMove
    <2>3. Removal(Cleaner)' /\ ~Uploading(Cleaner)'
      BY <1>2, <2>1 DEF Removal, Doomed, Uploading, In, At
    <2>4. Doomed(Cleaner)' = {} /\ Selected(Cleaner)' = { a \in old : owner[a] = "temporary" }
      BY <2>1 DEF Doomed, Selected, In
    <2>5. \A v \in Workers, a \in Selected(Cleaner)' : Uploading(v) => a \notin work[v].ids
      BY <1>1, <2>4 DEF Locals
    <2> QED BY <1>1, <1>2, <1>3, <2>1, <2>2, <2>3, <2>4, <2>5, OneThread
  <1>5. CASE DeleteExpired
    <2> DEFINE gone == { a \in work[Cleaner].cutoff : owner[a] = "temporary" }
    <2>1. /\ lock = Nobody /\ At(Cleaner, "expired")
          /\ \/ work'[Cleaner] = Idle /\ UNCHANGED owner
             \/ /\ work'[Cleaner].pc = "removing" /\ work'[Cleaner].ids = work[Cleaner].ids
                /\ work'[Cleaner].cutoff = work[Cleaner].cutoff
                /\ work'[Cleaner].active = Rows \ gone
                /\ owner' = [a \in Assets |-> IF a \in gone THEN "absent" ELSE owner[a]]
      <3>1. CASE Finish(Cleaner) /\ UNCHANGED owner
        BY <1>1, <1>5, <3>1 DEF DeleteExpired, Finish
      <3>2. CASE /\ owner' = [a \in Assets |-> IF a \in gone THEN "absent" ELSE owner[a]]
                 /\ work' = [work EXCEPT ![Cleaner].pc = "removing",
                                         ![Cleaner].active = Rows \ gone]
        BY <1>1, <1>5, <3>2 DEF DeleteExpired, Calls
      <3> QED BY <1>5, <3>1, <3>2 DEF DeleteExpired
    <2>2. RowsHaveFiles' /\ OwnersMove
      BY <1>1, <1>2, <2>1 DEF RowsHaveFiles, Rows, OwnersMove
    <2>3. Removal(Cleaner)' /\ ~Uploading(Cleaner)'
      <3>1. /\ work[Cleaner].ids \subseteq work[Cleaner].cutoff /\ work[Cleaner].cutoff \subseteq Assets
            /\ \A a \in work[Cleaner].ids : owner[a] \in {"absent", "temporary"}
        BY <1>1, <2>1 DEF Removal, Calls
      <3> QED BY <2>1, <3>1 DEF Removal, Doomed, Uploading, In, At, Idle, Rows
    <2>4. \A v \in Threads : work[v].pc \notin Writers
      BY <1>1, <2>1, BaseFacts
    <2>5. \A v \in Workers : ~Uploading(v)
      BY <2>4 DEF Uploading, In, Writers, Threads
    <2> QED BY <1>1, <1>2, <1>3, <2>2, <2>3, <2>4, <2>5, OneThread
  <1>6. CASE StartSweep
    <2>1. /\ UNCHANGED owner /\ At(Cleaner, "removing") /\ work'[Cleaner].pc = "sweeping"
          /\ work'[Cleaner].ids = (files \cap work[Cleaner].cutoff) \ work[Cleaner].active
          /\ work'[Cleaner].cutoff = work[Cleaner].cutoff
          /\ work'[Cleaner].active = work[Cleaner].active
      BY <1>1, <1>6 DEF StartSweep, rows, Calls
    <2>2. RowsHaveFiles' /\ OwnersMove
      BY <1>1, <1>2, <2>1 DEF RowsHaveFiles, Rows, OwnersMove
    <2>3. Doomed(Cleaner)' \subseteq Doomed(Cleaner) /\ Selected(Cleaner)' = {}
      BY <2>1 DEF Doomed, Selected, In, At
    <2>4. Removal(Cleaner)' /\ ~Uploading(Cleaner)'
      BY <1>1, <2>1, <2>3 DEF Removal, Uploading, In, At
    <2>5. \A v \in Workers : Uploading(v) =>
             work[v].ids \cap (Doomed(Cleaner)' \cup Selected(Cleaner)') = {}
      BY <1>1, <2>3 DEF Apart
    <2> QED BY <1>1, <1>2, <1>3, <2>1, <2>2, <2>4, <2>5, OneThread
  <1> QED BY <1>4, <1>5, <1>6

LEMMA NextKeeps == Prompt /\ SInv /\ [Next]_vars => SInv'
  <1> SUFFICES ASSUME Prompt, SInv, [Next]_vars PROVE SInv'
    OBVIOUS
  <1>1. BInv'
    BY NextBase DEF SInv
  <1>2. ASSUME NEW w \in Workers, Serve(w) \/ Remove(w) PROVE SInv'
    BY <1>1, <1>2, AssetAssumption, UploadKeeps, TurnKeeps, DeletionKeeps DEF Serve, Threads
  <1>3. CASE Cleanup
    BY <1>1, <1>3, CleanupKeeps, DeletionKeeps DEF Cleanup, Threads
  <1>4. CASE UNCHANGED <<owner, files, work, old>>
    BY <1>1, <1>4 DEF SInv, RowsHaveFiles, Rows, Apart, Service, Removal, Doomed, Selected,
                      Uploading, In, At, MayShow
  <1>5. CASE CreateConversation \/ UNCHANGED vars
    BY <1>4, <1>5 DEF CreateConversation, vars
  <1>6. CASE Crash
    <2>1. UNCHANGED <<owner, files, old>> /\ \A w \in Threads : work'[w] = Idle
      BY <1>6 DEF Crash, rows
    <2> QED BY <1>1, <2>1 DEF SInv, RowsHaveFiles, Rows, Apart, Service, Removal, Doomed, Selected,
                              Uploading, In, At, Idle, Threads
  <1>7. ASSUME NEW a \in Assets, Expire(a) PROVE SInv'
    <2>1. UNCHANGED <<owner, files, work>> /\ old' = old \cup {a}
      BY <1>7 DEF Expire, rows
    <2>2. \A w \in Workers : At(w, "attached") => a \notin work[w].ids
      BY <1>7 DEF Expire
    <2>3. \A w \in Workers : Service(w)'
      BY <2>1, <2>2 DEF SInv, Service, At, MayShow
    <2>4. \A w \in Threads : Removal(w)'
      BY <2>1 DEF SInv, Removal, Doomed, In, At
    <2>5. RowsHaveFiles' /\ Apart'
      BY <2>1 DEF SInv, RowsHaveFiles, Rows, Apart, Doomed, Selected, Uploading, In
    <2> QED BY <1>1, <2>3, <2>4, <2>5 DEF SInv
  <1> QED BY <1>2, <1>3, <1>5, <1>6, <1>7 DEF Next

\* No crash, failure or cleanup takes the file of an image that the database knows, as
\* long as no upload expires inside the commit of the turn that attaches it.
THEOREM RowsAlwaysHaveFiles == Prompt => (Spec => []RowsHaveFiles)
  <1> SUFFICES ASSUME Prompt PROVE Spec => []RowsHaveFiles
    OBVIOUS
  <1>1. SInv /\ [Next]_vars => SInv'
    BY NextKeeps
  <1>2. SInv => RowsHaveFiles
    BY DEF SInv
  <1> QED BY <1>1, <1>2, InitRemoval, PTL DEF Spec
=============================================================================
