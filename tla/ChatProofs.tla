----------------------------- MODULE ChatProofs -----------------------------
(***************************************************************************)
(* Proofs about the two ends of a streamed chat.                           *)
(*                                                                         *)
(* ChatStream, for any set of requests and any length of a generation: the *)
(* type invariant, the accounting of the gate, that the client is told the *)
(* truth and in order, and that a cancelled turn stays unsaved.  The       *)
(* strengthening IInv ties the label of a producer to its consumer         *)
(* (Paired) and to what is saved, queued and sent (Honest); WInv adds what *)
(* the label knows of the order of the events.                             *)
(*                                                                         *)
(* ChatClient, for any number of conversations, messages and calls in      *)
(* flight: a turn whose save was confirmed is never sent again, and the    *)
(* page never mixes two conversations unless a delete overlapped another   *)
(* call. The strengthening CInv ties the owner's stream to the page        *)
(* (Owned), what Retry would send to what was told (Unsent), and what was  *)
(* told to what is saved (ToldIsSaved).                                    *)
(***************************************************************************)
EXTENDS ChatStream, ChatClient, SequenceTheorems, TLAPS

-----------------------------------------------------------------------------
(***************************************************************************)
(* ChatStream.                                                             *)
(***************************************************************************)
\* A producer exists from the acquire on.
Paired(r) ==
  /\ consumer[r] \in {"new", "waiting"} => producer[r] = "none"
  /\ consumer[r] = "streaming" => producer[r] # "none"

\* Whatever reaches or will reach the client of r.
Told(r) == Range(events[r]) \cup Range(sent[r])

Honest(r) ==
  /\ producer[r] \in {"none", "submitted", "yield_start", "started", "yield_text",
                      "generating", "generated", "persist", "failed"} => r \notin persisted
  /\ producer[r] \in {"yield_ack", "yield_final", "yield_done"} => r \in persisted
  /\ producer[r] \in {"yield_text", "generating", "generated"} => task[r] = "prompt"
  /\ "final" \in Told(r) => r \in persisted
  /\ task[r] = "command" /\ "text" \in Told(r) => r \in persisted
  /\ "error" \in Told(r) => r \notin persisted /\ producer[r] \in {"end", "returned", "done"}

IInv == TypeOK /\ GateAccounted /\ \A r \in Requests : Paired(r) /\ Honest(r)

-----------------------------------------------------------------------------
\* Appending to a sequence adds one element, taking its head away moves one.
LEMMA AppendRange ==
  ASSUME NEW S, NEW q \in Seq(S), NEW e \in S
  PROVE  Append(q, e) \in Seq(S) /\ Range(Append(q, e)) = Range(q) \cup {e}
  <1> DEFINE a == Append(q, e)
  <1>1. a \in Seq(S) /\ Len(a) = Len(q) + 1 /\ Len(q) \in Nat
    OBVIOUS
  <1>2. DOMAIN a = 1..Len(q) + 1 /\ DOMAIN q = 1..Len(q)
    BY <1>1
  <1>3. \A i \in 1..Len(q) : a[i] = q[i]
    OBVIOUS
  <1>4. a[Len(q) + 1] = e
    OBVIOUS
  <1> HIDE DEF a
  <1>5. Range(a) \subseteq Range(q) \cup {e}
    BY <1>1, <1>2, <1>3, <1>4 DEF Range
  <1>6. Range(q) \subseteq Range(a)
    BY <1>1, <1>2, <1>3 DEF Range
  <1>7. e \in Range(a)
    BY <1>1, <1>2, <1>4 DEF Range
  <1> QED BY <1>1, <1>5, <1>6, <1>7 DEF a

LEMMA HeadTailRange ==
  ASSUME NEW S, NEW q \in Seq(S), q # <<>>
  PROVE  /\ Head(q) \in S /\ Tail(q) \in Seq(S)
         /\ Head(q) \in Range(q) /\ Range(Tail(q)) \subseteq Range(q)
  <1>1. Len(q) \in Nat \ {0} /\ DOMAIN q = 1..Len(q) /\ Head(q) = q[1]
    OBVIOUS
  <1>2. Tail(q) \in Seq(S) /\ Head(q) \in S
    OBVIOUS
  <1>3. DOMAIN Tail(q) = 1..Len(q) - 1 /\ \A i \in 1..Len(q) - 1 : Tail(q)[i] = q[i + 1]
    OBVIOUS
  <1>4. Head(q) \in Range(q)
    BY <1>1 DEF Range
  <1>5. Range(Tail(q)) \subseteq Range(q)
    BY <1>1, <1>3 DEF Range
  <1> QED BY <1>2, <1>4, <1>5

\* The labels at which stream_chat yields, what it yields and where it resumes.
LEMMA Yields ==
  ASSUME NEW l \in DOMAIN Yielded
  PROVE  /\ l \in {"yield_start", "yield_text", "yield_ack", "yield_final", "yield_done"}
         /\ Yielded[l] \in Kinds \ {"error"}
         /\ Yielded[l] = "final" => l = "yield_final"
         /\ Yielded[l] = "text" => l \in {"yield_text", "yield_ack"}
         /\ Resume[l] \in {"started", "generating", "yield_final", "yield_done", "close"}
         /\ l = "yield_start" => Resume[l] = "started"
         /\ l = "yield_text" => Resume[l] = "generating"
         /\ l = "yield_ack" => Resume[l] = "yield_final"
         /\ l = "yield_final" => Resume[l] = "yield_done"
         /\ l = "yield_done" => Resume[l] = "close"
  BY DEF Yielded, Resume, Kinds

LEMMA AllLabels ==
  Labels = {"none", "submitted", "yield_start", "started", "yield_text", "generating",
            "generated", "persist", "yield_ack", "yield_final", "yield_done", "failed",
            "close", "end", "returned", "done"}
  BY DEF Labels, Yielded

LEMMA InitInvariant == Init => IInv
  <1> SUFFICES ASSUME Init PROVE IInv
    OBVIOUS
  <1>1. TypeOK
    BY StreamAssumption, AllLabels DEF Init, TypeOK
  <1>2. GateAccounted
    BY DEF Init, GateAccounted, Served
  <1>3. \A r \in Requests : Paired(r) /\ Honest(r)
    <2>1. \A r \in Requests : Range(events[r]) = {} /\ Range(sent[r]) = {}
      BY DEF Init, Range
    <2> QED BY <2>1 DEF Init, Paired, Honest, Told
  <1> QED BY <1>1, <1>2, <1>3 DEF IInv

-----------------------------------------------------------------------------
(***************************************************************************)
(* One step of the thread of r: r moves from one label to another, neither *)
(* of which is "none" or "done", and nobody else does anything.            *)
(***************************************************************************)
ThreadStep(r) ==
  /\ producer[r] \notin {"none", "returned", "done"}
  /\ \E l \in Labels \ {"none", "submitted", "done"} : producer' = [producer EXCEPT ![r] = l]
  /\ UNCHANGED Loop

LEMMA ThreadKeepsGate ==
  ASSUME IInv, NEW r \in Requests, ThreadStep(r)
  PROVE  GateAccounted' /\ \A q \in Requests : Paired(q)'
  <1>1. PICK l \in Labels \ {"none", "submitted", "done"} :
          producer' = [producer EXCEPT ![r] = l] /\ UNCHANGED Loop
    BY DEF ThreadStep
  <1>2. \A q \in Requests : producer'[q] \in {"none", "done"} <=> producer[q] \in {"none", "done"}
    BY <1>1 DEF ThreadStep, IInv, TypeOK
  <1>3. Served' = Served
    BY <1>1, <1>2 DEF Served, Loop
  <1>4. \A q \in Requests : producer'[q] = "none" <=> producer[q] = "none"
    BY <1>1 DEF ThreadStep, IInv, TypeOK
  <1> QED BY <1>1, <1>3, <1>4 DEF IInv, GateAccounted, Paired, Loop

\* What the thread does not touch stays honest.
LEMMA OthersHonest ==
  ASSUME IInv, NEW r \in Requests, NEW l, producer' = [producer EXCEPT ![r] = l],
         UNCHANGED task, persisted' \ {r} = persisted \ {r},
         \A q \in Requests \ {r} : events'[q] = events[q] /\ sent'[q] = sent[q]
  PROVE  \A q \in Requests \ {r} : Honest(q)'
  <1> SUFFICES ASSUME NEW q \in Requests \ {r} PROVE Honest(q)'
    OBVIOUS
  <1>1. producer'[q] = producer[q] /\ task'[q] = task[q] /\ (q \in persisted' <=> q \in persisted)
    BY DEF IInv, TypeOK
  <1>2. Told(q)' = Told(q)
    BY DEF Told
  <1> QED BY <1>1, <1>2 DEF IInv, Honest

LEMMA StartKeeps ==
  ASSUME IInv, NEW r \in Requests, Start(r)
  PROVE  IInv'
  <1>1. ThreadStep(r)
    BY AllLabels DEF Start, At, Goto, ThreadStep
  <1>2. TypeOK'
    BY <1>1 DEF Start, ThreadStep, IInv, TypeOK, Loop
  <1>3. PICK l \in {"close", "yield_start", "failed"} : producer' = [producer EXCEPT ![r] = l]
    BY DEF Start, Goto
  <1>4. Told(r)' = Told(r) /\ producer'[r] = l /\ producer[r] = "submitted"
    BY <1>3 DEF Start, At, Told, Loop, IInv, TypeOK
  <1>5. Honest(r)'
    BY <1>4 DEF IInv, Honest, Start, Loop
  <1>6. \A q \in Requests \ {r} : Honest(q)'
    BY <1>3, OthersHonest DEF Start, Loop
  <1> QED BY <1>1, <1>2, <1>5, <1>6, ThreadKeepsGate DEF IInv

LEMMA PublishKeeps ==
  ASSUME IInv, NEW r \in Requests, Publish(r)
  PROVE  IInv'
  <1> DEFINE l == producer[r]
  <1>1. l \in DOMAIN Yielded
    BY DEF Publish
  <1>2. l \in {"yield_start", "yield_text", "yield_ack", "yield_final", "yield_done"}
    BY <1>1, Yields
  <1>3. CASE cancel[r]
    <2>1. producer' = [producer EXCEPT ![r] = "close"] /\ UNCHANGED <<Loop, texts, cancel, events, persisted>>
      BY <1>3 DEF Publish, Goto
    <2>2. ThreadStep(r)
      BY <1>2, <2>1, AllLabels DEF ThreadStep
    <2>3. TypeOK'
      BY <2>1, AllLabels DEF IInv, TypeOK, Loop
    <2>4. Told(r)' = Told(r) /\ producer'[r] = "close"
      BY <2>1 DEF Told, Loop, IInv, TypeOK
    <2>5. Honest(r)'
      BY <2>1, <2>4, <1>2 DEF IInv, Honest, Loop
    <2>6. \A q \in Requests \ {r} : Honest(q)'
      BY <2>1, OthersHonest DEF Loop
    <2> QED BY <2>2, <2>3, <2>5, <2>6, ThreadKeepsGate DEF IInv
  <1>4. CASE ~cancel[r]
    <2>1. /\ producer' = [producer EXCEPT ![r] = Resume[l]]
          /\ events' = [events EXCEPT ![r] = Append(@, Yielded[l])]
          /\ UNCHANGED <<Loop, texts, cancel, persisted>>
      BY <1>4 DEF Publish, Goto
    <2>2. /\ Resume[l] \in {"started", "generating", "yield_final", "yield_done", "close"}
          /\ Yielded[l] \in Kinds \ {"error"}
      BY <1>1, Yields
    <2>3. ThreadStep(r)
      BY <1>2, <2>1, <2>2, AllLabels DEF ThreadStep
    <2>4. events[r] \in Seq(Kinds \cup {"end"}) /\ Yielded[l] \in Kinds \cup {"end"}
      BY <2>2 DEF IInv, TypeOK
    <2>5. /\ Append(events[r], Yielded[l]) \in Seq(Kinds \cup {"end"})
          /\ Range(Append(events[r], Yielded[l])) = Range(events[r]) \cup {Yielded[l]}
      BY <2>4, AppendRange
    <2>6. TypeOK'
      BY <2>1, <2>2, <2>5, AllLabels DEF IInv, TypeOK, Loop
    <2>7. events'[r] = Append(events[r], Yielded[l]) /\ producer'[r] = Resume[l]
      BY <2>1 DEF IInv, TypeOK
    <2>8. Told(r)' = Told(r) \cup {Yielded[l]}
      BY <2>1, <2>5, <2>7 DEF Told, Loop
    <2>9. Honest(r)'
      <3>1. task'[r] = task[r] /\ (r \in persisted' <=> r \in persisted)
        BY <2>1 DEF Loop
      <3>2. Honest(r)
        BY DEF IInv
      <3>3. "error" \notin Told(r)
        BY <1>2, <3>2 DEF Honest
      <3> HIDE DEF l
      <3>4. producer[r] = l
        BY DEF l
      <3> QED BY <1>1, <1>2, <2>2, <2>7, <2>8, <3>1, <3>2, <3>3, <3>4, Yields DEF Honest
    <2>10. \A q \in Requests \ {r} : events'[q] = events[q] /\ sent'[q] = sent[q]
      BY <2>1 DEF IInv, TypeOK, Loop
    <2>11. \A q \in Requests \ {r} : Honest(q)'
      BY <2>1, <2>10, OthersHonest DEF Loop
    <2> QED BY <2>3, <2>6, <2>9, <2>11, ThreadKeepsGate DEF IInv
  <1> QED BY <1>3, <1>4

\* A step of the thread that says nothing: only its label and its private state move.
LEMMA QuietStep ==
  ASSUME IInv, NEW r \in Requests, NEW l \in Labels \ {"none", "submitted", "done"},
         producer[r] \notin {"none", "returned", "done"},
         producer' = [producer EXCEPT ![r] = l], UNCHANGED <<Loop, events>>,
         texts' \in [Requests -> 0..MaxTexts], cancel' \in [Requests -> BOOLEAN],
         persisted' \subseteq Requests, persisted' \ {r} = persisted \ {r}, Honest(r)'
  PROVE  IInv'
  <1>1. ThreadStep(r)
    BY DEF ThreadStep
  <1>2. TypeOK'
    BY DEF IInv, TypeOK, Loop
  <1>3. \A q \in Requests \ {r} : Honest(q)'
    BY OthersHonest DEF Loop
  <1> QED BY <1>1, <1>2, <1>3, ThreadKeepsGate DEF IInv

LEMMA AcknowledgeKeeps ==
  ASSUME IInv, NEW r \in Requests, Acknowledge(r)
  PROVE  IInv'
  <1>1. PICK l \in {"close", "persist", "generating"} :
          /\ producer' = [producer EXCEPT ![r] = l]
          /\ l = "generating" => task[r] # "command"
    BY DEF Acknowledge, Goto
  <1>2. producer[r] = "started" /\ UNCHANGED <<Loop, texts, cancel, events, persisted>>
    BY DEF Acknowledge, At
  <1>3. Told(r)' = Told(r) /\ producer'[r] = l /\ task'[r] = task[r]
    BY <1>1, <1>2 DEF Told, Loop, IInv, TypeOK
  <1>4. task[r] \in {"prompt", "command"}
    BY DEF IInv, TypeOK
  <1>5. Honest(r)'
    BY <1>1, <1>2, <1>3, <1>4 DEF IInv, Honest
  <1> QED BY <1>1, <1>2, <1>5, AllLabels, QuietStep DEF IInv, TypeOK

LEMMA GenerateKeeps ==
  ASSUME IInv, NEW r \in Requests, Generate(r)
  PROVE  IInv'
  <1>1. PICK l \in {"close", "yield_text", "generated", "failed"} :
          producer' = [producer EXCEPT ![r] = l]
    BY DEF Generate, Goto
  <1>2. producer[r] = "generating" /\ UNCHANGED <<Loop, cancel, events, persisted>>
    BY DEF Generate, At
  <1>3. texts' \in [Requests -> 0..MaxTexts]
    BY StreamAssumption DEF Generate, IInv, TypeOK
  <1>4. Told(r)' = Told(r) /\ producer'[r] = l /\ task'[r] = task[r]
    BY <1>1, <1>2 DEF Told, Loop, IInv, TypeOK
  <1>5. Honest(r)'
    BY <1>1, <1>2, <1>4 DEF IInv, Honest
  <1> QED BY <1>1, <1>2, <1>3, <1>5, AllLabels, QuietStep DEF IInv, TypeOK

LEMMA CheckCancelledKeeps ==
  ASSUME IInv, NEW r \in Requests, CheckCancelled(r)
  PROVE  IInv'
  <1>1. PICK l \in {"close", "persist"} : producer' = [producer EXCEPT ![r] = l]
    BY DEF CheckCancelled, Goto
  <1>2. producer[r] = "generated" /\ UNCHANGED <<Loop, texts, cancel, events, persisted>>
    BY DEF CheckCancelled, At
  <1>3. Told(r)' = Told(r) /\ producer'[r] = l /\ task'[r] = task[r]
    BY <1>1, <1>2 DEF Told, Loop, IInv, TypeOK
  <1>4. Honest(r)'
    BY <1>1, <1>2, <1>3 DEF IInv, Honest
  <1> QED BY <1>1, <1>2, <1>4, AllLabels, QuietStep DEF IInv, TypeOK

LEMMA PersistChatKeeps ==
  ASSUME IInv, NEW r \in Requests, PersistChat(r)
  PROVE  IInv'
  <1>1. producer[r] = "persist" /\ UNCHANGED <<Loop, texts, cancel, events>>
    BY DEF PersistChat, At
  <1>2. PICK l \in {"yield_ack", "yield_final", "failed"} :
          /\ producer' = [producer EXCEPT ![r] = l]
          /\ persisted' = IF l = "failed" THEN persisted ELSE persisted \cup {r}
    BY DEF PersistChat, Goto
  <1>3. Told(r)' = Told(r) /\ producer'[r] = l /\ task'[r] = task[r]
    BY <1>1, <1>2 DEF Told, Loop, IInv, TypeOK
  <1>4. Honest(r)'
    BY <1>1, <1>2, <1>3 DEF IInv, Honest
  <1> QED BY <1>1, <1>2, <1>4, AllLabels, QuietStep DEF IInv, TypeOK

\* A step of the thread at its end: it publishes an error, the end marker, or nothing.
LEMMA LastEvent ==
  ASSUME IInv, NEW r \in Requests, NEW l \in {"end", "returned"}, NEW e \in {"error", "end"},
         producer[r] \in {"failed", "close", "end"},
         e = "error" => r \notin persisted,
         producer' = [producer EXCEPT ![r] = l],
         events' = [events EXCEPT ![r] = Append(@, e)],
         UNCHANGED <<Loop, texts, persisted>>, cancel' \in [Requests -> BOOLEAN]
  PROVE  IInv'
  <1>1. ThreadStep(r)
    BY AllLabels DEF ThreadStep
  <1>2. events[r] \in Seq(Kinds \cup {"end"}) /\ e \in Kinds \cup {"end"}
    BY DEF IInv, TypeOK, Kinds
  <1>3. /\ Append(events[r], e) \in Seq(Kinds \cup {"end"})
        /\ Range(Append(events[r], e)) = Range(events[r]) \cup {e}
    BY <1>2, AppendRange
  <1>4. TypeOK'
    BY <1>3, AllLabels DEF IInv, TypeOK, Loop
  <1>5. /\ Told(r)' = Told(r) \cup {e} /\ producer'[r] = l /\ task'[r] = task[r]
        /\ \A q \in Requests \ {r} : events'[q] = events[q] /\ sent'[q] = sent[q]
    BY <1>3 DEF Told, Loop, IInv, TypeOK
  <1>6. Honest(r)'
    BY <1>5 DEF IInv, Honest
  <1>7. \A q \in Requests \ {r} : Honest(q)'
    BY <1>5, OthersHonest DEF Loop
  <1> QED BY <1>1, <1>4, <1>6, <1>7, ThreadKeepsGate DEF IInv

LEMMA EndingKeeps ==
  ASSUME IInv, NEW r \in Requests, Fail(r) \/ CloseStream(r) \/ PublishEnd(r)
  PROVE  IInv'
  <1>1. CASE Fail(r)
    <2>1. r \notin persisted
      BY <1>1 DEF Fail, At, IInv, Honest
    <2>2. cancel' \in [Requests -> BOOLEAN]
      BY <1>1 DEF Fail, IInv, TypeOK
    <2> QED BY <1>1, <2>1, <2>2, LastEvent DEF Fail, At, Goto
  <1>2. CASE CloseStream(r)
    <2>1. /\ producer[r] = "close" /\ producer' = [producer EXCEPT ![r] = "end"]
          /\ UNCHANGED <<Loop, texts, persisted>>
      BY <1>2 DEF CloseStream, At, Goto
    <2>2. cancel' \in [Requests -> BOOLEAN]
      BY <1>2 DEF CloseStream, IInv, TypeOK
    <2>3. CASE UNCHANGED events
      <3>1. Told(r)' = Told(r) /\ producer'[r] = "end" /\ task'[r] = task[r]
        BY <2>1, <2>3 DEF Told, Loop, IInv, TypeOK
      <3>2. Honest(r)'
        BY <2>1, <3>1 DEF IInv, Honest
      <3> QED BY <2>1, <2>2, <2>3, <3>2, AllLabels, QuietStep DEF IInv, TypeOK
    <2>4. CASE r \notin persisted /\ events' = [events EXCEPT ![r] = Append(@, "error")]
      BY <2>1, <2>2, <2>4, LastEvent
    <2> QED BY <1>2, <2>3, <2>4 DEF CloseStream
  <1>3. CASE PublishEnd(r)
    <2>1. cancel' \in [Requests -> BOOLEAN]
      BY <1>3 DEF PublishEnd, IInv, TypeOK
    <2> QED BY <1>3, <2>1, LastEvent DEF PublishEnd, At, Goto
  <1> QED BY <1>1, <1>2, <1>3

-----------------------------------------------------------------------------
(***************************************************************************)
(* The steps of the event loop.                                            *)
(***************************************************************************)
\* The gate is taken exactly while one request is served.
LEMMA GateOfServed ==
  ASSUME IInv, NEW r \in Served
  PROVE  gate = 0 /\ Served = {r}
  BY DEF IInv, TypeOK, GateAccounted, Served

\* Nothing is said or persisted: whoever was honest still is.
LEMMA SilentHonest ==
  ASSUME IInv, UNCHANGED <<task, events, sent, persisted>>,
         \A q \in Requests : \/ producer'[q] = producer[q]
                             \/ producer[q] = "none" /\ producer'[q] = "submitted"
                             \/ producer[q] = "returned" /\ producer'[q] = "done"
  PROVE  \A q \in Requests : Honest(q)'
  <1> SUFFICES ASSUME NEW q \in Requests PROVE Honest(q)'
    OBVIOUS
  <1>1. Told(q)' = Told(q)
    BY DEF Told
  <1> QED BY <1>1 DEF IInv, Honest

LEMMA ArriveKeeps ==
  ASSUME IInv, NEW r \in Requests, Arrive(r)
  PROVE  IInv'
  <1>1. TypeOK'
    BY DEF Arrive, IInv, TypeOK
  <1>2. Served' = Served
    BY DEF Arrive, Served, IInv, TypeOK
  <1>3. GateAccounted'
    BY <1>2 DEF Arrive, IInv, GateAccounted
  <1>4. \A q \in Requests : Paired(q)'
    BY DEF Arrive, IInv, TypeOK, Paired
  <1>5. \A q \in Requests : Honest(q)'
    BY SilentHonest DEF Arrive
  <1> QED BY <1>1, <1>3, <1>4, <1>5 DEF IInv

LEMMA AcquireKeeps ==
  ASSUME IInv, NEW r \in Requests, Acquire(r)
  PROVE  IInv'
  <1>1. gate = 1 /\ gate' = 0
    BY DEF Acquire, IInv, TypeOK
  <1>2. TypeOK'
    BY <1>1, AllLabels DEF Acquire, IInv, TypeOK
  <1>3. Served = {} /\ Served' = {r}
    <2>1. Served = {}
      BY <1>1 DEF IInv, GateAccounted
    <2>2. \A q \in Requests \ {r} : consumer'[q] = consumer[q] /\ producer'[q] = producer[q]
      BY DEF Acquire, IInv, TypeOK
    <2>3. consumer'[r] = "streaming"
      BY DEF Acquire, IInv, TypeOK
    <2> QED BY <2>1, <2>2, <2>3 DEF Served
  <1>4. GateAccounted'
    BY <1>1, <1>3 DEF GateAccounted
  <1>5. \A q \in Requests : Paired(q)'
    BY DEF Acquire, IInv, TypeOK, Paired
  <1>6. producer[r] = "none"
    BY DEF Acquire, IInv, Paired
  <1>7. \A q \in Requests : Honest(q)'
    <2>1. \A q \in Requests : \/ producer'[q] = producer[q]
                              \/ producer[q] = "none" /\ producer'[q] = "submitted"
      BY <1>6 DEF Acquire, IInv, TypeOK
    <2> QED BY <2>1, SilentHonest DEF Acquire
  <1> QED BY <1>2, <1>4, <1>5, <1>7 DEF IInv

LEMMA CloseKeeps ==
  ASSUME IInv, NEW r \in Requests, consumer[r] = "streaming", Close(r), UNCHANGED <<events, sent>>
  PROVE  IInv'
  <1>1. gate = 0 /\ Served = {r}
    BY GateOfServed DEF Served
  <1>2. TypeOK'
    BY <1>1 DEF Close, IInv, TypeOK
  <1>3. producer[r] # "none" /\ producer' = producer
    BY DEF Close, IInv, Paired
  <1>4. \A q \in Requests : consumer'[q] = IF q = r THEN "closed" ELSE consumer[q]
    BY DEF Close, IInv, TypeOK
  <1>5. GateAccounted'
    <2>1. CASE producer[r] = "done"
      <3>1. Served' = {} /\ gate' = 1
        BY <1>1, <1>3, <1>4, <2>1 DEF Served, Close
      <3> QED BY <3>1 DEF GateAccounted
    <2>2. CASE producer[r] # "done"
      <3>1. Served' = {r} /\ gate' = 0
        BY <1>1, <1>3, <1>4, <2>2 DEF Served, Close
      <3> QED BY <3>1 DEF GateAccounted
    <2> QED BY <2>1, <2>2
  <1>6. \A q \in Requests : Paired(q)'
    BY <1>3, <1>4 DEF IInv, Paired
  <1>7. \A q \in Requests : Honest(q)'
    BY <1>3, SilentHonest DEF Close
  <1> QED BY <1>2, <1>5, <1>6, <1>7 DEF IInv

LEMMA RelayKeeps ==
  ASSUME IInv, NEW r \in Requests, Relay(r)
  PROVE  IInv'
  <1> DEFINE h == Head(events[r])
  <1>1. /\ h \in Kinds /\ Tail(events[r]) \in Seq(Kinds \cup {"end"})
        /\ h \in Range(events[r]) /\ Range(Tail(events[r])) \subseteq Range(events[r])
    <2>1. events[r] \in Seq(Kinds \cup {"end"}) /\ events[r] # <<>> /\ h # "end"
      BY DEF Relay, IInv, TypeOK
    <2> QED BY <2>1, HeadTailRange
  <1>2. Append(sent[r], h) \in Seq(Kinds) /\ Range(Append(sent[r], h)) = Range(sent[r]) \cup {h}
    <2>1. sent[r] \in Seq(Kinds)
      BY DEF IInv, TypeOK
    <2> QED BY <1>1, <2>1, AppendRange
  <1>3. /\ events' = [events EXCEPT ![r] = Tail(events[r])]
        /\ sent' = [sent EXCEPT ![r] = Append(sent[r], h)]
        /\ UNCHANGED <<gate, consumer, producer, task, texts, cancel, persisted>>
    BY DEF Relay
  <1>4. TypeOK'
    BY <1>1, <1>2, <1>3 DEF IInv, TypeOK
  <1>5. GateAccounted' /\ \A q \in Requests : Paired(q)'
    BY <1>3 DEF IInv, GateAccounted, Served, Paired
  <1>6. \A q \in Requests : Told(q)' \subseteq Told(q)
    <2>1. Range(events'[r]) \subseteq Range(events[r]) /\ Range(sent'[r]) = Range(sent[r]) \cup {h}
      BY <1>1, <1>2, <1>3 DEF IInv, TypeOK
    <2>2. \A q \in Requests \ {r} : events'[q] = events[q] /\ sent'[q] = sent[q]
      BY <1>3 DEF IInv, TypeOK
    <2> QED BY <1>1, <2>1, <2>2 DEF Told
  <1>7. \A q \in Requests : Honest(q)'
    BY <1>3, <1>6 DEF IInv, Honest
  <1> QED BY <1>4, <1>5, <1>7 DEF IInv

LEMMA DisconnectKeeps ==
  ASSUME IInv, NEW r \in Requests, Disconnect(r)
  PROVE  IInv'
  <1>1. CASE consumer[r] = "streaming"
    BY <1>1, CloseKeeps DEF Disconnect
  <1>2. CASE consumer[r] = "waiting"
    <2>1. /\ consumer' = [consumer EXCEPT ![r] = "closed"]
          /\ UNCHANGED <<gate, producer, task, texts, cancel, events, sent, persisted>>
      BY <1>2 DEF Disconnect
    <2>2. TypeOK'
      BY <2>1 DEF IInv, TypeOK
    <2>3. \A q \in Requests : consumer'[q] = IF q = r THEN "closed" ELSE consumer[q]
      BY <2>1 DEF IInv, TypeOK
    <2>4. Served' = Served
      BY <1>2, <2>1, <2>3 DEF Served
    <2>5. GateAccounted' /\ \A q \in Requests : Paired(q)'
      BY <2>1, <2>3, <2>4 DEF IInv, GateAccounted, Paired
    <2>6. \A q \in Requests : Honest(q)'
      BY <2>1, SilentHonest
    <2> QED BY <2>2, <2>5, <2>6 DEF IInv
  <1> QED BY <1>1, <1>2 DEF Disconnect

LEMMA ProducerDoneKeeps ==
  ASSUME IInv, NEW r \in Requests, ProducerDone(r)
  PROVE  IInv'
  <1>1. gate = 0 /\ Served = {r}
    BY GateOfServed DEF ProducerDone, Served
  <1>2. TypeOK'
    BY <1>1, AllLabels DEF ProducerDone, IInv, TypeOK
  <1>3. \A q \in Requests : producer'[q] = IF q = r THEN "done" ELSE producer[q]
    BY DEF ProducerDone, IInv, TypeOK
  <1>4. consumer' = consumer /\ producer[r] = "returned"
    BY DEF ProducerDone
  <1>5. consumer[r] \in {"streaming", "closed"}
    BY <1>4 DEF IInv, TypeOK, Paired
  <1>6. GateAccounted'
    <2>1. CASE consumer[r] = "closed"
      <3>1. Served' = {} /\ gate' = 1
        BY <1>1, <1>3, <1>4, <2>1 DEF Served, ProducerDone
      <3> QED BY <3>1 DEF GateAccounted
    <2>2. CASE consumer[r] = "streaming"
      <3>1. Served' = {r} /\ gate' = 0
        BY <1>1, <1>3, <1>4, <2>2 DEF Served, ProducerDone
      <3> QED BY <3>1 DEF GateAccounted
    <2> QED BY <1>5, <2>1, <2>2
  <1>7. \A q \in Requests : Paired(q)'
    BY <1>3, <1>4, <1>5 DEF IInv, Paired
  <1>8. \A q \in Requests : Honest(q)'
    BY <1>3, <1>4, SilentHonest DEF ProducerDone
  <1> QED BY <1>2, <1>6, <1>7, <1>8 DEF IInv

LEMMA NextInvariant == IInv /\ [Next]_vars => IInv'
  <1> SUFFICES ASSUME IInv, [Next]_vars PROVE IInv'
    OBVIOUS
  <1>1. CASE UNCHANGED vars
    BY <1>1 DEF IInv, TypeOK, GateAccounted, Served, Paired, Honest, Told, vars
  <1>2. CASE Next
    <2>1. PICK r \in Requests :
            Arrive(r) \/ Disconnect(r) \/ EventSource(r) \/ Produce(r)
      BY <1>2 DEF Next
    <2>2. CASE Arrive(r)
      BY <2>2, ArriveKeeps
    <2>3. CASE Disconnect(r)
      BY <2>3, DisconnectKeeps
    <2>4. CASE EventSource(r)
      <3>1. CASE StreamEnd(r)
        BY <3>1, CloseKeeps DEF StreamEnd
      <3> QED BY <2>4, <3>1, AcquireKeeps, RelayKeeps, ProducerDoneKeeps DEF EventSource
    <2>5. CASE Produce(r)
      BY <2>5, StartKeeps, PublishKeeps, AcknowledgeKeeps, GenerateKeeps, CheckCancelledKeeps,
         PersistChatKeeps, EndingKeeps DEF Produce
    <2> QED BY <2>1, <2>2, <2>3, <2>4, <2>5
  <1> QED BY <1>1, <1>2

\* The strengthened invariant of the stream: labels, gate, queue and database agree.
THEOREM StreamInvariant == Spec => []IInv
  BY InitInvariant, NextInvariant, PTL DEF Spec

\* Every variable of the stream keeps its type.
THEOREM StreamTypeCorrect == Spec => []TypeOK
  BY StreamInvariant, PTL DEF IInv

\* The gate is never released twice, never lost, and never shared by two requests.
THEOREM GateIsAccounted == Spec => []GateAccounted
  BY StreamInvariant, PTL DEF IInv

\* What a client has received of its stream agrees with what is committed.
THEOREM ClientIsToldTheTruth == Spec => []SavedAsTold
  <1>1. IInv => SavedAsTold
    BY DEF IInv, Honest, Told, SavedAsTold
  <1> QED BY <1>1, StreamInvariant, PTL

\* A request that is cancelled before its commit began.
Withdrawn(r) == cancel[r] /\ producer[r] # "persist" /\ r \notin persisted

\* Once withdrawn, a request cannot reach the commit any more.
LEMMA WithdrawnForever ==
  ASSUME NEW r \in Requests
  PROVE  IInv /\ Withdrawn(r) /\ [Next]_vars => Withdrawn(r)'
  <1> SUFFICES ASSUME IInv, Withdrawn(r), [Next]_vars PROVE Withdrawn(r)'
    OBVIOUS
  <1>1. CASE UNCHANGED vars
    BY <1>1 DEF Withdrawn, vars
  <1>2. ASSUME NEW q \in Requests, Arrive(q) \/ Disconnect(q) \/ EventSource(q)
        PROVE  Withdrawn(r)'
    <2>1. persisted' = persisted
      BY <1>2 DEF Arrive, Disconnect, EventSource, Acquire, Relay, StreamEnd, ProducerDone, Close
    <2>2. cancel'[r]
      BY <1>2 DEF Arrive, Disconnect, EventSource, Acquire, Relay, StreamEnd, ProducerDone, Close,
                  Withdrawn, IInv, TypeOK
    <2>3. producer'[r] # "persist"
      BY <1>2 DEF Arrive, Disconnect, EventSource, Acquire, Relay, StreamEnd, ProducerDone, Close,
                  Withdrawn, IInv, TypeOK
    <2> QED BY <2>1, <2>2, <2>3 DEF Withdrawn
  <1>3. ASSUME NEW q \in Requests, Produce(q)
        PROVE  Withdrawn(r)'
    <2>1. r \notin persisted'
      BY <1>3 DEF Produce, Start, Publish, Acknowledge, Generate, CheckCancelled, PersistChat, Fail,
                  CloseStream, PublishEnd, At, Withdrawn
    <2>2. cancel'[r]
      BY <1>3 DEF Produce, Start, Publish, Acknowledge, Generate, CheckCancelled, PersistChat, Fail,
                  CloseStream, PublishEnd, Withdrawn, IInv, TypeOK
    <2>3. producer'[r] # "persist"
      <3>1. CASE q # r
        <4>1. producer'[r] = producer[r]
          BY <1>3, <3>1 DEF Produce, Start, Publish, Acknowledge, Generate, CheckCancelled,
               PersistChat, Fail, CloseStream, PublishEnd, Goto, IInv, TypeOK
        <4> QED BY <4>1 DEF Withdrawn
      <3>2. CASE q = r
        <4>1. CASE Publish(r)
          BY <4>1 DEF Publish, Goto, Withdrawn, IInv, TypeOK
        <4>2. CASE ~Publish(r)
          BY <1>3, <3>2, <4>2 DEF Produce, Start, Acknowledge, Generate, CheckCancelled,
               PersistChat, Fail, CloseStream, PublishEnd, At, Goto, Withdrawn, IInv, TypeOK
        <4> QED BY <4>1, <4>2
      <3> QED BY <3>1, <3>2
    <2> QED BY <2>1, <2>2, <2>3 DEF Withdrawn
  <1> QED BY <1>1, <1>2, <1>3 DEF Next

\* A turn cancelled before its commit is never persisted, whatever follows.
THEOREM CancelledStaysUnsaved == Spec => CancelledIsNotSaved
  <1> SUFFICES ASSUME NEW r \in Requests
               PROVE  Spec => [](cancel[r] /\ producer[r] # "persist" /\ r \notin persisted
                                   => [](r \notin persisted))
    BY DEF CancelledIsNotSaved
  <1>1. IInv /\ Withdrawn(r) /\ [Next]_vars => Withdrawn(r)'
    BY WithdrawnForever
  <1>2. Withdrawn(r) => r \notin persisted
    BY DEF Withdrawn
  <1>3. cancel[r] /\ producer[r] # "persist" /\ r \notin persisted => Withdrawn(r)
    BY DEF Withdrawn
  <1> HIDE DEF Withdrawn
  <1> QED BY <1>1, <1>2, <1>3, StreamInvariant, PTL DEF Spec

-----------------------------------------------------------------------------
(***************************************************************************)
(* The order on the wire.  What the client received and what is queued for *)
(* it is one sequence (Wire), in which each event may follow the one       *)
(* before (Chain); the label of the producer knows the last one (Place).   *)
(***************************************************************************)
Wire(r) == sent[r] \o events[r]

Successors ==
  [nothing |-> {"start", "error", "end"}, start |-> {"text", "error", "end"},
   text |-> {"text", "final", "error", "end"}, final |-> {"done", "end"},
   done |-> {"end"}, error |-> {"end"}, end |-> {}]

LastOf(w) == IF w = <<>> THEN "nothing" ELSE w[Len(w)]
Before(w, i) == IF i = 1 THEN "nothing" ELSE w[i - 1]
Chain(w) == \A i \in 1..Len(w) : w[i] \in Successors[Before(w, i)]

\* The producer is at its label after the event last.
Place(r, last) ==
  /\ producer[r] \in {"none", "submitted", "yield_start"} => last = "nothing"
  /\ producer[r] \in {"started", "yield_ack"} => last = "start"
  /\ producer[r] = "yield_text" => last \in {"start", "text"} /\ texts[r] > 0
  /\ producer[r] = "generating" => last = IF texts[r] = 0 THEN "start" ELSE "text"
  /\ producer[r] \in {"generated", "yield_final"} => last = "text"
  /\ producer[r] = "persist" => last = IF task[r] = "command" THEN "start" ELSE "text"
  /\ producer[r] = "yield_done" => last = "final"
  /\ producer[r] = "failed" => last \in {"nothing", "start", "text"}
  /\ producer[r] = "close" => /\ last \notin {"error", "end"}
                              /\ r \notin persisted => last \in {"nothing", "start", "text"}
                              /\ consumer[r] = "closed" \/ last = "done"
  /\ producer[r] = "end" => /\ last # "end"
                            /\ consumer[r] = "closed" \/ last \in {"done", "error"}

\* The end marker comes after a terminal event, unless nobody listens.
Marked(r, w) ==
  \A i \in 1..Len(w) : w[i] = "end" => consumer[r] = "closed" \/ Before(w, i) \in {"done", "error"}

\* Until the thread ends its stream, only a client that left cancels it.
Quits(r) == cancel[r] /\ producer[r] \notin {"end", "returned", "done"} => consumer[r] = "closed"

Ordered(r) ==
  /\ Chain(Wire(r)) /\ Place(r, LastOf(Wire(r))) /\ Marked(r, Wire(r)) /\ Quits(r)
  /\ producer[r] \in {"none", "submitted", "yield_start", "started"} => texts[r] = 0

WInv == \A r \in Requests : Ordered(r)

LEMMA WireOfAppend ==
  ASSUME NEW S, NEW s \in Seq(S), NEW t \in Seq(S), NEW e \in S
  PROVE  s \o Append(t, e) = Append(s \o t, e)
  <1>1. Append(t, e) = t \o <<e>> /\ Append(s \o t, e) = (s \o t) \o <<e>>
    BY ConcatProperties, AppendIsConcat
  <1>2. <<e>> \in Seq(S)
    OBVIOUS
  <1> QED BY <1>1, <1>2, ConcatAssociative

LEMMA WireOfRelay ==
  ASSUME NEW S, NEW s \in Seq(S), NEW t \in Seq(S), t # <<>>
  PROVE  Append(s, Head(t)) \o Tail(t) = s \o t
  <1>1. Head(t) \in S /\ Tail(t) \in Seq(S) /\ t = <<Head(t)>> \o Tail(t) /\ <<Head(t)>> \in Seq(S)
    BY HeadTailProperties
  <1>2. Append(s, Head(t)) = s \o <<Head(t)>>
    BY <1>1, AppendIsConcat
  <1> QED BY <1>1, <1>2, ConcatAssociative

LEMMA ChainExtends ==
  ASSUME NEW S, NEW w \in Seq(S), NEW e \in S, Chain(w), e \in Successors[LastOf(w)]
  PROVE  /\ Chain(Append(w, e)) /\ LastOf(Append(w, e)) = e
         /\ \A r \in Requests :
              Marked(r, w) /\ (e = "end" => consumer[r] = "closed" \/ LastOf(w) \in {"done", "error"})
                => Marked(r, Append(w, e))
  <1>1. PICK n \in Nat : n = Len(w)
    BY LenProperties
  <1> DEFINE a == Append(w, e)
  <1>2. /\ Len(a) = n + 1 /\ a[n + 1] = e /\ a # <<>>
        /\ \A i \in 1..n : a[i] = w[i]
    BY <1>1, AppendProperties
  <1>3. \A i \in 1..n : Before(a, i) = Before(w, i)
    BY <1>2 DEF Before
  <1>4. Before(a, n + 1) = LastOf(w)
    <2>1. CASE n = 0
      <3>1. w = <<>>
        <4>1. Len(w) = 0
          BY <1>1, <2>1, Zenon
        <4>2. w # <<>> => Len(w) \in Nat \ {0}
          BY EmptySeq
        <4> QED BY <4>1, <4>2
      <3>2. n + 1 = 1
        BY <2>1
      <3> QED BY <3>1, <3>2, Zenon DEF Before, LastOf
    <2>2. CASE n # 0
      <3>1. w # <<>> /\ n \in 1..n /\ n + 1 # 1 /\ (n + 1) - 1 = n
        BY <1>1, <2>2
      <3> QED BY <1>1, <1>2, <3>1 DEF Before, LastOf
    <2> QED BY <2>1, <2>2
  <1> HIDE DEF a
  <1>5. Chain(a)
    BY <1>1, <1>2, <1>3, <1>4 DEF Chain
  <1>6. LastOf(a) = e
    BY <1>2 DEF LastOf
  <1>7. ASSUME NEW r \in Requests, Marked(r, w),
               e = "end" => consumer[r] = "closed" \/ LastOf(w) \in {"done", "error"}
        PROVE  Marked(r, a)
    BY <1>1, <1>2, <1>3, <1>4, <1>7 DEF Marked
  <1> QED BY <1>5, <1>6, <1>7 DEF a

All == Kinds \cup {"end"}

LEMMA WireType ==
  ASSUME TypeOK, NEW r \in Requests
  PROVE  /\ sent[r] \in Seq(Kinds) /\ sent[r] \in Seq(All) /\ events[r] \in Seq(All)
         /\ Wire(r) \in Seq(All)
  <1>1. sent[r] \in Seq(Kinds) /\ events[r] \in Seq(All)
    BY DEF TypeOK, All
  <1>2. sent[r] \in Seq(All)
    BY <1>1, SeqMonotonic DEF All
  <1> QED BY <1>1, <1>2, ConcatProperties DEF Wire

LEMMA InitOrdered == Init => WInv
  <1> SUFFICES ASSUME Init, NEW r \in Requests PROVE Ordered(r)
    BY DEF WInv
  <1>1. Wire(r) = <<>> /\ Len(<<>>) = 0
    BY ConcatEmptySeq, EmptySeq DEF Init, Wire
  <1>2. Chain(<<>>) /\ Marked(r, <<>>) /\ LastOf(<<>>) = "nothing"
    BY <1>1 DEF Chain, Marked, LastOf
  <1> QED BY <1>1, <1>2 DEF Ordered, Init, Place, Quits

\* Whoever a step does not concern stays in order.
LEMMA OthersOrdered ==
  ASSUME NEW q \in Requests, Ordered(q), q \in persisted' <=> q \in persisted,
         UNCHANGED <<producer[q], consumer[q], task[q], texts[q], cancel[q], events[q], sent[q]>>
  PROVE  Ordered(q)'
  <1>1. Wire(q)' = Wire(q)
    BY DEF Wire
  <1>2. Chain(Wire(q))' /\ Marked(q, Wire(q))'
    BY <1>1 DEF Ordered, Chain, Marked, Before
  <1>3. Place(q, LastOf(Wire(q)))'
    BY <1>1 DEF Ordered, Place, LastOf
  <1> QED BY <1>2, <1>3 DEF Ordered, Quits

\* A step that leaves the wire of r as it is.
LEMMA SilentOrdered ==
  ASSUME NEW r \in Requests, Ordered(r), Wire(r)' = Wire(r),
         consumer'[r] = consumer[r] \/ consumer[r] # "closed",
         \A last : Place(r, last) => Place(r, last)', Quits(r)',
         producer'[r] \in {"none", "submitted", "yield_start", "started"} => texts'[r] = 0
  PROVE  Ordered(r)'
  <1>1. Chain(Wire(r))' /\ Marked(r, Wire(r))'
    BY DEF Ordered, Chain, Marked, Before
  <1>2. LastOf(Wire(r))' = LastOf(Wire(r))
    BY DEF LastOf
  <1>3. Place(r, LastOf(Wire(r)))'
    BY <1>2 DEF Ordered
  <1> QED BY <1>1, <1>3 DEF Ordered

\* The thread of r publishes e and moves on to the label l.
LEMMA SpokenOrdered ==
  ASSUME TypeOK, NEW r \in Requests, Ordered(r), NEW e \in All, NEW l,
         sent' = sent, events' = [events EXCEPT ![r] = Append(@, e)],
         producer' = [producer EXCEPT ![r] = l], consumer' = consumer, task' = task,
         texts' = texts, persisted' = persisted, \A q \in Requests \ {r} : cancel'[q] = cancel[q],
         e \in Successors[LastOf(Wire(r))],
         e = "end" => consumer[r] = "closed" \/ LastOf(Wire(r)) \in {"done", "error"},
         Place(r, e)', Quits(r)',
         l \in {"none", "submitted", "yield_start", "started"} => texts[r] = 0
  PROVE  Ordered(r)' /\ \A q \in Requests \ {r} : Ordered(q) => Ordered(q)'
  <1> USE DEF TypeOK
  <1>1. Wire(r) \in Seq(All)
    BY WireType
  <1>2. Wire(r)' = Append(Wire(r), e)
    <2>1. events'[r] = Append(events[r], e)
      <3>1. DOMAIN events = Requests
        OBVIOUS
      <3> QED BY <3>1
    <2>2. sent'[r] \o events'[r] = sent[r] \o Append(events[r], e)
      BY <2>1
    <2>3. sent[r] \o Append(events[r], e) = Append(sent[r] \o events[r], e)
      <3>1. sent[r] \in Seq(All) /\ events[r] \in Seq(All)
        BY WireType
      <3> QED BY <3>1, WireOfAppend
    <2> QED BY <2>2, <2>3 DEF Wire
  <1>3. /\ Chain(Append(Wire(r), e)) /\ LastOf(Append(Wire(r), e)) = e
        /\ Marked(r, Append(Wire(r), e))
    BY <1>1, ChainExtends DEF Ordered
  <1>4. Chain(Wire(r))' /\ Marked(r, Wire(r))' /\ Place(r, LastOf(Wire(r)))'
    BY <1>2, <1>3 DEF Chain, Marked, Before, LastOf
  <1>5. producer'[r] = l
    OBVIOUS
  <1>6. ASSUME NEW q \in Requests \ {r}, Ordered(q) PROVE Ordered(q)'
    BY <1>6, OthersOrdered
  <1> QED BY <1>4, <1>5, <1>6 DEF Ordered

\* A step of the thread of r that publishes nothing.
LEMMA ThreadOrdered ==
  ASSUME TypeOK, WInv, NEW r \in Requests, NEW l,
         producer' = [producer EXCEPT ![r] = l], UNCHANGED <<consumer, task, events, sent>>,
         \A q \in Requests \ {r} : /\ texts'[q] = texts[q] /\ cancel'[q] = cancel[q]
                                   /\ q \in persisted' <=> q \in persisted,
         \A last : Place(r, last) => Place(r, last)', Quits(r)',
         l \in {"none", "submitted", "yield_start", "started"} => texts'[r] = 0
  PROVE  WInv'
  <1> USE DEF TypeOK
  <1>1. Wire(r)' = Wire(r) /\ producer'[r] = l
    BY DEF Wire
  <1>2. Ordered(r)'
    BY <1>1, SilentOrdered DEF WInv
  <1>3. ASSUME NEW q \in Requests \ {r} PROVE Ordered(q)'
    BY <1>3, OthersOrdered DEF WInv
  <1> QED BY <1>2, <1>3 DEF WInv

LEMMA StartOrdered ==
  ASSUME IInv, WInv, NEW r \in Requests,
         Start(r) \/ Acknowledge(r) \/ Generate(r) \/ CheckCancelled(r) \/ PersistChat(r)
  PROVE  WInv'
  <1> USE DEF At, Goto, Loop
  <1>1. /\ TypeOK /\ Ordered(r) /\ Honest(r) /\ UNCHANGED <<consumer, task, events, sent, cancel>>
        /\ texts[r] \in Nat
    BY DEF IInv, TypeOK, WInv, Start, Acknowledge, Generate, CheckCancelled, PersistChat
  <1>2. CASE Start(r)
    <2>1. PICK l \in {"close", "yield_start", "failed"} :
               /\ producer' = [producer EXCEPT ![r] = l]
               /\ l = "close" => cancel[r]
               /\ producer[r] = "submitted" /\ UNCHANGED <<texts, persisted>>
      BY <1>2 DEF Start
    <2>2. producer'[r] = l
      BY <1>1, <2>1 DEF TypeOK
    <2>3. \A last : Place(r, last) => Place(r, last)'
      BY <1>1, <2>1, <2>2 DEF Place, Ordered, Quits
    <2>4. Quits(r)' /\ texts'[r] = 0
      BY <1>1, <2>1, <2>2 DEF Quits, Ordered
    <2> QED BY <1>1, <2>1, <2>3, <2>4, ThreadOrdered
  <1>3. CASE Acknowledge(r)
    <2>1. PICK l \in {"close", "persist", "generating"} :
               /\ producer' = [producer EXCEPT ![r] = l] /\ producer[r] = "started"
               /\ UNCHANGED <<texts, persisted>>
               /\ l = "close" => cancel[r]
               /\ l = "persist" => task[r] = "command"
      BY <1>3 DEF Acknowledge
    <2>2. producer'[r] = l /\ texts[r] = 0
      BY <1>1, <2>1 DEF TypeOK, Ordered
    <2>3. \A last : Place(r, last) => Place(r, last)'
      BY <1>1, <2>1, <2>2 DEF Place, Ordered, Quits
    <2>4. Quits(r)'
      BY <1>1, <2>1, <2>2 DEF Quits, Ordered
    <2> QED BY <1>1, <2>1, <2>2, <2>3, <2>4, ThreadOrdered
  <1>4. CASE Generate(r)
    <2>1. PICK l \in {"close", "yield_text", "generated", "failed"} :
               /\ producer' = [producer EXCEPT ![r] = l] /\ producer[r] = "generating"
               /\ UNCHANGED persisted
               /\ l = "close" => cancel[r]
               /\ l = "generated" => texts[r] > 0
               /\ l = "yield_text" => texts'[r] > 0
               /\ \A q \in Requests \ {r} : texts'[q] = texts[q]
      <3>1. CASE UNCHANGED texts /\ producer' # [producer EXCEPT ![r] = "yield_text"]
        BY <1>4, <3>1 DEF Generate
      <3>2. CASE texts' = [texts EXCEPT ![r] = @ + 1] /\ producer' = [producer EXCEPT ![r] = "yield_text"]
        BY <1>1, <1>4, <3>2 DEF Generate, TypeOK
      <3>3. ASSUME NEW m \in {"close", "generated", "failed"}, producer' = [producer EXCEPT ![r] = m]
            PROVE  producer' # [producer EXCEPT ![r] = "yield_text"]
        BY <1>1, <3>3 DEF TypeOK
      <3> QED BY <1>4, <3>1, <3>2, <3>3 DEF Generate
    <2>2. producer'[r] = l
      BY <1>1, <2>1 DEF TypeOK
    <2>3. task[r] = "prompt" /\ r \notin persisted
      BY <1>1, <2>1 DEF Honest
    <2>4. \A last : Place(r, last) => Place(r, last)'
      BY <1>1, <2>1, <2>2 DEF Place, Ordered, Quits
    <2>5. Quits(r)'
      BY <1>1, <2>1, <2>2 DEF Quits, Ordered
    <2> QED BY <1>1, <2>1, <2>4, <2>5, ThreadOrdered
  <1>5. CASE CheckCancelled(r)
    <2>1. PICK l \in {"close", "persist"} :
               /\ producer' = [producer EXCEPT ![r] = l] /\ producer[r] = "generated"
               /\ UNCHANGED <<texts, persisted>>
               /\ l = "close" => cancel[r]
      BY <1>5 DEF CheckCancelled
    <2>2. producer'[r] = l /\ task[r] = "prompt"
      BY <1>1, <2>1 DEF TypeOK, Honest
    <2>3. \A last : Place(r, last) => Place(r, last)'
      BY <1>1, <2>1, <2>2 DEF Place, Ordered, Quits
    <2>4. Quits(r)'
      BY <1>1, <2>1, <2>2 DEF Quits, Ordered
    <2> QED BY <1>1, <2>1, <2>3, <2>4, ThreadOrdered
  <1>6. CASE PersistChat(r)
    <2>1. PICK l \in {"yield_ack", "yield_final", "failed"} :
               /\ producer' = [producer EXCEPT ![r] = l] /\ producer[r] = "persist"
               /\ UNCHANGED texts /\ \A q \in Requests \ {r} : q \in persisted' <=> q \in persisted
               /\ l = "yield_ack" => task[r] = "command"
               /\ l = "yield_final" => task[r] # "command"
      BY <1>6 DEF PersistChat
    <2>2. producer'[r] = l
      BY <1>1, <2>1 DEF TypeOK
    <2>3. \A last : Place(r, last) => Place(r, last)'
      BY <1>1, <2>1, <2>2 DEF Place
    <2>4. Quits(r)'
      BY <1>1, <2>1, <2>2 DEF Quits, Ordered
    <2> QED BY <1>1, <2>1, <2>3, <2>4, ThreadOrdered
  <1> QED BY <1>2, <1>3, <1>4, <1>5, <1>6

LEMMA PublishOrdered ==
  ASSUME IInv, WInv, NEW r \in Requests, Publish(r)
  PROVE  WInv'
  <1> DEFINE last == LastOf(Wire(r))
  <1>0. PICK l \in DOMAIN Yielded : l = producer[r]
    BY DEF Publish
  <1>1. /\ TypeOK /\ Ordered(r) /\ Honest(r) /\ Place(r, last)
        /\ UNCHANGED <<Loop, texts, cancel, persisted>> /\ producer[r] = l
        /\ l \in {"yield_start", "yield_text", "yield_ack", "yield_final", "yield_done"}
    BY <1>0, Yields DEF IInv, WInv, Ordered, Publish
  <1>2. CASE cancel[r]
    <2>1. producer' = [producer EXCEPT ![r] = "close"] /\ UNCHANGED events
      BY <1>2 DEF Publish, Goto
    <2>2. producer'[r] = "close"
      BY <1>1, <2>1 DEF TypeOK
    <2>3. \A x : Place(r, x) => Place(r, x)'
      BY <1>1, <1>2, <2>2 DEF Place, Ordered, Quits, Honest, Loop
    <2>4. Quits(r)'
      BY <1>1, <1>2 DEF Quits, Ordered, Loop
    <2> QED BY <1>1, <2>1, <2>3, <2>4, ThreadOrdered DEF Loop
  <1>3. CASE ~cancel[r]
    <2> DEFINE e == Yielded[l]
    <2>1. /\ producer' = [producer EXCEPT ![r] = Resume[l]]
          /\ events' = [events EXCEPT ![r] = Append(@, e)]
      BY <1>1, <1>3 DEF Publish, Goto
    <2>2. producer'[r] = Resume[l] /\ task[r] \in {"prompt", "command"}
      BY <1>1, <2>1 DEF TypeOK
    <2>3. /\ l = "yield_start" => e = "start" /\ Resume[l] = "started"
          /\ l = "yield_text" => e = "text" /\ Resume[l] = "generating"
          /\ l = "yield_ack" => e = "text" /\ Resume[l] = "yield_final"
          /\ l = "yield_final" => e = "final" /\ Resume[l] = "yield_done"
          /\ l = "yield_done" => e = "done" /\ Resume[l] = "close"
      BY DEF Yielded, Resume
    <2>4. e \in All /\ e # "end"
      BY <1>1, <2>3 DEF All, Kinds
    <2>5. e \in Successors[last]
      BY <1>1, <2>3 DEF Place, Successors
    <2> HIDE DEF e, last
    <2>6. Place(r, e)'
      <3>1. CASE l = "yield_start"
        BY <1>1, <2>2, <2>3, <3>1 DEF Place, Ordered, Loop
      <3>2. CASE l = "yield_text"
        BY <1>1, <2>2, <2>3, <3>2 DEF Place, Loop
      <3>3. CASE l \in {"yield_ack", "yield_final"}
        BY <1>1, <2>2, <2>3, <3>3 DEF Place, Loop
      <3>4. CASE l = "yield_done"
        BY <1>1, <2>2, <2>3, <3>4 DEF Place, Honest, Loop
      <3> QED BY <1>1, <3>1, <3>2, <3>3, <3>4
    <2>7. Quits(r)' /\ (Resume[l] \in {"none", "submitted", "yield_start", "started"} => texts[r] = 0)
      BY <1>1, <1>3, <2>3 DEF Quits, Ordered, Loop
    <2>8. Ordered(r)' /\ \A q \in Requests \ {r} : Ordered(q) => Ordered(q)'
      BY <1>1, <2>1, <2>4, <2>5, <2>6, <2>7, SpokenOrdered DEF Loop, last
    <2> QED BY <2>8 DEF WInv
  <1> QED BY <1>2, <1>3

LEMMA LastTypes ==
  ASSUME NEW w \in Seq(All)
  PROVE  LastOf(w) \in All \cup {"nothing"}
  <1>1. w # <<>> => w[Len(w)] \in All
    BY EmptySeq, ElementOfSeq
  <1> QED BY <1>1 DEF LastOf

LEMMA EndingOrdered ==
  ASSUME IInv, WInv, NEW r \in Requests, Fail(r) \/ CloseStream(r) \/ PublishEnd(r)
  PROVE  WInv'
  <1> USE DEF At, Goto, Loop
  <1> DEFINE last == LastOf(Wire(r))
  <1>1. /\ TypeOK /\ Ordered(r) /\ Place(r, last) /\ last \in All \cup {"nothing"}
        /\ UNCHANGED <<consumer, task, sent, texts, persisted>>
        /\ producer[r] \in {"failed", "close", "end"}
        /\ \A q \in Requests \ {r} : cancel'[q] = cancel[q]
    BY WireType, LastTypes DEF IInv, TypeOK, WInv, Ordered, Fail, CloseStream, PublishEnd
  <1>2. CASE CloseStream(r) /\ UNCHANGED events
    <2>1. producer' = [producer EXCEPT ![r] = "end"] /\ producer[r] = "close"
      BY <1>2 DEF CloseStream
    <2>2. producer'[r] = "end"
      BY <1>1, <2>1 DEF TypeOK
    <2>3. \A x : Place(r, x) => Place(r, x)'
      BY <1>1, <2>1, <2>2 DEF Place
    <2>4. Quits(r)'
      BY <2>2 DEF Quits
    <2> QED BY <1>1, <1>2, <2>1, <2>3, <2>4, ThreadOrdered
  <1>3. ASSUME NEW e \in {"error", "end"}, NEW l \in {"end", "returned"},
               producer' = [producer EXCEPT ![r] = l],
               events' = [events EXCEPT ![r] = Append(@, e)],
               e \in Successors[last], e = "error" <=> l = "end",
               e = "end" => consumer[r] = "closed" \/ last \in {"done", "error"}
        PROVE  WInv'
    <2>1. producer'[r] = l /\ e \in All
      BY <1>1, <1>3 DEF TypeOK, All, Kinds
    <2> HIDE DEF last
    <2>2. Place(r, e)' /\ Quits(r)'
      BY <1>1, <1>3, <2>1 DEF Place, Quits
    <2>3. Ordered(r)' /\ \A q \in Requests \ {r} : Ordered(q) => Ordered(q)'
      BY <1>1, <1>3, <2>1, <2>2, SpokenOrdered DEF last
    <2> QED BY <2>3 DEF WInv
  <1>4. CASE Fail(r)
    <2>1. last \in {"nothing", "start", "text"}
      BY <1>1, <1>4 DEF Fail, Place
    <2>2. "error" \in Successors[last]
      BY <2>1 DEF Successors
    <2> QED BY <1>3, <1>4, <2>2 DEF Fail
  <1>5. CASE CloseStream(r) /\ r \notin persisted /\ events' = [events EXCEPT ![r] = Append(@, "error")]
    <2>1. last \in {"nothing", "start", "text"}
      BY <1>1, <1>5 DEF CloseStream, Place
    <2>2. "error" \in Successors[last]
      BY <2>1 DEF Successors
    <2> QED BY <1>3, <1>5, <2>2 DEF CloseStream
  <1>6. CASE PublishEnd(r)
    <2>1. last # "end" /\ (consumer[r] = "closed" \/ last \in {"done", "error"})
      BY <1>1, <1>6 DEF PublishEnd, Place
    <2>2. "end" \in Successors[last]
      BY <1>1, <2>1 DEF Successors, All, Kinds
    <2> QED BY <1>3, <1>6, <2>1, <2>2 DEF PublishEnd
  <1> QED BY <1>2, <1>4, <1>5, <1>6 DEF CloseStream

\* The loop moves an event along the wire, or says nothing.
LEMMA LoopOrdered ==
  ASSUME IInv, WInv, NEW r \in Requests, Arrive(r) \/ Disconnect(r) \/ EventSource(r)
  PROVE  WInv'
  <1>1. /\ TypeOK /\ UNCHANGED <<task, texts, persisted>>
        /\ \A q \in Requests \ {r} : UNCHANGED <<producer[q], consumer[q], cancel[q], events[q], sent[q]>>
    BY DEF IInv, TypeOK, Arrive, Disconnect, EventSource, Acquire, Relay, StreamEnd, Close, ProducerDone
  <1>2. Wire(r)' = Wire(r)
    <2>1. CASE Relay(r)
      <3>1. /\ events'[r] = Tail(events[r]) /\ sent'[r] = Append(sent[r], Head(events[r]))
            /\ events[r] # <<>>
        BY <1>1, <2>1 DEF TypeOK, Relay
      <3> QED BY <1>1, <3>1, WireType, WireOfRelay DEF Wire
    <2>2. CASE ~Relay(r)
      <3>1. UNCHANGED <<events, sent>>
        BY <2>2 DEF Arrive, Disconnect, EventSource, Acquire, StreamEnd, ProducerDone
      <3> QED BY <3>1 DEF Wire
    <2> QED BY <2>1, <2>2
  <1>3. /\ consumer'[r] = consumer[r] \/ consumer[r] # "closed"
        /\ \/ producer'[r] = producer[r]
           \/ producer[r] = "none" /\ producer'[r] = "submitted"
           \/ producer[r] = "returned" /\ producer'[r] = "done"
        /\ consumer'[r] = "closed" \/ consumer[r] # "closed"
        /\ cancel'[r] => cancel[r] \/ consumer'[r] = "closed"
    BY DEF IInv, TypeOK, Paired, Arrive, Disconnect, EventSource, Acquire, Relay, StreamEnd, Close,
           ProducerDone
  <1>4. \A last : Place(r, last) => Place(r, last)'
    BY <1>1, <1>3 DEF Place
  <1>5. Quits(r)' /\ (producer'[r] \in {"none", "submitted", "yield_start", "started"} => texts'[r] = 0)
    BY <1>1, <1>3 DEF WInv, Ordered, Quits
  <1>6. Ordered(r)'
    BY <1>2, <1>3, <1>4, <1>5, SilentOrdered DEF WInv
  <1>7. ASSUME NEW q \in Requests \ {r} PROVE Ordered(q)'
    BY <1>1, <1>7, OthersOrdered DEF WInv
  <1> QED BY <1>6, <1>7 DEF WInv

LEMMA NextOrdered == IInv /\ WInv /\ [Next]_vars => WInv'
  <1> SUFFICES ASSUME IInv, WInv, [Next]_vars PROVE WInv'
    OBVIOUS
  <1>1. CASE UNCHANGED vars
    BY <1>1, OthersOrdered DEF WInv, vars
  <1>2. ASSUME NEW r \in Requests, Produce(r) PROVE WInv'
    BY <1>2, StartOrdered, PublishOrdered, EndingOrdered DEF Produce
  <1> QED BY <1>1, <1>2, LoopOrdered DEF Next

LEMMA WireInvariant == Spec => []WInv
  BY InitOrdered, NextOrdered, StreamInvariant, PTL DEF Spec

\* What has been sent is the beginning of the wire.
LEMMA SentFacts ==
  ASSUME TypeOK, NEW r \in Requests
  PROVE  /\ Len(sent[r]) \in Nat /\ Len(sent[r]) <= Len(Wire(r)) /\ Len(Wire(r)) \in Nat
         /\ \A i \in 1..Len(sent[r]) : Wire(r)[i] = sent[r][i] /\ sent[r][i] \in Kinds
         /\ events[r] # <<>> => /\ Len(sent[r]) + 1 <= Len(Wire(r))
                                /\ Wire(r)[Len(sent[r]) + 1] = Head(events[r])
  <1>1. PICK m \in Nat, n \in Nat : m = Len(sent[r]) /\ n = Len(events[r])
    BY WireType, LenProperties
  <1>2. Len(Wire(r)) = m + n
    BY <1>1, WireType, ConcatProperties DEF Wire
  <1>3. \A i \in 1..m + n : Wire(r)[i] = IF i <= m THEN sent[r][i] ELSE events[r][i - m]
    BY <1>1, WireType, ConcatProperties DEF Wire
  <1>4. \A i \in 1..m : sent[r][i] \in Kinds
    BY <1>1, WireType, ElementOfSeq
  <1>5. events[r] # <<>> => n > 0 /\ Head(events[r]) = events[r][1]
    BY <1>1, WireType
  <1>6. events[r] # <<>> => m + 1 <= m + n /\ Wire(r)[m + 1] = events[r][1]
    <2> SUFFICES ASSUME events[r] # <<>> PROVE m + 1 <= m + n /\ Wire(r)[m + 1] = events[r][1]
      OBVIOUS
    <2>1. m + 1 \in 1..m + n /\ ~(m + 1 <= m) /\ (m + 1) - m = 1
      BY <1>5
    <2> QED BY <1>3, <2>1
  <1>7. m + n \in Nat /\ m <= m + n /\ \A i \in 1..m : Wire(r)[i] = sent[r][i]
    BY <1>3
  <1> HIDE DEF Wire
  <1> QED BY <1>1, <1>2, <1>4, <1>5, <1>6, <1>7

\* The events of every stream arrive in an order that the protocol allows.
THEOREM WireIsInOrder == Spec => []SentLifecycle
  <1>1. IInv /\ WInv => SentLifecycle
    <2> SUFFICES ASSUME IInv, WInv, NEW r \in Requests, NEW i \in DOMAIN sent[r]
                 PROVE  sent[r][i] \in IF i = 1 THEN {"start", "error"} ELSE Follow[sent[r][i - 1]]
      BY DEF SentLifecycle
    <2>1. PICK m \in Nat : m = Len(sent[r]) /\ i \in 1..m
      BY WireType, LenProperties DEF IInv
    <2>2. /\ Wire(r)[i] = sent[r][i] /\ sent[r][i] \in Kinds /\ i \in 1..Len(Wire(r))
          /\ i # 1 => Wire(r)[i - 1] = sent[r][i - 1] /\ sent[r][i - 1] \in Kinds
      BY <2>1, SentFacts DEF IInv
    <2>3. Wire(r)[i] \in Successors[Before(Wire(r), i)]
      BY <2>2 DEF WInv, Ordered, Chain
    <2>4. CASE i = 1
      BY <2>2, <2>3, <2>4 DEF Before, Successors, Kinds
    <2>5. CASE i # 1
      BY <2>2, <2>3, <2>5 DEF Before, Successors, Follow, Kinds
    <2> QED BY <2>4, <2>5
  <1> QED BY <1>1, StreamInvariant, WireInvariant, PTL

\* A client that stays is told how its stream ended, before the stream ends.
THEOREM StreamsEndTold == Spec => TerminalEvent
  <1>1. ASSUME IInv, WInv, NEW r \in Requests, StreamEnd(r)
        PROVE  sent[r] # <<>> /\ sent[r][Len(sent[r])] \in {"done", "error"}
    <2>1. PICK m \in Nat : m = Len(sent[r])
      BY <1>1, WireType, LenProperties DEF IInv
    <2>2. /\ m + 1 \in 1..Len(Wire(r)) /\ Wire(r)[m + 1] = "end"
          /\ m # 0 => Wire(r)[m] = sent[r][m]
      <3>1. events[r] # <<>> /\ Head(events[r]) = "end" /\ TypeOK
        BY <1>1 DEF StreamEnd, IInv
      <3>2. /\ Len(Wire(r)) \in Nat /\ m + 1 <= Len(Wire(r)) /\ Wire(r)[m + 1] = "end"
            /\ \A i \in 1..m : Wire(r)[i] = sent[r][i]
        BY <2>1, <3>1, SentFacts
      <3> QED BY <3>2
    <2>3. Before(Wire(r), m + 1) \in {"done", "error"}
      BY <1>1, <2>2 DEF WInv, Ordered, Marked, StreamEnd
    <2>4. m # 0
      BY <2>3 DEF Before
    <2>5. sent[r][m] \in {"done", "error"}
      <3>1. m + 1 # 1 /\ (m + 1) - 1 = m
        BY <2>4
      <3> QED BY <2>2, <2>3, <2>4, <3>1 DEF Before
    <2>6. sent[r] # <<>>
      <3>1. sent[r] = <<>> => Len(sent[r]) = 0
        OBVIOUS
      <3> QED BY <2>1, <2>4, <3>1, Zenon
    <2> QED BY <2>1, <2>5, <2>6
  <1>2. IInv /\ WInv /\ [Next]_vars =>
          [\A r \in Requests :
             StreamEnd(r) => /\ sent[r] # <<>>
                             /\ sent[r][Len(sent[r])] \in {"done", "error"}]_vars
    BY <1>1
  <1> QED BY <1>2, StreamInvariant, WireInvariant, PTL DEF Spec, TerminalEvent

-----------------------------------------------------------------------------
(***************************************************************************)
(* ChatClient.                                                             *)
(***************************************************************************)
\* What a slot of "call" may hold.
IsRequest(r) ==
  /\ r.kind \notin {"idle", "stream"}
  /\ r = [kind |-> r.kind, conv |-> r.conv, fresh |-> r.fresh, answer |-> r.answer, base |-> r.base]
IsStream(r) ==
  /\ r.kind = "stream" /\ r.message \in Messages /\ r.stage \in {"sent", "saved", "final"}
  /\ r = [kind |-> r.kind, conv |-> r.conv, fresh |-> r.fresh, message |-> r.message,
          base |-> r.base, stage |-> r.stage, result |-> r.result]
Slot(r) == r = Idle \/ IsRequest(r) \/ IsStream(r)

Shaped == call = [c \in Calls |-> call[c]] /\ \A c \in Calls : Slot(call[c])

PageOK ==
  /\ owner \in Calls \cup {None}
  /\ failed \in Messages \cup {None} /\ pending \in Messages \cup {None}
  /\ alert # None => alert.do \in {"load", "list", "delete"}
  /\ saved \in [Convs -> Seq(Messages)]

Streams == { c \in Calls : call[c].kind = "stream" }

Confirmed(m) == \E x \in Convs : <<x, m>> \in told

\* What was told is saved, and so is what is still to be told.
ToldIsSaved ==
  /\ \A x \in Convs, m \in Messages : <<x, m>> \in told => m \in ToSet(saved[x])
  /\ \A c \in Streams : call[c].stage \in {"saved", "final"} =>
       call[c].result \in Convs /\ call[c].message \in ToSet(saved[call[c].result])

\* The running turn is that of its stream, and committed once final has arrived.
Owned ==
  owner # None =>
    /\ owner \in Streams /\ failed = None
    /\ pending \in {None, call[owner].message}
    /\ committed <=> call[owner].stage = "final"
    /\ ~committed => ~Confirmed(call[owner].message)

\* What Retry would send has not been confirmed.
Unsent ==
  owner = None =>
    /\ pending \in {None, failed}
    /\ failed # None => ~Confirmed(failed)

CInv == Shaped /\ PageOK /\ ToldIsSaved /\ Owned /\ Unsent

-----------------------------------------------------------------------------
(***************************************************************************)
(* The slots.                                                              *)
(***************************************************************************)
LEMMA RequestShape ==
  ASSUME NEW kind, kind \notin {"idle", "stream"}, NEW conv, NEW extra
  PROVE  IsRequest(Request(kind, conv, extra)) /\ Request(kind, conv, extra).kind = kind
  BY DEF IsRequest, Request

\* A record of either shape keeps it when one field is changed.
LEMMA RequestExcept ==
  ASSUME NEW r, IsRequest(r), NEW v
  PROVE  /\ IsRequest([r EXCEPT !.fresh = v]) /\ IsRequest([r EXCEPT !.answer = v])
         /\ [r EXCEPT !.fresh = v].kind = r.kind
  <1>1. PICK kind, conv, fresh, answer, base :
          /\ kind \notin {"idle", "stream"}
          /\ r = [kind |-> kind, conv |-> conv, fresh |-> fresh, answer |-> answer, base |-> base]
    BY DEF IsRequest
  <1>2. [r EXCEPT !.fresh = v] = [kind |-> kind, conv |-> conv, fresh |-> v, answer |-> answer,
                                  base |-> base]
    BY <1>1
  <1>3. [r EXCEPT !.answer = v] = [kind |-> kind, conv |-> conv, fresh |-> fresh, answer |-> v,
                                   base |-> base]
    BY <1>1
  <1>4. IsRequest([r EXCEPT !.fresh = v])
    BY <1>1, <1>2 DEF IsRequest
  <1>5. IsRequest([r EXCEPT !.answer = v])
    BY <1>1, <1>3 DEF IsRequest
  <1>6. [r EXCEPT !.fresh = v].kind = kind /\ r.kind = kind
    BY <1>1, <1>2
  <1> QED BY <1>4, <1>5, <1>6

LEMMA StreamExcept ==
  ASSUME NEW r, IsStream(r), NEW v
  PROVE  LET t == [r EXCEPT !.fresh = v]
         IN  IsStream(t) /\ t.message = r.message /\ t.stage = r.stage /\ t.result = r.result
  <1>1. PICK conv, fresh, message, base, stage, result :
          /\ message \in Messages /\ stage \in {"sent", "saved", "final"}
          /\ r = [kind |-> "stream", conv |-> conv, fresh |-> fresh, message |-> message,
                  base |-> base, stage |-> stage, result |-> result]
    BY DEF IsStream
  <1> DEFINE t == [kind |-> "stream", conv |-> conv, fresh |-> v, message |-> message,
                   base |-> base, stage |-> stage, result |-> result]
  <1>2. [r EXCEPT !.fresh = v] = t
    BY <1>1
  <1>3. IsStream(t)
    BY <1>1 DEF IsStream
  <1>4. t.message = r.message /\ t.stage = r.stage /\ t.result = r.result
    BY <1>1
  <1> QED BY <1>2, <1>3, <1>4

LEMMA StaleShape ==
  ASSUME Shaped
  PROVE  /\ Stale(call) = [c \in Calls |-> Stale(call)[c]]
         /\ \A c \in Calls :
              /\ Slot(Stale(call)[c]) /\ Stale(call)[c].kind = call[c].kind
              /\ call[c].kind = "stream" =>
                   /\ Stale(call)[c].message = call[c].message
                   /\ Stale(call)[c].stage = call[c].stage
                   /\ Stale(call)[c].result = call[c].result
  <1>1. Stale(call) = [c \in Calls |-> Stale(call)[c]]
    BY DEF Stale
  <1>2. ASSUME NEW c \in Calls
        PROVE  /\ Slot(Stale(call)[c]) /\ Stale(call)[c].kind = call[c].kind
               /\ call[c].kind = "stream" =>
                    /\ Stale(call)[c].message = call[c].message
                    /\ Stale(call)[c].stage = call[c].stage
                    /\ Stale(call)[c].result = call[c].result
    <2> DEFINE r == call[c]
               t == [r EXCEPT !.fresh = FALSE]
    <2>1. Stale(call)[c] = IF r.kind = "idle" THEN r ELSE t
      BY DEF Stale
    <2>2. CASE r = Idle
      BY <2>1, <2>2 DEF Idle, Slot
    <2>3. CASE IsRequest(r)
      <3>1. IsRequest(t) /\ t.kind = r.kind
        BY <2>3, RequestExcept
      <3> QED BY <2>1, <2>3, <3>1 DEF IsRequest, Slot
    <2>4. CASE IsStream(r)
      <3>1. IsStream(t) /\ t.message = r.message /\ t.stage = r.stage /\ t.result = r.result
        BY <2>4, StreamExcept
      <3> QED BY <2>1, <2>4, <3>1 DEF IsStream, Slot
    <2> QED BY <2>2, <2>3, <2>4 DEF Shaped, Slot
  <1> QED BY <1>1, <1>2

\* A next value of "call" that starts and changes no stream, and does not end the
\* owner's.
Keeps(new) ==
  /\ new = [c \in Calls |-> new[c]]
  /\ \A c \in Calls : Slot(new[c])
  /\ \A c \in Calls : new[c].kind = "stream" =>
       /\ call[c].kind = "stream"
       /\ new[c].message = call[c].message
       /\ new[c].stage = call[c].stage /\ new[c].result = call[c].result
  /\ owner # None => new[owner].kind = "stream"

LEMMA StaleKeeps ==
  ASSUME CInv
  PROVE  Keeps(Stale(call))
  BY StaleShape DEF CInv, Keeps, Owned, Streams

\* A slot that is not the owner's gets another request or becomes free.
LEMMA PutKeeps ==
  ASSUME CInv, NEW c \in Calls, owner # c, NEW r, IsRequest(r) \/ r = Idle
  PROVE  Keeps([call EXCEPT ![c] = r]) /\ Keeps([Stale(call) EXCEPT ![c] = r])
  <1>1. Slot(r) /\ r.kind # "stream"
    BY DEF Slot, IsRequest, Idle
  <1>2. ASSUME NEW base, base = [d \in Calls |-> base[d]], Keeps(base)
        PROVE  Keeps([base EXCEPT ![c] = r])
    <2> DEFINE new == [base EXCEPT ![c] = r]
    <2>1. new = [d \in Calls |-> new[d]]
      BY <1>2
    <2>2. \A d \in Calls : new[d] = IF d = c THEN r ELSE base[d]
      BY <1>2
    <2>3. owner # None => owner \in Calls
      BY DEF CInv, Owned, Streams
    <2> HIDE DEF new
    <2> QED BY <1>1, <1>2, <2>1, <2>2, <2>3 DEF Keeps
  <1>3. Keeps(call) /\ call = [d \in Calls |-> call[d]]
    BY DEF CInv, Shaped, Keeps, Owned, Streams
  <1>4. Keeps(Stale(call)) /\ Stale(call) = [d \in Calls |-> Stale(call)[d]]
    BY StaleKeeps, StaleShape DEF CInv
  <1> QED BY <1>2, <1>3, <1>4

-----------------------------------------------------------------------------
(***************************************************************************)
(* Steps that leave every turn alone.                                      *)
(***************************************************************************)
LEMMA Quiet ==
  ASSUME CInv, Keeps(call'), UNCHANGED <<saved, told, owner, committed>>,
         failed' \in {failed, None}, pending' \in {pending, None},
         owner = None => pending' \in {None, failed'},
         alert' # None => alert'.do \in {"load", "list", "delete"}
  PROVE  CInv'
  <1>1. Shaped'
    BY DEF Keeps, Shaped
  <1>2. PageOK'
    BY DEF CInv, PageOK
  <1>3. ToldIsSaved'
    BY DEF CInv, ToldIsSaved, Keeps, Streams
  <1>4. Owned'
    BY DEF CInv, Owned, Keeps, Streams, Confirmed
  <1>5. Unsent'
    BY DEF CInv, Unsent, Confirmed
  <1> QED BY <1>1, <1>2, <1>3, <1>4, <1>5 DEF CInv

\* A slot without a stream is not the owner's.
LEMMA NotOwner ==
  ASSUME CInv, NEW c \in Calls, call[c].kind # "stream"
  PROVE  owner # c
  BY ClientAssumption DEF CInv, Owned, Streams

\* The server and the network.
LEMMA ServerSteps ==
  ASSUME CInv, NEW c \in Calls, Serve(c) \/ Lose(c)
  PROVE  CInv'
  <1>1. PICK a : call' = [call EXCEPT ![c].answer = a]
    BY DEF Serve, Lose
  <1>2. call[c].kind \notin {"idle", "stream"}
    BY DEF Serve, Lose
  <1>3. IsRequest(call[c])
    BY <1>2 DEF CInv, Shaped, Slot, IsStream, Idle
  <1>4. Keeps([call EXCEPT ![c] = [call[c] EXCEPT !.answer = a]])
    BY <1>2, <1>3, NotOwner, RequestExcept, PutKeeps
  <1>5. Keeps(call')
    BY <1>1, <1>4
  <1>6. UNCHANGED <<saved, told, owner, committed, failed, pending, alert>>
    BY DEF Serve, Lose, server, turn, lists
  <1> QED BY <1>5, <1>6, Quiet DEF CInv, PageOK, Unsent

LEMMA StartCallKeeps ==
  ASSUME CInv, NEW c \in Calls, call[c].kind # "stream",
         NEW kind, kind \notin {"idle", "stream"}, NEW conv, NEW extra
  PROVE  /\ StartCall(c, kind, conv, extra) => Keeps(call')
         /\ StartNewest(c, kind, conv, extra) => Keeps(call')
  <1>1. IsRequest(Request(kind, conv, extra))
    BY RequestShape
  <1>2. owner # c
    BY NotOwner
  <1> QED BY <1>1, <1>2, PutKeeps DEF StartCall, StartNewest

LEMMA IdleKeeps ==
  ASSUME CInv, NEW c \in Calls, owner # c, call' = [call EXCEPT ![c] = Idle]
  PROVE  Keeps(call')
  BY PutKeeps

\* Nothing of a call changes.
LEMMA SameKeeps ==
  ASSUME CInv, call' = call
  PROVE  Keeps(call')
  BY DEF CInv, Shaped, Keeps, Owned, Streams

LEMMA LoadingSteps ==
  ASSUME CInv, NEW c \in Calls, LoadEnds(c) \/ Listed(c) \/ RefreshEnds(c) \/ HistoryEnds(c)
  PROVE  CInv'
  <1>1. call[c].kind # "stream" /\ owner # c
    BY NotOwner DEF LoadEnds, Listed, RefreshEnds, HistoryEnds
  <1>2. \/ call' = [call EXCEPT ![c] = Idle]
        \/ \E x : StartCall(c, "first", x, {})
        \/ StartCall(c, "list", None, {})
    BY DEF LoadEnds, Listed, RefreshEnds, HistoryEnds
  <1>3. Keeps(call')
    BY <1>1, <1>2, IdleKeeps, StartCallKeeps
  <1>4. UNCHANGED <<saved, told, owner, committed, failed, pending>>
    BY DEF LoadEnds, Listed, RefreshEnds, HistoryEnds, server, screen, turn
  <1>5. alert' # None => alert'.do \in {"load", "list", "delete"}
    BY DEF LoadEnds, Listed, RefreshEnds, HistoryEnds, lists, CInv, PageOK
  <1> QED BY <1>3, <1>4, <1>5, Quiet DEF CInv, Unsent

LEMMA UserSteps ==
  ASSUME CInv,
         \/ \E x \in Convs : SelectConversation(x)
         \/ NewConversation \/ RetryLoad \/ RetryAlert \/ DeleteConversation \/ RenameConversation
  PROVE  CInv'
  <1>1. Keeps(call')
    <2>1. CASE NewConversation
      BY <2>1, StaleKeeps DEF NewConversation
    <2>2. CASE RetryAlert
      <3>1. PICK c \in Calls : /\ Free(c)
                               /\ \/ StartNewest(c, "load", alert.conv, {})
                                  \/ StartCall(c, alert.do, alert.conv, alert.base)
        BY <2>2 DEF RetryAlert, LoadStarts
      <3>2. alert.do \notin {"idle", "stream"}
        BY <2>2 DEF RetryAlert, CInv, PageOK
      <3> QED BY <3>1, <3>2, StartCallKeeps DEF Free
    <2>3. CASE ~NewConversation /\ ~RetryAlert
      <3>1. PICK c \in Calls, kind \in {"load", "initialize", "delete", "rename"} : \E x, e :
              Free(c) /\ (StartCall(c, kind, x, e) \/ StartNewest(c, kind, x, e))
        BY <2>3 DEF SelectConversation, RetryLoad, DeleteConversation, RenameConversation, LoadStarts
      <3> QED BY <3>1, StartCallKeeps DEF Free
    <2> QED BY <2>1, <2>2, <2>3
  <1>2. UNCHANGED <<saved, told, owner, committed>>
    BY DEF SelectConversation, NewConversation, RetryLoad, RetryAlert, DeleteConversation,
           RenameConversation, server, turn
  <1>3. \/ UNCHANGED <<failed, pending>>
        \/ failed' = None /\ pending' = None
    BY DEF SelectConversation, NewConversation, RetryLoad, RetryAlert, DeleteConversation,
           RenameConversation, turn, ClearTurn
  <1>4. alert' # None => alert'.do \in {"load", "list", "delete"}
    BY DEF SelectConversation, NewConversation, RetryLoad, RetryAlert, DeleteConversation,
           RenameConversation, lists, CInv, PageOK
  <1> QED BY <1>1, <1>2, <1>3, <1>4, Quiet DEF CInv, Unsent

LEMMA DeleteAndRenameEnd ==
  ASSUME CInv, NEW c \in Calls, DeleteEnds(c) \/ RenameEnds(c)
  PROVE  CInv'
  <1>1. call[c].kind # "stream" /\ owner # c
    BY NotOwner DEF DeleteEnds, RenameEnds
  <1>2. \/ call' = [call EXCEPT ![c] = Idle]
        \/ \E x : StartNewest(c, "load", x, {})
        \/ StartCall(c, "list", None, {})
    BY DEF DeleteEnds, RenameEnds, LoadStarts
  <1>3. Keeps(call')
    BY <1>1, <1>2, IdleKeeps, StartCallKeeps
  <1>4. UNCHANGED <<saved, told, owner, committed>>
    BY DEF DeleteEnds, RenameEnds, server, turn
  <1>5. \/ UNCHANGED <<failed, pending>>
        \/ failed' \in {failed, None} /\ pending' = None
    BY DEF DeleteEnds, RenameEnds, turn
  <1>6. alert' # None => alert'.do \in {"load", "list", "delete"}
    BY DEF DeleteEnds, RenameEnds, lists, CInv, PageOK
  <1> QED BY <1>3, <1>4, <1>5, <1>6, Quiet DEF CInv, Unsent

\* Text of the running stream, and the end of a stream nobody listens to.
LEMMA StreamSteps ==
  ASSUME CInv, NEW c \in Calls, Text(c) \/ Settle(c)
  PROVE  CInv'
  <1>1. Keeps(call')
    BY IdleKeeps, SameKeeps DEF Text, Settle
  <1> QED BY <1>1, Quiet DEF Text, Settle, server, turn, lists, CInv, PageOK, Unsent

-----------------------------------------------------------------------------
(***************************************************************************)
(* The turn: saved by the server, submitted, told, done, broken, stopped.  *)
(***************************************************************************)
LEMMA AppendSet ==
  ASSUME NEW seq \in Seq(Messages), NEW m \in Messages
  PROVE  ToSet(Append(seq, m)) = ToSet(seq) \cup {m}
  <1> DEFINE new == Append(seq, m)
  <1>1. DOMAIN new = DOMAIN seq \cup {Len(seq) + 1}
    OBVIOUS
  <1>2. new[Len(seq) + 1] = m /\ \A i \in DOMAIN seq : new[i] = seq[i]
    OBVIOUS
  <1> HIDE DEF new
  <1> QED BY <1>1, <1>2 DEF ToSet

LEMMA CommitStep ==
  ASSUME CInv, NEW c \in Calls, Commit(c)
  PROVE  CInv'
  <1> DEFINE r == call[c]
             m == r.message
  <1>1. r.kind = "stream" /\ r.stage = "sent"
    BY DEF Commit
  <1>2. PICK x \in Convs : /\ saved' = [saved EXCEPT ![x] = Append(@, m)]
                           /\ call' = [call EXCEPT ![c].stage = "saved", ![c].result = x]
    BY DEF Commit
  <1>3. PICK conv, fresh, base, result :
          /\ m \in Messages
          /\ r = [kind |-> "stream", conv |-> conv, fresh |-> fresh, message |-> m,
                  base |-> base, stage |-> "sent", result |-> result]
    BY <1>1 DEF CInv, Shaped, Slot, IsRequest, IsStream, Idle
  <1> DEFINE new == [kind |-> "stream", conv |-> conv, fresh |-> fresh, message |-> m,
                     base |-> base, stage |-> "saved", result |-> x]
  <1>4. call' = [call EXCEPT ![c] = new]
    <2> DEFINE half == [r EXCEPT !.stage = "saved"]
    <2>1. half = [kind |-> "stream", conv |-> conv, fresh |-> fresh, message |-> m,
                  base |-> base, stage |-> "saved", result |-> result]
      BY <1>3
    <2>2. [half EXCEPT !.result = x] = new
      <3> HIDE DEF half, r, m
      <3> QED BY <2>1
    <2>3. call' = [call EXCEPT ![c] = [[call[c] EXCEPT !.stage = "saved"] EXCEPT !.result = x]]
      <3>1. call = [d \in Calls |-> call[d]]
        BY DEF CInv, Shaped
      <3> HIDE DEF new, r, m
      <3> QED BY <1>2, <3>1
    <2> QED BY <2>2, <2>3
  <1>5. IsStream(new)
    BY <1>3 DEF IsStream
  <1>6. call' = [d \in Calls |-> call'[d]] /\ \A d \in Calls : call'[d] = IF d = c THEN new ELSE call[d]
    BY <1>4 DEF CInv, Shaped
  <1>7. UNCHANGED <<owner, committed, failed, pending, alert, told>>
    BY DEF Commit, turn, lists
  <1>8. saved' \in [Convs -> Seq(Messages)]
    BY <1>2, <1>3 DEF CInv, PageOK
  <1>9. \A y \in Convs : ToSet(saved[y]) \subseteq ToSet(saved'[y])
    BY <1>2, <1>3, AppendSet DEF CInv, PageOK
  <1>10. m \in ToSet(saved'[x])
    BY <1>2, <1>3, AppendSet DEF CInv, PageOK
  <1> HIDE DEF m, r
  <1>11. new.kind = "stream" /\ new.message = m /\ new.stage = "saved" /\ new.result = x
    OBVIOUS
  <1>12. r = call[c] /\ m = r.message
    BY DEF m, r
  <1> HIDE DEF new
  <1>13. Shaped'
    BY <1>5, <1>6 DEF Shaped, CInv, Slot
  <1>14. PageOK'
    BY <1>7, <1>8 DEF PageOK, CInv
  <1>15. ToldIsSaved'
    BY <1>6, <1>7, <1>9, <1>10, <1>11 DEF ToldIsSaved, CInv, Streams
  <1>16. Owned'
    BY <1>1, <1>6, <1>7, <1>11, <1>12 DEF Owned, CInv, Streams, Confirmed
  <1>17. Unsent'
    BY <1>7 DEF Unsent, CInv, Confirmed
  <1> QED BY <1>13, <1>14, <1>15, <1>16, <1>17 DEF CInv

\* A turn that starts has not been confirmed.
LEMMA SubmitStep ==
  ASSUME CInv, NEW c \in Calls, NEW m \in Messages, Submit(c, m), ~Confirmed(m),
         pending' \in {None, m}
  PROVE  CInv'
  <1> DEFINE new == [kind |-> "stream", conv |-> selected, fresh |-> TRUE, message |-> m,
                     base |-> IF detail = None THEN <<>> ELSE detail.turns,
                     stage |-> "sent", result |-> None]
  <1>1. call' = [Stale(call) EXCEPT ![c] = new]
    BY DEF Submit
  <1>2. IsStream(new) /\ new.kind = "stream" /\ new.message = m /\ new.stage = "sent"
    BY DEF IsStream
  <1>3. call' = [d \in Calls |-> call'[d]]
        /\ \A d \in Calls : call'[d] = IF d = c THEN new ELSE Stale(call)[d]
    BY <1>1, StaleShape DEF CInv
  <1> HIDE DEF new
  <1>4. /\ UNCHANGED <<saved, told>> /\ owner' = c /\ ~committed' /\ failed' = None /\ alert' = None
        /\ owner = None
    BY DEF Submit, server
  <1>5. Keeps(Stale(call))
    BY StaleKeeps
  <1>6. Shaped'
    BY <1>2, <1>3, <1>5 DEF Shaped, Keeps, Slot
  <1>7. PageOK'
    BY <1>4 DEF PageOK, CInv
  <1>8. ToldIsSaved'
    BY <1>2, <1>3, <1>4, <1>5 DEF ToldIsSaved, CInv, Streams, Keeps
  <1>9. Owned'
    BY <1>2, <1>3, <1>4 DEF Owned, Streams, Confirmed
  <1>10. Unsent'
    BY <1>4, ClientAssumption DEF Unsent
  <1> QED BY <1>6, <1>7, <1>8, <1>9, <1>10 DEF CInv

\* A new message is in no saved turn, so nothing of it was told.
LEMMA SendStep ==
  ASSUME CInv, NEW m \in Messages, Send(m)
  PROVE  CInv'
  <1>1. PICK c \in Calls : Submit(c, m)
    BY DEF Send
  <1>2. \A x \in Convs : m \notin ToSet(saved[x])
    BY DEF Send, Used
  <1>3. ~Confirmed(m)
    BY <1>2 DEF Confirmed, CInv, ToldIsSaved
  <1> QED BY <1>1, <1>3, SubmitStep DEF Send

LEMMA RetryStep ==
  ASSUME CInv, RetrySend
  PROVE  CInv'
  <1>1. PICK c \in Calls : Submit(c, failed)
    BY DEF RetrySend
  <1>2. owner = None /\ failed # None /\ failed \in Messages
    BY DEF RetrySend, Ready, CInv, PageOK
  <1>3. ~Confirmed(failed) /\ pending \in {None, failed}
    BY <1>2 DEF CInv, Unsent
  <1> QED BY <1>1, <1>2, <1>3, SubmitStep DEF RetrySend

LEMMA FinalStep ==
  ASSUME CInv, NEW c \in Calls, Final(c)
  PROVE  CInv'
  <1> DEFINE r == call[c]
             m == r.message
             x == r.result
  <1>1. r.kind = "stream" /\ r.stage = "saved" /\ owner = c /\ c \in Streams
    BY DEF Final, Open, Streams
  <1>2. PICK conv, fresh, base :
          /\ m \in Messages
          /\ r = [kind |-> "stream", conv |-> conv, fresh |-> fresh, message |-> m,
                  base |-> base, stage |-> "saved", result |-> x]
    BY <1>1 DEF CInv, Shaped, Slot, IsRequest, IsStream, Idle
  <1> DEFINE new == [kind |-> "stream", conv |-> conv, fresh |-> fresh, message |-> m,
                     base |-> base, stage |-> "final", result |-> x]
  <1>3. call' = [call EXCEPT ![c] = new]
    <2>1. [r EXCEPT !.stage = "final"] = new
      BY <1>2
    <2>2. call' = [call EXCEPT ![c] = [call[c] EXCEPT !.stage = "final"]]
      BY DEF Final
    <2> QED BY <2>1, <2>2
  <1>4. IsStream(new)
    BY <1>2 DEF IsStream
  <1>5. call' = [d \in Calls |-> call'[d]] /\ \A d \in Calls : call'[d] = IF d = c THEN new ELSE call[d]
    BY <1>3 DEF CInv, Shaped
  <1>6. /\ UNCHANGED <<saved, owner, failed, pending, alert>> /\ committed'
        /\ told' = told \cup {<<x, m>>}
    BY DEF Final, server, lists
  <1>7. x \in Convs /\ m \in ToSet(saved[x])
    BY <1>1 DEF CInv, ToldIsSaved
  <1>8. pending \in {None, m} /\ failed = None
    BY <1>1, ClientAssumption DEF CInv, Owned
  <1> HIDE DEF m, r, x
  <1>9. new.kind = "stream" /\ new.message = m /\ new.stage = "final" /\ new.result = x
    OBVIOUS
  <1> HIDE DEF new
  <1>10. Shaped'
    BY <1>4, <1>5 DEF Shaped, CInv, Slot
  <1>11. PageOK'
    BY <1>6 DEF PageOK, CInv
  <1>12. ToldIsSaved'
    BY <1>5, <1>6, <1>7, <1>9 DEF ToldIsSaved, CInv, Streams
  <1>13. Owned'
    BY <1>1, <1>5, <1>6, <1>8, <1>9 DEF Owned, Streams
  <1>14. Unsent'
    BY <1>1, <1>6, ClientAssumption DEF Unsent
  <1> QED BY <1>10, <1>11, <1>12, <1>13, <1>14 DEF CInv

\* The owner gives up its stream, or turns its slot into a request.
LEMMA LetGo ==
  ASSUME CInv, owner # None, UNCHANGED <<saved, told>>, owner' = None,
         Shaped', failed' \in Messages \cup {None}, pending' \in {None, failed'},
         failed' # None => ~Confirmed(failed'),
         alert' # None => alert'.do \in {"load", "list", "delete"},
         \A c \in Calls : call'[c].kind = "stream" => call'[c] = call[c]
  PROVE  CInv'
  <1>1. PageOK'
    BY DEF CInv, PageOK
  <1>2. ToldIsSaved'
    BY DEF CInv, ToldIsSaved, Streams
  <1>3. Owned'
    BY DEF Owned
  <1>4. Unsent'
    BY DEF Unsent, Confirmed
  <1> QED BY <1>1, <1>2, <1>3, <1>4 DEF CInv

LEMMA DoneStep ==
  ASSUME CInv, NEW c \in Calls, Done(c)
  PROVE  CInv'
  <1> DEFINE q == Request("history", call[c].result, {})
             new == [q EXCEPT !.fresh = call[c].fresh]
  <1>1. IsRequest(new) /\ new.kind = "history"
    <2>1. "history" \notin {"idle", "stream"}
      OBVIOUS
    <2>2. IsRequest(q) /\ q.kind = "history"
      BY <2>1, RequestShape
    <2> HIDE DEF q
    <2> QED BY <2>2, RequestExcept
  <1>2. call' = [call EXCEPT ![c] = new]
    BY DEF Done
  <1>3. call' = [d \in Calls |-> call'[d]] /\ \A d \in Calls : call'[d] = IF d = c THEN new ELSE call[d]
    BY <1>2 DEF CInv, Shaped
  <1> HIDE DEF new
  <1>4. Shaped'
    BY <1>1, <1>3 DEF Shaped, CInv, Slot
  <1>5. owner = c /\ owner # None /\ owner' = None /\ UNCHANGED <<saved, told, failed, alert>>
        /\ pending' = None
    BY ClientAssumption DEF Done, server, lists, ShowSaved
  <1>6. failed = None
    BY <1>5 DEF CInv, Owned
  <1>7. \A d \in Calls : call'[d].kind = "stream" => call'[d] = call[d]
    BY <1>1, <1>3
  <1> QED BY <1>4, <1>5, <1>6, <1>7, LetGo DEF CInv, PageOK

\* Only a turn of which no final was received is offered for Retry.
LEMMA BreakStep ==
  ASSUME CInv, NEW c \in Calls, Break(c)
  PROVE  CInv'
  <1>1. /\ owner = c /\ owner # None /\ owner' = None /\ UNCHANGED <<saved, told, call>>
    BY ClientAssumption DEF Break, server
  <1>2. /\ failed = None /\ pending \in {None, call[c].message}
        /\ call[c].stage # "final" => ~Confirmed(call[c].message)
    BY <1>1 DEF CInv, Owned
  <1>3. call[c].message \in Messages
    BY <1>1 DEF CInv, Owned, Streams, Shaped, Slot, IsRequest, IsStream, Idle
  <1>4. \/ pending' = None /\ failed' = None
        \/ /\ pending' = pending /\ failed' = call[c].message
           /\ call[c].stage # "final"
    BY <1>2 DEF Break, ShowSaved
  <1>5. alert' # None => alert'.do \in {"load", "list", "delete"}
    BY DEF Break, CInv, PageOK
  <1>6. Shaped'
    BY <1>1 DEF CInv, Shaped
  <1> QED BY <1>1, <1>2, <1>3, <1>4, <1>5, <1>6, LetGo

LEMMA StopStep ==
  ASSUME CInv, Stop
  PROVE  CInv'
  <1>1. /\ owner # None /\ ~committed /\ owner' = None /\ failed' = pending
        /\ UNCHANGED <<saved, told, call, pending, alert>>
    BY DEF Stop, server, lists
  <1>2. pending \in {None, call[owner].message} /\ ~Confirmed(call[owner].message)
    BY <1>1 DEF CInv, Owned
  <1>3. Shaped'
    BY <1>1 DEF CInv, Shaped
  <1> QED BY <1>1, <1>2, <1>3, LetGo DEF CInv, PageOK

-----------------------------------------------------------------------------
LEMMA ClientInitInvariant == InitClient => CInv
  <1> SUFFICES ASSUME InitClient PROVE CInv
    OBVIOUS
  <1>1. PICK c \in Calls : call = [[d \in Calls |-> Idle] EXCEPT ![c] = Request("initialize", None, {})]
    BY DEF InitClient
  <1>2. IsRequest(Request("initialize", None, {}))
    BY RequestShape
  <1> DEFINE q == Request("initialize", None, {})
  <1> HIDE DEF q
  <1>3. IsRequest(q) /\ call = [d \in Calls |-> IF d = c THEN q ELSE Idle]
    BY <1>1, <1>2 DEF q
  <1>4. Shaped
    BY <1>3 DEF Shaped, Slot
  <1>5. Streams = {}
    BY <1>3 DEF Streams, IsRequest, Idle
  <1>6. ToldIsSaved
    BY <1>5 DEF ToldIsSaved, InitClient
  <1>7. Owned /\ Unsent /\ PageOK
    BY DEF Owned, Unsent, PageOK, InitClient
  <1> QED BY <1>4, <1>6, <1>7 DEF CInv

LEMMA StepInvariant == CInv /\ [ClientNext]_clientVars => CInv'
  <1> SUFFICES ASSUME CInv, [ClientNext]_clientVars PROVE CInv'
    OBVIOUS
  <1>1. CASE UserStep
    BY <1>1, UserSteps, SendStep, RetryStep, StopStep DEF UserStep
  <1>2. CASE \E c \in Calls : Serve(c) \/ Lose(c) \/ Commit(c)
    BY <1>2, ServerSteps, CommitStep
  <1>3. CASE \E c \in Calls : Arrival(c)
    BY <1>3, LoadingSteps, DeleteAndRenameEnd, StreamSteps, FinalStep, DoneStep, BreakStep
       DEF Arrival
  <1>4. CASE UNCHANGED clientVars
    <2>1. UNCHANGED <<saved, told, owner, committed, failed, pending, alert, call>>
      BY <1>4 DEF clientVars, server, turn, lists
    <2> QED BY <2>1, SameKeeps, Quiet DEF CInv, PageOK, Unsent
  <1> QED BY <1>1, <1>2, <1>3, <1>4 DEF ClientNext

LEMMA Implied == CInv => NoConfirmedResend
  BY DEF CInv, Owned, Confirmed, NoConfirmedResend

\* A turn whose save the page was told of is never sent again, whatever was lost,
\* stopped, broken or reloaded in between, deletes that overlap other calls
\* included (submitMessage and stopStreaming of AmitaiApp.tsx).
THEOREM ConfirmedTurnsAreSentOnce == ClientSpec => []NoConfirmedResend
  <1>1. InitClient => CInv
    BY ClientInitInvariant
  <1>2. CInv /\ [ClientNext]_clientVars => CInv'
    BY StepInvariant
  <1>3. CInv => NoConfirmedResend
    BY Implied
  <1> QED BY <1>1, <1>2, <1>3, PTL DEF ClientSpec

-----------------------------------------------------------------------------
(***************************************************************************)
(* The transcript.  Everything below is said of a page on which no delete  *)
(* has overlapped another call.                                            *)
(***************************************************************************)
Replies == [ok : {TRUE}, turns : Seq(Messages), listed : SUBSET Convs]
Details == [id : Convs, turns : Seq(Messages)]
Optional == Convs \cup {None}

\* What a call names: a conversation, unless it is about the list of them.
Names(kind) == IF kind \in {"list", "initialize"} THEN {None} ELSE Convs

RequestTyped(r) ==
  /\ r.kind \notin {"idle", "stream"} =>
       /\ r.answer \in {None, Lost} \cup Replies
       /\ r.conv \in Names(r.kind)
       /\ r.kind = "delete" => r.base \subseteq Convs
  /\ r.kind = "stream" => r.conv \in Optional /\ r.base \in Seq(Messages)

AlertTyped(a) ==
  a # None =>
    /\ a.conv \in Names(a.do)
    /\ a.do = "delete" => a.base \subseteq Convs

Typed ==
  /\ selected \in Optional /\ remembered \in Optional /\ detail \in Details \cup {None}
  /\ sidebar \subseteq Convs /\ AlertTyped(alert)
  /\ status \in [Convs -> {"unused", "live", "gone"}] /\ told \subseteq Convs \X Messages
  /\ \A c \in Calls : RequestTyped(call[c])
  /\ \A x \in Convs : status[x] = "unused" => saved[x] = <<>>

Loaders == {"load", "first", "initialize"}
Fresh(c, kinds) == call[c].kind \in kinds /\ call[c].fresh
ToldOf(x) == { m \in Messages : <<x, m>> \in told }

\* The page is loading while an answer would still be used, and one at most is.
OneLoader ==
  \A c \in Calls : Fresh(c, Loaders) =>
    loading /\ \A d \in Calls : Fresh(d, Loaders) => d = c

\* A rename and the reload of a saved turn are about the conversation on the page.
Renaming ==
  \A c \in Calls : call[c].kind = "rename" =>
    owner = None /\ ~loading /\ call[c].conv = selected
Reloading ==
  \A c \in Calls : Fresh(c, {"history"}) => ~loading /\ call[c].conv = selected

\* An answer that will be used has every turn the tab was told of.
Answered ==
  \A c \in Calls :
    LET r == call[c] IN
    Fresh(c, {"load", "first", "history"}) /\ r.answer \in Replies \ {None} =>
      /\ ToSet(r.answer.turns) \subseteq ToSet(saved[r.conv])
      /\ ToldOf(r.conv) \subseteq ToSet(r.answer.turns)

\* While a turn runs, no other answer will be used and the page stands still.
Running ==
  owner # None =>
    LET r == call[owner] IN
    /\ alert = None /\ ~loadError /\ ~loading
    /\ \A c \in Calls : c # owner => call[c].kind = "idle" \/ ~call[c].fresh
    /\ r.conv = selected /\ r.message = pending
    /\ r.base = IF detail = None THEN <<>> ELSE detail.turns
    /\ r.stage \in {"saved", "final"} =>
         /\ r.conv # None => r.result = r.conv
         /\ r.conv = None => ToldOf(r.result) \subseteq {r.message}

\* What failed is still shown, or nothing is.
Failed ==
  failed # None =>
    /\ ~loadError /\ ~loading /\ \A c \in Calls : ~Fresh(c, {"history"})
    /\ pending = failed \/ (pending = None /\ detail = None)

Unselected == ~loading /\ ~loadError /\ detail = None => selected = None

Transcript ==
  /\ ~loading /\ detail # None =>
       /\ detail.id = selected
       /\ ToSet(detail.turns) \subseteq ToSet(saved[detail.id])
       /\ ToldOf(detail.id) \subseteq ToSet(detail.turns) \cup {pending}
  /\ streaming # None => streaming = owner

Page ==
  /\ Typed /\ OneLoader /\ Renaming /\ Reloading /\ Answered
  /\ Running /\ Failed /\ Unselected /\ Transcript /\ ~Overlap
TInv == CInv /\ (overlapped \/ Page)

-----------------------------------------------------------------------------
(***************************************************************************)
(* What an overtaken call keeps.                                           *)
(***************************************************************************)
LEMMA RequestFields ==
  ASSUME NEW r, IsRequest(r), NEW v
  PROVE  /\ [r EXCEPT !.fresh = v].fresh = v /\ [r EXCEPT !.fresh = v].kind = r.kind
         /\ [r EXCEPT !.fresh = v].conv = r.conv /\ [r EXCEPT !.fresh = v].base = r.base
         /\ [r EXCEPT !.fresh = v].answer = r.answer
         /\ [r EXCEPT !.answer = v].answer = v /\ [r EXCEPT !.answer = v].kind = r.kind
         /\ [r EXCEPT !.answer = v].conv = r.conv /\ [r EXCEPT !.answer = v].base = r.base
         /\ [r EXCEPT !.answer = v].fresh = r.fresh
  <1>1. PICK kind, conv, fresh, answer, base :
          r = [kind |-> kind, conv |-> conv, fresh |-> fresh, answer |-> answer, base |-> base]
    BY DEF IsRequest
  <1>2. [r EXCEPT !.fresh = v] = [kind |-> kind, conv |-> conv, fresh |-> v, answer |-> answer,
                                  base |-> base]
    BY <1>1
  <1>3. [r EXCEPT !.answer = v] = [kind |-> kind, conv |-> conv, fresh |-> fresh, answer |-> v,
                                   base |-> base]
    BY <1>1
  <1>4. /\ r.kind = kind /\ r.conv = conv /\ r.fresh = fresh /\ r.answer = answer
        /\ r.base = base
    BY <1>1
  <1>5. /\ [r EXCEPT !.fresh = v].fresh = v /\ [r EXCEPT !.fresh = v].kind = kind
        /\ [r EXCEPT !.fresh = v].conv = conv /\ [r EXCEPT !.fresh = v].base = base
        /\ [r EXCEPT !.fresh = v].answer = answer
    BY <1>2
  <1>6. /\ [r EXCEPT !.answer = v].answer = v /\ [r EXCEPT !.answer = v].kind = kind
        /\ [r EXCEPT !.answer = v].conv = conv /\ [r EXCEPT !.answer = v].base = base
        /\ [r EXCEPT !.answer = v].fresh = fresh
    BY <1>3
  <1> QED BY <1>4, <1>5, <1>6

LEMMA StreamFields ==
  ASSUME NEW r, IsStream(r), NEW v
  PROVE  /\ [r EXCEPT !.fresh = v].fresh = v /\ [r EXCEPT !.fresh = v].kind = r.kind
         /\ [r EXCEPT !.fresh = v].conv = r.conv /\ [r EXCEPT !.fresh = v].base = r.base
  <1>1. PICK conv, fresh, message, base, stage, result :
          r = [kind |-> "stream", conv |-> conv, fresh |-> fresh, message |-> message,
               base |-> base, stage |-> stage, result |-> result]
    BY DEF IsStream
  <1>2. [r EXCEPT !.fresh = v] = [kind |-> "stream", conv |-> conv, fresh |-> v,
          message |-> message, base |-> base, stage |-> stage, result |-> result]
    BY <1>1
  <1>3. r.kind = "stream" /\ r.conv = conv /\ r.base = base
    BY <1>1
  <1>4. /\ [r EXCEPT !.fresh = v].fresh = v /\ [r EXCEPT !.fresh = v].kind = "stream"
        /\ [r EXCEPT !.fresh = v].conv = conv /\ [r EXCEPT !.fresh = v].base = base
    BY <1>2
  <1> QED BY <1>3, <1>4

LEMMA StaleFields ==
  ASSUME CInv, NEW c \in Calls
  PROVE  /\ Stale(call)[c].kind = call[c].kind
         /\ call[c].kind # "idle" =>
              /\ Stale(call)[c].fresh = FALSE /\ Stale(call)[c].conv = call[c].conv
              /\ Stale(call)[c].base = call[c].base
         /\ call[c].kind \notin {"idle", "stream"} => Stale(call)[c].answer = call[c].answer
  <1> DEFINE r == call[c]
             t == [r EXCEPT !.fresh = FALSE]
  <1>1. Stale(call)[c] = IF r.kind = "idle" THEN r ELSE t
    BY DEF Stale
  <1>2. Slot(r)
    BY DEF CInv, Shaped
  <1>3. CASE r.kind = "idle"
    BY <1>1, <1>3
  <1>4. CASE IsRequest(r)
    <2>1. r.kind \notin {"idle", "stream"}
      BY <1>4 DEF IsRequest
    <2>2. t.fresh = FALSE /\ t.kind = r.kind /\ t.conv = r.conv /\ t.base = r.base
          /\ t.answer = r.answer
      BY <1>4, RequestFields
    <2> QED BY <1>1, <2>1, <2>2
  <1>5. CASE IsStream(r)
    <2>1. r.kind = "stream"
      BY <1>5 DEF IsStream
    <2>2. t.fresh = FALSE /\ t.kind = r.kind /\ t.conv = r.conv /\ t.base = r.base
      BY <1>5, StreamFields
    <2> QED BY <1>1, <2>1, <2>2
  <1>6. r.kind = "idle" \/ IsRequest(r) \/ IsStream(r)
    BY <1>2 DEF Slot, Idle
  <1> QED BY <1>3, <1>4, <1>5, <1>6

\* A request that has just been sent.
LEMMA RequestNew ==
  ASSUME NEW kind, kind \notin {"idle", "stream"}, NEW conv, NEW extra,
         conv \in Names(kind), kind = "delete" => extra \subseteq Convs
  PROVE  RequestTyped(Request(kind, conv, extra))
  <1> DEFINE r == Request(kind, conv, extra)
  <1>1. r.kind = kind /\ r.conv = conv /\ r.answer = None /\ r.base = extra
    BY DEF Request
  <1> HIDE DEF r
  <1>2. RequestTyped(r)
    BY <1>1 DEF RequestTyped
  <1> QED BY <1>2 DEF r

LEMMA SlotKinds ==
  ASSUME CInv, NEW c \in Calls
  PROVE  /\ call[c].kind = "idle" => call[c] = Idle
         /\ call[c].kind = "stream" => IsStream(call[c])
         /\ call[c].kind \notin {"idle", "stream"} => IsRequest(call[c])
  BY DEF CInv, Shaped, Slot, IsRequest, IsStream, Idle

-----------------------------------------------------------------------------
(***************************************************************************)
(* Steps that show nothing else and ask for nothing that will be shown.    *)
(***************************************************************************)
page == <<selected, detail, loading, loadError, pending, failed, streaming, owner>>

LEMMA CalmPage ==
  ASSUME CInv, CInv', Page, ~Overlap', UNCHANGED <<page, saved, status, told>>,
         remembered' \in Optional, sidebar' \subseteq Convs, AlertTyped(alert'),
         owner # None => alert' = None,
         \A d \in Calls : \/ call'[d] = call[d] \/ call'[d] = Idle
                          \/ /\ owner = None /\ call'[d].kind \in {"list", "delete"}
                             /\ RequestTyped(call'[d])
  PROVE  Page'
  <1> USE DEF page
  <1>1. Typed'
    BY DEF Page, Typed, RequestTyped, Idle
  <1>2. OneLoader' /\ Renaming' /\ Reloading'
    BY DEF Page, OneLoader, Renaming, Reloading, Fresh, Loaders, Idle
  <1>3. Answered'
    BY DEF Page, Answered, Fresh, ToldOf, Idle
  <1>4. owner # None => owner \in Calls /\ call'[owner] = call[owner]
    BY DEF CInv, Owned, Streams, Idle
  <1>5. Running'
    BY <1>4 DEF Page, Running, ToldOf, Idle
  <1>6. Failed' /\ Unselected'
    BY DEF Page, Failed, Unselected, Fresh, Idle
  <1>7. Transcript'
    BY DEF Page, Transcript, ToldOf
  <1> QED BY <1>1, <1>2, <1>3, <1>5, <1>6, <1>7 DEF Page

\* One slot changes, every other call stays or is overtaken.
Put(c, new) == \A d \in Calls : call'[d] = IF d = c THEN new ELSE call[d]
Overtake(c, new) == \A d \in Calls : call'[d] = IF d = c THEN new ELSE Stale(call)[d]

LEMMA PutOrOvertake ==
  ASSUME CInv, NEW c \in Calls, NEW new
  PROVE  /\ call' = [call EXCEPT ![c] = new] => Put(c, new)
         /\ call' = [Stale(call) EXCEPT ![c] = new] => Overtake(c, new)
  <1>1. call = [d \in Calls |-> call[d]] /\ Stale(call) = [d \in Calls |-> Stale(call)[d]]
    BY StaleShape DEF CInv, Shaped
  <1>2. ASSUME call' = [call EXCEPT ![c] = new] PROVE Put(c, new)
    BY <1>1, <1>2 DEF Put
  <1>3. ASSUME call' = [Stale(call) EXCEPT ![c] = new] PROVE Overtake(c, new)
    BY <1>1, <1>3 DEF Overtake
  <1> QED BY <1>2, <1>3

\* Calls that end without being used, and calls that are only sent.
LEMMA PutCalm ==
  ASSUME CInv, CInv', Page, ~Overlap', NEW c \in Calls, NEW new, Put(c, new),
         \/ new = Idle
         \/ owner = None /\ new.kind \in {"list", "delete"} /\ RequestTyped(new),
         UNCHANGED <<page, saved, status, told>>,
         remembered' \in Optional, sidebar' \subseteq Convs, AlertTyped(alert'),
         owner # None => alert' = None
  PROVE  Page'
  BY CalmPage DEF Put

\* The user's calls that change nothing on the page.
LEMMA ListAndDelete ==
  ASSUME CInv, CInv', Page, ~Overlap', DeleteConversation \/ (RetryAlert /\ alert.do # "load")
  PROVE  Page'
  <1>1. PICK c, kind, conv, base :
          /\ c \in Calls /\ kind \in {"list", "delete"}
          /\ StartCall(c, kind, conv, base)
          /\ conv \in Names(kind)
          /\ kind = "delete" => base \subseteq Convs
    <2>1. CASE DeleteConversation
      <3>1. PICK c \in Calls : StartCall(c, "delete", selected, sidebar)
        BY <2>1 DEF DeleteConversation
      <3>2. selected \in Convs /\ sidebar \subseteq Convs
        BY <2>1 DEF DeleteConversation, Page, Typed, Optional
      <3> QED BY <3>1, <3>2 DEF Names
    <2>2. CASE RetryAlert /\ alert.do # "load"
      <3>1. alert # None /\ alert.do \in {"list", "delete"}
        BY <2>2 DEF RetryAlert, CInv, PageOK
      <3>2. PICK c \in Calls : StartCall(c, alert.do, alert.conv, alert.base)
        BY <2>2 DEF RetryAlert
      <3>3. AlertTyped(alert)
        BY DEF Page, Typed
      <3> QED BY <3>1, <3>2, <3>3 DEF AlertTyped
    <2> QED BY <2>1, <2>2
  <1>2. owner = None
    BY DEF DeleteConversation, Ready, RetryAlert, Page, Running
  <1> DEFINE new == Request(kind, conv, base)
  <1>3. new.kind \in {"list", "delete"} /\ RequestTyped(new)
    <2>1. new.kind = kind
      BY DEF Request
    <2>2. kind \notin {"idle", "stream"}
      BY <1>1
    <2>3. RequestTyped(new)
      BY <1>1, <2>2, RequestNew
    <2> QED BY <1>1, <2>1, <2>3
  <1>4. call' = [call EXCEPT ![c] = new]
    BY <1>1 DEF StartCall
  <1> HIDE DEF new
  <1>5. Put(c, new)
    BY <1>1, <1>4, PutOrOvertake
  <1>6. UNCHANGED <<page, saved, status, told, remembered, sidebar, alert>>
    BY DEF DeleteConversation, RetryAlert, server, screen, turn, lists, page
  <1> QED BY <1>1, <1>2, <1>3, <1>5, <1>6, PutCalm DEF Page, Typed

\* Answers nobody waits for, failures that change nothing, and the list.
LEMMA UnusedAnswers ==
  ASSUME CInv, CInv', Page, ~Overlap', NEW c \in Calls,
         \/ LoadEnds(c) /\ ~call[c].fresh
         \/ Listed(c) /\ ~call[c].fresh
         \/ HistoryEnds(c) /\ ~call[c].fresh
         \/ RefreshEnds(c)
         \/ DeleteEnds(c) /\ call[c].answer = Lost
         \/ RenameEnds(c) /\ call[c].answer = Lost
         \/ Settle(c)
  PROVE  Page'
  <1>1. Put(c, Idle)
    BY PutOrOvertake
    DEF LoadEnds, Listed, HistoryEnds, RefreshEnds, DeleteEnds, RenameEnds, Settle
  <1>2. UNCHANGED <<page, saved, status, told>>
    BY DEF LoadEnds, Listed, HistoryEnds, RefreshEnds, DeleteEnds, RenameEnds, Settle, page,
           server, screen, turn, lists
  <1>3. remembered' \in Optional
    BY DEF LoadEnds, Listed, HistoryEnds, RefreshEnds, DeleteEnds, RenameEnds, Settle, screen,
           Page, Typed
  <1>4. RequestTyped(call[c])
    BY DEF Page, Typed
  <1>5. CASE RefreshEnds(c)
    <2>1. call[c].kind = "list" /\ call[c].answer \in {Lost} \cup Replies
      BY <1>5, <1>4 DEF RefreshEnds, RequestTyped
    <2>2. call[c].fresh => owner = None
      BY <2>1 DEF Page, Running, CInv, Owned, Streams
    <2>3. AlertTyped(alert') /\ (owner # None => alert' = None)
      BY <1>5, <2>2 DEF RefreshEnds, AlertTyped, Names, Page, Typed, Running, lists
    <2>4. sidebar' \subseteq Convs
      BY <1>5, <2>1 DEF RefreshEnds, Page, Typed, Replies, lists
    <2> QED BY <1>1, <1>2, <1>3, <2>3, <2>4, PutCalm
  <1>6. CASE DeleteEnds(c) /\ call[c].answer = Lost
    <2>1. /\ call[c].kind = "delete" /\ call[c].conv \in Names("delete")
          /\ call[c].base \subseteq Convs
      BY <1>6, <1>4 DEF DeleteEnds, RequestTyped
    <2>2. owner = None
      BY <2>1 DEF Page, Overlap, CInv, Owned, Streams
    <2>3. AlertTyped(alert') /\ sidebar' = sidebar
      BY <1>6, <2>1 DEF DeleteEnds, AlertTyped
    <2> QED BY <1>1, <1>2, <1>3, <2>2, <2>3, PutCalm DEF Page, Typed
  <1>7. CASE ~RefreshEnds(c) /\ ~(DeleteEnds(c) /\ call[c].answer = Lost)
    <2>1. UNCHANGED <<sidebar, alert>>
      BY <1>7 DEF LoadEnds, Listed, HistoryEnds, RenameEnds, Settle, lists
    <2> QED BY <1>1, <1>2, <1>3, <2>1, PutCalm DEF Page, Typed, Running
  <1> QED BY <1>5, <1>6, <1>7

-----------------------------------------------------------------------------
(***************************************************************************)
(* The server answers; a load starts.                                      *)
(***************************************************************************)
\* What the server answers at one moment has every turn the tab was told of.
LEMMA AnswerPage ==
  ASSUME CInv, CInv', Page, ~Overlap', NEW c \in Calls, NEW new, Put(c, new),
         call[c].kind \notin {"idle", "stream"},
         new.kind = call[c].kind, new.conv = call[c].conv, new.base = call[c].base,
         new.fresh = call[c].fresh, new.answer \in {Lost} \cup Replies,
         new.answer \in Replies /\ new.kind \in {"load", "first", "history"} =>
           new.answer.turns = saved[new.conv],
         UNCHANGED <<page, saved, told, remembered, sidebar, alert>>,
         status' \in [Convs -> {"unused", "live", "gone"}],
         \A x \in Convs : status'[x] = "unused" => status[x] = "unused"
  PROVE  Page'
  <1> USE DEF page, Put
  <1>1. RequestTyped(call[c]) /\ RequestTyped(new)
    BY DEF Page, Typed, RequestTyped
  <1>2. Typed'
    BY <1>1 DEF Page, Typed
  <1>3. OneLoader' /\ Renaming' /\ Reloading'
    BY DEF Page, OneLoader, Renaming, Reloading, Fresh
  <1>4. Answered'
    <2> SUFFICES ASSUME NEW d \in Calls, Fresh(d, {"load", "first", "history"})',
                        call'[d].answer \in Replies \ {None}
                 PROVE  /\ ToSet(call'[d].answer.turns) \subseteq ToSet(saved[call'[d].conv])
                        /\ ToldOf(call'[d].conv) \subseteq ToSet(call'[d].answer.turns)
      BY DEF Answered, ToldOf
    <2>1. CASE d # c
      BY <2>1 DEF Page, Answered, Fresh
    <2>2. CASE d = c
      <3>1. new.kind \in {"load", "first", "history"} /\ new.answer.turns = saved[new.conv]
        BY <2>2 DEF Fresh
      <3>2. new.conv \in Convs
        BY <3>1, <1>1 DEF RequestTyped, Names
      <3>3. ToldOf(new.conv) \subseteq ToSet(saved[new.conv])
        BY <3>2 DEF ToldOf, CInv, ToldIsSaved
      <3> QED BY <2>2, <3>1, <3>3
    <2> QED BY <2>1, <2>2
  <1>5. owner # c
    BY NotOwner
  <1>6. Running'
    BY <1>5 DEF Page, Running, ToldOf, CInv, Owned, Streams
  <1>7. Failed' /\ Unselected'
    BY DEF Page, Failed, Unselected, Fresh
  <1>8. Transcript'
    BY DEF Page, Transcript, ToldOf
  <1> QED BY <1>2, <1>3, <1>4, <1>6, <1>7, <1>8 DEF Page

LEMMA ServeAndLose ==
  ASSUME CInv, CInv', Page, ~Overlap', NEW c \in Calls, Serve(c) \/ Lose(c)
  PROVE  Page'
  <1>1. /\ call[c].kind \notin {"idle", "stream"}
        /\ UNCHANGED <<page, saved, told, remembered, sidebar, alert>>
    BY DEF Serve, Lose, page, server, screen, turn, lists
  <1>2. RequestTyped(call[c]) /\ IsRequest(call[c])
    BY <1>1, SlotKinds DEF Page, Typed
  <1>3. PICK a : /\ call' = [call EXCEPT ![c].answer = a] /\ a \in {Lost} \cup Replies
                 /\ a \in Replies /\ call[c].kind \in {"load", "first", "history"} =>
                      a.turns = saved[call[c].conv]
    <2>1. CASE Lose(c)
      <3>1. call' = [call EXCEPT ![c].answer = Lost]
        BY <2>1 DEF Lose
      <3>2. Lost \notin Replies
        BY DEF Lost, Replies
      <3> QED BY <3>1, <3>2
    <2>2. CASE Serve(c)
      <3> DEFINE x == call[c].conv
                 found == x = None \/ status[x] = "live"
                 seq == IF x = None THEN <<>> ELSE saved[x]
                 b == IF ~found THEN Lost ELSE Reply(seq)
      <3>1. call' = [call EXCEPT ![c].answer = b]
        BY <2>2 DEF Serve
      <3>2. x \in Optional
        BY <1>1, <1>2 DEF RequestTyped, Names, Optional
      <3>3. seq \in Seq(Messages)
        BY <3>2 DEF Optional, CInv, PageOK
      <3>4. Reply(seq) \in Replies /\ Reply(seq).turns = seq
        BY <3>3 DEF Reply, Replies
      <3>5. b \in Replies => b.turns = seq
        BY <3>4 DEF Lost, Replies
      <3>6. call[c].kind \in {"load", "first", "history"} => x \in Convs
        BY <1>2 DEF RequestTyped, Names
      <3>7. b \in {Lost} \cup Replies
        BY <3>4
      <3> QED BY <3>1, <3>5, <3>6, <3>7, ClientAssumption
    <2> QED BY <2>1, <2>2
  <1>4. call' = [call EXCEPT ![c] = [call[c] EXCEPT !.answer = a]]
    BY <1>3
  <1> DEFINE new == [call[c] EXCEPT !.answer = a]
  <1>5. /\ new.kind = call[c].kind /\ new.conv = call[c].conv /\ new.base = call[c].base
        /\ new.fresh = call[c].fresh /\ new.answer = a
    BY <1>2, RequestFields
  <1>6. Put(c, new)
    BY <1>4, PutOrOvertake
  <1>7. /\ status' \in [Convs -> {"unused", "live", "gone"}]
        /\ \A x \in Convs : status'[x] = "unused" => status[x] = "unused"
    BY DEF Serve, Lose, server, Page, Typed
  <1> HIDE DEF new
  <1> QED BY <1>1, <1>3, <1>5, <1>6, <1>7, AnswerPage

\* A load that starts overtakes every other answer, and the page waits for it.
LEMMA LoaderPage ==
  ASSUME CInv, CInv', Page, ~Overlap', NEW c \in Calls, NEW new, Overtake(c, new),
         owner = None, \A d \in Calls : d # c => call[d].kind # "rename",
         new.kind \in {"load", "initialize"}, new.answer = None, RequestTyped(new),
         loading', UNCHANGED <<saved, status, told, owner>>,
         selected' \in Optional, remembered' \in Optional, detail' \in Details \cup {None},
         sidebar' \subseteq Convs, AlertTyped(alert'), failed' = None,
         streaming' \in {None, streaming}
  PROVE  Page'
  <1>1. ASSUME NEW d \in Calls
        PROVE  RequestTyped(call'[d]) /\ (call'[d].kind # "idle" /\ d # c => ~call'[d].fresh)
               /\ (d # c => call'[d].kind = call[d].kind)
    <2>1. RequestTyped(call[d])
      BY DEF Page, Typed
    <2>2. CASE d = c
      BY <2>2 DEF Overtake
    <2>3. CASE d # c
      <3>1. call'[d] = Stale(call)[d]
        BY <2>3 DEF Overtake
      <3> QED BY <2>1, <3>1, <2>3, StaleFields DEF RequestTyped
    <2> QED BY <2>2, <2>3
  <1>2. call'[c] = new
    BY DEF Overtake
  <1>3. Typed'
    BY <1>1 DEF Page, Typed
  <1>4. OneLoader' /\ Renaming' /\ Reloading'
    BY <1>1, <1>2 DEF OneLoader, Renaming, Reloading, Fresh, Loaders
  <1>5. Answered'
    BY <1>1, <1>2 DEF Answered, Fresh
  <1>6. Running' /\ Failed' /\ Unselected'
    BY DEF Running, Failed, Unselected
  <1>7. Transcript'
    BY DEF Page, Transcript
  <1> QED BY <1>3, <1>4, <1>5, <1>6, <1>7 DEF Page

LEMMA LoadStartsPage ==
  ASSUME CInv, CInv', Page, ~Overlap',
         \/ \E x \in Convs : SelectConversation(x)
         \/ RetryLoad
         \/ RetryAlert /\ alert.do = "load"
  PROVE  Page'
  <1>1. owner = None /\ failed' = None /\ Kind("rename") = {}
    BY DEF SelectConversation, RetryLoad, RetryAlert, Ready, Modal, ClearTurn, Page, Running, Failed
  <1>2. PICK c \in Calls, kind \in {"load", "initialize"},
             x \in Names("load") \cup Names("initialize") :
          StartNewest(c, kind, x, {}) /\ x \in Names(kind)
    <2>1. CASE \E x \in Convs : SelectConversation(x)
      BY <2>1 DEF SelectConversation, LoadStarts, Names
    <2>2. CASE RetryLoad
      BY <2>2 DEF RetryLoad, LoadStarts, Names, Page, Typed, Optional
    <2>3. CASE RetryAlert /\ alert.do = "load"
      <3>1. alert.conv \in Names("load")
        BY <2>3 DEF RetryAlert, Page, Typed, AlertTyped
      <3> QED BY <2>3, <3>1 DEF RetryAlert, LoadStarts
    <2> QED BY <2>1, <2>2, <2>3
  <1> DEFINE new == Request(kind, x, {})
  <1>3. new.kind = kind /\ new.answer = None
    BY DEF Request
  <1>4. RequestTyped(new)
    <2>1. kind \notin {"idle", "stream"} /\ kind # "delete"
      OBVIOUS
    <2> QED BY <1>2, <2>1, RequestNew
  <1>5. call' = [Stale(call) EXCEPT ![c] = new]
    BY <1>2 DEF StartNewest
  <1> HIDE DEF new
  <1>6. Overtake(c, new)
    BY <1>5, PutOrOvertake
  <1>7. /\ loading' /\ UNCHANGED <<saved, status, told, owner, detail, remembered, sidebar, alert>>
        /\ streaming' \in {None, streaming}
    BY DEF SelectConversation, RetryLoad, RetryAlert, LoadStarts, ClearTurn, server, lists
  <1>8. selected' \in Optional
    BY DEF SelectConversation, RetryLoad, RetryAlert, Page, Typed, Optional
  <1>9. \A d \in Calls : call[d].kind # "rename"
    BY <1>1 DEF Kind
  <1> QED BY <1>1, <1>3, <1>4, <1>6, <1>7, <1>8, <1>9, LoaderPage DEF Page, Typed

-----------------------------------------------------------------------------
(***************************************************************************)
(* Answers that are used.                                                  *)
(***************************************************************************)
\* While the page loads, no turn runs and nothing else will be used.
LEMMA WhileLoading ==
  ASSUME CInv, Page, NEW c \in Calls, Fresh(c, Loaders)
  PROVE  /\ loading /\ owner = None /\ failed = None
         /\ \A d \in Calls : /\ call[d].kind # "rename" /\ ~Fresh(d, {"history"})
                             /\ Fresh(d, Loaders) => d = c
  <1>1. loading /\ \A d \in Calls : Fresh(d, Loaders) => d = c
    BY DEF Page, OneLoader
  <1>2. owner = None /\ failed = None
    BY <1>1 DEF Page, Running, Failed
  <1>3. \A d \in Calls : call[d].kind # "rename" /\ ~Fresh(d, {"history"})
    BY <1>1 DEF Page, Renaming, Reloading
  <1> QED BY <1>1, <1>2, <1>3

LEMMA LoadedPage ==
  ASSUME CInv, CInv', Page, ~Overlap', NEW c \in Calls, Fresh(c, Loaders), Put(c, Idle), ~loading',
         UNCHANGED <<saved, status, told, owner, failed, pending, streaming, alert>>,
         selected' \in Optional, remembered' \in Optional, sidebar' \subseteq Convs,
         \/ detail' = None /\ (loadError' \/ selected' = None)
         \/ /\ detail' \in Details /\ detail'.id = selected'
            /\ ToSet(detail'.turns) \subseteq ToSet(saved[detail'.id])
            /\ ToldOf(detail'.id) \subseteq ToSet(detail'.turns)
  PROVE  Page'
  <1>1. /\ owner = None /\ failed = None
        /\ \A d \in Calls : /\ call[d].kind # "rename" /\ ~Fresh(d, {"history"})
                            /\ Fresh(d, Loaders) => d = c
    BY WhileLoading
  <1>2. \A d \in Calls : call'[d] = IF d = c THEN Idle ELSE call[d]
    BY DEF Put
  <1>3. Typed'
    BY <1>2 DEF Page, Typed, RequestTyped, Idle
  <1>4. OneLoader' /\ Renaming' /\ Reloading' /\ Answered'
    BY <1>1, <1>2 DEF OneLoader, Renaming, Reloading, Answered, Fresh, Loaders, Idle
  <1>5. Running' /\ Failed'
    BY <1>1 DEF Running, Failed
  <1>6. detail' \in Details => detail' # None
    BY ClientAssumption DEF Details
  <1>7. Unselected'
    BY <1>6 DEF Unselected
  <1>8. Transcript'
    BY <1>6 DEF Page, Transcript, ToldOf
  <1> QED BY <1>3, <1>4, <1>5, <1>7, <1>8 DEF Page

LEMMA LoadEndsPage ==
  ASSUME CInv, CInv', Page, ~Overlap', NEW c \in Calls, LoadEnds(c), call[c].fresh
  PROVE  Page'
  <1>1. /\ Fresh(c, Loaders) /\ Fresh(c, {"load", "first", "history"}) /\ ~loading'
        /\ UNCHANGED <<saved, status, told, owner, failed, pending, streaming, alert, sidebar>>
    BY DEF LoadEnds, Fresh, Loaders, server, turn, lists
  <1>2. Put(c, Idle)
    BY PutOrOvertake DEF LoadEnds
  <1>3. call[c].answer \in {Lost} \cup (Replies \ {None}) /\ call[c].conv \in Convs
    BY DEF LoadEnds, Page, Typed, RequestTyped, Names
  <1>4. CASE call[c].answer = Lost
    <2>1. detail' = None /\ loadError' /\ UNCHANGED <<selected, remembered>>
      BY <1>4 DEF LoadEnds
    <2> QED BY <1>1, <1>2, <2>1, LoadedPage DEF Page, Typed
  <1>5. CASE call[c].answer # Lost
    <2> DEFINE turns == call[c].answer.turns
    <2>1. /\ detail' = [id |-> call[c].conv, turns |-> turns] /\ selected' = call[c].conv
          /\ remembered' \in {remembered, call[c].conv}
      BY <1>5 DEF LoadEnds
    <2>2. call[c].answer \in Replies \ {None} /\ turns \in Seq(Messages)
      BY <1>3, <1>5 DEF Replies
    <2>3. /\ ToSet(turns) \subseteq ToSet(saved[call[c].conv])
          /\ ToldOf(call[c].conv) \subseteq ToSet(turns)
      BY <1>1, <2>2 DEF Page, Answered
    <2>4. selected' \in Optional /\ remembered' \in Optional
      BY <1>3, <2>1 DEF Optional, Page, Typed
    <2> HIDE DEF turns
    <2>5. detail' \in Details /\ detail'.id = call[c].conv /\ detail'.turns = turns
      BY <1>3, <2>1, <2>2 DEF Details, turns
    <2> QED BY <1>1, <1>2, <2>1, <2>3, <2>4, <2>5, LoadedPage DEF Page, Typed
  <1> QED BY <1>4, <1>5

LEMMA ListedPage ==
  ASSUME CInv, CInv', Page, ~Overlap', NEW c \in Calls, Listed(c), call[c].fresh
  PROVE  Page'
  <1>1. /\ Fresh(c, Loaders)
        /\ UNCHANGED <<saved, status, told, owner, failed, pending, streaming, alert>>
    BY DEF Listed, Fresh, Loaders, server, turn
  <1>2. call[c].answer \in {Lost} \cup Replies
    BY DEF Listed, Page, Typed, RequestTyped
  <1>3. CASE call[c].answer = Lost
    <2>1. /\ detail' = None /\ loadError' /\ ~loading' /\ sidebar' = {}
          /\ UNCHANGED <<selected, remembered>> /\ call' = [call EXCEPT ![c] = Idle]
      BY <1>3 DEF Listed
    <2>2. Put(c, Idle)
      BY <2>1, PutOrOvertake
    <2> QED BY <1>1, <2>1, <2>2, LoadedPage DEF Page, Typed
  <1>4. CASE call[c].answer # Lost
    <2>1. sidebar' \subseteq Convs /\ UNCHANGED <<remembered, loadError>>
      BY <1>2, <1>4 DEF Listed, Replies
    <2>2. PICK x \in Optional :
            /\ selected' = x
            /\ IF x = None
                 THEN call' = [call EXCEPT ![c] = Idle] /\ detail' = None /\ ~loading'
                 ELSE StartCall(c, "first", x, {}) /\ UNCHANGED <<detail, loading>>
      BY <1>4, <2>1 DEF Listed, Optional
    <2>3. CASE x = None
      <3>1. Put(c, Idle)
        BY <2>2, <2>3, PutOrOvertake
      <3> QED BY <1>1, <2>1, <2>2, <2>3, <3>1, LoadedPage DEF Page, Typed
    <2>4. CASE x # None
      <3> DEFINE new == Request("first", x, {})
      <3>1. new.kind = "first" /\ new.answer = None /\ new.fresh
        BY DEF Request
      <3>2. RequestTyped(new)
        <4>1. x \in Names("first")
          BY <2>4 DEF Names, Optional
        <4> QED BY <4>1, RequestNew
      <3>3. call' = [call EXCEPT ![c] = new]
        BY <2>2, <2>4 DEF StartCall
      <3> HIDE DEF new
      <3>4. \A d \in Calls : call'[d] = IF d = c THEN new ELSE call[d]
        BY <3>3, PutOrOvertake DEF Put
      <3>5. /\ loading /\ owner = None /\ failed = None
            /\ \A d \in Calls : /\ call[d].kind # "rename" /\ ~Fresh(d, {"history"})
                                /\ Fresh(d, Loaders) => d = c
        BY <1>1, WhileLoading
      <3>6. UNCHANGED <<detail, loading>> /\ selected' \in Optional
        BY <2>2, <2>4
      <3>7. Typed'
        BY <1>1, <2>1, <3>2, <3>4, <3>6 DEF Page, Typed
      <3>8. OneLoader' /\ Renaming' /\ Reloading'
        BY <3>1, <3>4, <3>5, <3>6 DEF OneLoader, Renaming, Reloading, Fresh, Loaders
      <3>9. Answered'
        BY <1>1, <3>1, <3>4 DEF Page, Answered, Fresh, ToldOf
      <3>10. Running' /\ Failed' /\ Unselected' /\ Transcript'
        BY <1>1, <3>5, <3>6 DEF Page, Running, Failed, Unselected, Transcript
      <3> QED BY <3>7, <3>8, <3>9, <3>10 DEF Page
    <2> QED BY <2>3, <2>4
  <1> QED BY <1>3, <1>4

LEMMA NewConversationPage ==
  ASSUME CInv, CInv', Page, ~Overlap', NewConversation
  PROVE  Page'
  <1>1. /\ owner = None /\ ~loading' /\ selected' = None /\ detail' = None /\ remembered' = None
        /\ failed' = None /\ streaming' = None /\ alert' = None
        /\ \A d \in Calls : call[d].kind # "rename"
        /\ UNCHANGED <<saved, status, told, owner, sidebar>> /\ call' = Stale(call)
    BY DEF NewConversation, Ready, Modal, Kind, ClearTurn, server
  <1>2. ASSUME NEW d \in Calls
        PROVE  /\ RequestTyped(call'[d]) /\ call'[d].kind = call[d].kind
               /\ call'[d].kind # "idle" => ~call'[d].fresh
    <2>1. RequestTyped(call[d]) /\ call'[d] = Stale(call)[d]
      BY <1>1 DEF Page, Typed
    <2> QED BY <2>1, StaleFields DEF RequestTyped
  <1>3. Typed'
    BY <1>1, <1>2 DEF Page, Typed, Optional, AlertTyped
  <1>4. OneLoader' /\ Renaming' /\ Reloading' /\ Answered'
    BY <1>1, <1>2 DEF OneLoader, Renaming, Reloading, Answered, Fresh, Loaders
  <1>5. Running' /\ Failed' /\ Unselected' /\ Transcript'
    BY <1>1 DEF Running, Failed, Unselected, Transcript
  <1> QED BY <1>3, <1>4, <1>5 DEF Page

\* What no turn and no load depends on: another request takes the slot of an answer,
\* and the transcript on the page is a whole one.
LEMMA ShownPage ==
  ASSUME CInv, CInv', Page, ~Overlap', NEW c \in Calls, NEW new, Put(c, new),
         owner = None, RequestTyped(new), new.kind \in {"list", "rename"},
         new.kind = "rename" => ~loading /\ new.conv = selected,
         UNCHANGED <<saved, status, told, selected, remembered, loading, loadError, pending,
                     failed, streaming, owner, sidebar>>,
         AlertTyped(alert'),
         \/ detail' = detail
         \/ /\ ~loading /\ failed = None /\ detail' \in Details /\ detail'.id = selected
            /\ ToSet(detail'.turns) \subseteq ToSet(saved[detail'.id])
            /\ ToldOf(detail'.id) \subseteq ToSet(detail'.turns)
  PROVE  Page'
  <1>1. \A d \in Calls : call'[d] = IF d = c THEN new ELSE call[d]
    BY DEF Put
  <1>2. detail' \in Details => detail' # None
    BY ClientAssumption DEF Details
  <1>3. Typed'
    BY <1>1 DEF Page, Typed
  <1>4. OneLoader' /\ Renaming' /\ Reloading'
    BY <1>1 DEF Page, OneLoader, Renaming, Reloading, Fresh, Loaders
  <1>5. Answered'
    BY <1>1 DEF Page, Answered, Fresh, ToldOf
  <1>6. Running'
    BY DEF Running
  <1>7. Failed'
    BY <1>1 DEF Page, Failed, Fresh
  <1>8. Unselected' /\ Transcript'
    BY <1>2 DEF Page, Unselected, Transcript, ToldOf
  <1> QED BY <1>3, <1>4, <1>5, <1>6, <1>7, <1>8 DEF Page

LEMMA HistoryEndsPage ==
  ASSUME CInv, CInv', Page, ~Overlap', NEW c \in Calls, HistoryEnds(c), call[c].fresh
  PROVE  Page'
  <1> DEFINE new == Request("list", None, {})
             r == call[c]
  <1>1. /\ Fresh(c, {"history"}) /\ Fresh(c, {"load", "first", "history"})
        /\ call' = [call EXCEPT ![c] = new]
        /\ UNCHANGED <<saved, status, told, selected, remembered, loading, loadError, pending,
                       failed, streaming, owner, sidebar>>
    BY DEF HistoryEnds, Fresh, StartCall, server, turn
  <1>2. new.kind = "list"
    BY DEF Request
  <1>3. RequestTyped(new)
    <2>1. None \in Names("list")
      BY DEF Names
    <2> QED BY <2>1, RequestNew
  <1> HIDE DEF new
  <1>4. Put(c, new)
    BY <1>1, PutOrOvertake
  <1>5. owner = None /\ failed = None /\ ~loading /\ r.conv = selected
    BY <1>1 DEF Page, Running, Failed, Reloading, Fresh, CInv, Owned, Streams
  <1>6. r.answer \in {Lost} \cup (Replies \ {None}) /\ r.conv \in Convs /\ r.conv \in Names("load")
    BY <1>1 DEF HistoryEnds, Page, Typed, RequestTyped, Names, Fresh
  <1>7. CASE r.answer = Lost
    <2>1. detail' = detail /\ alert' = [do |-> "load", conv |-> r.conv, base |-> {}]
      BY <1>7 DEF HistoryEnds
    <2>2. AlertTyped(alert')
      BY <1>6, <2>1 DEF AlertTyped
    <2> QED BY <1>1, <1>2, <1>3, <1>4, <1>5, <2>1, <2>2, ShownPage
  <1>8. CASE r.answer # Lost
    <2> DEFINE turns == r.answer.turns
    <2>1. detail' = [id |-> r.conv, turns |-> turns] /\ alert' = alert
      BY <1>8 DEF HistoryEnds
    <2>2. r.answer \in Replies \ {None} /\ turns \in Seq(Messages)
      BY <1>6, <1>8 DEF Replies
    <2>3. ToSet(turns) \subseteq ToSet(saved[r.conv]) /\ ToldOf(r.conv) \subseteq ToSet(turns)
      BY <1>1, <2>2 DEF Page, Answered
    <2> HIDE DEF turns
    <2>4. detail' \in Details /\ detail'.id = r.conv /\ detail'.turns = turns
      BY <1>6, <2>1, <2>2 DEF Details
    <2>5. AlertTyped(alert')
      BY <2>1 DEF Page, Typed
    <2> HIDE DEF r
    <2> QED BY <1>1, <1>2, <1>3, <1>4, <1>5, <2>3, <2>4, <2>5, ShownPage
  <1> QED BY <1>7, <1>8

LEMMA RenameConversationPage ==
  ASSUME CInv, CInv', Page, ~Overlap', RenameConversation
  PROVE  Page'
  <1> DEFINE new == Request("rename", selected, {})
  <1>1. PICK c \in Calls : call' = [call EXCEPT ![c] = new]
    BY DEF RenameConversation, StartCall
  <1>2. new.kind = "rename" /\ new.conv = selected
    BY DEF Request
  <1>3. RequestTyped(new)
    <2>1. selected \in Names("rename")
      BY DEF RenameConversation, Page, Typed, Optional, Names
    <2> QED BY <2>1, RequestNew
  <1> HIDE DEF new
  <1>4. Put(c, new)
    BY <1>1, PutOrOvertake
  <1>5. /\ owner = None /\ ~loading
        /\ UNCHANGED <<saved, status, told, selected, remembered, loading, loadError, pending,
                       failed, streaming, owner, sidebar, detail, alert>>
    BY DEF RenameConversation, Ready, server, screen, turn, lists
  <1> QED BY <1>2, <1>3, <1>4, <1>5, ShownPage DEF Page, Typed

\* The conversation on the page is the one that was renamed.
LEMMA RenameEndsPage ==
  ASSUME CInv, CInv', Page, ~Overlap', NEW c \in Calls, RenameEnds(c), call[c].answer # Lost
  PROVE  Page'
  <1> DEFINE new == Request("list", None, {})
  <1>1. /\ call[c].kind = "rename" /\ call' = [call EXCEPT ![c] = new]
        /\ UNCHANGED <<saved, status, told, selected, remembered, loading, loadError, pending,
                       failed, streaming, owner, sidebar, alert>>
        /\ detail' = IF detail = None THEN None ELSE [detail EXCEPT !.id = call[c].conv]
    BY DEF RenameEnds, StartCall, server, turn, lists
  <1>2. new.kind = "list"
    BY DEF Request
  <1>3. RequestTyped(new)
    <2>1. None \in Names("list")
      BY DEF Names
    <2> QED BY <2>1, RequestNew
  <1> HIDE DEF new
  <1>4. Put(c, new)
    BY <1>1, PutOrOvertake
  <1>5. owner = None /\ ~loading /\ call[c].conv = selected
    BY <1>1 DEF Page, Renaming
  <1>6. detail' = detail
    <2>1. CASE detail = None
      BY <1>1, <2>1
    <2>2. CASE detail # None
      <3>1. detail \in Details /\ detail.id = call[c].conv
        BY <1>5, <2>2 DEF Page, Typed, Transcript
      <3>2. [detail EXCEPT !.id = call[c].conv] = detail
        BY <3>1 DEF Details
      <3> QED BY <1>1, <2>2, <3>2
    <2> QED BY <2>1, <2>2
  <1> QED BY <1>1, <1>2, <1>3, <1>4, <1>5, <1>6, ShownPage DEF Page, Typed

LEMMA DeleteEndsPage ==
  ASSUME CInv, CInv', Page, ~Overlap', NEW c \in Calls, DeleteEnds(c), call[c].answer # Lost
  PROVE  Page'
  <1>1. /\ owner = None
        /\ \A d \in Calls : d # c => call[d].kind # "rename"
        /\ \A d \in Calls : ~Fresh(d, {"history"})
        /\ call[c].kind = "delete" /\ call[c].base \subseteq Convs
    BY DEF DeleteEnds, Page, Overlap, CInv, Owned, Streams, Typed, RequestTyped, Fresh
  <1>2. /\ UNCHANGED <<saved, status, told, owner, alert>> /\ sidebar' \subseteq Convs
        /\ detail' = None /\ streaming' = None /\ pending' = None
    BY <1>1 DEF DeleteEnds, server
  <1>3. PICK x \in Optional :
          /\ selected' = x /\ remembered' = x
          /\ IF x = None THEN /\ call' = [call EXCEPT ![c] = Idle]
                              /\ ~loadError' /\ UNCHANGED <<loading, failed>>
                         ELSE LoadStarts(c, x) /\ failed' = None
    BY <1>2 DEF DeleteEnds, Optional
  <1>4. CASE x = None
    <2>1. \A d \in Calls : call'[d] = IF d = c THEN Idle ELSE call[d]
      BY <1>3, <1>4, PutOrOvertake DEF Put
    <2>2. UNCHANGED <<loading, failed>> /\ ~loadError' /\ selected' = None
      BY <1>3, <1>4
    <2>3. Typed'
      BY <1>2, <1>3, <2>1 DEF Page, Typed, RequestTyped, Idle
    <2>4. OneLoader' /\ Renaming' /\ Reloading'
      BY <1>1, <2>1, <2>2 DEF Page, OneLoader, Renaming, Reloading, Fresh, Loaders, Idle
    <2>5. Answered'
      BY <1>2, <2>1 DEF Page, Answered, Fresh, ToldOf, Idle
    <2>6. Running' /\ Failed' /\ Unselected' /\ Transcript'
      BY <1>1, <1>2, <2>1, <2>2 DEF Page, Running, Failed, Unselected, Transcript, Fresh, Idle
    <2> QED BY <2>3, <2>4, <2>5, <2>6 DEF Page
  <1>5. CASE x # None
    <2> DEFINE new == Request("load", x, {})
    <2>1. new.kind = "load" /\ new.answer = None
      BY DEF Request
    <2>2. RequestTyped(new)
      <3>1. x \in Names("load")
        BY <1>5 DEF Names, Optional
      <3> QED BY <3>1, RequestNew
    <2>3. call' = [Stale(call) EXCEPT ![c] = new] /\ loading' /\ failed' = None
      BY <1>3, <1>5 DEF LoadStarts, StartNewest
    <2> HIDE DEF new
    <2>4. Overtake(c, new)
      BY <2>3, PutOrOvertake
    <2> QED BY <1>1, <1>2, <1>3, <2>1, <2>2, <2>3, <2>4, LoaderPage DEF Page, Typed
  <1> QED BY <1>4, <1>5

-----------------------------------------------------------------------------
(***************************************************************************)
(* The turn.                                                               *)
(***************************************************************************)
LEMMA SubmitPage ==
  ASSUME CInv, CInv', Page, ~Overlap', NEW c \in Calls, NEW m \in Messages, Submit(c, m),
         Ready, ~loadError, pending' = m
  PROVE  Page'
  <1> DEFINE new == [kind |-> "stream", conv |-> selected, fresh |-> TRUE, message |-> m,
                     base |-> IF detail = None THEN <<>> ELSE detail.turns,
                     stage |-> "sent", result |-> None]
  <1>1. /\ new.kind = "stream" /\ new.conv = selected /\ new.message = m /\ new.stage = "sent"
        /\ new.base = IF detail = None THEN <<>> ELSE detail.turns
    OBVIOUS
  <1>2. call' = [Stale(call) EXCEPT ![c] = new]
    BY DEF Submit
  <1> HIDE DEF new
  <1>3. \A d \in Calls : call'[d] = IF d = c THEN new ELSE Stale(call)[d]
    BY <1>2, PutOrOvertake DEF Overtake
  <1>4. /\ owner = None /\ ~loading /\ \A d \in Calls : call[d].kind # "rename"
        /\ UNCHANGED <<saved, status, told, selected, detail, loading, loadError, remembered, sidebar>>
        /\ owner' = c /\ failed' = None /\ streaming' = None /\ alert' = None
    BY DEF Submit, Ready, Modal, Kind, server, screen
  <1>5. RequestTyped(new)
    BY <1>1 DEF RequestTyped, Page, Typed, Details
  <1>6. ASSUME NEW d \in Calls
        PROVE  /\ RequestTyped(call'[d]) /\ (d # c => call'[d].kind = call[d].kind)
               /\ call'[d].kind # "idle" /\ d # c => ~call'[d].fresh
    <2>1. CASE d = c
      BY <1>3, <1>5, <2>1
    <2>2. CASE d # c
      <3>1. RequestTyped(call[d]) /\ call'[d] = Stale(call)[d]
        BY <1>3, <2>2 DEF Page, Typed
      <3> QED BY <2>2, <3>1, StaleFields DEF RequestTyped
    <2> QED BY <2>1, <2>2
  <1>7. Typed'
    BY <1>4, <1>6 DEF Page, Typed, AlertTyped
  <1>8. OneLoader' /\ Renaming' /\ Reloading' /\ Answered'
    BY <1>1, <1>3, <1>4, <1>6 DEF OneLoader, Renaming, Reloading, Answered, Fresh, Loaders
  <1>9. Running'
    BY <1>1, <1>3, <1>4, <1>6 DEF Running
  <1>10. Failed' /\ Unselected'
    BY <1>4 DEF Page, Failed, Unselected
  <1>11. Transcript'
    <2>1. pending \notin ToldOf(detail.id)
      BY <1>4, ClientAssumption DEF ToldOf, CInv, Unsent, Confirmed, Page, Typed
    <2> QED BY <1>4, <2>1, ClientAssumption DEF Page, Transcript, ToldOf
  <1> QED BY <1>7, <1>8, <1>9, <1>10, <1>11 DEF Page

LEMMA SendPage ==
  ASSUME CInv, CInv', Page, ~Overlap', (\E m \in Messages : Send(m)) \/ RetrySend
  PROVE  Page'
  <1>1. CASE \E m \in Messages : Send(m)
    BY <1>1, SubmitPage DEF Send
  <1>2. CASE RetrySend
    <2>1. Ready /\ ~loadError /\ failed # None /\ Shown /\ owner = None /\ pending' = pending
      BY <1>2 DEF RetrySend, Ready
    <2>2. streaming = None
      BY <2>1 DEF Page, Transcript
    <2>3. pending = failed
      BY <2>1, <2>2 DEF Shown, Page, Failed
    <2>4. failed \in Messages
      BY <2>1 DEF CInv, PageOK
    <2> QED BY <1>2, <2>1, <2>3, <2>4, SubmitPage DEF RetrySend
  <1> QED BY <1>1, <1>2

LEMMA StreamStage ==
  ASSUME NEW r, IsStream(r), NEW stage, NEW result
  PROVE  LET a == [r EXCEPT !.stage = stage]
             b == [a EXCEPT !.result = result]
         IN  /\ a.kind = "stream" /\ a.conv = r.conv /\ a.fresh = r.fresh
             /\ a.message = r.message /\ a.base = r.base /\ a.stage = stage /\ a.result = r.result
             /\ b.kind = "stream" /\ b.conv = r.conv /\ b.fresh = r.fresh
             /\ b.message = r.message /\ b.base = r.base /\ b.stage = stage /\ b.result = result
  <1>1. PICK conv, fresh, message, base, old, res :
          r = [kind |-> "stream", conv |-> conv, fresh |-> fresh, message |-> message,
               base |-> base, stage |-> old, result |-> res]
    BY DEF IsStream
  <1> DEFINE a == [r EXCEPT !.stage = stage]
             b == [a EXCEPT !.result = result]
  <1>2. a = [kind |-> "stream", conv |-> conv, fresh |-> fresh, message |-> message,
             base |-> base, stage |-> stage, result |-> res]
    BY <1>1
  <1> HIDE DEF a
  <1>3. b = [kind |-> "stream", conv |-> conv, fresh |-> fresh, message |-> message,
             base |-> base, stage |-> stage, result |-> result]
    BY <1>2
  <1> HIDE DEF b
  <1>4. /\ a.kind = "stream" /\ a.conv = r.conv /\ a.fresh = r.fresh
        /\ a.message = r.message /\ a.base = r.base /\ a.stage = stage /\ a.result = r.result
    BY <1>1, <1>2
  <1>5. /\ b.kind = "stream" /\ b.conv = r.conv /\ b.fresh = r.fresh
        /\ b.message = r.message /\ b.base = r.base /\ b.stage = stage /\ b.result = result
    BY <1>1, <1>3
  <1> QED BY <1>4, <1>5 DEF a, b

LEMMA TextPage ==
  ASSUME CInv, CInv', Page, ~Overlap', NEW c \in Calls, Text(c)
  PROVE  Page'
  <1>1. /\ owner = c /\ streaming' = c
        /\ UNCHANGED <<selected, detail, loading, loadError, pending, failed, owner, saved,
                       status, told, remembered, sidebar, alert, call>>
    BY DEF Text, server, screen, lists
  <1>2. Typed' /\ OneLoader' /\ Renaming' /\ Reloading' /\ Answered'
    BY <1>1 DEF Page, Typed, OneLoader, Renaming, Reloading, Answered, Fresh, ToldOf
  <1>3. Running' /\ Failed' /\ Unselected' /\ Transcript'
    BY <1>1 DEF Page, Running, Failed, Unselected, Transcript, Fresh, ToldOf
  <1> QED BY <1>2, <1>3 DEF Page

\* The save of a new conversation finds nothing told of it.
LEMMA CommitPage ==
  ASSUME CInv, CInv', Page, ~Overlap', NEW c \in Calls, Commit(c)
  PROVE  Page'
  <1> DEFINE r == call[c]
             half == [r EXCEPT !.stage = "saved"]
  <1>1. /\ r.kind = "stream"
        /\ UNCHANGED <<page, told, remembered, sidebar, alert>>
    BY DEF Commit, screen, turn, lists, page
  <1>2. PICK x \in Convs :
          /\ IF r.conv = None THEN status[x] = "unused" ELSE x = r.conv
          /\ saved' = [saved EXCEPT ![x] = Append(@, r.message)]
          /\ status' = [status EXCEPT ![x] = "live"]
          /\ call' = [call EXCEPT ![c].stage = "saved", ![c].result = x]
    BY DEF Commit
  <1> DEFINE new == [half EXCEPT !.result = x]
  <1>3. call' = [call EXCEPT ![c] = new]
    <2>1. call = [d \in Calls |-> call[d]]
      BY DEF CInv, Shaped
    <2> QED BY <1>2, <2>1
  <1>4. /\ new.kind = "stream" /\ new.conv = r.conv /\ new.fresh = r.fresh
        /\ new.message = r.message /\ new.base = r.base /\ new.stage = "saved" /\ new.result = x
    <2>1. IsStream(r)
      BY <1>1, SlotKinds
    <2> HIDE DEF r
    <2> QED BY <2>1, StreamStage
  <1>5. r.message \in Messages
    BY <1>1, SlotKinds DEF IsStream
  <1> HIDE DEF new, half
  <1>6. \A d \in Calls : call'[d] = IF d = c THEN new ELSE call[d]
    BY <1>3, PutOrOvertake DEF Put
  <1>7. \A y \in Convs : ToSet(saved[y]) \subseteq ToSet(saved'[y])
    BY <1>2, <1>5, AppendSet DEF CInv, PageOK
  <1>8. r.conv = None => ToldOf(x) = {}
    <2> SUFFICES ASSUME r.conv = None PROVE ToldOf(x) = {}
      OBVIOUS
    <2>1. saved[x] = <<>>
      BY <1>2 DEF Page, Typed
    <2>2. ToSet(saved[x]) = {}
      BY <2>1 DEF ToSet
    <2> QED BY <2>2 DEF ToldOf, CInv, ToldIsSaved
  <1>9. RequestTyped(new)
    <2>1. RequestTyped(r)
      BY DEF Page, Typed
    <2> QED BY <1>1, <1>4, <2>1 DEF RequestTyped
  <1> USE DEF page
  <1>10. Typed'
    <2>1. status' \in [Convs -> {"unused", "live", "gone"}]
      BY <1>2 DEF Page, Typed
    <2>2. \A y \in Convs : status'[y] = "unused" => saved'[y] = <<>>
      BY <1>2 DEF Page, Typed, CInv, PageOK
    <2> QED BY <1>1, <1>6, <1>9, <2>1, <2>2 DEF Page, Typed
  <1>11. OneLoader' /\ Renaming' /\ Reloading'
    BY <1>1, <1>4, <1>6 DEF Page, OneLoader, Renaming, Reloading, Fresh, Loaders
  <1>12. Answered'
    <2> SUFFICES ASSUME NEW d \in Calls, Fresh(d, {"load", "first", "history"})',
                        call'[d].answer \in Replies \ {None}
                 PROVE  /\ ToSet(call'[d].answer.turns) \subseteq ToSet(saved'[call'[d].conv])
                        /\ ToldOf(call'[d].conv) \subseteq ToSet(call'[d].answer.turns)
      BY <1>1 DEF Answered, ToldOf
    <2>1. d # c /\ call'[d] = call[d] /\ Fresh(d, {"load", "first", "history"})
      BY <1>4, <1>6 DEF Fresh
    <2>2. call[d].conv \in Convs
      BY <2>1 DEF Page, Typed, RequestTyped, Names, Fresh
    <2> QED BY <1>7, <2>1, <2>2 DEF Page, Answered
  <1>13. Running'
    <2> SUFFICES ASSUME owner # None PROVE Running'
      BY <1>1 DEF Running
    <2>1. owner \in Calls
      BY DEF CInv, Owned, Streams
    <2>2. /\ call'[owner].conv = call[owner].conv /\ call'[owner].base = call[owner].base
          /\ call'[owner].message = call[owner].message
      BY <1>4, <1>6, <2>1
    <2>3. \A d \in Calls : d # owner => call'[d].kind = "idle" \/ ~call'[d].fresh
      BY <1>1, <1>4, <1>6 DEF Page, Running
    <2>4. call'[owner].stage \in {"saved", "final"} =>
            /\ call'[owner].conv # None => call'[owner].result = call'[owner].conv
            /\ call'[owner].conv = None => ToldOf(call'[owner].result) \subseteq {call'[owner].message}
      <3>1. CASE owner # c
        BY <1>6, <2>1, <3>1 DEF Page, Running
      <3>2. CASE owner = c
        BY <1>2, <1>4, <1>6, <1>8, <3>2
      <3> QED BY <3>1, <3>2
    <2> QED BY <1>1, <2>2, <2>3, <2>4 DEF Page, Running, ToldOf
  <1>14. Failed' /\ Unselected'
    BY <1>1, <1>4, <1>6 DEF Page, Failed, Unselected, Fresh
  <1>15. Transcript'
    BY <1>1, <1>7 DEF Page, Transcript, ToldOf, Typed, Details
  <1> QED BY <1>10, <1>11, <1>12, <1>13, <1>14, <1>15 DEF Page

\* The turn on the page is told as saved; nothing in flight would hide it.
LEMMA FinalPage ==
  ASSUME CInv, CInv', Page, ~Overlap', NEW c \in Calls, Final(c)
  PROVE  Page'
  <1> DEFINE r == call[c]
             m == r.message
             x == r.result
             new == [r EXCEPT !.stage = "final"]
  <1>1. /\ r.kind = "stream" /\ r.stage = "saved" /\ owner = c /\ c \in Streams /\ owner # None
        /\ UNCHANGED <<selected, detail, loading, loadError, pending, failed, owner, saved,
                       status, remembered, sidebar, alert>>
        /\ streaming' = c /\ told' = told \cup {<<x, m>>}
    BY ClientAssumption DEF Final, Open, Streams, server, screen, lists
  <1>2. call' = [call EXCEPT ![c] = new]
    <2>1. call = [d \in Calls |-> call[d]]
      BY DEF CInv, Shaped
    <2> QED BY <2>1 DEF Final
  <1>3. x \in Convs /\ m \in Messages
    BY <1>1, SlotKinds DEF CInv, ToldIsSaved, IsStream
  <1>4. /\ new.kind = "stream" /\ new.conv = r.conv /\ new.fresh = r.fresh
        /\ new.message = m /\ new.base = r.base /\ new.stage = "final" /\ new.result = x
    <2>1. IsStream(r)
      BY <1>1, SlotKinds
    <2> HIDE DEF r
    <2> QED BY <2>1, StreamStage
  <1> HIDE DEF new
  <1>5. \A d \in Calls : call'[d] = IF d = c THEN new ELSE call[d]
    BY <1>2, PutOrOvertake DEF Put
  <1>6. /\ m = pending
        /\ \A d \in Calls : d # c => call[d].kind = "idle" \/ ~call[d].fresh
    BY <1>1 DEF Page, Running
  <1>7. \A y : ToldOf(y)' \subseteq ToldOf(y) \cup {m} /\ (y # x => ToldOf(y)' = ToldOf(y))
    BY <1>1 DEF ToldOf
  <1>8. RequestTyped(new)
    <2>1. RequestTyped(r)
      BY DEF Page, Typed
    <2> QED BY <1>1, <1>4, <2>1 DEF RequestTyped
  <1>9. Typed'
    BY <1>1, <1>3, <1>5, <1>8 DEF Page, Typed
  <1>10. OneLoader' /\ Renaming' /\ Reloading' /\ Answered'
    BY <1>1, <1>4, <1>5, <1>6 DEF Page, OneLoader, Renaming, Reloading, Answered, Fresh, Loaders
  <1>11. Running'
    <2>1. r.conv # None => x = r.conv
      BY <1>1 DEF Page, Running
    <2>2. r.conv = None => \A y : y = x => ToldOf(y)' \subseteq {m}
      <3>1. r.conv = None => ToldOf(x) \subseteq {m}
        BY <1>1 DEF Page, Running
      <3> QED BY <3>1, <1>7
    <2> QED BY <1>1, <1>4, <1>5, <1>6, <2>1, <2>2 DEF Page, Running
  <1>12. Failed' /\ Unselected'
    BY <1>1, <1>4, <1>5 DEF Page, Failed, Unselected, Fresh
  <1>13. Transcript'
    BY <1>1, <1>6, <1>7 DEF Page, Transcript
  <1> QED BY <1>9, <1>10, <1>11, <1>12, <1>13 DEF Page

\* The transcript that the page builds from what it captured is a whole one.
LEMMA ShowSavedIsWhole ==
  ASSUME CInv, Page, NEW c \in Calls, owner = c, call[c].stage = "final", ShowSaved(c)
  PROVE  /\ detail' \in Details /\ detail'.id = call[c].result /\ selected' = call[c].result
         /\ remembered' = call[c].result /\ call[c].result \in Convs
         /\ ToSet(detail'.turns) \subseteq ToSet(saved[detail'.id])
         /\ ToldOf(detail'.id) \subseteq ToSet(detail'.turns)
         /\ pending' = None /\ streaming' = None
  <1> DEFINE r == call[c]
             x == r.result
             m == r.message
             turns == Append(r.base, m)
  <1>1. r.kind = "stream" /\ c \in Streams /\ owner # None
    BY ClientAssumption DEF CInv, Owned, Streams
  <1>2. x \in Convs /\ m \in ToSet(saved[x]) /\ m \in Messages
    BY <1>1, SlotKinds DEF CInv, ToldIsSaved, IsStream
  <1>3. r.base \in Seq(Messages)
    BY <1>1 DEF Page, Typed, RequestTyped
  <1>4. /\ ~loading /\ ~loadError /\ r.conv = selected /\ m = pending
        /\ r.base = IF detail = None THEN <<>> ELSE detail.turns
        /\ r.conv # None => x = r.conv
        /\ r.conv = None => ToldOf(x) \subseteq {m}
    BY <1>1 DEF Page, Running
  <1>5. ToSet(r.base) \subseteq ToSet(saved[x]) /\ ToldOf(x) \subseteq ToSet(r.base) \cup {m}
    <2>1. CASE detail = None
      <3>1. r.base = <<>> /\ ToldOf(x) \subseteq {m}
        BY <1>4, <2>1 DEF Page, Unselected
      <3>2. ToSet(r.base) = {}
        BY <3>1 DEF ToSet
      <3> QED BY <3>1, <3>2
    <2>2. CASE detail # None
      <3>1. detail \in Details /\ detail.id = r.conv
        BY <1>4, <2>2 DEF Page, Typed, Transcript
      <3>2. detail.id = x
        BY <1>4, <3>1, ClientAssumption DEF Details
      <3> QED BY <1>4, <2>2, <3>2 DEF Page, Transcript
    <2> QED BY <2>1, <2>2
  <1>6. ToSet(turns) = ToSet(r.base) \cup {m} /\ turns \in Seq(Messages)
    BY <1>2, <1>3, AppendSet
  <1>7. /\ detail' = [id |-> x, turns |-> turns] /\ selected' = x /\ remembered' = x
        /\ pending' = None /\ streaming' = None
    BY DEF ShowSaved
  <1> HIDE DEF turns, r
  <1>8. detail' \in Details /\ detail'.id = x /\ detail'.turns = turns
    BY <1>2, <1>6, <1>7 DEF Details
  <1> QED BY <1>2, <1>5, <1>6, <1>7, <1>8 DEF r

LEMMA DonePage ==
  ASSUME CInv, CInv', Page, ~Overlap', NEW c \in Calls, Done(c)
  PROVE  Page'
  <1> DEFINE q == Request("history", call[c].result, {})
             new == [q EXCEPT !.fresh = call[c].fresh]
             x == call[c].result
  <1>1. /\ owner = c /\ owner # None /\ call[c].stage = "final" /\ owner' = None
        /\ UNCHANGED <<saved, status, told, loading, loadError, failed, sidebar, alert>>
        /\ call' = [call EXCEPT ![c] = new]
    BY ClientAssumption DEF Done, Open, server, lists
  <1>2. /\ detail' \in Details /\ detail'.id = x /\ selected' = x /\ remembered' = x
        /\ x \in Convs /\ ToSet(detail'.turns) \subseteq ToSet(saved[detail'.id])
        /\ ToldOf(detail'.id) \subseteq ToSet(detail'.turns)
        /\ pending' = None /\ streaming' = None
    BY <1>1, ShowSavedIsWhole DEF Done
  <1>3. /\ new.kind = "history" /\ new.conv = x /\ new.answer = None /\ RequestTyped(new)
    <2>1. IsRequest(q)
      <3>1. "history" \notin {"idle", "stream"}
        OBVIOUS
      <3> QED BY <3>1, RequestShape
    <2>2. q.kind = "history" /\ q.conv = x /\ q.answer = None
      BY DEF Request
    <2> HIDE DEF q
    <2>3. new.kind = "history" /\ new.conv = x /\ new.answer = None
      BY <2>1, <2>2, RequestFields
    <2> HIDE DEF new
    <2> QED BY <1>2, <2>3 DEF RequestTyped, Names
  <1> HIDE DEF new
  <1>4. \A d \in Calls : call'[d] = IF d = c THEN new ELSE call[d]
    BY <1>1, PutOrOvertake DEF Put
  <1>5. /\ ~loading /\ ~loadError /\ failed = None
        /\ \A d \in Calls : d # c => call[d].kind = "idle" \/ ~call[d].fresh
    BY <1>1 DEF Page, Running, CInv, Owned
  <1>6. \A d \in Calls : call[d].kind # "rename"
    BY <1>1 DEF Page, Renaming
  <1>7. Typed'
    BY <1>1, <1>2, <1>3, <1>4 DEF Page, Typed, Optional
  <1>8. OneLoader' /\ Renaming' /\ Reloading' /\ Answered'
    BY <1>1, <1>2, <1>3, <1>4, <1>5, <1>6
    DEF OneLoader, Renaming, Reloading, Answered, Fresh, Loaders
  <1>9. Running' /\ Failed'
    BY <1>1, <1>5 DEF Running, Failed
  <1>10. Unselected' /\ Transcript'
    BY <1>1, <1>2, ClientAssumption DEF Unselected, Transcript, Details, ToldOf
  <1> QED BY <1>7, <1>8, <1>9, <1>10 DEF Page

LEMMA BreakPage ==
  ASSUME CInv, CInv', Page, ~Overlap', NEW c \in Calls, Break(c)
  PROVE  Page'
  <1>1. /\ owner = c /\ owner # None /\ owner' = None
        /\ UNCHANGED <<saved, status, told, loading, loadError, sidebar, call>>
    BY ClientAssumption DEF Break, server
  <1>2. /\ ~loading /\ ~loadError /\ failed = None /\ call[c].message = pending
        /\ \A d \in Calls : d # c => call[d].kind = "idle" \/ ~call[d].fresh
        /\ call[c].kind = "stream"
    BY <1>1 DEF Page, Running, CInv, Owned, Streams
  <1>3. OneLoader' /\ Renaming' /\ Reloading' /\ Answered'
    <2>1. \A d \in Calls : call[d].kind # "rename"
      BY <1>1 DEF Page, Renaming
    <2> QED BY <1>1, <1>2, <2>1 DEF OneLoader, Renaming, Reloading, Answered, Fresh, Loaders
  <1>4. Running'
    BY <1>1 DEF Running
  <1>5. CASE call[c].stage = "final"
    <2> DEFINE x == call[c].result
    <2>1. ShowSaved(c) /\ alert' = [do |-> "load", conv |-> x, base |-> {}] /\ failed' = failed
      BY <1>5 DEF Break
    <2>2. /\ detail' \in Details /\ detail'.id = x /\ selected' = x /\ remembered' = x
          /\ x \in Convs /\ ToSet(detail'.turns) \subseteq ToSet(saved[detail'.id])
          /\ ToldOf(detail'.id) \subseteq ToSet(detail'.turns)
          /\ pending' = None /\ streaming' = None
      BY <1>1, <1>5, <2>1, ShowSavedIsWhole
    <2>3. AlertTyped(alert')
      BY <2>1, <2>2 DEF AlertTyped, Names
    <2>4. Typed'
      BY <1>1, <2>2, <2>3 DEF Page, Typed, Optional
    <2>5. Failed' /\ Unselected' /\ Transcript'
      BY <1>1, <1>2, <2>1, <2>2, ClientAssumption DEF Failed, Unselected, Transcript, Details, ToldOf
    <2> QED BY <1>3, <1>4, <2>4, <2>5 DEF Page
  <1>6. CASE call[c].stage # "final"
    <2>1. /\ failed' = call[c].message /\ streaming' = None
          /\ UNCHANGED <<selected, remembered, detail, pending, alert>>
      BY <1>6 DEF Break
    <2>2. Typed'
      BY <1>1, <2>1 DEF Page, Typed
    <2>3. Failed' /\ Unselected' /\ Transcript'
      BY <1>1, <1>2, <2>1 DEF Page, Failed, Unselected, Transcript, Fresh, ToldOf
    <2> QED BY <1>3, <1>4, <2>2, <2>3 DEF Page
  <1> QED BY <1>5, <1>6

LEMMA StopPage ==
  ASSUME CInv, CInv', Page, ~Overlap', Stop
  PROVE  Page'
  <1>1. /\ owner # None /\ owner' = None /\ failed' = pending /\ streaming' = None
        /\ UNCHANGED <<saved, status, told, selected, detail, loading, loadError, remembered,
                       pending, sidebar, alert, call>>
    BY DEF Stop, server, screen, lists
  <1>2. /\ ~loading /\ ~loadError
        /\ \A d \in Calls : d # owner => call[d].kind = "idle" \/ ~call[d].fresh
        /\ call[owner].kind = "stream" /\ \A d \in Calls : call[d].kind # "rename"
    BY <1>1 DEF Page, Running, Renaming, CInv, Owned, Streams
  <1>3. Typed'
    BY <1>1 DEF Page, Typed
  <1>4. OneLoader' /\ Renaming' /\ Reloading' /\ Answered'
    BY <1>1, <1>2 DEF OneLoader, Renaming, Reloading, Answered, Fresh, Loaders
  <1>5. Running' /\ Failed' /\ Unselected' /\ Transcript'
    BY <1>1, <1>2 DEF Page, Running, Failed, Unselected, Transcript, Fresh, ToldOf
  <1> QED BY <1>3, <1>4, <1>5 DEF Page

-----------------------------------------------------------------------------
LEMMA InitTranscript == InitClient => TInv
  <1> SUFFICES ASSUME InitClient PROVE Page
    BY ClientInitInvariant DEF TInv
  <1> DEFINE q == Request("initialize", None, {})
  <1>1. PICK c \in Calls : call = [[d \in Calls |-> Idle] EXCEPT ![c] = q]
    BY DEF InitClient
  <1>2. q.kind = "initialize" /\ q.answer = None
    BY DEF Request
  <1>3. RequestTyped(q)
    <2>1. None \in Names("initialize")
      BY DEF Names
    <2> QED BY <2>1, RequestNew
  <1> HIDE DEF q
  <1>4. \A d \in Calls : call[d] = IF d = c THEN q ELSE Idle
    BY <1>1
  <1>5. Typed
    BY <1>3, <1>4, ClientAssumption
    DEF InitClient, Typed, RequestTyped, Idle, Optional, AlertTyped
  <1>6. OneLoader /\ Renaming /\ Reloading /\ Answered /\ ~Overlap
    BY <1>2, <1>4 DEF InitClient, OneLoader, Renaming, Reloading, Answered, Overlap, Fresh, Loaders,
                      Idle
  <1>7. Running /\ Failed /\ Unselected /\ Transcript
    BY DEF InitClient, Running, Failed, Unselected, Transcript
  <1> QED BY <1>5, <1>6, <1>7 DEF Page

LEMMA StepTranscript == TInv /\ [ClientNext]_clientVars => TInv'
  <1> SUFFICES ASSUME CInv, Page, [ClientNext]_clientVars, ~overlapped' PROVE Page'
    BY StepInvariant DEF TInv, ClientNext, clientVars
  <1>1. CInv'
    BY StepInvariant
  <1>2. CASE ClientNext
    <2>1. ~Overlap'
      BY <1>2 DEF ClientNext
    <2>2. CASE UserStep
      BY <1>1, <2>1, <2>2, LoadStartsPage, NewConversationPage, ListAndDelete, SendPage, StopPage,
         RenameConversationPage DEF UserStep
    <2>3. CASE \E c \in Calls : Serve(c) \/ Lose(c) \/ Commit(c)
      BY <1>1, <2>1, <2>3, ServeAndLose, CommitPage
    <2>4. ASSUME NEW c \in Calls, Arrival(c) PROVE Page'
      BY <1>1, <2>1, <2>4, UnusedAnswers, LoadEndsPage, ListedPage, HistoryEndsPage,
         DeleteEndsPage, RenameEndsPage, TextPage, FinalPage, DonePage, BreakPage DEF Arrival
    <2> QED BY <1>2, <2>2, <2>3, <2>4 DEF ClientNext
  <1>3. CASE UNCHANGED clientVars
    <2>1. UNCHANGED <<page, saved, status, told, remembered, sidebar, alert, call>>
      BY <1>3 DEF clientVars, server, screen, turn, lists, page
    <2>2. ~Overlap'
      BY <2>1 DEF Page, Overlap
    <2> QED BY <1>1, <2>1, <2>2, CalmPage DEF Page, Typed, Running
  <1> QED BY <1>2, <1>3

LEMMA TranscriptImplied == TInv => OneTranscript
  <1> SUFFICES ASSUME CInv, Page, ~loading PROVE OneTranscript
    BY DEF TInv, OneTranscript
  <1>1. detail # None => \A t \in told : t[1] = detail.id /\ t[2] # pending => t[2] \in ToSet(detail.turns)
    <2> SUFFICES ASSUME detail # None, NEW t \in told, t[1] = detail.id, t[2] # pending
                 PROVE  t[2] \in ToSet(detail.turns)
      OBVIOUS
    <2>1. t[2] \in Messages /\ t = <<t[1], t[2]>>
      BY DEF Page, Typed
    <2>2. t[2] \in ToldOf(detail.id)
      BY <2>1 DEF ToldOf
    <2> QED BY <2>2 DEF Page, Transcript
  <1> QED BY <1>1 DEF Page, Transcript, Running, OneTranscript

\* As long as no delete overlaps another call, the page shows the turns of the selected
\* conversation, all that it was told of and none that was not saved there, and the
\* running turn is that conversation's: whatever is late, lost or overtaken
\* (loadConversation, submitMessage and showSavedResponse of AmitaiApp.tsx).
THEOREM TranscriptIsOne == ClientSpec => []OneTranscript
  <1>1. InitClient => TInv
    BY InitTranscript
  <1>2. TInv /\ [ClientNext]_clientVars => TInv'
    BY StepTranscript
  <1>3. TInv => OneTranscript
    BY TranscriptImplied
  <1> QED BY <1>1, <1>2, <1>3, PTL DEF ClientSpec
=============================================================================
