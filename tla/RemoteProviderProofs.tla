----------------------- MODULE RemoteProviderProofs -----------------------
(***************************************************************************)
(* Proofs about InferenceStream and its remote clients (RemoteProvider),   *)
(* for any number of streams, callers, chunks and any size of the queue.   *)
(*                                                                         *)
(* First the service: the type invariant, that one caller at a time loads  *)
(* or uses the model, that a closed stream is clean, that what it streamed *)
(* is complete.  The strengthening IInv ties each lock to the place of its *)
(* holder in the provider (Locks) and the threads of a stream to each      *)
(* other (Threads).                                                        *)
(*                                                                         *)
(* Then the client: under it the service is still that of InferenceStream, *)
(* whatever happens to the connection, so what is proved of the service    *)
(* holds; and the client reports an answer only when it has all of it.     *)
(***************************************************************************)
EXTENDS RemoteProvider, SequenceTheorems, TLAPS


InModel(c) == call[c] \in {"generating", "yielded", "final", "closing", "failing"}

Locks(c) ==
  /\ At(c, "loading") => initialization_lock = c /\ ~engine
  /\ initialization_lock = c => At(c, "loading")
  /\ InModel(c) <=> generation_lock = c

Ready == initialization_state = "ready" <=> engine

Threads(s) ==
  /\ native[s] = "running" => InModel(s)
  /\ worker[s] \in {"none", "start"} => call[s] = "none"
  /\ worker[s] = "publish" => call[s] \in {"yielded", "final"}
  /\ worker[s] \in {"done", "exiting", "ended"} => call[s] \in {"none", "returned", "raised"}
  /\ consumer[s] = "new" => worker[s] = "none"
  /\ consumer[s] = "closed" => worker[s] = "ended"

Model == Ready /\ \A c \in Callers : Locks(c)

IInv == TypeOK /\ Model /\ \A s \in Streams : Threads(s)

-----------------------------------------------------------------------------
\* The strengthening implies what the runs check.
LEMMA Implied == IInv => OneModel /\ ClosedMeansClean
  <1> SUFFICES ASSUME IInv PROVE OneModel /\ ClosedMeansClean
    OBVIOUS
  <1> USE ProviderAssumption
  <1>1. \A c \in Callers : UsesModel(c) => generation_lock = c
    BY DEF IInv, Model, Locks, Threads, UsesModel, InModel
  <1>2. OneModel
    BY <1>1 DEF IInv, Model, Ready, Locks, OneModel
  <1>3. ClosedMeansClean
    BY DEF IInv, Model, Locks, Threads, ClosedMeansClean, InModel, At, Callers
  <1> QED BY <1>2, <1>3

LEMMA InitInvariant == Init => IInv
  <1> SUFFICES ASSUME Init PROVE IInv
    OBVIOUS
  <1> USE ProviderAssumption, QueueAssumption DEF Init, ProviderInit
  <1>1. TypeOK
    <2>1. ProviderTypeOK
      <3>1. engine \in BOOLEAN
        BY Zenon
      <3>2. items \in [Streams -> 0..MaxItems] /\ cancel_event \in [Streams -> BOOLEAN]
        OBVIOUS
      <3> QED BY <3>1, <3>2 DEF ProviderTypeOK, Labels
    <2>2. <<>> \in Seq(End .. Output) /\ Len(<<>>) <= Size /\ <<>> \in Seq(1 .. Output)
      OBVIOUS
    <2>3. /\ queue \in [Streams -> Seq(End .. Output)]
          /\ \A s \in Streams : Len(queue[s]) <= Size
          /\ got \in [Streams -> Seq(1 .. Output)]
      BY <2>2
    <2> QED BY <2>1, <2>3 DEF TypeOK
  <1>2. Model
    BY DEF Model, Ready, Locks, InModel, At, Callers
  <1>3. \A s \in Streams : Threads(s)
    BY DEF Threads, Callers
  <1> QED BY <1>1, <1>2, <1>3 DEF IInv

-----------------------------------------------------------------------------
(***************************************************************************)
(* Steps inside the provider.  Preload and Generate begin outside of it,   *)
(* the others of a stream at a label where its worker is driving.          *)
(***************************************************************************)
LEMMA ProviderTypes ==
  ASSUME IInv, Provide, UNCHANGED workerVars
  PROVE  TypeOK'
  <1> USE ProviderAssumption
          DEF IInv, TypeOK, ProviderTypeOK, Labels, load, Goto, At, Cancel, Callers, Engaged, Raised
  <1>1. UNCHANGED workerVars /\ ProviderTypeOK' => TypeOK'
    BY DEF workerVars
  <1>2. CASE Preload
    BY <1>1, <1>2 DEF Preload
  <1>3. ASSUME NEW c \in Callers, Step(c) PROVE TypeOK'
    <2>1. CASE GetEngine(c)
      BY <1>1, <2>1 DEF GetEngine
    <2>2. CASE Load(c)
      <3>1. engine' \in BOOLEAN
        BY <2>2, Zenon DEF Load
      <3>2. /\ initialization_state' \in {"unloaded", "loading", "ready", "failed"}
            /\ call' \in [Callers -> Labels]
            /\ native' = native /\ items' = items /\ cancel_event' = cancel_event
        BY <2>2 DEF Load
      <3>3. generation_lock' \in Callers \cup {Nobody} /\ initialization_lock' \in Callers \cup {Nobody}
        BY <2>2 DEF Load
      <3>4. /\ native' \in [Streams -> {"none", "running", "ended"}]
            /\ items' \in [Streams -> 0..MaxItems]
            /\ cancel_event' \in [Streams -> BOOLEAN]
        BY <3>2
      <3>5. ProviderTypeOK'
        BY <3>1, <3>2, <3>3, <3>4, Zenon
      <3> QED BY <1>1, <3>5, Zenon
    <2>3. CASE c \in Streams /\ GiveUp(c)
      BY <1>1, <2>3 DEF GiveUp
    <2>4. CASE c \in Streams /\ StartNative(c)
      <3>1. CASE Goto(c, "closing") /\ UNCHANGED <<native, cancel_event>>
        BY <1>1, <2>4, <3>1 DEF StartNative
      <3>2. CASE Goto(c, "failing") /\ Cancel(c) /\ UNCHANGED native
        BY <1>1, <2>4, <3>2 DEF StartNative
      <3>3. CASE native' = [native EXCEPT ![c] = "running"] /\ UNCHANGED <<call, cancel_event>>
        BY <1>1, <2>4, <3>3 DEF StartNative
      <3> QED BY <2>4, <3>1, <3>2, <3>3, Zenon DEF StartNative
    <2>5. CASE c \in Streams /\ Finish(c)
      BY <1>1, <2>5, ZenonT(60) DEF Finish
    <2>6. CASE c \in Streams /\ Release(c)
      BY <1>1, <2>6 DEF Release
    <2> QED BY <1>3, <2>1, <2>2, <2>3, <2>4, <2>5, <2>6 DEF Step
  <1>4. ASSUME NEW c \in Callers, Wait(c) PROVE TypeOK'
    <2>1. CASE Initialize(c)
      BY <1>1, <2>1 DEF Initialize
    <2>2. CASE Acquire(c)
      BY <1>1, <2>2 DEF Acquire
    <2>3. CASE Generate(c)
      BY <1>1, <2>3 DEF Generate
    <2>4. CASE Generated(c)
      BY <1>1, <2>4 DEF Generated
    <2>5. CASE c \in Streams /\ NativeEnds(c)
      BY <1>1, <2>5 DEF NativeEnds
    <2>6. CASE c \in Streams /\ Chunk(c)
      <3>1. items' \in [Streams -> 0..MaxItems]
        <4>1. items[c] + 1 \in 0..MaxItems
          BY <2>6 DEF Chunk
        <4>2. items' = items \/ items' = [items EXCEPT ![c] = items[c] + 1]
          BY <2>6, Zenon DEF Chunk
        <4> QED BY <4>1, <4>2
      <3>2. call' \in [Callers -> Labels]
        <4>1. call' = [call EXCEPT ![c] = "closing"] \/ call' = [call EXCEPT ![c] = "yielded"]
          BY <2>6, Zenon DEF Chunk
        <4> QED BY <4>1
      <3> QED BY <1>1, <2>6, <3>1, <3>2 DEF Chunk
    <2> QED BY <1>4, <2>1, <2>2, <2>3, <2>4, <2>5, <2>6 DEF Wait
  <1> QED BY <1>2, <1>3, <1>4 DEF Provide

LEMMA ProviderModel ==
  ASSUME IInv, Provide
  PROVE  Model'
  <1> USE ProviderAssumption
          DEF IInv, TypeOK, ProviderTypeOK, load, Goto, At, Callers, Engaged, Raised,
              Model, Ready, Locks, InModel
  <1>1. CASE Preload
    BY <1>1 DEF Preload
  <1>2. ASSUME NEW c \in Callers, Step(c) PROVE Model'
    <2>1. CASE GetEngine(c)
      BY <2>1 DEF GetEngine
    <2>2. CASE Load(c)
      <3>1. /\ \A d \in Callers \ {c} : call'[d] = call[d] /\ call[d] # "loading"
            /\ call'[c] \notin {"loading", "generating", "yielded", "final", "closing", "failing"}
            /\ generation_lock' = generation_lock /\ initialization_lock' = Nobody
        BY <2>2 DEF Load
      <3>2. generation_lock # c
        BY <2>2 DEF Load
      <3>3. \A d \in Callers : Locks(d)'
        BY <3>1, <3>2
      <3>4. Ready'
        <4>1. ~engine
          BY <2>2 DEF Load
        <4>2. CASE engine' = TRUE /\ initialization_state' = "ready"
          BY <4>2
        <4>3. CASE initialization_state' = "failed" /\ UNCHANGED engine
          BY <4>1, <4>3
        <4> QED BY <2>2, <4>2, <4>3 DEF Load
      <3> QED BY <3>3, <3>4
    <2>3. CASE c \in Streams /\ GiveUp(c)
      BY <2>3 DEF GiveUp
    <2>4. CASE c \in Streams /\ StartNative(c)
      BY <2>4 DEF StartNative
    <2>5. CASE c \in Streams /\ Finish(c)
      BY <2>5 DEF Finish
    <2>6. CASE c \in Streams /\ Release(c)
      BY <2>6 DEF Release
    <2> QED BY <1>2, <2>1, <2>2, <2>3, <2>4, <2>5, <2>6 DEF Step
  <1>3. ASSUME NEW c \in Callers, Wait(c) PROVE Model'
    <2>1. CASE Initialize(c)
      BY <2>1 DEF Initialize
    <2>2. CASE Acquire(c)
      BY <2>2 DEF Acquire
    <2>3. CASE Generate(c)
      BY <2>3 DEF Generate
    <2>4. CASE Generated(c)
      BY <2>4 DEF Generated
    <2>5. CASE c \in Streams /\ NativeEnds(c)
      BY <2>5 DEF NativeEnds
    <2>6. CASE c \in Streams /\ Chunk(c)
      BY <2>6 DEF Chunk
    <2> QED BY <1>3, <2>1, <2>2, <2>3, <2>4, <2>5, <2>6 DEF Wait
  <1> QED BY <1>1, <1>2, <1>3 DEF Provide

LEMMA ProviderThreads ==
  ASSUME IInv, Provide, UNCHANGED workerVars, NEW s \in Streams
  PROVE  Threads(s)'
  <1> USE ProviderAssumption
          DEF IInv, TypeOK, ProviderTypeOK, Goto, At, Callers, Engaged, Raised,
              Threads, InModel, workerVars
  <1>1. CASE Preload
    BY <1>1 DEF Preload
  <1>2. ASSUME NEW c \in Callers, Step(c) PROVE Threads(s)'
    <2>1. CASE GetEngine(c)
      BY <2>1 DEF GetEngine
    <2>2. CASE Load(c)
      BY <2>2 DEF Load
    <2>3. CASE c \in Streams /\ GiveUp(c)
      BY <2>3 DEF GiveUp
    <2>4. CASE c \in Streams /\ StartNative(c)
      BY <2>4 DEF StartNative
    <2>5. CASE c \in Streams /\ Finish(c)
      BY <2>5 DEF Finish
    <2>6. CASE c \in Streams /\ Release(c)
      BY <2>6 DEF Release
    <2> QED BY <1>2, <2>1, <2>2, <2>3, <2>4, <2>5, <2>6 DEF Step
  <1>3. ASSUME NEW c \in Callers, Wait(c) PROVE Threads(s)'
    <2>1. CASE Initialize(c)
      BY <2>1 DEF Initialize
    <2>2. CASE Acquire(c)
      BY <2>2 DEF Acquire
    <2>3. CASE Generate(c)
      BY <2>3 DEF Generate
    <2>4. CASE Generated(c)
      BY <2>4 DEF Generated
    <2>5. CASE c \in Streams /\ NativeEnds(c)
      BY <2>5 DEF NativeEnds
    <2>6. CASE c \in Streams /\ Chunk(c)
      BY <2>6 DEF Chunk
    <2> QED BY <1>3, <2>1, <2>2, <2>3, <2>4, <2>5, <2>6 DEF Wait
  <1> QED BY <1>1, <1>2, <1>3 DEF Provide

-----------------------------------------------------------------------------
(***************************************************************************)
(* Steps of the worker and of the consumer.                                *)
(***************************************************************************)
LEMMA StreamTypes ==
  ASSUME IInv, NEW s \in Streams, Produce(s) \/ Consume(s) \/ Open(s) \/ Resume(s) \/ Abandon(s)
  PROVE  TypeOK'
  <1> USE ProviderAssumption, QueueAssumption
          DEF IInv, TypeOK, ProviderTypeOK, Labels, load, providerVars, workerVars, Goto,
              Move, Enter, Cancel, Leave, Callers, Resumed, At
  <1>1. CASE StartWorker(s)
    BY <1>1 DEF StartWorker
  <1>2. CASE FirstItem(s)
    BY <1>2 DEF FirstItem, Stream
  <1>3. CASE Produced(s)
    BY <1>3, ZenonT(60) DEF Produced
  <1>4. CASE Put(s)
    <2> DEFINE item == IF At(s, "final") THEN Output ELSE items[s]
    <2>1. item \in End .. Output
      BY DEF End, Output
    <2>2. Append(queue[s], item) \in Seq(End .. Output) /\ Len(Append(queue[s], item)) <= Size
      BY <1>4, <2>1 DEF Put
    <2>3. queue' = [queue EXCEPT ![s] = Append(queue[s], item)]
      BY <1>4 DEF Put
    <2> HIDE DEF item
    <2>4. queue' \in [Streams -> Seq(End .. Output)] /\ \A q \in Streams : Len(queue'[q]) <= Size
      BY <2>2, <2>3
    <2> QED BY <1>4, <2>4 DEF Put, Published
  <1>5. CASE Drop(s)
    BY <1>5 DEF Drop, Published
  <1>6. CASE IteratorDone(s)
    BY <1>6 DEF IteratorDone
  <1>7. CASE Mark(s)
    BY <1>7 DEF Mark
  <1>8. CASE Exit(s)
    BY <1>8 DEF Exit
  <1>9. CASE MarkFinished(s)
    <2>1. <<End>> \in Seq(End .. Output) /\ Len(<<End>>) <= Size
      BY DEF End, Output
    <2>2. queue' \in [Streams -> Seq(End .. Output)] /\ \A q \in Streams : Len(queue'[q]) <= Size
      BY <1>9, <2>1 DEF MarkFinished
    <2> QED BY <1>9, <2>2 DEF MarkFinished
  <1>10. CASE Receive(s)
    <2>1. Head(queue[s]) \in 1 .. Output
      BY <1>10 DEF Receive, End, Output
    <2>2. Tail(queue[s]) \in Seq(End .. Output) /\ Len(Tail(queue[s])) <= Size
      BY <1>10 DEF Receive
    <2>3. Append(got[s], Head(queue[s])) \in Seq(1 .. Output)
      BY <2>1
    <2> QED BY <1>10, <2>2, <2>3 DEF Receive
  <1>11. CASE Stop(s)
    BY <1>11 DEF Stop
  <1>12. CASE Join(s)
    BY <1>12 DEF Join
  <1>13. CASE Open(s)
    BY <1>13 DEF Open
  <1>14. CASE Resume(s)
    BY <1>14 DEF Resume
  <1>15. CASE Abandon(s)
    BY <1>15 DEF Abandon
  <1> QED BY <1>1, <1>2, <1>3, <1>4, <1>5, <1>6, <1>7, <1>8, <1>9, <1>10, <1>11, <1>12,
             <1>13, <1>14, <1>15 DEF Produce, Consume

\* A worker moves its call only from one place in the model to another, or into
\* the provider.
LEMMA StreamModel ==
  ASSUME IInv, NEW s \in Streams, Produce(s) \/ Consume(s) \/ Open(s) \/ Resume(s) \/ Abandon(s)
  PROVE  Model'
  <1> USE ProviderAssumption
          DEF IInv, TypeOK, ProviderTypeOK, load, providerVars, Goto, At, Callers,
              Model, Ready, Locks, InModel
  <1>1. CASE UNCHANGED <<load, generation_lock, call>>
    BY <1>1
  <1>2. CASE FirstItem(s)
    BY <1>2 DEF FirstItem, Stream
  <1>3. CASE Produced(s)
    BY <1>3 DEF Produced
  <1>4. CASE Put(s) \/ Drop(s)
    BY <1>4 DEF Put, Drop, Published, Resumed, Threads
  <1>5. \/ FirstItem(s) \/ Produced(s) \/ Put(s) \/ Drop(s)
        \/ UNCHANGED <<load, generation_lock, call>>
    BY DEF Produce, Consume, StartWorker, IteratorDone, Mark, Exit, MarkFinished, Receive,
           Stop, Join, Open, Resume, Abandon, Leave
  <1> QED BY <1>1, <1>2, <1>3, <1>4, <1>5

LEMMA StreamThreads ==
  ASSUME IInv, NEW s \in Streams, Produce(s) \/ Consume(s) \/ Open(s) \/ Resume(s) \/ Abandon(s),
         NEW q \in Streams
  PROVE  Threads(q)'
  <1> USE ProviderAssumption
          DEF IInv, TypeOK, ProviderTypeOK, load, providerVars, workerVars, Goto, Move, Enter,
              At, Callers, Threads, InModel
  <1>1. CASE StartWorker(s)
    BY <1>1 DEF StartWorker
  <1>2. CASE FirstItem(s)
    BY <1>2 DEF FirstItem, Stream
  <1>3. CASE Produced(s)
    BY <1>3, SMTT(40) DEF Produced
  <1>4. CASE Put(s) \/ Drop(s)
    BY <1>4, SMTT(40) DEF Put, Drop, Published, Resumed
  <1>5. CASE IteratorDone(s)
    BY <1>5 DEF IteratorDone
  <1>6. CASE Mark(s)
    BY <1>6 DEF Mark
  <1>7. CASE Exit(s)
    BY <1>7 DEF Exit
  <1>8. CASE MarkFinished(s)
    BY <1>8 DEF MarkFinished
  <1>9. CASE Receive(s)
    BY <1>9 DEF Receive
  <1>10. CASE Stop(s) \/ Abandon(s)
    BY <1>10 DEF Stop, Abandon, Leave
  <1>11. CASE Join(s)
    BY <1>11 DEF Join
  <1>12. CASE Open(s)
    BY <1>12 DEF Open
  <1>13. CASE Resume(s)
    BY <1>13 DEF Resume
  <1> QED BY <1>1, <1>2, <1>3, <1>4, <1>5, <1>6, <1>7, <1>8, <1>9, <1>10, <1>11, <1>12,
             <1>13 DEF Produce, Consume

-----------------------------------------------------------------------------
LEMMA NextInvariant == IInv /\ [Next]_vars => IInv'
  <1> SUFFICES ASSUME IInv, [Next]_vars PROVE IInv'
    OBVIOUS
  <1>1. CASE Provide /\ UNCHANGED workerVars
    BY <1>1, ProviderTypes, ProviderModel, ProviderThreads DEF IInv
  <1>2. ASSUME NEW s \in Streams,
               Produce(s) \/ Consume(s) \/ Open(s) \/ Resume(s) \/ Abandon(s)
        PROVE  IInv'
    BY <1>2, StreamTypes, StreamModel, StreamThreads DEF IInv
  <1>3. CASE UNCHANGED vars
    BY <1>3 DEF vars, providerVars, load, workerVars, IInv, TypeOK, ProviderTypeOK, Model,
                Ready, Locks, InModel, Threads, At
  <1> QED BY <1>1, <1>2, <1>3 DEF Next

\* The strengthening holds throughout (stream_in_worker over _serialized_stream).
THEOREM InferenceInvariant == Spec => []IInv
  <1>1. IInv /\ [Next]_vars => IInv'
    BY NextInvariant
  <1> QED BY InitInvariant, <1>1, PTL DEF Spec

\* The locks, threads, queues and events keep their types, and the queue its bound
\* with the end marker in it (mark_finished).
THEOREM InferenceTypeCorrect == Spec => []TypeOK
  <1>1. IInv => TypeOK
    BY DEF IInv
  <1> QED BY InferenceInvariant, <1>1, PTL

\* The model is loaded once and used by one caller at a time (_get_engine and
\* _serialized_stream), for any number of streams and unstreamed calls.
THEOREM ModelIsOne == Spec => []OneModel
  <1>1. IInv => OneModel
    BY Implied
  <1> QED BY InferenceInvariant, <1>1, PTL

\* A stream that is closed has left no thread and no lock behind (the finally of
\* stream_in_worker).
THEOREM ClosedStreamsAreClean == Spec => []ClosedMeansClean
  <1>1. IInv => ClosedMeansClean
    BY Implied
  <1> QED BY InferenceInvariant, <1>1, PTL

-----------------------------------------------------------------------------
(***************************************************************************)
(* What a stream delivers.  While its consumer has not left, the items     *)
(* passed on and those queued are, together, what the generation wrote up  *)
(* to the place where its generator is (Contents); afterwards nothing of   *)
(* it changes any more (Final).                                            *)
(***************************************************************************)
Present(s) == consumer[s] \notin {"closing", "closed"}

Written(s, i) == IF i <= items[s] THEN i ELSE Output

\* n items have come out of the generator and been published.
Count(s, n) ==
  /\ call[s] \in {"closing", "returned"} => n = items[s] + 1
  /\ call[s] = "yielded" => n + 1 = items[s]
  /\ call[s] \notin {"closing", "returned", "yielded"} => n = items[s]

Marked(s) == queue[s] = <<End>>

Queued(s) ==
  \A i \in 1 .. Len(queue[s]), k \in Nat : k = Len(got[s]) + i => queue[s][i] = Written(s, k)

Amount(s, n) ==
  /\ Count(s, n)
  /\ Marked(s) => n = Len(got[s])
  /\ ~Marked(s) => n = Len(got[s]) + Len(queue[s]) /\ Queued(s)

Contents(s) ==
  /\ \A i \in 1 .. Len(got[s]) : got[s][i] = Written(s, i)
  /\ \E n \in Nat : Amount(s, n)

Course(s) ==
  /\ finished[s] => marked[s]
  /\ marked[s] => worker[s] \in {"exiting", "ended"}
  /\ Marked(s) => finished[s]
  /\ failed[s] => worker[s] \in {"done", "exiting", "ended"}
  /\ call[s] = "yielded" => items[s] > 0
  /\ Present(s) =>
       /\ outcome[s] = "none"
       /\ cancel_event[s] => call[s] \in {"failing", "raised"}
       /\ worker[s] \in {"done", "exiting", "ended"} =>
            /\ call[s] \in {"returned", "raised"}
            /\ failed[s] <=> call[s] = "raised"
  /\ ~Present(s) => cancel_event[s]

Delivered(s) ==
  LET n == Len(got[s]) IN
  /\ \A i \in 1 .. n : got[s][i] = i \/ (got[s][i] = Output /\ i = n /\ n = items[s] + 1)
  /\ outcome[s] = "end" => n > 0 /\ got[s][n] = Output
  /\ outcome[s] = "failure" => n = items[s]

Intact(s) == Course(s) /\ IF Present(s) THEN Contents(s) ELSE Delivered(s)

DInv == \A s \in Streams : Intact(s)

Inside == {"none", "engine", "initialize", "loading", "waiting", "generating"}

\* What a step inside the provider does to a stream.
Effect(s) ==
  \/ UNCHANGED <<call[s], items[s], cancel_event[s]>>
  \/ /\ call[s] \in Inside /\ call'[s] \in (Inside \ {"none"}) \cup {"failing", "raised"}
     /\ items'[s] = items[s]
     /\ cancel_event'[s] = cancel_event[s] \/ (cancel_event'[s] = TRUE /\ call'[s] = "failing")
  \/ /\ call[s] \in Inside /\ call'[s] \in {"closing", "returned"}
     /\ cancel_event[s] /\ UNCHANGED <<items[s], cancel_event[s]>>
  \/ /\ call[s] = "generating" /\ call'[s] = "yielded"
     /\ ~cancel_event[s] /\ UNCHANGED cancel_event[s] /\ items'[s] = items[s] + 1
  \/ /\ call[s] = "generating" /\ call'[s] = "final"
     /\ ~cancel_event[s] /\ UNCHANGED <<items[s], cancel_event[s]>>
  \/ /\ \/ call[s] = "closing" /\ call'[s] = "returned"
        \/ call[s] = "failing" /\ call'[s] = "raised"
     /\ UNCHANGED <<items[s], cancel_event[s]>>

LEMMA ProviderEffects ==
  ASSUME IInv, Provide, NEW s \in Streams
  PROVE  Effect(s)
  <1> USE ProviderAssumption
          DEF IInv, TypeOK, ProviderTypeOK, Goto, Cancel, At, Callers, Engaged, Raised,
              Effect, Inside
  <1>1. CASE Preload
    BY <1>1 DEF Preload
  <1>2. ASSUME NEW c \in Callers, Step(c) PROVE Effect(s)
    <2>1. CASE GetEngine(c)
      BY <2>1 DEF GetEngine
    <2>2. CASE Load(c)
      BY <2>2 DEF Load
    <2>3. CASE c \in Streams /\ GiveUp(c)
      BY <2>3 DEF GiveUp
    <2>4. CASE c \in Streams /\ StartNative(c)
      BY <2>4 DEF StartNative
    <2>5. CASE c \in Streams /\ Finish(c)
      BY <2>5 DEF Finish
    <2>6. CASE c \in Streams /\ Release(c)
      BY <2>6 DEF Release
    <2> QED BY <1>2, <2>1, <2>2, <2>3, <2>4, <2>5, <2>6 DEF Step
  <1>3. ASSUME NEW c \in Callers, Wait(c) PROVE Effect(s)
    <2>1. CASE Initialize(c)
      BY <2>1 DEF Initialize
    <2>2. CASE Acquire(c)
      BY <2>2 DEF Acquire
    <2>3. CASE Generate(c)
      BY <2>3 DEF Generate
    <2>4. CASE Generated(c)
      BY <2>4 DEF Generated
    <2>5. CASE c \in Streams /\ NativeEnds(c)
      BY <2>5 DEF NativeEnds
    <2>6. CASE c \in Streams /\ Chunk(c)
      BY <2>6 DEF Chunk
    <2> QED BY <1>3, <2>1, <2>2, <2>3, <2>4, <2>5, <2>6 DEF Wait
  <1> QED BY <1>1, <1>2, <1>3 DEF Provide

LEMMA ProviderDelivers ==
  ASSUME IInv, DInv, Provide, UNCHANGED workerVars
  PROVE  DInv'
  <1> SUFFICES ASSUME NEW s \in Streams PROVE Intact(s)'
    BY DEF DInv
  <1>1. Effect(s)
    BY ProviderEffects
  <1>2. /\ items[s] \in Nat /\ cancel_event[s] \in BOOLEAN /\ call[s] \in Labels
        /\ got \in [Streams -> Seq(1 .. Output)] /\ queue \in [Streams -> Seq(End .. Output)]
    BY DEF IInv, TypeOK, ProviderTypeOK, Callers
  <1>3. Course(s) /\ IF Present(s) THEN Contents(s) ELSE Delivered(s)
    BY DEF DInv, Intact
  <1>4. Threads(s)
    BY DEF IInv
  <1>5. Course(s)'
    BY <1>1, <1>2, <1>3, <1>4 DEF Effect, Inside, Course, Present, Marked, Threads, workerVars
  <1>6. CASE Present(s)
    <2>1. \A n \in Nat : Count(s, n) =>
            /\ Count(s, n)'
            /\ items'[s] = items[s] \/ (items'[s] = items[s] + 1 /\ n = items[s])
      BY <1>1, <1>2, <1>3, <1>6 DEF Effect, Inside, Count, Course
    <2>2. \A n \in Nat : Count(s, n) => \A i \in 1 .. n : Written(s, i)' = Written(s, i)
      BY <1>2, <2>1 DEF Written, Output
    <2>3. Contents(s)'
      <3>1. UNCHANGED <<got[s], queue[s]>> /\ (Marked(s)' <=> Marked(s)) /\ Contents(s)
        BY <1>3, <1>6 DEF Marked, workerVars
      <3>2. PICK n \in Nat : Amount(s, n)
        BY <3>1 DEF Contents
      <3>3. Count(s, n)' /\ \A i \in 1 .. n : Written(s, i)' = Written(s, i)
        BY <2>1, <2>2, <3>2 DEF Amount
      <3>4. Len(got[s]) <= n
        BY <1>2, <3>2 DEF Amount
      <3>5. \A i \in 1 .. Len(got[s]) : got[s][i] = Written(s, i)'
        BY <1>2, <3>1, <3>3, <3>4 DEF Contents
      <3>6. ~Marked(s) => \A i \in 1 .. Len(queue[s]), k \in Nat :
                            k = Len(got[s]) + i => queue[s][i] = Written(s, k)'
        BY <1>2, <3>2, <3>3 DEF Amount, Queued
      <3>7. ~Marked(s) => Queued(s)'
        BY <3>1, <3>6 DEF Queued
      <3>8. Amount(s, n)'
        BY <3>1, <3>2, <3>3, <3>7 DEF Amount
      <3> QED BY <3>1, <3>5, <3>8 DEF Contents
    <2> QED BY <1>5, <1>6, <2>3 DEF Intact, Present, workerVars
  <1>7. CASE ~Present(s)
    <2>1. Delivered(s)'
      BY <1>1, <1>3, <1>7 DEF Effect, Inside, Course, Present, Delivered, workerVars
    <2> QED BY <1>5, <1>7, <2>1 DEF Intact, Present, workerVars
  <1> QED BY <1>6, <1>7

\* What is passed on while the consumer is there is as it should be, too.
LEMMA DeliveredInFull ==
  ASSUME IInv, NEW s \in Streams, Intact(s)
  PROVE  Delivered(s)
  <1>1. CASE Present(s)
    <2>1. /\ items[s] \in Nat /\ got \in [Streams -> Seq(1 .. Output)]
          /\ queue \in [Streams -> Seq(End .. Output)]
      BY DEF IInv, TypeOK, ProviderTypeOK
    <2>2. Contents(s) /\ outcome[s] = "none"
      BY <1>1 DEF Intact, Course
    <2>3. Len(got[s]) <= items[s] + 1
      <3>1. PICK n \in Nat : Count(s, n) /\ Len(got[s]) <= n
        BY <2>1, <2>2 DEF Contents, Amount
      <3> QED BY <2>1, <3>1 DEF Count
    <2>4. ASSUME NEW i \in 1 .. Len(got[s])
          PROVE  got[s][i] = i \/ (got[s][i] = Output /\ i = Len(got[s]) /\ Len(got[s]) = items[s] + 1)
      <3>1. got[s][i] = Written(s, i)
        BY <2>2 DEF Contents
      <3> QED BY <2>1, <2>3, <3>1 DEF Written
    <2> QED BY <2>2, <2>4 DEF Delivered
  <1> QED BY <1>1 DEF Intact

\* A step of one stream leaves the others alone.
LEMMA OthersKept ==
  ASSUME IInv, NEW s \in Streams, NEW q \in Streams \ {s},
         Produce(s) \/ Consume(s) \/ Open(s) \/ Resume(s) \/ Abandon(s)
  PROVE  UNCHANGED <<worker[q], queue[q], marked[q], finished[q], failed[q], consumer[q],
                     outcome[q], got[q], call[q], items[q], cancel_event[q]>>
  <1> USE DEF load, providerVars, workerVars, Goto, Move, Enter, Cancel, IInv, TypeOK,
              ProviderTypeOK, Callers
  <1>1. CASE StartWorker(s)
    BY <1>1 DEF StartWorker
  <1>2. CASE FirstItem(s)
    BY <1>2 DEF FirstItem, Stream
  <1>3. CASE Produced(s)
    BY <1>3 DEF Produced
  <1>4. CASE Put(s)
    BY <1>4 DEF Put, Published
  <1>5. CASE Drop(s)
    BY <1>5 DEF Drop, Published
  <1>6. CASE IteratorDone(s)
    BY <1>6 DEF IteratorDone
  <1>7. CASE Mark(s)
    BY <1>7 DEF Mark
  <1>8. CASE Exit(s)
    BY <1>8 DEF Exit
  <1>9. CASE MarkFinished(s)
    BY <1>9 DEF MarkFinished
  <1>10. CASE Receive(s)
    BY <1>10 DEF Receive
  <1>11. CASE Stop(s) \/ Abandon(s)
    BY <1>11 DEF Stop, Abandon, Leave
  <1>12. CASE Join(s)
    BY <1>12 DEF Join
  <1>13. CASE Open(s)
    BY <1>13 DEF Open
  <1>14. CASE Resume(s)
    BY <1>14 DEF Resume
  <1> QED BY <1>1, <1>2, <1>3, <1>4, <1>5, <1>6, <1>7, <1>8, <1>9, <1>10, <1>11, <1>12,
             <1>13, <1>14 DEF Produce, Consume

LEMMA Appended ==
  ASSUME NEW S, NEW q \in Seq(S), NEW x
  PROVE  /\ Len(Append(q, x)) = Len(q) + 1
         /\ \A i \in 1 .. Len(q) : Append(q, x)[i] = q[i]
         /\ Append(q, x)[Len(q) + 1] = x
  OBVIOUS

LEMMA StreamDelivers ==
  ASSUME IInv, DInv, NEW s \in Streams,
         Produce(s) \/ Consume(s) \/ Open(s) \/ Resume(s) \/ Abandon(s)
  PROVE  Intact(s)'
  <1> USE ProviderAssumption
          DEF load, providerVars, Goto, Move, Enter, At, Cancel
  <1>1. /\ got \in [Streams -> Seq(1 .. Output)] /\ queue \in [Streams -> Seq(End .. Output)]
        /\ items \in [Streams -> Nat] /\ cancel_event \in [Streams -> BOOLEAN]
        /\ call \in [Callers -> Labels] /\ s \in Callers
        /\ worker \in [Streams -> {"none", "start", "iterating", "publish", "closing", "done",
                                 "exiting", "ended"}]
        /\ marked \in [Streams -> BOOLEAN] /\ finished \in [Streams -> BOOLEAN]
        /\ failed \in [Streams -> BOOLEAN]
        /\ consumer \in [Streams -> {"new", "reading", "suspended", "closing", "closed"}]
        /\ outcome \in [Streams -> {"none", "end", "failure", "left"}]
    BY DEF IInv, TypeOK, ProviderTypeOK, Callers
  <1>2. Threads(s)
    BY DEF IInv
  <1>3. Course(s) /\ IF Present(s) THEN Contents(s) ELSE Delivered(s)
    BY DEF DInv, Intact
  \* Steps that write nothing of what is delivered.
  <1>4. ASSUME UNCHANGED <<got[s], queue[s], items[s], outcome[s], call[s], Present(s)>>, Course(s)'
        PROVE  Intact(s)'
    <2>1. Contents(s)' <=> Contents(s)
      BY <1>4 DEF Contents, Amount, Queued, Marked, Count, Written
    <2>2. Delivered(s)' <=> Delivered(s)
      BY <1>4 DEF Delivered
    <2> QED BY <1>3, <1>4, <2>1, <2>2, Zenon DEF Intact
  <1>5. CASE StartWorker(s)
    BY <1>1, <1>2, <1>3, <1>4, <1>5 DEF StartWorker, Course, Present, Marked, Threads
  <1>6. CASE IteratorDone(s)
    BY <1>1, <1>2, <1>3, <1>4, <1>6 DEF IteratorDone, Course, Present, Marked, Threads
  <1>7. CASE Mark(s)
    BY <1>1, <1>2, <1>3, <1>4, <1>7 DEF Mark, Course, Present, Marked, Threads
  <1>8. CASE Exit(s)
    BY <1>1, <1>2, <1>3, <1>4, <1>8 DEF Exit, Course, Present, Marked, Threads
  <1>9. CASE Join(s)
    BY <1>1, <1>2, <1>3, <1>4, <1>9 DEF Join, Course, Present, Marked, Threads
  <1>10. CASE Open(s)
    BY <1>1, <1>2, <1>3, <1>4, <1>10 DEF Open, Course, Present, Marked, Threads
  <1>11. CASE Resume(s)
    BY <1>1, <1>2, <1>3, <1>4, <1>11 DEF Resume, Course, Present, Marked, Threads
  \* Steps that publish nothing but move in the provider.
  <1>12. ASSUME UNCHANGED <<got[s], queue[s], items[s], outcome[s], Present(s)>>, Course(s)',
                Present(s) => \A n \in Nat : Count(s, n) => Count(s, n)'
         PROVE  Intact(s)'
    <2>1. ASSUME Present(s), Contents(s) PROVE Contents(s)'
      <3>1. \A n \in Nat : Count(s, n) => Count(s, n)'
        BY <1>12, <2>1
      <3>2. \A k : Written(s, k)' = Written(s, k)
        BY <1>12 DEF Written
      <3>3. (Marked(s)' <=> Marked(s)) /\ (Queued(s)' <=> Queued(s))
        BY <1>12, <3>2 DEF Marked, Queued
      <3>4. \A n \in Nat : Amount(s, n) => Amount(s, n)'
        BY <1>12, <3>1, <3>3 DEF Amount
      <3> QED BY <1>12, <2>1, <3>2, <3>4 DEF Contents
    <2>2. Delivered(s)' <=> Delivered(s)
      BY <1>12 DEF Delivered
    <2> QED BY <1>3, <1>12, <2>1, <2>2, Zenon DEF Intact
  <1>13. CASE FirstItem(s)
    <2>1. Course(s)'
      BY <1>1, <1>2, <1>3, <1>13 DEF FirstItem, Stream, Course, Present, Marked, Threads, workerVars
    <2>2. Present(s) => \A n \in Nat : Count(s, n) => Count(s, n)'
      <3>1. Present(s) => call[s] = "none" /\ call'[s] = "engine" /\ items'[s] = items[s]
        BY <1>1, <1>3, <1>13 DEF FirstItem, Stream, Course
      <3> QED BY <3>1 DEF Count
    <2> QED BY <1>12, <1>13, <2>1, <2>2 DEF FirstItem, Stream, workerVars, Present
  <1>14. CASE Produced(s)
    <2>1. Course(s)'
      BY <1>1, <1>2, <1>3, <1>14 DEF Produced, Course, Present, Marked, Threads
    <2>2. Present(s) => \A n \in Nat : Count(s, n) => Count(s, n)'
      BY <1>1, <1>3, <1>14 DEF Produced, Course, Count
    <2> QED BY <1>12, <1>14, <2>1, <2>2 DEF Produced, Present
  <1>15. CASE Drop(s)
    <2>1. ~Present(s) /\ call'[s] \in {"generating", "closing"}
      BY <1>1, <1>2, <1>3, <1>15 DEF Drop, Published, Resumed, Course, Threads
    <2>2. Course(s)'
      BY <1>1, <1>3, <1>15, <2>1 DEF Drop, Published, Course, Present, Marked
    <2> QED BY <1>12, <1>15, <2>1, <2>2 DEF Drop, Published, Present
  <1>16. CASE MarkFinished(s)
    <2>1. ~Marked(s)
      BY <1>3, <1>16 DEF MarkFinished, Course
    <2>2. Course(s)'
      BY <1>1, <1>3, <1>16 DEF MarkFinished, Course, Present, Marked
    <2>3. UNCHANGED <<got[s], items[s], outcome[s], call[s], Present(s)>>
      BY <1>16 DEF MarkFinished, Present
    <2>4. CASE queue[s] = <<>>
      <3>1. Marked(s)' /\ Len(queue[s]) = 0
        BY <1>1, <1>16, <2>4 DEF MarkFinished, Marked
      <3>2. Contents(s) => Contents(s)'
        BY <1>1, <2>1, <2>3, <3>1 DEF Contents, Amount, Count, Written
      <3>3. Delivered(s)' <=> Delivered(s)
        BY <2>3 DEF Delivered
      <3> QED BY <1>3, <2>2, <2>3, <3>2, <3>3, Zenon DEF Intact
    <2>5. CASE queue[s] # <<>>
      BY <1>1, <1>4, <1>16, <2>2, <2>3, <2>5 DEF MarkFinished
    <2> QED BY <2>4, <2>5
  <1>17. CASE Stop(s) \/ Abandon(s)
    <2>1. Present(s) /\ ~Present(s)' /\ cancel_event'[s]
      BY <1>1, <1>17 DEF Stop, Abandon, Leave, Present
    <2>2. Course(s)'
      BY <1>1, <1>3, <1>17, <2>1 DEF Stop, Abandon, Leave, Course, Marked
    <2>3. UNCHANGED <<got[s], items[s]>>
      BY <1>17 DEF Stop, Abandon, Leave
    <2>4. Delivered(s)
      BY <1>3, DeliveredInFull DEF Intact
    <2>5. CASE outcome'[s] = "left"
      BY <2>1, <2>2, <2>3, <2>4, <2>5 DEF Intact, Delivered
    <2>6. CASE Stop(s)
      <3>1. queue[s] = <<>> \/ Marked(s)
        <4>1. ASSUME queue[s] # <<>>, ~Marked(s) PROVE Head(queue[s]) # End
          <5>1. Head(queue[s]) = queue[s][1] /\ 1 \in 1 .. Len(queue[s])
            BY <1>1, <4>1
          <5>2. PICK k \in Nat : k = Len(got[s]) + 1
            BY <1>1
          <5>3. queue[s][1] = Written(s, k)
            BY <1>3, <2>1, <4>1, <5>1, <5>2 DEF Contents, Amount, Queued
          <5>4. Written(s, k) # 0
            BY <5>2, <1>1 DEF Written, Output
          <5> QED BY <5>1, <5>3, <5>4 DEF End
        <4> QED BY <2>6, <4>1 DEF Stop
      <3>2. finished[s]
        BY <1>1, <1>3, <2>6, <3>1 DEF Stop, Course, Marked
      <3>3. /\ call[s] \in {"returned", "raised"}
            /\ outcome'[s] = IF call[s] = "raised" THEN "failure" ELSE "end"
        BY <1>1, <1>3, <2>1, <2>6, <3>2 DEF Stop, Leave, Course
      <3>4. Count(s, Len(got[s]))
        BY <1>1, <1>3, <2>1, <3>1 DEF Contents, Amount
      <3>5. \A i \in 1 .. Len(got[s]) : got[s][i] = Written(s, i)
        BY <1>3, <2>1 DEF Contents
      <3>6. PICK n \in Nat : n = Len(got[s])
        BY <1>1
      <3>7. n = IF call[s] = "raised" THEN items[s] ELSE items[s] + 1
        BY <3>3, <3>4, <3>6 DEF Count
      <3>8. outcome'[s] = "end" => n > 0 /\ got[s][n] = Output
        BY <1>1, <3>3, <3>5, <3>6, <3>7 DEF Written
      <3>9. outcome'[s] = "failure" => n = items[s]
        BY <3>3, <3>7
      <3>10. Delivered(s)'
        BY <2>3, <2>4, <3>6, <3>8, <3>9 DEF Delivered
      <3> QED BY <2>1, <2>2, <3>10 DEF Intact
    <2> QED BY <1>1, <1>17, <2>5, <2>6 DEF Abandon, Leave
  <1>18. CASE Put(s)
    <2> DEFINE item == IF At(s, "final") THEN Output ELSE items[s]
    <2>1. call[s] \in {"yielded", "final"} /\ ~Marked(s) /\ item \in Nat \ {0}
      BY <1>1, <1>2, <1>3, <1>18 DEF Put, Threads, Course, Output
    <2>2. queue'[s] = Append(queue[s], item)
      BY <1>1, <1>18 DEF Put
    <2> HIDE DEF item
    <2>3. ~Marked(s)'
      <3>1. Len(queue'[s]) = 1 => queue'[s][1] = item
        BY <1>1, <2>1, <2>2, Appended
      <3> QED BY <2>1, <3>1 DEF Marked, End
    <2>4. Course(s)'
      BY <1>1, <1>3, <1>18, <2>1, <2>3 DEF Put, Published, Resumed, Course, Present
    <2>5. UNCHANGED <<got[s], items[s], outcome[s], Present(s)>>
      BY <1>18 DEF Put, Published, Present
    <2>6. ASSUME Present(s) PROVE Contents(s)'
      <3>1. PICK n \in Nat :
              /\ Count(s, n)
              /\ n = Len(got[s]) + Len(queue[s])
              /\ \A i \in 1 .. Len(queue[s]), k \in Nat :
                   k = Len(got[s]) + i => queue[s][i] = Written(s, k)
        BY <1>3, <2>1, <2>6 DEF Contents, Amount, Queued
      <3>2. Count(s, n + 1)' /\ \A k \in Nat : k = n + 1 => item = Written(s, k)
        <4>1. CASE call[s] = "final"
          <5>1. n = items[s] /\ call'[s] = "closing" /\ item = Output
            BY <1>1, <1>18, <3>1, <4>1 DEF Put, Published, Resumed, Count, item
          <5> QED BY <1>1, <2>5, <5>1 DEF Count, Written
        <4>2. CASE call[s] = "yielded"
          <5>1. n + 1 = items[s] /\ call'[s] = "generating" /\ item = items[s]
            BY <1>1, <1>18, <3>1, <4>2 DEF Put, Published, Resumed, Count, item
          <5> QED BY <1>1, <2>5, <5>1 DEF Count, Written
        <4> QED BY <2>1, <4>1, <4>2
      <3>3. \A i \in 1 .. Len(queue'[s]), k \in Nat :
              k = Len(got[s]) + i => queue'[s][i] = Written(s, k)
        <4> SUFFICES ASSUME NEW i \in 1 .. Len(queue'[s]), NEW k \in Nat, k = Len(got[s]) + i
                     PROVE  queue'[s][i] = Written(s, k)
          OBVIOUS
        <4>1. Len(queue'[s]) = Len(queue[s]) + 1
          BY <1>1, <2>2, Appended
        <4>2. CASE i \in 1 .. Len(queue[s])
          BY <1>1, <2>2, <3>1, <4>2, Appended
        <4>3. CASE i = Len(queue[s]) + 1
          <5>1. queue'[s][i] = item
            BY <1>1, <2>2, <4>3, Appended
          <5>2. k = n + 1
            BY <1>1, <3>1, <4>3
          <5> QED BY <3>2, <5>1, <5>2
        <4> QED BY <1>1, <4>1, <4>2, <4>3
      <3>4. n + 1 = Len(got[s]) + Len(queue'[s])
        BY <1>1, <2>1, <2>2, <3>1
      <3>5. \A k : Written(s, k)' = Written(s, k)
        BY <2>5 DEF Written
      <3>6. PICK t \in Nat : t = n + 1
        OBVIOUS
      <3>7. got'[s] = got[s] /\ \A i \in 1 .. Len(got[s]) : got[s][i] = Written(s, i)
        BY <1>3, <2>5, <2>6 DEF Contents
      <3>8. Queued(s)'
        BY <3>3, <3>5, <3>7 DEF Queued
      <3>9. Amount(s, t)'
        BY <2>3, <3>2, <3>4, <3>6, <3>7, <3>8 DEF Amount
      <3> QED BY <3>5, <3>7, <3>9 DEF Contents
    <2>7. Delivered(s)' <=> Delivered(s)
      BY <2>5 DEF Delivered
    <2> QED BY <1>3, <2>4, <2>5, <2>6, <2>7, Zenon DEF Intact
  <1>19. CASE Receive(s)
    <2> DEFINE item == Head(queue[s])
    <2>1. /\ Present(s) /\ Present(s)' /\ queue[s] # <<>> /\ item # End
          /\ queue'[s] = Tail(queue[s]) /\ got'[s] = Append(got[s], item)
          /\ UNCHANGED <<items[s], call[s]>>
      BY <1>1, <1>19 DEF Receive, Present
    <2>2. ~Marked(s)
      BY <2>1 DEF Marked
    <2>3. /\ item = queue[s][1] /\ Len(queue[s]) > 0
          /\ Len(queue'[s]) = Len(queue[s]) - 1
          /\ \A i \in 1 .. Len(queue'[s]) : queue'[s][i] = queue[s][i + 1]
      BY <1>1, <2>1
    <2> HIDE DEF item
    <2>4. PICK n \in Nat :
            /\ Count(s, n)
            /\ n = Len(got[s]) + Len(queue[s])
            /\ \A i \in 1 .. Len(queue[s]), k \in Nat :
                 k = Len(got[s]) + i => queue[s][i] = Written(s, k)
      BY <1>3, <2>1, <2>2 DEF Contents, Amount, Queued
    <2>5. /\ Count(s, n)' /\ \A k : Written(s, k)' = Written(s, k)
      BY <2>1, <2>4 DEF Count, Written
    <2>6. n = Len(got'[s]) + Len(queue'[s])
      BY <1>1, <2>1, <2>3, <2>4, Appended
    <2>7. ASSUME NEW i \in 1 .. Len(queue'[s]), NEW k \in Nat, k = Len(got'[s]) + i
          PROVE  queue'[s][i] = Written(s, k)
      <3>1. i + 1 \in 1 .. Len(queue[s]) /\ k = Len(got[s]) + (i + 1)
        BY <1>1, <2>1, <2>3, <2>7, Appended
      <3> QED BY <2>3, <2>4, <2>7, <3>1
    <2>8. ~Marked(s)'
      <3>1. PICK k \in Nat : k = Len(got'[s]) + 1
        BY <1>1, <2>1, Appended
      <3>2. queue'[s] = <<End>> => queue'[s][1] = Written(s, k)
        BY <2>7, <3>1
      <3> QED BY <1>1, <3>1, <3>2 DEF Marked, Written, End, Output
    <2>9. ASSUME NEW i \in 1 .. Len(got'[s]) PROVE got'[s][i] = Written(s, i)
      <3>1. CASE i \in 1 .. Len(got[s])
        BY <1>1, <1>3, <2>1, <3>1, Appended DEF Contents
      <3>2. CASE i = Len(got[s]) + 1
        <4>1. got'[s][i] = queue[s][1]
          BY <1>1, <2>1, <2>3, <3>2, Appended
        <4>2. 1 \in 1 .. Len(queue[s]) /\ i \in Nat /\ i = Len(got[s]) + 1
          BY <1>1, <2>3, <3>2
        <4> QED BY <2>4, <4>1, <4>2
      <3> QED BY <1>1, <2>1, <3>1, <3>2, Appended
    <2>10. Contents(s)'
      <3>1. Queued(s)'
        BY <2>5, <2>7 DEF Queued
      <3>2. Amount(s, n)'
        BY <2>5, <2>6, <2>8, <3>1 DEF Amount
      <3> QED BY <2>5, <2>9, <3>2 DEF Contents
    <2>11. Course(s)'
      BY <1>1, <1>3, <1>19, <2>1, <2>8 DEF Receive, Course
    <2> QED BY <2>1, <2>10, <2>11 DEF Intact
  <1> QED BY <1>5, <1>6, <1>7, <1>8, <1>9, <1>10, <1>11, <1>13, <1>14, <1>15, <1>16, <1>17,
             <1>18, <1>19 DEF Produce, Consume

LEMMA NextDelivers ==
  ASSUME IInv, DInv, [Next]_vars
  PROVE  DInv'
  <1>1. CASE Provide /\ UNCHANGED workerVars
    BY <1>1, ProviderDelivers
  <1>2. ASSUME NEW s \in Streams,
               Produce(s) \/ Consume(s) \/ Open(s) \/ Resume(s) \/ Abandon(s)
        PROVE  DInv'
    <2> SUFFICES ASSUME NEW q \in Streams PROVE Intact(q)'
      BY DEF DInv
    <2>1. CASE q = s
      BY <1>2, <2>1, StreamDelivers
    <2>2. CASE q # s
      <3>1. UNCHANGED <<worker[q], queue[q], marked[q], finished[q], failed[q], consumer[q],
                        outcome[q], got[q], call[q], items[q], cancel_event[q]>>
        BY <1>2, <2>2, OthersKept
      <3>2. (Course(q)' <=> Course(q)) /\ (Delivered(q)' <=> Delivered(q))
            /\ (Present(q)' <=> Present(q))
        BY <3>1 DEF Course, Delivered, Present, Marked
      <3>3. Contents(q)' <=> Contents(q)
        BY <3>1 DEF Contents, Amount, Queued, Marked, Count, Written
      <3> QED BY <3>2, <3>3, Zenon DEF DInv, Intact
    <2> QED BY <2>1, <2>2
  <1>3. CASE UNCHANGED vars
    <2> SUFFICES ASSUME NEW q \in Streams PROVE Intact(q)'
      BY DEF DInv
    <2>1. UNCHANGED <<worker, queue, marked, finished, failed, consumer, outcome, got, call,
                      items, cancel_event>>
      BY <1>3 DEF vars, providerVars, workerVars
    <2>2. (Course(q)' <=> Course(q)) /\ (Delivered(q)' <=> Delivered(q))
          /\ (Present(q)' <=> Present(q))
      BY <2>1 DEF Course, Delivered, Present, Marked
    <2>3. Contents(q)' <=> Contents(q)
      BY <2>1 DEF Contents, Amount, Queued, Marked, Count, Written
    <2> QED BY <2>2, <2>3, Zenon DEF DInv, Intact
  <1> QED BY <1>1, <1>2, <1>3 DEF Next

LEMMA InitDelivers == Init => DInv
  <1> SUFFICES ASSUME Init, NEW s \in Streams PROVE Intact(s)
    BY DEF DInv
  <1>1. /\ call[s] = "none" /\ items[s] = 0 /\ ~cancel_event[s] /\ queue[s] = <<>>
        /\ worker[s] = "none" /\ ~marked[s] /\ ~finished[s] /\ ~failed[s]
        /\ consumer[s] = "new" /\ outcome[s] = "none" /\ got[s] = <<>>
    BY DEF Init, ProviderInit, Callers
  <1>2. ~Marked(s) /\ Present(s) /\ Course(s)
    BY <1>1 DEF Marked, Present, Course
  <1>3. Count(s, 0) /\ 0 \in Nat /\ 0 = Len(got[s]) + Len(queue[s])
    BY <1>1 DEF Count
  <1>4. Contents(s)
    BY <1>1, <1>2, <1>3 DEF Contents, Amount, Queued
  <1> QED BY <1>2, <1>4 DEF Intact

\* The strengthening for what is delivered holds throughout (publish, mark_finished and
\* the loop of stream_in_worker).
THEOREM DeliveryInvariant == Spec => []DInv
  <1>1. IInv /\ DInv /\ [Next]_vars => DInv'
    BY NextDelivers
  <1> QED BY InferenceInvariant, InitDelivers, <1>1, PTL DEF Spec

\* What arrives is what was written, without a gap, and all of it when the stream ends
\* by itself (publish, mark_finished and the loop of stream_in_worker), for any
\* number of chunks and any size of the queue.
THEOREM StreamsAreComplete == Spec => []StreamedInFull
  <1>1. IInv /\ DInv => StreamedInFull
    <2> SUFFICES ASSUME IInv, DInv PROVE StreamedInFull
      OBVIOUS
    <2>1. \A s \in Streams : Delivered(s)
      BY DeliveredInFull DEF DInv
    <2> QED BY <2>1 DEF StreamedInFull, Delivered
  <1> QED BY InferenceInvariant, DeliveryInvariant, <1>1, PTL

-----------------------------------------------------------------------------

(***************************************************************************)
(* A step of the composition is a step of the service or leaves it alone:  *)
(* requests open a consumer, reading on resumes it, a client that has gone *)
(* closes it.                                                              *)
(***************************************************************************)
LEMMA ServiceStep == [RemoteNext]_<<vars, remoteVars>> => [Next]_vars
  <1> SUFFICES ASSUME [RemoteNext]_<<vars, remoteVars>> PROVE [Next]_vars
    OBVIOUS
  <1>1. ASSUME NEW s \in Streams, Request(s) \/ Send(s) \/ Disconnected(s) PROVE Next
    BY <1>1 DEF Request, Send, Disconnected, Next
  <1>2. ASSUME NEW s \in Streams,
               Answer(s) \/ Cut(s) \/ ClientStep(s) \/ Interrupt(s) \/ CancelTurn(s)
        PROVE  UNCHANGED vars
    BY <1>2 DEF Answer, Cut, ClientStep, Interrupt, CancelTurn, Begin, Refused, Connected,
                GiveUpReading, ReadEvent, ReadEnd, Take
  <1> QED BY <1>1, <1>2 DEF RemoteNext, Next

\* The service under remote clients is the one that InferenceStream specifies, its
\* fairness included: a client only opens, reads on and leaves.
THEOREM RemoteServiceIsAService == RemoteSpec => Spec
  <1>1. RemoteInit => Init
    BY DEF RemoteInit
  <1> QED BY <1>1, ServiceStep, PTL DEF RemoteSpec, Spec

-----------------------------------------------------------------------------
(***************************************************************************)
(* What the client has got.  The deltas read and those on the wire are the *)
(* beginning of what the consumer passed on, in order (Following), and all *)
(* of it as long as the connection is open (Keeping); a final event is the *)
(* last one and holds the text.                                            *)
(***************************************************************************)
Texts == Seq(1 .. Output)
Events == [event : {"delta", "final", "error"}, data : Texts]
Clients == [pc : {"idle", "connecting", "reading", "suspended", "done"}, chunks : Texts,
            final : Texts, result : {"none", "output", "failed", "cancelled"}]

RemoteTypeOK ==
  /\ remote \in [Streams -> Clients]
  /\ cancelled \in [Streams -> BOOLEAN]
  /\ link \in [Streams -> {"none", "open", "closed", "eof", "broken"}]
  /\ wire \in [Streams -> Seq(Events)]

OnTheWire(s, j) ==
  LET e == wire[s][j] IN
  \/ /\ e.event = "delta" /\ Len(e.data) = 1
     /\ \A n \in Nat : n = Len(remote[s].chunks) + j =>
          n <= Len(got[s]) /\ e.data[1] = got[s][n]
  \/ /\ e.event # "delta" /\ j = Len(wire[s])
     /\ link[s] # "open" /\ consumer[s] = "closed"
     /\ e.event = "final" => outcome[s] = "end" /\ e.data = Front(got[s])

Following(s) ==
  /\ Len(remote[s].chunks) <= Len(got[s])
  /\ \A i \in 1 .. Len(remote[s].chunks) : remote[s].chunks[i] = got[s][i]
  /\ \A j \in 1 .. Len(wire[s]) : OnTheWire(s, j)

\* n chunks of the stream were sent, and it has come no further.
Sent(s, n) ==
  /\ consumer[s] = "suspended" => n + 1 = Len(got[s])
  /\ consumer[s] \in {"new", "reading"} =>
       n = Len(got[s]) \/ (Len(got[s]) > 0 /\ got[s][Len(got[s])] = Output)

Ended(s) == consumer[s] = "closed" /\ outcome[s] = "end"

Keeping(s) ==
  /\ remote[s].pc = "idle" =>
       /\ link[s] = "none" /\ wire[s] = <<>> /\ remote[s].chunks = <<>>
       /\ consumer[s] = "new"
  /\ link[s] = "open" =>
       \A n \in Nat : n = Len(remote[s].chunks) + Len(wire[s]) => Sent(s, n)
  /\ consumer[s] = "new" => got[s] = <<>>
  /\ remote[s].final # <<>> => Ended(s) /\ remote[s].final = Front(got[s])
  /\ remote[s].result = "output" =>
       remote[s].pc = "done" /\ Ended(s) /\ got[s] = Append(remote[s].chunks, Output)

RInv == RemoteTypeOK /\ \A s \in Streams : Following(s) /\ Keeping(s)

LEMMA PrefixFacts ==
  ASSUME NEW S, NEW s \in Seq(S), NEW t \in Seq(S), Len(s) <= Len(t),
         \A i \in 1 .. Len(s) : s[i] = t[i]
  PROVE  IsPrefix(s, t)
  <1>1. SubSeq(s, 1, Len(s)) \in Seq(S) /\ SubSeq(t, 1, Len(s)) \in Seq(S)
    BY SubSeqProperties
  <1>2. Len(SubSeq(s, 1, Len(s))) = Len(s) /\ Len(SubSeq(t, 1, Len(s))) = Len(s)
    BY SubSeqProperties
  <1>3. \A i \in 1 .. Len(s) : SubSeq(s, 1, Len(s))[i] = SubSeq(t, 1, Len(s))[i]
    BY SubSeqProperties
  <1>4. SubSeq(s, 1, Len(s)) = SubSeq(t, 1, Len(s))
    BY <1>1, <1>2, <1>3, SeqEqual
  <1> QED BY <1>4 DEF IsPrefix

LEMMA SubSeqFacts ==
  ASSUME NEW S, NEW t \in Seq(S), NEW n \in 0 .. Len(t)
  PROVE  Len(SubSeq(t, 1, n)) = n /\ \A i \in 1 .. n : SubSeq(t, 1, n)[i] = t[i]
  <1>1. 1 \in Int /\ n \in Int /\ \A i \in 1 .. n : t[i] \in S
    BY LenProperties, ElementOfSeq
  <1>2. Len(SubSeq(t, 1, n)) = IF 1 <= n THEN n - 1 + 1 ELSE 0
    BY <1>1, SubSeqProperties
  <1>3. \A i \in 1 .. n - 1 + 1 : SubSeq(t, 1, n)[i] = t[1 + i - 1]
    BY <1>1, SubSeqProperties
  <1>4. n \in Nat /\ n - 1 + 1 = n /\ \A i \in 1 .. n : 1 + i - 1 = i
    OBVIOUS
  <1> QED BY <1>2, <1>3, <1>4

LEMMA Concatenated ==
  ASSUME NEW S, NEW t \in Seq(S), NEW u \in Seq(S), Len(u) = 1
  PROVE  /\ Len(t \o u) = Len(t) + 1
         /\ \A i \in 1 .. Len(t) : (t \o u)[i] = t[i]
         /\ (t \o u)[Len(t) + 1] = u[1]
  <1>1. PICK n \in Nat : n = Len(t)
    BY LenProperties
  <1>2. Len(t \o u) = n + 1
    <2>1. Len(t \o u) = Len(t) + Len(u)
      BY ConcatProperties, Zenon
    <2> QED BY <1>1, <2>1, Zenon
  <1>3. \A i \in 1 .. n + 1 : (t \o u)[i] = IF i <= n THEN t[i] ELSE u[i - n]
    BY <1>1, ConcatProperties
  <1> QED BY <1>1, <1>2, <1>3

LEMMA FrontFacts ==
  ASSUME NEW S, NEW t \in Seq(S), Len(t) > 0
  PROVE  Front(t) \in Seq(S) /\ t = Append(Front(t), t[Len(t)])
  <1>1. Len(t) \in Nat /\ Len(t) - 1 \in Nat /\ Len(t) - 1 <= Len(t)
    BY LenProperties
  <1>2. Front(t) \in Seq(S)
    BY <1>1, SubSeqProperties DEF Front
  <1>3. Len(Front(t)) = Len(t) - 1 /\ \A i \in 1 .. Len(t) - 1 : Front(t)[i] = t[i]
    <2>1. PICK n \in Nat : n = Len(t) - 1
      BY <1>1
    <2>2. n \in 0 .. Len(t)
      BY <1>1, <2>1
    <2>3. Len(SubSeq(t, 1, n)) = n /\ \A i \in 1 .. n : SubSeq(t, 1, n)[i] = t[i]
      BY <2>2, SubSeqFacts
    <2> QED BY <2>1, <2>3 DEF Front
  <1>4. t[Len(t)] \in S
    BY <1>1, ElementOfSeq
  <1>5. /\ Append(Front(t), t[Len(t)]) \in Seq(S)
        /\ Len(Append(Front(t), t[Len(t)])) = Len(t)
        /\ \A i \in 1 .. Len(t) - 1 : Append(Front(t), t[Len(t)])[i] = t[i]
        /\ Append(Front(t), t[Len(t)])[Len(t)] = t[Len(t)]
    BY <1>1, <1>2, <1>3, <1>4, AppendProperties
  <1>6. \A i \in 1 .. Len(t) : Append(Front(t), t[Len(t)])[i] = t[i]
    BY <1>1, <1>5
  <1> QED BY <1>2, <1>5, <1>6, SeqEqual

-----------------------------------------------------------------------------
(***************************************************************************)
(* What a step does to the service's side of a stream and to the client's. *)
(***************************************************************************)
Served(s) ==
  \/ UNCHANGED <<got[s], outcome[s], consumer[s]>>
  \/ /\ consumer[s] = "reading" /\ consumer'[s] = "suspended"
     /\ \E item \in 1 .. Output : got'[s] = Append(got[s], item)
     /\ UNCHANGED outcome[s]
  \/ /\ consumer[s] \in {"reading", "suspended"} /\ consumer'[s] = "closing"
     /\ UNCHANGED got[s]
  \/ /\ consumer[s] = "closing" /\ consumer'[s] = "closed"
     /\ UNCHANGED <<got[s], outcome[s]>>
  \/ /\ consumer[s] = "new" /\ consumer'[s] = "reading"
     /\ UNCHANGED <<got[s], outcome[s]>>

LEMMA ServiceEffects ==
  ASSUME IInv, IInv', NEW q \in Streams, NEW s \in Streams,
         Produce(s) \/ Consume(s) \/ Open(s) \/ Abandon(s)
  PROVE  Served(q)
  <1> USE DEF Served, Enter, IInv, TypeOK
  <1>1. CASE Receive(s)
    <2>1. CASE q = s
      <3>1. Head(queue[s]) \in 1 .. Output
        BY <1>1 DEF Receive, End, Output
      <3> QED BY <1>1, <2>1, <3>1 DEF Receive
    <2> QED BY <1>1, <2>1 DEF Receive
  <1>2. CASE Stop(s) \/ Abandon(s)
    BY <1>2 DEF Stop, Abandon, Leave
  <1>3. CASE Join(s)
    BY <1>3 DEF Join
  <1>4. CASE Open(s)
    BY <1>4 DEF Open
  <1>5. CASE Produce(s) \/ MarkFinished(s)
    BY <1>5 DEF Produce, StartWorker, FirstItem, Produced, Put, Drop, Published, IteratorDone, Mark,
                Exit, MarkFinished, workerVars
  <1> QED BY <1>1, <1>2, <1>3, <1>4, <1>5 DEF Consume

HungUp(s, result) ==
  /\ remote[s].pc # "done"
  /\ remote'[s] = [remote[s] EXCEPT !.pc = "done", !.result = result]
  /\ wire'[s] = <<>> /\ link'[s] # "open"

Used(s) ==
  \/ UNCHANGED <<remote[s], link[s], wire[s]>>
  \/ \E result \in {"failed", "cancelled"} : HungUp(s, result)
  \/ Complete(s) /\ HungUp(s, "output")
  \/ /\ remote[s].pc = "idle" /\ remote'[s] = [remote[s] EXCEPT !.pc = "connecting"]
     /\ link'[s] = "open" /\ UNCHANGED wire[s]
  \/ /\ remote[s].pc \notin {"idle", "done"}
     /\ \E pc \in {"reading", "suspended"} : remote'[s] = [remote[s] EXCEPT !.pc = pc]
     /\ UNCHANGED <<link[s], wire[s]>>
  \/ /\ link[s] \in {"open", "eof"} /\ link'[s] \in {"closed", "eof", "broken"}
     /\ UNCHANGED remote[s]
     /\ \/ UNCHANGED wire[s]
        \/ \E n \in 0 .. Len(wire[s]) : wire'[s] = SubSeq(wire[s], 1, n)
  \/ /\ remote[s].pc = "reading" /\ wire[s] # <<>> /\ Head(wire[s]).event = "delta"
     /\ remote'[s] = [remote[s] EXCEPT !.pc = "suspended", !.chunks = @ \o Head(wire[s]).data]
     /\ wire'[s] = Tail(wire[s]) /\ UNCHANGED link[s]
  \/ /\ remote[s].pc = "reading" /\ wire[s] # <<>> /\ Head(wire[s]).event = "final"
     /\ remote'[s] = [remote[s] EXCEPT !.final = Head(wire[s]).data]
     /\ wire'[s] = Tail(wire[s]) /\ UNCHANGED link[s]

LEMMA ClientEffects ==
  ASSUME RemoteTypeOK, NEW q \in Streams, NEW s \in Streams,
         Cut(s) \/ ClientStep(s) \/ Interrupt(s) \/ CancelTurn(s)
  PROVE  Used(q)
  <1> USE DEF RemoteTypeOK, Become, Connect
  <1>1. ASSUME NEW result, HangUp(s, result), remote[s].pc # "done" PROVE HungUp(s, result)
    BY <1>1 DEF HangUp, HungUp
  <1>2. ASSUME q # s PROVE UNCHANGED <<remote[q], link[q], wire[q]>>
    BY <1>2 DEF Cut, ClientStep, Interrupt, CancelTurn, Begin, Refused, Connected,
                GiveUpReading, ReadEvent, ReadEnd, Take, HangUp
  <1>3. CASE q = s
    <2>1. CASE Cut(s)
      BY <1>3, <2>1 DEF Cut, Used
    <2>2. CASE Begin(s)
      BY <1>1, <1>3, <2>2 DEF Begin, Used
    <2>3. CASE Refused(s)
      BY <1>1, <1>3, <2>3 DEF Refused, Used
    <2>4. CASE Connected(s)
      BY <1>3, <2>4 DEF Connected, Used
    <2>5. CASE GiveUpReading(s)
      BY <1>1, <1>3, <2>5 DEF GiveUpReading, Used
    <2>6. CASE ReadEvent(s)
      BY <1>1, <1>3, <2>6 DEF ReadEvent, Used
    <2>7. CASE ReadEnd(s)
      BY <1>1, <1>3, <2>7 DEF ReadEnd, Used
    <2>8. CASE Take(s)
      BY <1>1, <1>3, <2>8 DEF Take, Used
    <2>9. CASE Interrupt(s)
      BY <1>3, <2>9 DEF Interrupt, Used
    <2>10. CASE CancelTurn(s)
      BY <1>3, <2>10 DEF CancelTurn, Used
    <2> QED BY <2>1, <2>2, <2>3, <2>4, <2>5, <2>6, <2>7, <2>8, <2>9, <2>10 DEF ClientStep
  <1> QED BY <1>2, <1>3 DEF Used

-----------------------------------------------------------------------------
(***************************************************************************)
(* Steps of the service.                                                   *)
(***************************************************************************)
\* The output is the last item: a consumer that gets another one never had it.
OutputLast ==
  \A s \in Streams : Present(s) =>
    \A i \in 1 .. Len(got[s]) : i < Len(got[s]) => got[s][i] # Output

LEMMA OutputIsLast == IInv /\ DInv => OutputLast
  <1> SUFFICES ASSUME IInv, DInv, NEW s \in Streams, Present(s),
                      NEW i \in 1 .. Len(got[s]), i < Len(got[s])
               PROVE  got[s][i] # Output
    BY DEF OutputLast
  <1>1. got \in [Streams -> Seq(1 .. Output)] /\ queue \in [Streams -> Seq(End .. Output)]
        /\ items \in [Streams -> 0 .. MaxItems] /\ MaxItems \in Nat
    BY ProviderAssumption DEF IInv, TypeOK, ProviderTypeOK
  <1>2. Contents(s)
    BY DEF DInv, Intact
  <1>3. PICK n \in Nat : Count(s, n) /\ Len(got[s]) <= n
    BY <1>1, <1>2 DEF Contents, Amount
  <1>4. i <= items[s]
    BY <1>1, <1>3 DEF Count
  <1>5. got[s][i] = i
    BY <1>2, <1>4 DEF Contents, Written
  <1> QED BY <1>1, <1>4, <1>5 DEF Output

LEMMA Unaffected ==
  ASSUME NEW s \in Streams, Following(s), Keeping(s),
         UNCHANGED <<remote[s], link[s], wire[s], consumer[s], outcome[s], got[s]>>
  PROVE  Following(s)' /\ Keeping(s)'
  <1>1. \A j : OnTheWire(s, j)' <=> OnTheWire(s, j)
    BY DEF OnTheWire
  <1>2. Following(s)'
    BY <1>1 DEF Following
  <1>3. (Ended(s)' <=> Ended(s)) /\ \A n : Sent(s, n)' <=> Sent(s, n)
    BY DEF Ended, Sent
  <1>4. Keeping(s)'
    BY <1>3 DEF Keeping
  <1> QED BY <1>2, <1>4

LEMMA ServedKeeps ==
  ASSUME IInv, IInv', OutputLast', NEW s \in Streams, RemoteTypeOK, Following(s), Keeping(s), Served(s),
         UNCHANGED remoteVars, consumer[s] = "new" /\ consumer'[s] # "new" => link[s] = "open"
  PROVE  Following(s)' /\ Keeping(s)'
  <1> DEFINE k == Len(remote[s].chunks)
  <1>1. /\ got \in [Streams -> Seq(1 .. Output)] /\ got' \in [Streams -> Seq(1 .. Output)]
        /\ remote \in [Streams -> Clients] /\ wire \in [Streams -> Seq(Events)]
    BY DEF IInv, TypeOK, RemoteTypeOK
  <1>2. k \in Nat
    BY <1>1 DEF Clients, Texts
  <1>3. UNCHANGED <<remote[s], cancelled[s], link[s], wire[s]>>
    BY DEF remoteVars
  <1>4. CASE UNCHANGED <<got[s], outcome[s], consumer[s]>>
    BY <1>3, <1>4, Unaffected
  <1>5. ASSUME UNCHANGED got[s], consumer[s] # "closed",
               consumer'[s] \in {"closing", "closed"} \/ (consumer[s] = "new" /\ consumer'[s] = "reading")
        PROVE  Following(s)' /\ Keeping(s)'
    <2>1. \A j \in 1 .. Len(wire[s]) : OnTheWire(s, j)'
      BY <1>3, <1>5 DEF Following, OnTheWire
    <2>2. Following(s)'
      BY <1>3, <1>5, <2>1 DEF Following
    <2>3. \A n \in Nat : Sent(s, n) => Sent(s, n)'
      BY <1>5 DEF Sent
    <2>4. remote[s].pc # "idle"
      BY <1>5 DEF Keeping
    <2>5. Keeping(s)'
      BY <1>3, <1>5, <2>3, <2>4 DEF Keeping, Ended
    <2> QED BY <2>2, <2>5
  <1>6. ASSUME NEW item \in 1 .. Output, got'[s] = Append(got[s], item),
               consumer[s] = "reading", consumer'[s] = "suspended"
        PROVE  Following(s)' /\ Keeping(s)'
    <2>1. /\ Len(got'[s]) = Len(got[s]) + 1
          /\ \A i \in 1 .. Len(got[s]) : got'[s][i] = got[s][i]
      BY <1>1, <1>6, Appended
    <2>2. Len(got[s]) > 0 => got[s][Len(got[s])] # Output
      <3>1. PICK i \in Nat : i = Len(got[s])
        BY <1>1
      <3>2. i > 0 => i \in 1 .. Len(got'[s]) /\ i < Len(got'[s])
        BY <1>1, <2>1, <3>1
      <3>3. Present(s)'
        BY <1>6 DEF Present
      <3>4. i > 0 => got'[s][i] # Output
        BY <3>2, <3>3 DEF OutputLast
      <3> QED BY <1>1, <2>1, <3>1, <3>4
    <2>3. \A j \in 1 .. Len(wire[s]) : OnTheWire(s, j)'
      <3> SUFFICES ASSUME NEW j \in 1 .. Len(wire[s]) PROVE OnTheWire(s, j)'
        OBVIOUS
      <3>1. OnTheWire(s, j) /\ wire[s][j].event = "delta"
        BY <1>6 DEF Following, OnTheWire
      <3>2. ASSUME NEW n \in Nat, n = Len(remote[s].chunks) + j
            PROVE  n <= Len(got'[s]) /\ wire[s][j].data[1] = got'[s][n]
        <4>1. n <= Len(got[s]) /\ wire[s][j].data[1] = got[s][n]
          BY <3>1, <3>2 DEF OnTheWire
        <4>2. n \in 1 .. Len(got[s])
          BY <1>1, <1>2, <3>2, <4>1
        <4> QED BY <1>1, <2>1, <4>1, <4>2
      <3> QED BY <1>3, <3>1, <3>2 DEF OnTheWire
    <2>4. Following(s)'
      <3>1. k <= Len(got'[s])
        BY <1>1, <1>2, <2>1 DEF Following
      <3>2. \A i \in 1 .. k : remote[s].chunks[i] = got'[s][i]
        BY <1>1, <1>2, <2>1 DEF Following
      <3> QED BY <1>3, <2>3, <3>1, <3>2 DEF Following
    <2>5. ASSUME NEW n \in Nat, Sent(s, n) PROVE Sent(s, n)'
      BY <1>1, <1>6, <2>1, <2>2, <2>5 DEF Sent
    <2>6. Keeping(s)'
      BY <1>3, <1>6, <2>5 DEF Keeping, Ended
    <2> QED BY <2>4, <2>6
  <1> QED BY <1>4, <1>5, <1>6 DEF Served

LEMMA SendKeeps ==
  ASSUME IInv, NEW s \in Streams, RemoteTypeOK, Following(s), Keeping(s), Send(s)
  PROVE  /\ wire' \in [Streams -> Seq(Events)]
         /\ Following(s)' /\ Keeping(s)'
  <1>1. /\ got \in [Streams -> Seq(1 .. Output)] /\ consumer[s] = "suspended"
        /\ consumer'[s] = "reading" /\ UNCHANGED <<got, outcome, remote, link>>
        /\ remote \in [Streams -> Clients] /\ wire \in [Streams -> Seq(Events)]
    BY DEF IInv, TypeOK, RemoteTypeOK, Send, Resume, Enter
  <1>2. PICK k \in Nat, m \in Nat : k = Len(remote[s].chunks) /\ m = Len(wire[s])
    BY <1>1 DEF Clients, Texts
  <1>3. \A j \in 1 .. m : OnTheWire(s, j) /\ wire[s][j].event = "delta"
    BY <1>1, <1>2 DEF Following, OnTheWire
  <1>4. CASE wire' = wire /\ (link[s] = "open" => got[s][Len(got[s])] = Output)
    <2>1. \A j \in 1 .. m : OnTheWire(s, j)'
      BY <1>1, <1>3, <1>4 DEF OnTheWire
    <2>2. Following(s)'
      BY <1>1, <1>2, <1>4, <2>1 DEF Following
    <2>3. \A n \in Nat : n + 1 = Len(got[s]) => Len(got[s]) > 0
      BY <1>1
    <2>4. Keeping(s)'
      BY <1>1, <1>2, <1>4, <2>3 DEF Keeping, Sent, Ended
    <2> QED BY <1>1, <1>4, <2>2, <2>4
  <1>5. CASE link[s] = "open" /\ wire' = [wire EXCEPT ![s] = Append(@, Delta(Last(got[s])))]
    <2> DEFINE event == Delta(Last(got[s]))
    <2>1. k + m + 1 = Len(got[s])
      <3>1. PICK n \in Nat : n = k + m
        OBVIOUS
      <3>2. Sent(s, n)
        BY <1>2, <1>5, <3>1 DEF Keeping
      <3> QED BY <1>1, <3>1, <3>2 DEF Sent
    <2>2. Last(got[s]) \in 1 .. Output
      <3>1. PICK n \in Nat : n = Len(got[s]) /\ n = k + m + 1
        BY <2>1
      <3>2. n \in 1 .. Len(got[s])
        BY <3>1
      <3> QED BY <1>1, <3>1, <3>2, ElementOfSeq DEF Last
    <2>3. /\ event \in Events /\ event.event = "delta"
          /\ Len(event.data) = 1 /\ event.data[1] = got[s][Len(got[s])]
      BY <2>2 DEF Events, Texts, Delta, Last
    <2>4. wire'[s] = Append(wire[s], event)
      BY <1>1, <1>5
    <2> HIDE DEF event
    <2>5. /\ Len(wire'[s]) = m + 1 /\ wire'[s][m + 1] = event
          /\ \A j \in 1 .. m : wire'[s][j] = wire[s][j]
      BY <1>1, <1>2, <2>4, Appended
    <2>6. ASSUME NEW j \in 1 .. m + 1 PROVE OnTheWire(s, j)'
      <3>1. CASE j \in 1 .. m
        BY <1>1, <1>3, <2>5, <3>1 DEF OnTheWire
      <3>2. CASE j = m + 1
        <4>1. \A n \in Nat : n = k + j => n = Len(got[s])
          BY <2>1, <3>2
        <4>2. wire'[s][j].event = "delta" /\ Len(wire'[s][j].data) = 1
              /\ wire'[s][j].data[1] = got[s][Len(got[s])]
          BY <2>3, <2>5, <3>2
        <4> QED BY <1>1, <1>2, <4>1, <4>2 DEF OnTheWire
      <3> QED BY <3>1, <3>2
    <2>7. Following(s)'
      BY <1>1, <1>2, <2>5, <2>6 DEF Following
    <2>8. ASSUME NEW n \in Nat, n = Len(remote'[s].chunks) + Len(wire'[s]) PROVE Sent(s, n)'
      <3>1. n = Len(got[s])
        <4>1. Len(remote'[s].chunks) = k /\ Len(wire'[s]) = m + 1
          BY <1>1, <1>2, <2>5
        <4>2. n = k + (m + 1)
          BY <2>8, <4>1
        <4> QED BY <2>1, <4>2
      <3> QED BY <1>1, <3>1 DEF Sent
    <2>9. Keeping(s)'
      BY <1>1, <1>5, <2>8 DEF Keeping, Ended
    <2>10. wire' \in [Streams -> Seq(Events)]
      BY <1>1, <1>5, <2>3 DEF event
    <2> QED BY <2>7, <2>9, <2>10
  <1> QED BY <1>1, <1>4, <1>5 DEF Send, Last

LEMMA AnswerKeeps ==
  ASSUME IInv, StreamedInFull, NEW s \in Streams, RemoteTypeOK, Following(s), Keeping(s), Answer(s)
  PROVE  RemoteTypeOK' /\ Following(s)' /\ Keeping(s)'
  <1> DEFINE event == IF outcome[s] = "end" THEN Final(Front(got[s])) ELSE Error
  <1>1. /\ got \in [Streams -> Seq(1 .. Output)] /\ consumer[s] = "closed"
        /\ UNCHANGED <<got, outcome, remote, consumer, cancelled>>
        /\ link[s] = "open" /\ link'[s] = "eof"
        /\ remote \in [Streams -> Clients] /\ wire \in [Streams -> Seq(Events)]
    BY DEF IInv, TypeOK, RemoteTypeOK, Answer, Connect, vars, workerVars
  <1>2. PICK k \in Nat, m \in Nat : k = Len(remote[s].chunks) /\ m = Len(wire[s])
    BY <1>1 DEF Clients, Texts
  <1>3. /\ event \in Events /\ event.event # "delta"
        /\ event.event = "final" => outcome[s] = "end" /\ event.data = Front(got[s])
    <2>1. CASE outcome[s] = "end"
      <3>1. Len(got[s]) > 0
        BY <2>1 DEF StreamedInFull
      <3>2. Front(got[s]) \in Texts
        BY <1>1, <3>1, FrontFacts DEF Texts
      <3> QED BY <2>1, <3>2 DEF Final, Events
    <2>2. CASE outcome[s] # "end"
      BY <2>2 DEF Error, Events, Texts
    <2> QED BY <2>1, <2>2
  <1>4. wire' = [wire EXCEPT ![s] = Append(@, event)]
    BY <1>1 DEF Answer
  <1> HIDE DEF event
  <1>5. /\ Len(wire'[s]) = m + 1 /\ wire'[s][m + 1] = event
        /\ \A j \in 1 .. m : wire'[s][j] = wire[s][j]
    BY <1>1, <1>2, <1>4, Appended
  <1>6. ASSUME NEW j \in 1 .. m + 1 PROVE OnTheWire(s, j)'
    <2>1. CASE j \in 1 .. m
      <3>1. OnTheWire(s, j) /\ wire[s][j].event = "delta"
        BY <1>1, <1>2, <2>1 DEF Following, OnTheWire
      <3> QED BY <1>1, <1>5, <2>1, <3>1 DEF OnTheWire
    <2>2. CASE j = m + 1
      BY <1>1, <1>3, <1>5, <2>2 DEF OnTheWire
    <2> QED BY <2>1, <2>2
  <1>7. Following(s)'
    BY <1>1, <1>2, <1>5, <1>6 DEF Following
  <1>8. Keeping(s)'
    BY <1>1 DEF Keeping, Ended
  <1>9. RemoteTypeOK'
    BY <1>1, <1>3, <1>4 DEF RemoteTypeOK, Answer, Connect
  <1> QED BY <1>7, <1>8, <1>9

-----------------------------------------------------------------------------
(***************************************************************************)
(* Steps of the client and of the network.                                 *)
(***************************************************************************)
LEMMA UsedKeeps ==
  ASSUME IInv, StreamedInFull, NEW s \in Streams, RemoteTypeOK, Following(s), Keeping(s), Used(s),
         UNCHANGED vars
  PROVE  Following(s)' /\ Keeping(s)'
  <1>1. /\ got \in [Streams -> Seq(1 .. Output)] /\ UNCHANGED <<got, outcome, consumer>>
        /\ remote \in [Streams -> Clients] /\ wire \in [Streams -> Seq(Events)]
    BY DEF IInv, TypeOK, RemoteTypeOK, vars, workerVars
  <1>2. PICK k \in Nat, m \in Nat : k = Len(remote[s].chunks) /\ m = Len(wire[s])
    BY <1>1 DEF Clients, Texts
  <1>3. remote[s] \in Clients /\ wire[s] \in Seq(Events)
    BY <1>1
  <1>4. CASE UNCHANGED <<remote[s], link[s], wire[s]>>
    BY <1>1, <1>4, Unaffected
  <1>5. ASSUME NEW result \in {"failed", "cancelled", "output"}, HungUp(s, result),
               result = "output" => Complete(s)
        PROVE  Following(s)' /\ Keeping(s)'
    <2>1. /\ remote'[s].pc = "done" /\ remote'[s].result = result
          /\ remote'[s].chunks = remote[s].chunks /\ remote'[s].final = remote[s].final
          /\ wire'[s] = <<>> /\ link'[s] # "open"
      BY <1>3, <1>5 DEF HungUp, Clients
    <2>2. Following(s)'
      BY <1>1, <2>1 DEF Following
    <2>3. CASE result = "output"
      <3>1. /\ remote[s].final # <<>> /\ remote[s].chunks = remote[s].final
            /\ Ended(s) /\ remote[s].final = Front(got[s])
        BY <1>5, <2>3 DEF Complete, Keeping
      <3>2. Len(got[s]) > 0 /\ got[s][Len(got[s])] = Output
        BY <3>1 DEF StreamedInFull, Ended
      <3>3. got[s] = Append(Front(got[s]), Output)
        BY <1>1, <3>2, FrontFacts
      <3> QED BY <1>1, <2>1, <2>2, <3>1, <3>3 DEF Keeping, Ended
    <2>4. CASE result # "output"
      BY <1>1, <2>1, <2>2, <2>4 DEF Keeping, Ended
    <2> QED BY <2>3, <2>4
  <1>6. CASE /\ remote[s].pc = "idle" /\ remote'[s] = [remote[s] EXCEPT !.pc = "connecting"]
             /\ link'[s] = "open" /\ UNCHANGED wire[s]
    <2>1. /\ remote'[s].pc = "connecting" /\ remote'[s].result = remote[s].result
          /\ remote'[s].chunks = <<>> /\ remote'[s].final = remote[s].final
          /\ wire'[s] = <<>> /\ consumer[s] = "new" /\ got[s] = <<>>
      BY <1>3, <1>6 DEF Clients, Keeping
    <2>2. Following(s)'
      BY <1>1, <2>1 DEF Following
    <2>3. Keeping(s)'
      BY <1>1, <2>1 DEF Keeping, Ended, Sent
    <2> QED BY <2>2, <2>3
  <1>7. CASE /\ remote[s].pc \notin {"idle", "done"}
             /\ \E pc \in {"reading", "suspended"} : remote'[s] = [remote[s] EXCEPT !.pc = pc]
             /\ UNCHANGED <<link[s], wire[s]>>
    <2>1. /\ remote'[s].pc \in {"reading", "suspended"} /\ remote'[s].result = remote[s].result
          /\ remote'[s].chunks = remote[s].chunks /\ remote'[s].final = remote[s].final
          /\ wire'[s] = wire[s] /\ link'[s] = link[s] /\ remote[s].result # "output"
      BY <1>3, <1>7 DEF Clients, Keeping
    <2>2. Following(s)'
      BY <1>1, <2>1 DEF Following, OnTheWire
    <2>3. Keeping(s)'
      BY <1>1, <2>1 DEF Keeping, Ended, Sent
    <2> QED BY <2>2, <2>3
  <1>8. CASE /\ link[s] \in {"open", "eof"} /\ link'[s] \in {"closed", "eof", "broken"}
             /\ UNCHANGED remote[s]
             /\ \/ UNCHANGED wire[s]
                \/ \E n \in 0 .. Len(wire[s]) : wire'[s] = SubSeq(wire[s], 1, n)
    <2>1. PICK n \in 0 .. m : Len(wire'[s]) = n /\ \A j \in 1 .. n : wire'[s][j] = wire[s][j]
      <3>1. CASE UNCHANGED wire[s]
        BY <1>2, <3>1
      <3>2. ASSUME NEW n \in 0 .. Len(wire[s]), wire'[s] = SubSeq(wire[s], 1, n)
            PROVE  Len(wire'[s]) = n /\ \A j \in 1 .. n : wire'[s][j] = wire[s][j]
        BY <1>3, <3>2, SubSeqFacts
      <3> QED BY <1>2, <1>8, <3>1, <3>2
    <2>2. \A j \in 1 .. n : OnTheWire(s, j)'
      <3> SUFFICES ASSUME NEW j \in 1 .. n PROVE OnTheWire(s, j)'
        OBVIOUS
      <3>1. j \in 1 .. m /\ OnTheWire(s, j) /\ (j = m => n = m)
        BY <1>2 DEF Following
      <3> QED BY <1>1, <1>2, <1>8, <2>1, <3>1 DEF OnTheWire
    <2>3. Following(s)'
      BY <1>1, <1>8, <2>1, <2>2 DEF Following
    <2>4. link'[s] # "open" /\ remote[s].pc # "idle"
      BY <1>8 DEF Keeping
    <2>5. Keeping(s)'
      BY <1>1, <1>8, <2>4 DEF Keeping, Ended
    <2> QED BY <2>3, <2>5
  \* The first event is taken off the wire.
  <1>9. ASSUME wire[s] # <<>>, wire'[s] = Tail(wire[s])
        PROVE  /\ 1 \in 1 .. m /\ Head(wire[s]) = wire[s][1] /\ OnTheWire(s, 1)
               /\ Len(wire'[s]) = m - 1 /\ \A j \in 1 .. m - 1 : wire'[s][j] = wire[s][j + 1]
    <2>1. 1 \in 1 .. m /\ Head(wire[s]) = wire[s][1]
      BY <1>2, <1>3, <1>9
    <2>2. OnTheWire(s, 1)
      BY <1>2, <2>1 DEF Following
    <2>3. Len(wire'[s]) = m - 1 /\ \A j \in 1 .. m - 1 : wire'[s][j] = wire[s][j + 1]
      BY <1>2, <1>3, <1>9
    <2> QED BY <2>1, <2>2, <2>3
  <1>10. CASE /\ remote[s].pc = "reading" /\ wire[s] # <<>> /\ Head(wire[s]).event = "delta"
              /\ remote'[s] = [remote[s] EXCEPT !.pc = "suspended", !.chunks = @ \o Head(wire[s]).data]
              /\ wire'[s] = Tail(wire[s]) /\ UNCHANGED link[s]
    <2> DEFINE data == Head(wire[s]).data
    <2>1. /\ remote'[s].pc = "suspended" /\ remote'[s].result = remote[s].result
          /\ remote'[s].chunks = remote[s].chunks \o data /\ remote'[s].final = remote[s].final
          /\ link'[s] = link[s] /\ remote[s].result # "output"
      BY <1>3, <1>10 DEF Clients, Keeping
    <2>2. data \in Texts /\ remote[s].chunks \in Texts
      <3>1. Head(wire[s]) \in Events
        BY <1>2, <1>3, <1>9, <1>10, ElementOfSeq
      <3> QED BY <1>3, <3>1 DEF Events, Clients
    <2>3. /\ Len(data) = 1
          /\ \A n \in Nat : n = k + 1 => n <= Len(got[s]) /\ data[1] = got[s][n]
      BY <1>2, <1>9, <1>10 DEF OnTheWire
    <2> HIDE DEF data
    <2>4. /\ Len(remote'[s].chunks) = k + 1
          /\ \A i \in 1 .. k : remote'[s].chunks[i] = remote[s].chunks[i]
          /\ remote'[s].chunks[k + 1] = data[1]
      BY <1>2, <2>1, <2>2, <2>3, Concatenated DEF Texts
    <2>5. Len(remote'[s].chunks) <= Len(got[s])
      BY <2>3, <2>4
    <2>6. \A i \in 1 .. k + 1 : remote'[s].chunks[i] = got[s][i]
      <3>1. ASSUME NEW i \in 1 .. k PROVE remote'[s].chunks[i] = got[s][i]
        BY <1>2, <2>4, <3>1 DEF Following
      <3>2. remote'[s].chunks[k + 1] = got[s][k + 1]
        BY <1>2, <2>3, <2>4
      <3> QED BY <1>2, <3>1, <3>2
    <2>7. ASSUME NEW j \in 1 .. m - 1 PROVE OnTheWire(s, j)'
      <3>1. j + 1 \in 1 .. m /\ wire'[s][j] = wire[s][j + 1] /\ OnTheWire(s, j + 1)
        BY <1>2, <1>9, <1>10 DEF Following
      <3>2. \A n \in Nat : n = (k + 1) + j => n = k + (j + 1)
        OBVIOUS
      <3>3. j + 1 = m => j = m - 1
        OBVIOUS
      <3>4. Len(wire'[s]) = m - 1 /\ Len(wire[s]) = m /\ Len(remote[s].chunks) = k
        BY <1>2, <1>9, <1>10
      <3>5. CASE /\ wire[s][j + 1].event = "delta" /\ Len(wire[s][j + 1].data) = 1
                 /\ \A n \in Nat : n = k + (j + 1) =>
                      n <= Len(got[s]) /\ wire[s][j + 1].data[1] = got[s][n]
        BY <1>1, <2>4, <3>1, <3>2, <3>5 DEF OnTheWire
      <3>6. CASE /\ wire[s][j + 1].event # "delta" /\ j + 1 = m
                 /\ link[s] # "open" /\ consumer[s] = "closed"
                 /\ wire[s][j + 1].event = "final" =>
                      outcome[s] = "end" /\ wire[s][j + 1].data = Front(got[s])
        BY <1>1, <2>1, <3>1, <3>3, <3>4, <3>6 DEF OnTheWire
      <3> QED BY <3>1, <3>4, <3>5, <3>6 DEF OnTheWire
    <2>8. Following(s)'
      BY <1>1, <1>9, <1>10, <2>4, <2>5, <2>6, <2>7 DEF Following
    <2>9. ASSUME NEW n \in Nat, n = Len(remote'[s].chunks) + Len(wire'[s])
          PROVE  n = Len(remote[s].chunks) + Len(wire[s])
      <3>1. Len(remote'[s].chunks) = k + 1 /\ Len(wire'[s]) = m - 1
        BY <1>9, <1>10, <2>4
      <3>2. n = (k + 1) + (m - 1)
        BY <2>9, <3>1
      <3>3. n = k + m
        BY <3>2
      <3> QED BY <1>2, <3>3
    <2>10. \A n \in Nat : Sent(s, n)' <=> Sent(s, n)
      BY <1>1 DEF Sent
    <2>11. Keeping(s)'
      BY <1>1, <2>1, <2>9, <2>10 DEF Keeping, Ended
    <2> QED BY <2>8, <2>11
  <1>11. CASE /\ remote[s].pc = "reading" /\ wire[s] # <<>> /\ Head(wire[s]).event = "final"
              /\ remote'[s] = [remote[s] EXCEPT !.final = Head(wire[s]).data]
              /\ wire'[s] = Tail(wire[s]) /\ UNCHANGED link[s]
    <2>1. /\ remote'[s].pc = "reading" /\ remote'[s].result = remote[s].result
          /\ remote'[s].chunks = remote[s].chunks /\ remote'[s].final = Head(wire[s]).data
          /\ link'[s] = link[s] /\ remote[s].result # "output"
      BY <1>3, <1>11 DEF Clients, Keeping
    <2>2. m = 1 /\ link[s] # "open" /\ Ended(s) /\ Head(wire[s]).data = Front(got[s])
      BY <1>2, <1>9, <1>11 DEF OnTheWire, Ended
    <2>3. Len(wire'[s]) = 0
      BY <1>9, <1>11, <2>2
    <2>4. Following(s)'
      BY <1>1, <2>1, <2>3 DEF Following
    <2>5. Keeping(s)'
      BY <1>1, <2>1, <2>2 DEF Keeping, Ended
    <2> QED BY <2>4, <2>5
  <1> QED BY <1>4, <1>5, <1>6, <1>7, <1>8, <1>10, <1>11 DEF Used

LEMMA ClientTypes ==
  ASSUME RemoteTypeOK, NEW s \in Streams, Cut(s) \/ ClientStep(s) \/ Interrupt(s) \/ CancelTurn(s)
  PROVE  RemoteTypeOK'
  <1> USE DEF RemoteTypeOK, Become, Connect
  <1>1. remote[s] \in Clients /\ wire[s] \in Seq(Events)
    OBVIOUS
  <1>2. ASSUME NEW result \in {"output", "failed", "cancelled"}, HangUp(s, result), UNCHANGED cancelled
        PROVE  RemoteTypeOK'
    <2>1. [remote[s] EXCEPT !.pc = "done", !.result = result] \in Clients
      BY <1>1 DEF Clients
    <2>2. remote' \in [Streams -> Clients]
      BY <1>2, <2>1 DEF HangUp
    <2>3. wire' \in [Streams -> Seq(Events)]
      BY <1>2 DEF HangUp
    <2>4. link' \in [Streams -> {"none", "open", "closed", "eof", "broken"}]
      BY <1>2 DEF HangUp
    <2> QED BY <1>2, <2>2, <2>3, <2>4
  <1>3. ASSUME NEW pc \in {"connecting", "reading", "suspended"},
               Become(s, [remote[s] EXCEPT !.pc = pc])
        PROVE  remote' \in [Streams -> Clients]
    <2>1. [remote[s] EXCEPT !.pc = pc] \in Clients
      BY <1>1 DEF Clients
    <2> QED BY <1>3, <2>1
  <1>4. CASE Cut(s)
    <2>1. ASSUME NEW n \in 0 .. Len(wire[s]) PROVE SubSeq(wire[s], 1, n) \in Seq(Events)
      <3>1. n \in Int /\ \A i \in 1 .. n : wire[s][i] \in Events
        BY <1>1, ElementOfSeq
      <3> QED BY <3>1, SubSeqProperties
    <2> QED BY <1>4, <2>1 DEF Cut
  <1>5. CASE Begin(s)
    BY <1>2, <1>3, <1>5 DEF Begin
  <1>6. CASE Refused(s)
    BY <1>2, <1>6 DEF Refused
  <1>7. CASE Connected(s)
    BY <1>3, <1>7 DEF Connected
  <1>8. CASE GiveUpReading(s)
    BY <1>2, <1>8 DEF GiveUpReading
  <1>9. CASE ReadEvent(s)
    <2> DEFINE e == Head(wire[s])
    <2>1. wire[s] # <<>> /\ e \in Events /\ Tail(wire[s]) \in Seq(Events)
      BY <1>1, <1>9 DEF ReadEvent
    <2>2. e.data \in Texts /\ remote[s].chunks \o e.data \in Texts
      BY <1>1, <2>1 DEF Events, Clients, Texts
    <2> HIDE DEF e
    <2>3. /\ [remote[s] EXCEPT !.pc = "suspended", !.chunks = @ \o e.data] \in Clients
          /\ [remote[s] EXCEPT !.final = e.data] \in Clients
      BY <1>1, <2>2 DEF Clients
    <2>4. \/ HangUp(s, "failed")
          \/ /\ remote' = [remote EXCEPT ![s] =
                             [remote[s] EXCEPT !.pc = "suspended", !.chunks = @ \o e.data]]
             /\ wire' = [wire EXCEPT ![s] = Tail(@)] /\ UNCHANGED link
          \/ /\ remote' = [remote EXCEPT ![s] = [remote[s] EXCEPT !.final = e.data]]
             /\ wire' = [wire EXCEPT ![s] = Tail(@)] /\ UNCHANGED link
      BY <1>9 DEF ReadEvent, e
    <2>5. UNCHANGED cancelled
      BY <1>9 DEF ReadEvent
    <2> QED BY <1>2, <2>1, <2>3, <2>4, <2>5
  <1>10. CASE ReadEnd(s)
    BY <1>2, <1>10 DEF ReadEnd
  <1>11. CASE Take(s)
    BY <1>2, <1>3, <1>11 DEF Take
  <1>12. CASE Interrupt(s)
    BY <1>12 DEF Interrupt
  <1>13. CASE CancelTurn(s)
    BY <1>13 DEF CancelTurn
  <1> QED BY <1>4, <1>5, <1>6, <1>7, <1>8, <1>9, <1>10, <1>11, <1>12, <1>13 DEF ClientStep

-----------------------------------------------------------------------------
LEMMA NextFollows ==
  ASSUME IInv, IInv', OutputLast', StreamedInFull, RInv, [RemoteNext]_<<vars, remoteVars>>
  PROVE  RInv'
  <1> USE DEF RInv
  \* A step of the service that the connection does not see.
  <1>1. ASSUME NEW s \in Streams, UNCHANGED remoteVars,
               Produce(s) \/ Consume(s) \/ (Open(s) /\ link[s] = "open") \/ Abandon(s)
        PROVE  RInv'
    <2>1. RemoteTypeOK'
      BY <1>1 DEF RemoteTypeOK, remoteVars
    <2>2. ASSUME NEW q \in Streams PROVE Following(q)' /\ Keeping(q)'
      <3>1. Served(q)
        BY <1>1, ServiceEffects
      <3>2. consumer[q] = "new" /\ consumer'[q] # "new" => link[q] = "open"
        <4> USE DEF IInv, TypeOK
        <4>1. CASE Produce(s)
          <5>1. UNCHANGED consumer
            BY <4>1 DEF Produce, StartWorker, FirstItem, Produced, Put, Drop, Published,
                        IteratorDone, Mark, Exit, workerVars
          <5> QED BY <5>1
        <4>2. CASE Consume(s)
          BY <4>2 DEF Consume, MarkFinished, Receive, Stop, Join, Leave, Enter
        <4>3. CASE Open(s) /\ link[s] = "open"
          BY <1>1, <4>3 DEF Open, Enter
        <4>4. CASE Abandon(s)
          BY <4>4 DEF Abandon, Leave, Enter
        <4> QED BY <1>1, <4>1, <4>2, <4>3, <4>4
      <3> QED BY <1>1, <3>1, <3>2, ServedKeeps
    <2> QED BY <2>1, <2>2
  <1>2. ASSUME NEW s \in Streams, Send(s) PROVE RInv'
    <2>1. RemoteTypeOK'
      BY <1>2, SendKeeps DEF RemoteTypeOK, Send
    <2>2. ASSUME NEW q \in Streams \ {s} PROVE Following(q)' /\ Keeping(q)'
      <3>1. UNCHANGED <<remote[q], link[q], wire[q], consumer[q], outcome[q], got[q]>>
        BY <1>2 DEF Send, Resume, Enter, IInv, TypeOK, RemoteTypeOK
      <3> QED BY <3>1, Unaffected
    <2> QED BY <1>2, <2>1, <2>2, SendKeeps
  <1>3. ASSUME NEW s \in Streams, Answer(s) PROVE RInv'
    <2>1. ASSUME NEW q \in Streams \ {s} PROVE Following(q)' /\ Keeping(q)'
      <3>1. UNCHANGED <<remote[q], link[q], wire[q], consumer[q], outcome[q], got[q]>>
        BY <1>3 DEF Answer, Connect, vars, workerVars, RemoteTypeOK
      <3> QED BY <3>1, Unaffected
    <2> QED BY <1>3, <2>1, AnswerKeeps
  <1>4. ASSUME NEW s \in Streams, Cut(s) \/ ClientStep(s) \/ Interrupt(s) \/ CancelTurn(s)
        PROVE  RInv'
    <2>1. UNCHANGED vars
      BY <1>4 DEF Cut, ClientStep, Interrupt, CancelTurn, Begin, Refused, Connected,
                  GiveUpReading, ReadEvent, ReadEnd, Take
    <2> QED BY <1>4, <2>1, ClientEffects, ClientTypes, UsedKeeps
  <1>5. ASSUME UNCHANGED <<remoteVars, got, outcome, consumer>> PROVE RInv'
    BY <1>5, Unaffected DEF remoteVars, RemoteTypeOK
  <1>6. Provide /\ UNCHANGED workerVars /\ UNCHANGED remoteVars
          => UNCHANGED <<remoteVars, got, outcome, consumer>>
    BY DEF workerVars
  <1>7. UNCHANGED <<vars, remoteVars>> => UNCHANGED <<remoteVars, got, outcome, consumer>>
    BY DEF vars, workerVars
  <1> QED BY <1>1, <1>2, <1>3, <1>4, <1>5, <1>6, <1>7 DEF RemoteNext, Request, Disconnected

LEMMA InitFollows == RemoteInit => RInv
  <1> SUFFICES ASSUME RemoteInit PROVE RInv
    OBVIOUS
  <1>1. <<>> \in Texts /\ <<>> \in Seq(Events)
    BY DEF Texts
  <1>2. Unsent \in Clients
    BY <1>1 DEF Unsent, Clients
  <1>3. RemoteTypeOK
    BY <1>1, <1>2 DEF RemoteInit, RemoteTypeOK
  <1>4. ASSUME NEW s \in Streams PROVE Following(s) /\ Keeping(s)
    <2>1. /\ remote[s].pc = "idle" /\ remote[s].chunks = <<>> /\ remote[s].final = <<>>
          /\ remote[s].result = "none" /\ link[s] = "none" /\ wire[s] = <<>>
          /\ consumer[s] = "new" /\ got[s] = <<>>
      BY DEF RemoteInit, Init, Unsent
    <2> QED BY <2>1 DEF Following, Keeping
  <1> QED BY <1>3, <1>4 DEF RInv

\* A remote turn passes on the beginning of what the model wrote and reports an answer
\* only when it has all of it (_stream_request, its final event and its checks), for
\* any number of chunks and wherever the connection is cut.
THEOREM RemoteAnswersAreWhole == RemoteSpec => []RemoteIsWhole
  <1>1. RInv /\ IInv /\ IInv' /\ OutputLast' /\ StreamedInFull /\ [RemoteNext]_<<vars, remoteVars>>
          => RInv'
    BY NextFollows
  <1>2. RInv /\ IInv => RemoteIsWhole
    <2> SUFFICES ASSUME RInv, IInv, NEW s \in Streams
                 PROVE  /\ IsPrefix(remote[s].chunks, got[s])
                        /\ remote[s].result = "output" =>
                             outcome[s] = "end" /\ got[s] = Append(remote[s].chunks, Output)
      BY DEF RemoteIsWhole
    <2>1. remote[s].chunks \in Texts /\ got[s] \in Texts
      BY DEF RInv, RemoteTypeOK, Clients, IInv, TypeOK, Texts
    <2>2. IsPrefix(remote[s].chunks, got[s])
      BY <2>1, PrefixFacts DEF RInv, Following, Texts
    <2> QED BY <2>2 DEF RInv, Keeping, Ended
  <1> QED BY RemoteServiceIsAService, InferenceInvariant, DeliveryInvariant, StreamsAreComplete,
             OutputIsLast, InitFollows, <1>1, <1>2, PTL DEF RemoteSpec
=============================================================================
