-------------------------- MODULE InferenceStream --------------------------
(***************************************************************************)
(* POST /v1/generate/stream of runtime/inference_app.py: stream_in_worker  *)
(* of backend/streaming.py over the local provider.                        *)
(*                                                                         *)
(* A worker thread drives the provider's generator and closes it.  It puts *)
(* the items into a bounded queue of the event loop, one after the other;  *)
(* the consumer on the loop takes them out and may be closed wherever it   *)
(* is suspended.  finished and, in an empty queue, the end marker tell it  *)
(* that the worker is through.                                             *)
(*                                                                         *)
(* A definition named M_X is a faulty variant of the definition X that     *)
(* follows it; no behaviour of the specification uses one.                 *)
(***************************************************************************)
EXTENDS LocalProvider, Sequences

CONSTANT Size   \* capacity of the queue, 8 in the code

ASSUME QueueAssumption == Size \in Nat \ {0}

VARIABLES
  worker,    \* the worker thread: where it is in produce and publish
  queue,     \* the asyncio.Queue
  marked,    \* whether mark_finished was handed to the loop
  finished,  \* the asyncio.Event
  failed,    \* whether failures is not empty
  consumer,  \* "new", "reading", "suspended" at its yield, "closing", "closed"
  outcome,   \* how the consumer's loop ended: "end", "failure", "left"
  got        \* items that the consumer passed on

workerVars == <<worker, queue, marked, finished, failed, consumer, outcome, got>>
vars == <<providerVars, workerVars>>

End    == 0              \* the end marker; a chunk is its number
Output == MaxItems + 1   \* the GenerationOutput that ends a generation

Init ==
  /\ ProviderInit
  /\ worker = [s \in Streams |-> "none"]
  /\ queue = [s \in Streams |-> <<>>]
  /\ marked = [s \in Streams |-> FALSE]
  /\ finished = [s \in Streams |-> FALSE]
  /\ failed = [s \in Streams |-> FALSE]
  /\ consumer = [s \in Streams |-> "new"]
  /\ outcome = [s \in Streams |-> "none"]
  /\ got = [s \in Streams |-> <<>>]

Move(s, label) == worker' = [worker EXCEPT ![s] = label]
Enter(s, label) == consumer' = [consumer EXCEPT ![s] = label]

-----------------------------------------------------------------------------
(***************************************************************************)
(* The worker thread.                                                      *)
(***************************************************************************)
StartWorker(s) ==
  /\ worker[s] = "start"
  /\ Move(s, IF cancel_event[s] THEN "done" ELSE "iterating")
  /\ UNCHANGED <<providerVars, queue, marked, finished, failed, consumer, outcome, got>>

FirstItem(s) == worker[s] = "iterating" /\ Stream(s) /\ UNCHANGED workerVars

\* An item came out: publish it, or leave the loop and close the generator.
Produced(s) ==
  /\ worker[s] = "iterating" /\ call[s] \in {"yielded", "final"}
  /\ IF cancel_event[s]
     THEN Move(s, "closing") /\ Goto(s, "closing")
     ELSE Move(s, "publish") /\ UNCHANGED call
  /\ UNCHANGED <<load, generation_lock, native, items, cancel_event, queue, marked,
                 finished, failed, consumer, outcome, got>>

\* publish returns and the loop asks for the next item.
Published(s) ==
  /\ Move(s, "iterating") /\ Goto(s, Resumed(s))
  /\ UNCHANGED <<load, generation_lock, native, items, cancel_event, marked,
                 finished, failed, consumer, outcome, got>>

\* The put on the loop, when there is room ...
Put(s) ==
  /\ worker[s] = "publish" /\ Len(queue[s]) < Size
  /\ queue' = [queue EXCEPT ![s] = Append(@, IF At(s, "final") THEN Output ELSE items[s])]
  /\ Published(s)

\* ... or never, because the consumer has gone.
Drop(s) ==
  /\ worker[s] = "publish" /\ cancel_event[s]
  /\ UNCHANGED queue
  /\ Published(s)

\* The generator returned or raised, by itself or when it was closed.
IteratorDone(s) ==
  /\ worker[s] \in {"iterating", "closing"} /\ call[s] \in {"returned", "raised"}
  /\ failed' = [failed EXCEPT ![s] = @ \/ At(s, "raised")]
  /\ Move(s, "done")
  /\ UNCHANGED <<providerVars, queue, marked, finished, consumer, outcome, got>>

\* call_soon_threadsafe(mark_finished); then the thread ends.
Mark(s) ==
  /\ worker[s] = "done"
  /\ Move(s, "exiting")
  /\ marked' = [marked EXCEPT ![s] = TRUE]
  /\ UNCHANGED <<providerVars, queue, finished, failed, consumer, outcome, got>>

Exit(s) ==
  /\ worker[s] = "exiting"
  /\ Move(s, "ended")
  /\ UNCHANGED <<providerVars, queue, marked, finished, failed, consumer, outcome, got>>

-----------------------------------------------------------------------------
(***************************************************************************)
(* The event loop.                                                         *)
(***************************************************************************)
\* A consumer that waits in get is woken by the end marker, another one looks at
\* finished when it has emptied the queue.
MarkFinished(s) ==
  /\ marked[s] /\ ~finished[s]
  /\ finished' = [finished EXCEPT ![s] = TRUE]
  /\ queue' = [queue EXCEPT ![s] = IF @ = <<>> THEN <<End>> ELSE @]
  /\ UNCHANGED <<providerVars, worker, marked, failed, consumer, outcome, got>>

Open(s) ==
  /\ consumer[s] = "new"
  /\ Enter(s, "reading") /\ Move(s, "start")
  /\ UNCHANGED <<providerVars, queue, marked, finished, failed, outcome, got>>

Receive(s) ==
  /\ consumer[s] = "reading" /\ queue[s] # <<>> /\ Head(queue[s]) # End
  /\ got' = [got EXCEPT ![s] = Append(@, Head(queue[s]))]
  /\ queue' = [queue EXCEPT ![s] = Tail(@)]
  /\ Enter(s, "suspended")
  /\ UNCHANGED <<providerVars, worker, marked, finished, failed, outcome>>

\* The client takes the item.
Resume(s) ==
  /\ consumer[s] = "suspended"
  /\ Enter(s, "reading")
  /\ UNCHANGED <<providerVars, worker, queue, marked, finished, failed, outcome, got>>

\* The finally of the consumer up to its wait.
Leave(s, how) ==
  /\ Enter(s, "closing") /\ Cancel(s)
  /\ outcome' = [outcome EXCEPT ![s] = how]
  /\ UNCHANGED <<load, generation_lock, call, native, items, worker, queue, marked,
                 finished, failed, got>>

M_Stop(s) ==   \* finished is enough, whatever is still queued
  /\ consumer[s] = "reading" /\ finished[s]
  /\ Leave(s, IF failed[s] THEN "failure" ELSE "end")

Stop(s) ==
  /\ consumer[s] = "reading"
  /\ IF queue[s] = <<>> THEN finished[s] ELSE Head(queue[s]) = End
  /\ Leave(s, IF failed[s] THEN "failure" ELSE "end")

\* The client has gone: the response closes the consumer.
Abandon(s) ==
  /\ consumer[s] \in {"reading", "suspended"}
  /\ Leave(s, "left")

M_Join(s) ==   \* the response ends although the worker is still at its cleanup
  /\ consumer[s] = "closing"
  /\ Enter(s, "closed")
  /\ UNCHANGED <<providerVars, worker, queue, marked, finished, failed, outcome, got>>

\* The shielded wait for finished and for the thread.
Join(s) ==
  /\ consumer[s] = "closing" /\ finished[s] /\ worker[s] = "ended"
  /\ Enter(s, "closed")
  /\ UNCHANGED <<providerVars, worker, queue, marked, finished, failed, outcome, got>>

-----------------------------------------------------------------------------
Produce(s) ==
  \/ StartWorker(s) \/ FirstItem(s) \/ Produced(s) \/ Put(s) \/ Drop(s)
  \/ IteratorDone(s) \/ Mark(s) \/ Exit(s)

Consume(s) == MarkFinished(s) \/ Receive(s) \/ Stop(s) \/ Join(s)

Next ==
  \/ Provide /\ UNCHANGED workerVars
  \/ \E s \in Streams : Produce(s) \/ Consume(s) \/ Open(s) \/ Resume(s) \/ Abandon(s)

(***************************************************************************)
(* Threads and the loop keep running, a load ends or fails, every caller   *)
(* gets the initialization lock some time, and a native thread that is     *)
(* cancelled stops.  No generation has to end and no client to read.       *)
(***************************************************************************)
Fairness ==
  /\ \A c \in Callers :
       /\ WF_vars(Step(c) /\ UNCHANGED workerVars)
       /\ SF_vars(Initialize(c) /\ UNCHANGED workerVars)
  /\ \A s \in Streams :
       /\ WF_vars(Produce(s)) /\ WF_vars(Consume(s))
       /\ WF_vars(cancel_event[s] /\ NativeEnds(s) /\ UNCHANGED workerVars)

Spec == Init /\ [][Next]_vars /\ Fairness

-----------------------------------------------------------------------------
TypeOK ==
  /\ ProviderTypeOK
  /\ worker \in [Streams -> {"none", "start", "iterating", "publish", "closing", "done",
                             "exiting", "ended"}]
  /\ queue \in [Streams -> Seq(End .. Output)]
  /\ \A s \in Streams : Len(queue[s]) <= Size
  /\ marked \in [Streams -> BOOLEAN]
  /\ finished \in [Streams -> BOOLEAN]
  /\ failed \in [Streams -> BOOLEAN]
  /\ consumer \in [Streams -> {"new", "reading", "suspended", "closing", "closed"}]
  /\ outcome \in [Streams -> {"none", "end", "failure", "left"}]
  /\ got \in [Streams -> Seq(1 .. Output)]

(***************************************************************************)
(* What the model wrote arrives in order and without a gap.  A stream that *)
(* ends by itself had all of it and the output, one that fails had all     *)
(* that was written before the failure.                                    *)
(***************************************************************************)
StreamedInFull ==
  \A s \in Streams :
    LET n == Len(got[s]) IN
    /\ \A i \in 1 .. n : got[s][i] = i \/ (got[s][i] = Output /\ i = n /\ n = items[s] + 1)
    /\ outcome[s] = "end" => n > 0 /\ got[s][n] = Output
    /\ outcome[s] = "failure" => n = items[s]

(***************************************************************************)
(* Whoever waits for a stream to be closed waits for its threads: when it  *)
(* is closed, the worker and the native thread have ended and the model is *)
(* free for the next request.                                              *)
(***************************************************************************)
ClosedMeansClean ==
  \A s \in Streams :
    consumer[s] = "closed" =>
      /\ worker[s] = "ended" /\ native[s] # "running"
      /\ generation_lock # s /\ initialization_lock # s

(***************************************************************************)
(* Nobody waits for ever on anybody: a consumer that is closed gets to the *)
(* end of its cleanup, also while another generation holds the model and   *)
(* never ends, and one that reads learns that its worker has ended.        *)
(***************************************************************************)
EveryStreamCloses ==
  \A s \in Streams :
    consumer[s] = "closing" \/ (consumer[s] = "reading" /\ worker[s] = "ended")
      ~> consumer[s] \in {"closed", "suspended"}
=============================================================================
