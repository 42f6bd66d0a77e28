----------------------------- MODULE ChatStream -----------------------------
(***************************************************************************)
(* One streamed chat: the event source, the producer and the gate of       *)
(* chat_stream in backend/app.py with ChatService.stream_chat that the     *)
(* producer drives (backend/chat_service.py).                              *)
(*                                                                         *)
(* The consumer side of a request lives on the event loop: it waits for    *)
(* the gate, hands a producer to the one-thread executor and relays the    *)
(* events that the producer publishes into an unbounded queue.  The two    *)
(* share only the queue and cancel_event, and the thread outlives a client *)
(* that goes away.                                                         *)
(*                                                                         *)
(* A definition named M_X is a faulty variant of the definition X that     *)
(* follows it; no behaviour of the specification uses one.                 *)
(***************************************************************************)
EXTENDS Naturals, Sequences, Functions

CONSTANTS
  Requests,  \* POSTs to /api/chat/stream
  MaxTexts   \* bound on the text deltas of one generation

ASSUME StreamAssumption == MaxTexts \in Nat \ {0}

VARIABLES
  gate,      \* value of stream_gate, an asyncio.Semaphore
  consumer,  \* event source: "new", "waiting", "streaming", "closed"
  producer,  \* where the thread of a request is in produce and stream_chat
  task,      \* "prompt", or "command": answered by a local acknowledgment
  texts,     \* deltas generated so far
  cancel,    \* cancel_event
  events,    \* the queue from the producer to the event source
  sent,      \* what the client received
  persisted  \* requests whose turn is committed

vars == <<gate, consumer, producer, task, texts, cancel, events, sent, persisted>>

Init ==
  /\ gate = 1
  /\ consumer = [r \in Requests |-> "new"]
  /\ producer = [r \in Requests |-> "none"]
  /\ task \in [Requests -> {"prompt", "command"}]
  /\ texts = [r \in Requests |-> 0]
  /\ cancel = [r \in Requests |-> FALSE]
  /\ events = [r \in Requests |-> <<>>]
  /\ sent = [r \in Requests |-> <<>>]
  /\ persisted = {}

-----------------------------------------------------------------------------
(***************************************************************************)
(* The event source.                                                       *)
(***************************************************************************)
Arrive(r) ==
  /\ consumer[r] = "new"
  /\ consumer' = [consumer EXCEPT ![r] = "waiting"]
  /\ UNCHANGED <<gate, producer, task, texts, cancel, events, sent, persisted>>

\* A waiter gets the gate and submits its producer without an await.  Any waiter:
\* a keep-alive cancels the acquire and starts another, which costs the place.
Acquire(r) ==
  /\ gate > 0 /\ consumer[r] = "waiting"
  /\ gate' = gate - 1
  /\ consumer' = [consumer EXCEPT ![r] = "streaming"]
  /\ producer' = [producer EXCEPT ![r] = "submitted"]
  /\ UNCHANGED <<task, texts, cancel, events, sent, persisted>>

M_Close(r) ==   \* the gate is released whether or not the thread has ended
  /\ consumer' = [consumer EXCEPT ![r] = "closed"]
  /\ cancel' = [cancel EXCEPT ![r] = TRUE]
  /\ gate' = gate + 1
  /\ UNCHANGED <<producer, task, texts, persisted>>

\* The finally of the event source: a producer that still runs keeps the gate.
Close(r) ==
  /\ consumer' = [consumer EXCEPT ![r] = "closed"]
  /\ cancel' = [cancel EXCEPT ![r] = TRUE]
  /\ gate' = IF producer[r] = "done" THEN gate + 1 ELSE gate
  /\ UNCHANGED <<producer, task, texts, persisted>>

Relay(r) ==
  /\ consumer[r] = "streaming" /\ events[r] # <<>> /\ Head(events[r]) # "end"
  /\ events' = [events EXCEPT ![r] = Tail(@)]
  /\ sent' = [sent EXCEPT ![r] = Append(@, Head(events[r]))]
  /\ UNCHANGED <<gate, consumer, producer, task, texts, cancel, persisted>>

StreamEnd(r) ==
  /\ consumer[r] = "streaming" /\ events[r] # <<>> /\ Head(events[r]) = "end"
  /\ Close(r)
  /\ UNCHANGED <<events, sent>>

\* ClosingStreamingResponse closes the event source wherever it is suspended.
Disconnect(r) ==
  \/ /\ consumer[r] = "waiting"
     /\ consumer' = [consumer EXCEPT ![r] = "closed"]
     /\ UNCHANGED <<gate, producer, task, texts, cancel, events, sent, persisted>>
  \/ consumer[r] = "streaming" /\ Close(r) /\ UNCHANGED <<events, sent>>

M_ProducerDone(r) ==   \* a client that has gone leaves no callback behind
  /\ producer[r] = "returned"
  /\ producer' = [producer EXCEPT ![r] = "done"]
  /\ UNCHANGED <<gate, consumer, task, texts, cancel, events, sent, persisted>>

\* The loop learns that the thread is through; a closed source left a callback.
ProducerDone(r) ==
  /\ producer[r] = "returned"
  /\ producer' = [producer EXCEPT ![r] = "done"]
  /\ gate' = IF consumer[r] = "closed" THEN gate + 1 ELSE gate
  /\ UNCHANGED <<consumer, task, texts, cancel, events, sent, persisted>>

-----------------------------------------------------------------------------
(***************************************************************************)
(* The producer thread: each step starts where stream_chat was left.       *)
(***************************************************************************)
Loop == <<gate, consumer, task, sent>>   \* what the thread never writes

At(r, label) == producer[r] = label
Goto(r, label) == producer' = [producer EXCEPT ![r] = label]

Busy == { r \in Requests : producer[r] \notin {"none", "submitted", "returned", "done"} }

\* The executor's one thread takes the job; a cancelled one is not prepared.
\* Preparation may fail: no such conversation, an attachment, the database.
Start(r) ==
  /\ At(r, "submitted") /\ Busy = {}
  /\ \/ cancel[r] /\ Goto(r, "close")
     \/ ~cancel[r] /\ Goto(r, "yield_start")
     \/ ~cancel[r] /\ Goto(r, "failed")
  /\ UNCHANGED <<Loop, texts, cancel, events, persisted>>

\* The event that stream_chat yields at each label, and where it goes on.
Yielded == [yield_start |-> "start", yield_text |-> "text", yield_ack |-> "text",
            yield_final |-> "final", yield_done |-> "done"]
Resume  == [yield_start |-> "started", yield_text |-> "generating", yield_ack |-> "yield_final",
            yield_final |-> "yield_done", yield_done |-> "close"]

\* produce takes the event: publish and go on, or break when cancelled.
Publish(r) ==
  /\ producer[r] \in DOMAIN Yielded
  /\ IF cancel[r]
     THEN Goto(r, "close") /\ UNCHANGED events
     ELSE /\ events' = [events EXCEPT ![r] = Append(@, Yielded[producer[r]])]
          /\ Goto(r, Resume[producer[r]])
  /\ UNCHANGED <<Loop, texts, cancel, persisted>>

M_Acknowledge(r) ==   \* the acknowledgment is streamed, then committed
  /\ At(r, "started")
  /\ IF cancel[r] THEN Goto(r, "close")
     ELSE IF task[r] = "command"
     THEN producer' = [producer EXCEPT ![r] = IF texts[r] = 0 THEN "yield_text" ELSE "persist"]
     ELSE Goto(r, "generating")
  /\ UNCHANGED <<Loop, texts, cancel, events, persisted>>

\* A memory command is committed without a model; a prompt is generated.
Acknowledge(r) ==
  /\ At(r, "started")
  /\ IF cancel[r] THEN Goto(r, "close")
     ELSE IF task[r] = "command" THEN Goto(r, "persist")
     ELSE Goto(r, "generating")
  /\ UNCHANGED <<Loop, texts, cancel, events, persisted>>

\* One item of the generation: a delta, the result after at least one, an error,
\* or, once cancelled, its end.
Generate(r) ==
  /\ At(r, "generating")
  /\ \/ cancel[r] /\ Goto(r, "close") /\ UNCHANGED texts
     \/ /\ ~cancel[r] /\ texts[r] < MaxTexts
        /\ texts' = [texts EXCEPT ![r] = @ + 1]
        /\ Goto(r, "yield_text")
     \/ ~cancel[r] /\ texts[r] > 0 /\ Goto(r, "generated") /\ UNCHANGED texts
     \/ Goto(r, "failed") /\ UNCHANGED texts
  /\ UNCHANGED <<Loop, cancel, events, persisted>>

M_CheckCancelled(r) ==   \* no check between the generation and the commit
  /\ At(r, "generated")
  /\ Goto(r, "persist")
  /\ UNCHANGED <<Loop, texts, cancel, events, persisted>>

CheckCancelled(r) ==
  /\ At(r, "generated")
  /\ IF cancel[r] THEN Goto(r, "close") ELSE Goto(r, "persist")
  /\ UNCHANGED <<Loop, texts, cancel, events, persisted>>

\* One transaction: both messages, the mutation and the metadata, or nothing.
PersistChat(r) ==
  /\ At(r, "persist")
  /\ \/ /\ persisted' = persisted \cup {r}
        /\ Goto(r, IF task[r] = "command" THEN "yield_ack" ELSE "yield_final")
     \/ Goto(r, "failed") /\ UNCHANGED persisted
  /\ UNCHANGED <<Loop, texts, cancel, events>>

M_Fail(r) ==   \* the error takes the way of the other events
  /\ At(r, "failed")
  /\ cancel' = [cancel EXCEPT ![r] = TRUE]
  /\ Goto(r, "end")
  /\ UNCHANGED <<Loop, texts, events, persisted>>

M_FailTwice(r) ==   \* the stream that failed is closed like one that did not
  /\ At(r, "failed")
  /\ cancel' = [cancel EXCEPT ![r] = TRUE]
  /\ events' = [events EXCEPT ![r] = Append(@, "error")]
  /\ Goto(r, "close")
  /\ UNCHANGED <<Loop, texts, persisted>>

\* stream_chat sets the signal on its way out, so the error is published by force;
\* closing the generator that raised does nothing more.
Fail(r) ==
  /\ At(r, "failed")
  /\ cancel' = [cancel EXCEPT ![r] = TRUE]
  /\ events' = [events EXCEPT ![r] = Append(@, "error")]
  /\ Goto(r, "end")
  /\ UNCHANGED <<Loop, texts, persisted>>

\* service_stream.close(): an unsaved turn sets the signal; closing a generation
\* that did not run to its end may raise.
CloseStream(r) ==
  /\ At(r, "close")
  /\ cancel' = [cancel EXCEPT ![r] = @ \/ r \notin persisted]
  /\ \/ UNCHANGED events
     \/ /\ r \notin persisted /\ texts[r] > 0
        /\ events' = [events EXCEPT ![r] = Append(@, "error")]
  /\ Goto(r, "end")
  /\ UNCHANGED <<Loop, texts, persisted>>

M_PublishEnd(r) ==   \* the end marker is dropped for a cancelled request
  /\ At(r, "end")
  /\ events' = IF cancel[r] THEN events ELSE [events EXCEPT ![r] = Append(@, "end")]
  /\ Goto(r, "returned")
  /\ UNCHANGED <<Loop, texts, cancel, persisted>>

\* stream_end is always published; then the thread returns.
PublishEnd(r) ==
  /\ At(r, "end")
  /\ events' = [events EXCEPT ![r] = Append(@, "end")]
  /\ Goto(r, "returned")
  /\ UNCHANGED <<Loop, texts, cancel, persisted>>

-----------------------------------------------------------------------------
EventSource(r) == Acquire(r) \/ Relay(r) \/ StreamEnd(r) \/ ProducerDone(r)

Produce(r) ==
  \/ Start(r) \/ Publish(r) \/ Acknowledge(r) \/ Generate(r) \/ CheckCancelled(r)
  \/ PersistChat(r) \/ Fail(r) \/ CloseStream(r) \/ PublishEnd(r)

Next ==
  \E r \in Requests :
    Arrive(r) \/ Disconnect(r) \/ EventSource(r) \/ Produce(r)

(***************************************************************************)
(* The loop and the thread keep running, and a generation ends.  No client *)
(* has to arrive or to leave.                                              *)
(***************************************************************************)
Fairness == \A r \in Requests : WF_vars(EventSource(r)) /\ WF_vars(Produce(r))

Spec == Init /\ [][Next]_vars /\ Fairness

-----------------------------------------------------------------------------
Labels == DOMAIN Yielded \cup
  {"none", "submitted", "started", "generating", "generated", "persist", "failed",
   "close", "end", "returned", "done"}
Kinds == {"start", "text", "final", "done", "error"}

TypeOK ==
  /\ gate \in {0, 1}
  /\ consumer \in [Requests -> {"new", "waiting", "streaming", "closed"}]
  /\ producer \in [Requests -> Labels]
  /\ task \in [Requests -> {"prompt", "command"}]
  /\ texts \in [Requests -> 0..MaxTexts]
  /\ cancel \in [Requests -> BOOLEAN]
  /\ events \in [Requests -> Seq(Kinds \cup {"end"})]
  /\ sent \in [Requests -> Seq(Kinds)]
  /\ persisted \subseteq Requests

(***************************************************************************)
(* The gate is free exactly when nobody is being served, and at most one   *)
(* request is.  A request is served from its acquire to the end of its     *)
(* thread or of its event source, whichever is later: a client that leaves *)
(* neither frees the model under a running thread nor keeps the gate.      *)
(***************************************************************************)
Served == { r \in Requests : \/ consumer[r] = "streaming"
                             \/ producer[r] \notin {"none", "done"} }

GateAccounted ==
  /\ gate = 1 <=> Served = {}
  /\ \A r, s \in Served : r = s

\* What may follow an event on the wire; a stream begins with start or error.
Follow == [start |-> {"text", "error"}, text |-> {"text", "final", "error"},
           final |-> {"done"}, done |-> {}, error |-> {}]

(***************************************************************************)
(* A client sees start text+ final done, any prefix of it, or one of these *)
(* prefixes before final with an error at its end: never two errors, and   *)
(* nothing after a terminal event.                                         *)
(***************************************************************************)
SentLifecycle ==
  \A r \in Requests :
    \A i \in DOMAIN sent[r] :
      sent[r][i] \in IF i = 1 THEN {"start", "error"} ELSE Follow[sent[r][i - 1]]

(***************************************************************************)
(* What the client is told agrees with the database: final, and any text   *)
(* of a command's acknowledgment, only of a committed turn; error only of  *)
(* one that is not committed.                                              *)
(***************************************************************************)
SavedAsTold ==
  \A r \in Requests :
    /\ "final" \in Range(sent[r]) => r \in persisted
    /\ task[r] = "command" /\ "text" \in Range(sent[r]) => r \in persisted
    /\ "error" \in Range(sent[r]) => r \notin persisted

(***************************************************************************)
(* A client that stays to the end of its stream is told how it ended.      *)
(***************************************************************************)
TerminalEvent ==
  [][\A r \in Requests :
       StreamEnd(r) => /\ sent[r] # <<>>
                       /\ sent[r][Len(sent[r])] \in {"done", "error"}]_vars

(***************************************************************************)
(* A turn that is cancelled before its commit is under way stays unsaved,  *)
(* however far its generation got.                                         *)
(***************************************************************************)
CancelledIsNotSaved ==
  \A r \in Requests :
    [](cancel[r] /\ producer[r] # "persist" /\ r \notin persisted => [](r \notin persisted))

(***************************************************************************)
(* Every request that reaches the gate is served and its stream closed, no *)
(* matter which clients leave, when, or which turns fail.                  *)
(***************************************************************************)
EveryStreamEnds ==
  \A r \in Requests : consumer[r] = "waiting" ~> consumer[r] = "closed"
=============================================================================
