--------------------------- MODULE LocalProvider ---------------------------
(***************************************************************************)
(* LocalTransformersInferenceProvider of runtime/providers.py with the     *)
(* streamed generation of its engine (evaluation/hf_backend.py): a model   *)
(* that is loaded on first use and serves one generation at a time.        *)
(*                                                                         *)
(* A caller is a thread.  For a stream it is the thread that drives the    *)
(* generator, which may also be suspended at a yield; the engine generates *)
(* in a native thread of its own, which looks at cancel_event at every     *)
(* token.  A generation that is not cancelled need not end.                *)
(*                                                                         *)
(* A definition named M_X is a faulty variant of the definition X that     *)
(* follows it; no behaviour of the specification uses one.                 *)
(***************************************************************************)
EXTENDS Naturals

CONSTANTS
  Streams,    \* streamed generations
  Calls,      \* threads of unstreamed generations
  Preloader,  \* the one thread of the preload executor
  Nobody,     \* no holder of a lock
  MaxItems    \* bound on the text chunks of one generation

ASSUME ProviderAssumption ==
  /\ Streams \cap Calls = {} /\ Preloader \notin Streams \cup Calls
  /\ Nobody \notin Streams \cup Calls \cup {Preloader}
  /\ MaxItems \in Nat \ {0}

VARIABLES
  engine,                \* whether the engine is loaded
  initialization_state,  \* what /ready tells
  initialization_lock,   \* holder of the lock around loading
  generation_lock,       \* holder of the lock around generating
  call,                  \* where a caller is in the provider
  native,                \* native thread of a stream: "none", "running", "ended"
  items,                 \* chunks that a stream has yielded
  cancel_event           \* the Event of a stream, shared with its consumer

load == <<engine, initialization_state, initialization_lock>>
providerVars == <<load, generation_lock, call, native, items, cancel_event>>

Callers == Streams \cup Calls \cup {Preloader}

At(c, label) == call[c] = label
Goto(c, label) == call' = [call EXCEPT ![c] = label]
Cancel(s) == cancel_event' = [cancel_event EXCEPT ![s] = TRUE]

ProviderInit ==
  /\ engine = FALSE
  /\ initialization_state = "unloaded"
  /\ initialization_lock = Nobody
  /\ generation_lock = Nobody
  /\ call = [c \in Callers |-> "none"]
  /\ native = [s \in Streams |-> "none"]
  /\ items = [s \in Streams |-> 0]
  /\ cancel_event = [s \in Streams |-> FALSE]

-----------------------------------------------------------------------------
(***************************************************************************)
(* The calls and _get_engine.                                              *)
(***************************************************************************)
Generate(c) ==
  /\ c \in Calls /\ At(c, "none")
  /\ Goto(c, "engine")
  /\ UNCHANGED <<load, generation_lock, native, items, cancel_event>>

\* POST /preload submits a load unless one is running or done.
Preload ==
  /\ At(Preloader, "none")
  /\ initialization_state \notin {"ready", "loading"}
  /\ Goto(Preloader, "engine")
  /\ UNCHANGED <<load, generation_lock, native, items, cancel_event>>

\* The first next() of the generator.
Stream(s) ==
  /\ At(s, "none")
  /\ Goto(s, IF cancel_event[s] THEN "returned" ELSE "engine")
  /\ UNCHANGED <<load, generation_lock, native, items, cancel_event>>

\* With the engine at hand a preload is over and a generation waits its turn.
Engaged(c) == IF c = Preloader THEN "none" ELSE "waiting"

GetEngine(c) ==
  /\ At(c, "engine")
  /\ Goto(c, IF engine THEN Engaged(c) ELSE "initialize")
  /\ UNCHANGED <<load, generation_lock, native, items, cancel_event>>

\* Under the lock somebody else may turn out to have loaded it.
Initialize(c) ==
  /\ At(c, "initialize") /\ initialization_lock = Nobody
  /\ IF engine
     THEN Goto(c, Engaged(c)) /\ UNCHANGED load
     ELSE /\ initialization_lock' = c
          /\ initialization_state' = "loading"
          /\ Goto(c, "loading")
          /\ UNCHANGED engine
  /\ UNCHANGED <<generation_lock, native, items, cancel_event>>

\* Where an exception leaves a caller: a stream hands it to its driver.
Raised(c) == IF c \in Streams THEN "raised" ELSE "none"

\* The factory returns or raises.
Load(c) ==
  /\ At(c, "loading")
  /\ initialization_lock' = Nobody
  /\ \/ engine' = TRUE /\ initialization_state' = "ready" /\ Goto(c, Engaged(c))
     \/ initialization_state' = "failed" /\ Goto(c, Raised(c)) /\ UNCHANGED engine
  /\ UNCHANGED <<generation_lock, native, items, cancel_event>>

-----------------------------------------------------------------------------
(***************************************************************************)
(* One generation at a time.                                               *)
(***************************************************************************)
\* A stream that got the lock after it was cancelled gives it back at once.
Acquire(c) ==
  /\ At(c, "waiting") /\ generation_lock = Nobody
  /\ generation_lock' = c
  /\ Goto(c, IF c \in Streams /\ cancel_event[c] THEN "closing" ELSE "generating")
  /\ UNCHANGED <<load, native, items, cancel_event>>

M_GiveUp(s) ==   \* acquire() without a timeout: only what got the lock looks
  /\ At(s, "waiting") /\ cancel_event[s] /\ generation_lock = Nobody
  /\ Goto(s, "returned")
  /\ UNCHANGED <<load, generation_lock, native, items, cancel_event>>

\* A stream polls for its cancellation while it waits for the lock.
GiveUp(s) ==
  /\ At(s, "waiting") /\ cancel_event[s]
  /\ Goto(s, "returned")
  /\ UNCHANGED <<load, generation_lock, native, items, cancel_event>>

\* An unstreamed generation ends or raises.
Generated(c) ==
  /\ c \in Calls /\ At(c, "generating")
  /\ generation_lock' = Nobody
  /\ Goto(c, "none")
  /\ UNCHANGED <<load, native, items, cancel_event>>

\* The engine prepares its inputs, which may fail, and starts the native thread.
StartNative(s) ==
  /\ s \in Streams /\ At(s, "generating") /\ native[s] = "none"
  /\ \/ cancel_event[s] /\ Goto(s, "closing") /\ UNCHANGED <<native, cancel_event>>
     \/ ~cancel_event[s] /\ Goto(s, "failing") /\ Cancel(s) /\ UNCHANGED native
     \/ ~cancel_event[s] /\ native' = [native EXCEPT ![s] = "running"]
                         /\ UNCHANGED <<call, cancel_event>>
  /\ UNCHANGED <<load, generation_lock, items>>

NativeEnds(s) ==
  /\ native[s] = "running"
  /\ native' = [native EXCEPT ![s] = "ended"]
  /\ UNCHANGED <<load, generation_lock, call, items, cancel_event>>

\* A text chunk: yielded, or the generation is cancelled by then.
Chunk(s) ==
  /\ s \in Streams /\ At(s, "generating") /\ native[s] # "none" /\ items[s] < MaxItems
  /\ IF cancel_event[s]
     THEN Goto(s, "closing") /\ UNCHANGED items
     ELSE Goto(s, "yielded") /\ items' = [items EXCEPT ![s] = @ + 1]
  /\ UNCHANGED <<load, generation_lock, native, cancel_event>>

\* The text is over: an error of the native thread, a cancellation, or the output.
Finish(s) ==
  /\ s \in Streams /\ At(s, "generating") /\ native[s] = "ended"
  /\ \/ Goto(s, "failing") /\ Cancel(s)
     \/ cancel_event[s] /\ Goto(s, "closing") /\ UNCHANGED cancel_event
     \/ ~cancel_event[s] /\ Goto(s, "final") /\ UNCHANGED cancel_event
  /\ UNCHANGED <<load, generation_lock, native, items>>

M_Release(s) ==   \* the lock is released before the stream is closed
  /\ call[s] \in {"closing", "failing"}
  /\ generation_lock' = Nobody
  /\ Goto(s, IF At(s, "closing") THEN "returned" ELSE "raised")
  /\ UNCHANGED <<load, native, items, cancel_event>>

\* The finally of _serialized_stream: closing joins the native thread, then the
\* lock is released.
Release(s) ==
  /\ call[s] \in {"closing", "failing"} /\ native[s] # "running"
  /\ generation_lock' = Nobody
  /\ Goto(s, IF At(s, "closing") THEN "returned" ELSE "raised")
  /\ UNCHANGED <<load, native, items, cancel_event>>

\* What resuming the generator after a yield leads to: more, or its end.
Resumed(s) == IF At(s, "final") THEN "closing" ELSE "generating"

-----------------------------------------------------------------------------
\* The steps that a thread inside the provider takes without waiting for a model.
Step(c) ==
  \/ GetEngine(c) \/ Load(c)
  \/ c \in Streams /\ (GiveUp(c) \/ StartNative(c) \/ Finish(c) \/ Release(c))

\* The other ones, but for Stream, which its driver calls.
Wait(c) ==
  \/ Initialize(c) \/ Acquire(c) \/ Generate(c) \/ Generated(c)
  \/ c \in Streams /\ (NativeEnds(c) \/ Chunk(c))

Provide == Preload \/ \E c \in Callers : Step(c) \/ Wait(c)

-----------------------------------------------------------------------------
Labels == {"none", "engine", "initialize", "loading", "waiting", "generating",
           "yielded", "final", "closing", "failing", "returned", "raised"}

ProviderTypeOK ==
  /\ engine \in BOOLEAN
  /\ initialization_state \in {"unloaded", "loading", "ready", "failed"}
  /\ initialization_lock \in Callers \cup {Nobody}
  /\ generation_lock \in Callers \cup {Nobody}
  /\ call \in [Callers -> Labels]
  /\ native \in [Streams -> {"none", "running", "ended"}]
  /\ items \in [Streams -> 0..MaxItems]
  /\ cancel_event \in [Streams -> BOOLEAN]

\* A caller that uses the model, also through a generator suspended at a yield.
UsesModel(c) ==
  \/ call[c] \in {"generating", "yielded", "final", "closing", "failing"}
  \/ c \in Streams /\ native[c] = "running"

(***************************************************************************)
(* The model is one: it is loaded by one caller, never again once it is    *)
(* there, as /ready says; and one caller uses it at a time, a native       *)
(* thread that outlives its request included.                              *)
(***************************************************************************)
OneModel ==
  /\ \A c, d \in Callers : At(c, "loading") /\ At(d, "loading") => c = d
  /\ \A c \in Callers : At(c, "loading") => ~engine
  /\ initialization_state = "ready" <=> engine
  /\ \A c, d \in Callers : UsesModel(c) /\ UsesModel(d) => c = d
=============================================================================
