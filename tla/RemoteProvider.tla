--------------------------- MODULE RemoteProvider ---------------------------
(***************************************************************************)
(* _stream_request of RemoteInferenceProvider (runtime/providers.py), the  *)
(* client of POST /v1/generate/stream, composed with the service that      *)
(* InferenceStream models.  Between them is one connection that keeps the  *)
(* order of events and may be cut anywhere.  The turn may be cancelled at  *)
(* any time; a watcher thread then shuts the connection down, since the    *)
(* client may be blocked in a read that never returns.                     *)
(*                                                                         *)
(* A definition named M_X is a faulty variant of the definition X that     *)
(* follows it; no behaviour of the specification uses one.                 *)
(***************************************************************************)
EXTENDS InferenceStream, SequencesExt

VARIABLES
  remote,    \* the client of a stream: pc, chunks received, text of the final event, result
  cancelled, \* the Event of the chat turn
  link,      \* "none", "open", "closed" by the client, or ended from the other side:
             \* "eof" cleanly, "broken" with an error or inside an event
  wire       \* events sent and not read

remoteVars == <<remote, cancelled, link, wire>>

Unsent == [pc |-> "idle", chunks |-> <<>>, final |-> <<>>, result |-> "none"]
Delta(chunk) == [event |-> "delta", data |-> <<chunk>>]
Final(text) == [event |-> "final", data |-> text]
Error == [event |-> "error", data |-> <<>>]

RemoteInit ==
  /\ Init
  /\ remote = [s \in Streams |-> Unsent]
  /\ cancelled = [s \in Streams |-> FALSE]
  /\ link = [s \in Streams |-> "none"]
  /\ wire = [s \in Streams |-> <<>>]

Connect(s, state) == link' = [link EXCEPT ![s] = state]

-----------------------------------------------------------------------------
(***************************************************************************)
(* The service: the actions of InferenceStream that meet the connection.   *)
(***************************************************************************)
Request(s) ==
  /\ link[s] = "open"
  /\ Open(s)
  /\ UNCHANGED remoteVars

\* The delta event of the item, which nobody gets when the connection is gone.
Send(s) ==
  /\ Resume(s)
  /\ wire' = IF link[s] = "open" /\ Last(got[s]) # Output
             THEN [wire EXCEPT ![s] = Append(@, Delta(Last(got[s])))] ELSE wire
  /\ UNCHANGED <<remote, cancelled, link>>

\* The route ends its response: with the final event or, after a failure, with
\* an error event.
Answer(s) ==
  /\ consumer[s] = "closed" /\ outcome[s] # "left" /\ link[s] = "open"
  /\ wire' = [wire EXCEPT ![s] = Append(@,
       IF outcome[s] = "end" THEN Final(Front(got[s])) ELSE Error)]
  /\ Connect(s, "eof")
  /\ UNCHANGED <<vars, remote, cancelled>>

Disconnected(s) ==
  /\ link[s] # "open"
  /\ Abandon(s)
  /\ UNCHANGED remoteVars

\* What is still under way may be lost with the connection; a proxy may end the
\* response cleanly where the service did not.
Cut(s) ==
  /\ link[s] \in {"open", "eof"} /\ remote[s].pc # "done"
  /\ \E n \in 0 .. Len(wire[s]) : wire' = [wire EXCEPT ![s] = SubSeq(@, 1, n)]
  /\ \E end \in {"eof", "broken"} : Connect(s, end)
  /\ UNCHANGED <<vars, remote, cancelled>>

-----------------------------------------------------------------------------
(***************************************************************************)
(* The client, driven by the thread that produces the chat stream.         *)
(***************************************************************************)
Become(s, state) == remote' = [remote EXCEPT ![s] = state]

\* The generator ends and with it the response; nothing more is read of it.
HangUp(s, result) ==
  /\ Become(s, [remote[s] EXCEPT !.pc = "done", !.result = result])
  /\ wire' = [wire EXCEPT ![s] = <<>>]
  /\ Connect(s, CASE link[s] \in {"open", "closed"} -> "closed"
                  [] link[s] = "none" -> "none"
                  [] link[s] \in {"eof", "broken"} -> "broken")

\* The request is built and its host checked, either of which may refuse it.
Begin(s) ==
  /\ remote[s].pc = "idle"
  /\ IF cancelled[s] THEN HangUp(s, "cancelled")
     ELSE \/ HangUp(s, "failed")
          \/ /\ Become(s, [remote[s] EXCEPT !.pc = "connecting"]) /\ Connect(s, "open")
             /\ UNCHANGED wire
  /\ UNCHANGED <<vars, cancelled>>

\* No response, not in time, or another status than 200: the wait for it is
\* not interrupted by a cancellation.
Refused(s) ==
  /\ remote[s].pc = "connecting"
  /\ HangUp(s, IF cancelled[s] THEN "cancelled" ELSE "failed")
  /\ UNCHANGED <<vars, cancelled>>

Connected(s) ==
  /\ remote[s].pc = "connecting" /\ consumer[s] # "new"
  /\ Become(s, [remote[s] EXCEPT !.pc = "reading"])
  /\ UNCHANGED <<vars, cancelled, link, wire>>

M_Interrupt(s) ==   \* the cancellation is noticed when the next line arrives
  /\ cancelled[s] /\ remote[s].pc \in {"reading", "suspended"} /\ link[s] = "open"
  /\ wire[s] # <<>>
  /\ Connect(s, "closed")
  /\ UNCHANGED <<vars, remote, cancelled, wire>>

\* The watcher shuts the connection down, which ends a blocked read.
Interrupt(s) ==
  /\ cancelled[s] /\ remote[s].pc \in {"reading", "suspended"} /\ link[s] = "open"
  /\ Connect(s, "closed")
  /\ UNCHANGED <<vars, remote, cancelled, wire>>

\* The next line, the end or an exception finds the turn cancelled.
GiveUpReading(s) ==
  /\ remote[s].pc = "reading" /\ cancelled[s]
  /\ wire[s] # <<>> \/ link[s] # "open"
  /\ HangUp(s, "cancelled")
  /\ UNCHANGED <<vars, cancelled>>

ReadEvent(s) ==
  /\ remote[s].pc = "reading" /\ ~cancelled[s] /\ wire[s] # <<>>
  /\ LET e == Head(wire[s])
         r == remote[s] IN
     \/ /\ e.event = "delta"
        /\ Become(s, [r EXCEPT !.pc = "suspended", !.chunks = @ \o e.data])
        /\ wire' = [wire EXCEPT ![s] = Tail(@)] /\ UNCHANGED link
     \/ /\ e.event = "final" /\ r.final = <<>> /\ e.data # <<>>
        /\ Become(s, [r EXCEPT !.final = e.data])
        /\ wire' = [wire EXCEPT ![s] = Tail(@)] /\ UNCHANGED link
     \/ /\ e.event = "error" \/ (e.event = "final" /\ (r.final # <<>> \/ e.data = <<>>))
        /\ HangUp(s, "failed")
  /\ UNCHANGED <<vars, cancelled>>

M_Complete(s) ==   \* a response that ended well is an answer
  link[s] = "eof"

\* Only a final event whose text is that of the deltas makes an answer of them.
Complete(s) ==
  /\ link[s] = "eof"
  /\ remote[s].final # <<>> /\ remote[s].chunks = remote[s].final

\* The response has ended.
ReadEnd(s) ==
  /\ remote[s].pc = "reading" /\ ~cancelled[s] /\ wire[s] = <<>> /\ link[s] # "open"
  /\ HangUp(s, IF Complete(s) THEN "output" ELSE "failed")
  /\ UNCHANGED <<vars, cancelled>>

\* The caller takes the delta and asks for more; a cancelled one closes the
\* generator.
Take(s) ==
  /\ remote[s].pc = "suspended"
  /\ \/ Become(s, [remote[s] EXCEPT !.pc = "reading"]) /\ UNCHANGED <<link, wire>>
     \/ cancelled[s] /\ HangUp(s, "cancelled")
  /\ UNCHANGED <<vars, cancelled>>

CancelTurn(s) ==
  /\ ~cancelled[s] /\ remote[s].pc # "done"
  /\ cancelled' = [cancelled EXCEPT ![s] = TRUE]
  /\ UNCHANGED <<vars, remote, link, wire>>

-----------------------------------------------------------------------------
ClientStep(s) ==
  \/ Begin(s) \/ Refused(s) \/ Connected(s) \/ GiveUpReading(s) \/ ReadEvent(s)
  \/ ReadEnd(s) \/ Take(s)

RemoteNext ==
  \/ Provide /\ UNCHANGED workerVars /\ UNCHANGED remoteVars
  \/ \E s \in Streams :
       \/ (Produce(s) \/ Consume(s)) /\ UNCHANGED remoteVars
       \/ Request(s) \/ Send(s) \/ Answer(s) \/ Disconnected(s) \/ Cut(s)
       \/ ClientStep(s) \/ Interrupt(s) \/ CancelTurn(s)

(***************************************************************************)
(* A cancelled turn's thread and the watcher keep running, a connection    *)
(* attempt ends, and the service learns that the client has closed the     *)
(* connection.  It need not learn that the network has cut it.             *)
(***************************************************************************)
RemoteSpec ==
  /\ RemoteInit /\ [][RemoteNext]_<<vars, remoteVars>> /\ Fairness
  /\ \A s \in Streams :
       /\ WF_<<vars, remoteVars>>(cancelled[s] /\ ClientStep(s))
       /\ WF_<<vars, remoteVars>>(Interrupt(s))
       /\ WF_<<vars, remoteVars>>(link[s] = "closed" /\ Disconnected(s))

-----------------------------------------------------------------------------
(***************************************************************************)
(* However the connection is cut, the deltas passed on are the beginning   *)
(* of what the model wrote, and they are reported as an answer only when   *)
(* they are all of it and the service said so.                             *)
(***************************************************************************)
RemoteIsWhole ==
  \A s \in Streams :
    /\ IsPrefix(remote[s].chunks, got[s])
    /\ remote[s].result = "output" =>
         outcome[s] = "end" /\ got[s] = Append(remote[s].chunks, Output)

(***************************************************************************)
(* Cancelling a turn ends its generation on the other machine, whatever    *)
(* the client was blocked in, unless the network has cut them off.         *)
(***************************************************************************)
CancelReachesTheModel ==
  \A s \in Streams :
    cancelled[s] ~> /\ remote[s].pc = "done"
                    /\ consumer[s] \in {"new", "closed"} \/ link[s] # "closed"
=============================================================================
