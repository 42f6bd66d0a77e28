----------------------------- MODULE ChatClient -----------------------------
(***************************************************************************)
(* One browser tab (src/frontend/components/AmitaiApp.tsx) against a       *)
(* server that answers its calls in any order, late, or not at all.  Each  *)
(* call in flight is a slot of "call"; between sending a call and          *)
(* receiving its answer the user may act and other answers may arrive.     *)
(*                                                                         *)
(* conversationRequestRef is a counter that every load and every submit    *)
(* increments; a continuation compares the number it took with the newest  *)
(* one.  Only that comparison matters, so a call carries "fresh": its      *)
(* number is still the newest.  streamAbortRef is "owner", the slot of the *)
(* running stream.  "sending" is owner # None; wording, the connection     *)
(* badge, scrolling, image drafts and the other views are left out.        *)
(***************************************************************************)
EXTENDS Naturals, Sequences, SequencesExt

CONSTANTS Convs,      \* conversation ids the server can hand out
          Old,        \* those saved before the tab opened
          Messages,   \* user messages
          Calls,      \* slots for calls in flight
          None,
          MaxTurns    \* bound on the turns of a conversation

ASSUME ClientAssumption ==
  /\ Old \subseteq Convs /\ MaxTurns \in Nat
  /\ None \notin Convs \cup Messages \cup Calls
  /\ None \notin [id : Convs, turns : Seq(Messages)]   \* nor is it a detail

VARIABLES
  status, saved,      \* the server: a conversation is unused, live or gone;
                      \* the user messages of its turns
  selected, detail,   \* selectedId; conversation: None or [id, turns]
  loading, loadError, remembered,       \* remembered is in localStorage
  pending, failed,    \* messages, or None
  streaming, owner,   \* slots of streams, or None
  committed,          \* committedRef
  sidebar, alert,     \* the list; what the notification would retry, or None
  call,               \* calls in flight
  told, overlapped    \* history: turns whose save was confirmed to the tab;
                      \* a delete overlapped another call

server == <<status, saved>>
screen == <<selected, detail, loading, loadError, remembered>>
turn == <<pending, streaming, failed, committed, owner>>
lists == <<sidebar, alert>>
clientVars == <<server, screen, turn, lists, call, told, overlapped>>

Idle == [kind |-> "idle"]
Lost == [ok |-> FALSE]
Reply(turns) == [ok |-> TRUE, turns |-> turns, listed |-> {x \in Convs : status[x] = "live"}]

Kind(k) == {c \in Calls : call[c].kind = k}

-----------------------------------------------------------------------------
(* Sending a call.  Stale marks every call in flight as overtaken. *)

Request(kind, conv, extra) ==
  [kind |-> kind, conv |-> conv, fresh |-> TRUE, answer |-> None, base |-> extra]

Stale(calls) ==
  [c \in Calls |-> IF calls[c].kind = "idle" THEN calls[c]
                   ELSE [calls[c] EXCEPT !.fresh = FALSE]]

Free(c) == call[c].kind = "idle"

StartCall(c, kind, conv, extra) == call' = [call EXCEPT ![c] = Request(kind, conv, extra)]
StartNewest(c, kind, conv, extra) ==
  call' = [Stale(call) EXCEPT ![c] = Request(kind, conv, extra)]

Modal == Kind("rename") # {}            \* the rename dialog covers the page
Ready == owner = None /\ ~loading /\ ~Modal
Shown == (detail # None /\ detail.turns # <<>>) \/ pending # None \/ streaming # None

InitClient ==
  /\ status = [x \in Convs |-> IF x \in Old THEN "live" ELSE "unused"]
  /\ saved = [x \in Convs |-> <<>>]
  /\ selected = None /\ detail = None /\ remembered \in Old \cup {None}
  /\ loading = TRUE /\ loadError = FALSE
  /\ pending = None /\ streaming = None /\ failed = None
  /\ committed = FALSE /\ owner = None
  /\ sidebar = {} /\ alert = None
  /\ \E c \in Calls : call = [[d \in Calls |-> Idle] EXCEPT
                                ![c] = Request("initialize", None, {})]
  /\ told = {} /\ overlapped = FALSE

-----------------------------------------------------------------------------
(* The server, and the network between. *)

(* One call is handled.  A delete or a rename of a conversation that is    *)
(* gone, or a read of it, is a 404.                                        *)
Serve(c) ==
  /\ call[c].kind \notin {"idle", "stream"}
  /\ call[c].answer = None
  /\ LET x == call[c].conv
         found == x = None \/ status[x] = "live"
     IN /\ call' = [call EXCEPT ![c].answer =
                      IF ~found THEN Lost ELSE Reply(IF x = None THEN <<>> ELSE saved[x])]
        /\ status' = IF call[c].kind = "delete" /\ found
                       THEN [status EXCEPT ![x] = "gone"] ELSE status
  /\ UNCHANGED <<saved, screen, turn, lists, told>>

(* The connection fails, before or after the server handled the call. *)
Lose(c) ==
  /\ call[c].kind \notin {"idle", "stream"} /\ call[c].answer # Lost
  /\ call' = [call EXCEPT ![c].answer = Lost]
  /\ UNCHANGED <<server, screen, turn, lists, told>>

(* The server saves the turn of a stream, which it does before it sends    *)
(* final and even when the client has just disconnected.                   *)
Commit(c) ==
  /\ call[c].kind = "stream" /\ call[c].stage = "sent"
  /\ \E x \in Convs :
       /\ IF call[c].conv = None THEN status[x] = "unused"
                                 ELSE x = call[c].conv /\ status[x] = "live"
       /\ Len(saved[x]) < MaxTurns
       /\ status' = [status EXCEPT ![x] = "live"]
       /\ saved' = [saved EXCEPT ![x] = Append(@, call[c].message)]
       /\ call' = [call EXCEPT ![c].stage = "saved", ![c].result = x]
  /\ UNCHANGED <<screen, turn, lists, told>>

-----------------------------------------------------------------------------
(* Loading. *)

ClearTurn == pending' = None /\ streaming' = None /\ failed' = None

LoadStarts(c, x) ==
  /\ StartNewest(c, "load", x, {})
  /\ loading' = TRUE /\ loadError' = FALSE

(* The answer of loadConversation, and of initialize's first conversation. *)
LoadEnds(c) ==
  /\ call[c].kind \in {"load", "first"} /\ call[c].answer # None
  /\ call' = [call EXCEPT ![c] = Idle]
  /\ IF ~call[c].fresh THEN UNCHANGED screen
     ELSE /\ loading' = FALSE
          /\ IF call[c].answer = Lost
               THEN detail' = None /\ loadError' = TRUE /\ UNCHANGED <<selected, remembered>>
               ELSE /\ detail' = [id |-> call[c].conv, turns |-> call[c].answer.turns]
                    /\ selected' = call[c].conv
                    /\ remembered' = IF call[c].kind = "load" THEN call[c].conv
                                     ELSE remembered
                    /\ UNCHANGED loadError
  /\ UNCHANGED <<server, turn, lists, told>>

(* initialize receives the list and goes on to its first conversation. *)
Listed(c) ==
  /\ call[c].kind = "initialize" /\ call[c].answer # None
  /\ IF ~call[c].fresh
       THEN call' = [call EXCEPT ![c] = Idle] /\ UNCHANGED <<screen, sidebar>>
       ELSE IF call[c].answer = Lost
       THEN /\ call' = [call EXCEPT ![c] = Idle]
            /\ sidebar' = {} /\ detail' = None /\ loading' = FALSE /\ loadError' = TRUE
            /\ UNCHANGED <<selected, remembered>>
       ELSE /\ sidebar' = call[c].answer.listed
            /\ \E x \in IF remembered \in sidebar' THEN {remembered}
                        ELSE IF sidebar' = {} THEN {None} ELSE sidebar' :
                 /\ selected' = x
                 /\ IF x = None
                      THEN /\ call' = [call EXCEPT ![c] = Idle]
                           /\ detail' = None /\ loading' = FALSE
                      ELSE StartCall(c, "first", x, {}) /\ UNCHANGED <<detail, loading>>
            /\ UNCHANGED <<loadError, remembered>>
  /\ UNCHANGED <<server, turn, alert, told>>

SelectConversation(x) ==
  /\ Ready /\ x \in sidebar
  /\ \E c \in Calls : Free(c) /\ LoadStarts(c, x)
  /\ selected' = x /\ ClearTurn
  /\ UNCHANGED <<server, detail, remembered, committed, owner, lists, told>>

NewConversation ==
  /\ Ready
  /\ call' = Stale(call)
  /\ loading' = FALSE /\ loadError' = FALSE
  /\ selected' = None /\ detail' = None /\ remembered' = None
  /\ ClearTurn /\ alert' = None
  /\ UNCHANGED <<server, committed, owner, sidebar, told>>

(* The Retry button of a failed load. *)
RetryLoad ==
  /\ loadError /\ ~loading /\ ~Modal
  /\ \E c \in Calls :
       /\ Free(c)
       /\ IF selected # None
            THEN LoadStarts(c, selected) /\ ClearTurn
            ELSE /\ StartNewest(c, "initialize", None, {})
                 /\ loading' = TRUE /\ loadError' = FALSE
                 /\ UNCHANGED <<pending, streaming, failed>>
  /\ UNCHANGED <<server, selected, detail, remembered, committed, owner, lists, told>>

RefreshEnds(c) ==
  /\ call[c].kind = "list" /\ call[c].answer # None
  /\ call' = [call EXCEPT ![c] = Idle]
  /\ IF ~call[c].fresh THEN UNCHANGED lists
     ELSE IF call[c].answer = Lost
       THEN alert' = [do |-> "list", conv |-> None, base |-> {}] /\ UNCHANGED sidebar
       ELSE sidebar' = call[c].answer.listed /\ UNCHANGED alert
  /\ UNCHANGED <<server, screen, turn, told>>

-----------------------------------------------------------------------------
(* One turn: submit, the events of its stream, Stop and Retry. *)

(* submitMessage captures the conversation it shows and the one selected. *)
Submit(c, m) ==
  /\ Free(c) /\ owner = None
  /\ call' = [Stale(call) EXCEPT ![c] =
       [kind |-> "stream", conv |-> selected, fresh |-> TRUE, message |-> m,
        base |-> IF detail = None THEN <<>> ELSE detail.turns,
        stage |-> "sent", result |-> None]]
  /\ owner' = c /\ committed' = FALSE
  /\ streaming' = None /\ failed' = None /\ alert' = None
  /\ UNCHANGED <<server, screen, sidebar, told>>

Used == {failed, pending} \cup UNION {ToSet(saved[x]) : x \in Convs}
          \cup {call[c].message : c \in Kind("stream")}

Send(m) ==
  /\ Ready /\ ~loadError
  /\ m \notin Used
  /\ \E c \in Calls : Submit(c, m)
  /\ pending' = m

RetrySend ==
  /\ Ready /\ ~loadError /\ failed # None /\ Shown
  /\ \E c \in Calls : Submit(c, failed)
  /\ UNCHANGED pending

Open(c, stages) == call[c].kind = "stream" /\ call[c].stage \in stages

Text(c) ==
  /\ Open(c, {"sent", "saved"}) /\ owner = c
  /\ streaming' = c
  /\ UNCHANGED <<server, screen, pending, failed, committed, owner, lists, call, told>>

Final(c) ==
  /\ Open(c, {"saved"}) /\ owner = c
  /\ call' = [call EXCEPT ![c].stage = "final"]
  /\ committed' = TRUE /\ streaming' = c
  /\ told' = told \cup {<<call[c].result, call[c].message>>}
  /\ UNCHANGED <<server, screen, pending, failed, owner, lists>>

(* showSavedResponse builds the transcript from what submit captured. *)
ShowSaved(c) ==
  /\ selected' = call[c].result /\ remembered' = call[c].result
  /\ detail' = [id |-> call[c].result, turns |-> Append(call[c].base, call[c].message)]
  /\ pending' = None /\ streaming' = None

(* done: the saved response is shown and its history read again. *)
Done(c) ==
  /\ Open(c, {"final"}) /\ owner = c
  /\ ShowSaved(c) /\ owner' = None
  /\ call' = [call EXCEPT ![c] = [Request("history", call[c].result, {})
                                    EXCEPT !.fresh = call[c].fresh]]
  /\ UNCHANGED <<server, loading, loadError, failed, committed, lists, told>>

(* Mutant: the reloaded history is shown without asking whether it is still wanted. *)
M_HistoryEnds(c) ==
  /\ call[c].kind = "history" /\ call[c].answer # None
  /\ StartCall(c, "list", None, {})
  /\ IF call[c].answer = Lost
       THEN /\ alert' = [do |-> "load", conv |-> call[c].conv, base |-> {}]
            /\ UNCHANGED detail
       ELSE /\ detail' = [id |-> call[c].conv, turns |-> call[c].answer.turns]
            /\ UNCHANGED alert
  /\ UNCHANGED <<server, selected, loading, loadError, remembered, turn, sidebar, told>>

HistoryEnds(c) ==
  /\ call[c].kind = "history" /\ call[c].answer # None
  /\ IF ~call[c].fresh
       THEN call' = [call EXCEPT ![c] = Idle] /\ UNCHANGED <<detail, alert>>
       ELSE /\ StartCall(c, "list", None, {})
            /\ IF call[c].answer = Lost
                 THEN /\ alert' = [do |-> "load", conv |-> call[c].conv, base |-> {}]
                      /\ UNCHANGED detail
                 ELSE /\ detail' = [id |-> call[c].conv, turns |-> call[c].answer.turns]
                      /\ UNCHANGED alert
  /\ UNCHANGED <<server, selected, loading, loadError, remembered, turn, sidebar, told>>

(* The stream of the current turn fails: refused, cut, malformed, or       *)
(* closed without done.  What the server does with the turn is not known.  *)
Break(c) ==
  /\ Open(c, {"sent", "saved", "final"}) /\ owner = c
  /\ owner' = None
  /\ IF call[c].stage = "final"
       THEN /\ ShowSaved(c)
            /\ alert' = [do |-> "load", conv |-> call[c].result, base |-> {}]
            /\ UNCHANGED failed
       ELSE /\ failed' = call[c].message /\ streaming' = None
            /\ UNCHANGED <<selected, remembered, detail, pending, alert>>
  /\ UNCHANGED <<server, loading, loadError, committed, sidebar, call, told>>

(* Mutant: Stop forgets that final was received. *)
M_Stop ==
  /\ owner # None /\ ~Modal
  /\ owner' = None /\ streaming' = None
  /\ failed' = pending
  /\ UNCHANGED <<server, screen, pending, committed, lists, call, told>>

Stop ==
  /\ owner # None /\ ~committed /\ ~Modal
  /\ owner' = None /\ streaming' = None
  /\ failed' = pending
  /\ UNCHANGED <<server, screen, pending, committed, lists, call, told>>

(* A stream nobody listens to ends; its events changed nothing. *)
Settle(c) ==
  /\ call[c].kind = "stream" /\ owner # c
  /\ call' = [call EXCEPT ![c] = Idle]
  /\ UNCHANGED <<server, screen, turn, lists, told>>

-----------------------------------------------------------------------------
(* Delete and rename. *)

(* performDelete captures the sidebar of the moment it was created. *)
DeleteConversation ==
  /\ Ready /\ selected # None /\ detail # None
  /\ \E c \in Calls : Free(c) /\ StartCall(c, "delete", selected, sidebar)
  /\ UNCHANGED <<server, screen, turn, lists, told>>

DeleteEnds(c) ==
  /\ call[c].kind = "delete" /\ call[c].answer # None
  /\ IF call[c].answer = Lost
       THEN /\ alert' = [do |-> "delete", conv |-> call[c].conv, base |-> call[c].base]
            /\ call' = [call EXCEPT ![c] = Idle]
            /\ UNCHANGED <<screen, turn, sidebar>>
       ELSE /\ sidebar' = call[c].base \ {call[c].conv}
            /\ detail' = None /\ pending' = None /\ streaming' = None
            /\ \E x \in IF sidebar' = {} THEN {None} ELSE sidebar' :
                 /\ selected' = x /\ remembered' = x
                 /\ IF x = None
                      THEN /\ call' = [call EXCEPT ![c] = Idle]
                           /\ loadError' = FALSE /\ UNCHANGED <<loading, failed>>
                      ELSE LoadStarts(c, x) /\ failed' = None
            /\ UNCHANGED <<alert, committed, owner>>
  /\ UNCHANGED <<server, told>>

RenameConversation ==
  /\ Ready /\ selected # None /\ detail # None
  /\ \E c \in Calls : Free(c) /\ StartCall(c, "rename", selected, {})
  /\ UNCHANGED <<server, screen, turn, lists, told>>

(* The renamed record is spread over whatever conversation is shown now. *)
RenameEnds(c) ==
  /\ call[c].kind = "rename" /\ call[c].answer # None
  /\ IF call[c].answer = Lost
       THEN call' = [call EXCEPT ![c] = Idle] /\ UNCHANGED detail
       ELSE /\ StartCall(c, "list", None, {})
            /\ detail' = IF detail = None THEN None ELSE [detail EXCEPT !.id = call[c].conv]
  /\ UNCHANGED <<server, selected, loading, loadError, remembered, turn, lists, told>>

(* The Retry button of the notification; it does not look at sending. *)
RetryAlert ==
  /\ alert # None /\ ~Modal
  /\ \E c \in Calls :
       /\ Free(c)
       /\ IF alert.do = "load"
            THEN LoadStarts(c, alert.conv) /\ ClearTurn
            ELSE /\ StartCall(c, alert.do, alert.conv, alert.base)
                 /\ UNCHANGED <<loading, loadError, pending, streaming, failed>>
  /\ UNCHANGED <<server, selected, detail, remembered, committed, owner, lists, told>>

-----------------------------------------------------------------------------
(* A delete is unanswered while a stream, a rename, a load or another      *)
(* delete is; nothing in the page prevents it.                             *)
Overlap ==
  \E c, d \in Calls : /\ c # d /\ call[c].kind = "delete"
                      /\ call[d].kind \in {"stream", "rename", "history", "load", "first", "delete"}

UserStep ==
  \/ \E x \in Convs : SelectConversation(x)
  \/ NewConversation \/ RetryLoad \/ RetryAlert \/ RetrySend \/ Stop
  \/ \E m \in Messages : Send(m)
  \/ DeleteConversation \/ RenameConversation

Arrival(c) ==
  \/ LoadEnds(c) \/ Listed(c) \/ RefreshEnds(c) \/ HistoryEnds(c)
  \/ DeleteEnds(c) \/ RenameEnds(c)
  \/ Text(c) \/ Final(c) \/ Done(c) \/ Break(c) \/ Settle(c)

ClientNext ==
  /\ \/ UserStep
     \/ \E c \in Calls : Serve(c) \/ Lose(c) \/ Commit(c) \/ Arrival(c)
  /\ overlapped' = (overlapped \/ Overlap')

ClientSpec == InitClient /\ [][ClientNext]_clientVars

-----------------------------------------------------------------------------
(* A turn whose save the tab has been told of is never sent again: not by  *)
(* Retry after Stop, after a lost done, or after a failed reload.          *)
(* (README.md 188-191; ChatLifecycle.test.tsx 317-342.)                    *)
NoConfirmedResend ==
  (owner # None /\ ~committed) => \A x \in Convs : <<x, call[owner].message>> \notin told

(* Unless a delete overlapped another call of the tab: the transcript is   *)
(* that of the selected conversation, holds only what was saved in it, has *)
(* every turn of it the tab was told of, and the running turn is the       *)
(* selected conversation's and keeps its user message.  Late answers of    *)
(* loads, reloads and abandoned streams change none of that.               *)
OneTranscript ==
  overlapped \/ loading \/
  /\ detail # None =>
       /\ detail.id = selected
       /\ ToSet(detail.turns) \subseteq ToSet(saved[detail.id])
       /\ \A t \in told : t[1] = detail.id /\ t[2] # pending => t[2] \in ToSet(detail.turns)
  /\ streaming # None => streaming = owner
  /\ owner # None => call[owner].conv = selected /\ call[owner].message = pending
=============================================================================
