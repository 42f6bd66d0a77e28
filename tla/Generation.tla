----------------------------- MODULE Generation -----------------------------
(***************************************************************************)
(* One turn of ProviderChatGenerator (runtime/generator.py): the context   *)
(* is compiled (runtime/context.py), a guard may answer without the model, *)
(* the model is asked until it answers without requesting a tool, and an   *)
(* answer that breaks a mechanical constraint is repaired at most once.    *)
(*                                                                         *)
(* The answer to a request without constraints is a text of ToolProtocol,  *)
(* streamed or buffered; one with constraints is always buffered and is a  *)
(* text of ResponseConstraints, its markup already removed.                *)
(***************************************************************************)
EXTENDS ToolProtocol, ResponseConstraints

CONSTANTS
  Histories,          \* what a conversation may hold before the turn
  Prompts,            \* the directives that a request may contain
  Chunks,             \* pieces in which the model writes
  Answers,            \* answers and repairs of a constrained request
  Payloads,           \* what the model puts into the envelope of a tool call
  MaxHistoryMessages, \* MAX_HISTORY_MESSAGES
  MaxHistoryChars,    \* MAX_HISTORY_CONTEXT_CHARS
  MaxToolIterations,  \* MAX_TOOL_ITERATIONS
  MaxChunks           \* bound on the chunks of one candidate

ASSUME GenerationAssumption ==
  /\ MaxHistoryMessages \in Nat \ {0} /\ MaxHistoryChars \in Nat
  /\ MaxToolIterations \in Nat /\ MaxChunks \in Nat
  /\ Malformed \in Payloads
  /\ Payloads \subseteq [kind : {"malformed", "unknown", "calculator"}, expression : Seq(Lexemes)]
  /\ Answers \subseteq Seq(STRING) /\ Chunks \subseteq Seq(STRING)
  /\ Histories \subseteq Seq([role : STRING, size : Nat, private : BOOLEAN])

VARIABLES
  phase,       \* where the turn is
  history,     \* the messages before the current one, oldest first
  context,     \* CompiledModelContext
  constraints, \* what parse_constraints found in the request
  streaming,   \* stream_response, not generate_response
  candidate,   \* the model's current output and what was made of it
  shown,       \* the deltas yielded to the caller
  attempts,    \* the _ToolBudget of the turn
  tool,        \* the ToolAttempt that the model is told of
  original,    \* the first answer to a constrained request
  answer       \* the result: the response and how it came about

vars == <<phase, history, context, constraints, streaming, candidate, shown, attempts,
          tool, original, answer>>

NoContext == [kept |-> <<>>, truncated |-> FALSE, latest_turn |-> FALSE]
NoAnswer == [response |-> <<>>, kind |-> "none"]
NewCandidate == [raw |-> <<>>, chunks |-> 0, mode |-> "prefix", buffer |-> <<>>,
                 filter |-> NewFilter, held |-> <<>>]

-----------------------------------------------------------------------------
(***************************************************************************)
(* compile_model_context: the recent history.                              *)
(***************************************************************************)
PublicPositions(messages) == { i \in DOMAIN messages : ~messages[i].private }
Public(messages) == Selected(messages, PublicPositions(messages))

\* From the newest back, until one does not fit.
M_Take(acc, m) ==
  IF acc.full \/ Len(acc.kept) = MaxHistoryMessages THEN [acc EXCEPT !.full = TRUE]
  ELSE IF acc.chars + m.size > MaxHistoryChars THEN acc
  ELSE [acc EXCEPT !.kept = <<m>> \o @, !.chars = @ + m.size]
Take(acc, m) ==
  IF acc.full \/ Len(acc.kept) = MaxHistoryMessages \/ acc.chars + m.size > MaxHistoryChars
  THEN [acc EXCEPT !.full = TRUE]
  ELSE [acc EXCEPT !.kept = <<m>> \o @, !.chars = @ + m.size]

\* An answer whose question is gone goes too.
DropAnswers(messages) ==
  LET others == { i \in DOMAIN messages : messages[i].role # "assistant" }
  IN IF others = {} THEN <<>> ELSE SubSeq(messages, Min(others), Len(messages))

SelectRecentHistory(messages) ==
  LET taken[n \in 0..Len(messages)] ==
        IF n = 0 THEN [kept |-> <<>>, chars |-> 0, full |-> FALSE]
        ELSE Take(taken[n - 1], messages[Len(messages) - n + 1])
      all == taken[Len(messages)]
  IN [kept |-> DropAnswers(all.kept), truncated |-> all.full]

CompileContext(messages) ==
  LET recent == SelectRecentHistory(Public(messages))
      positions == PublicPositions(messages)
      newer(i) == Cardinality({ k \in positions : k > i })
      retained == { i \in positions : newer(i) < Len(recent.kept) }
      turns == { i \in DOMAIN messages : messages[i].role # "system" }
  IN [kept |-> recent.kept, truncated |-> recent.truncated,
      latest_turn |-> turns # {} /\ Max(turns) \in retained]

-----------------------------------------------------------------------------
Init ==
  /\ phase = "compile"
  /\ history \in Histories /\ context = NoContext
  /\ \E p \in Prompts : constraints = ParseConstraints(p)
  /\ streaming \in BOOLEAN
  /\ candidate = NewCandidate /\ shown = <<>> /\ attempts = 0 /\ tool = NoAttempt
  /\ original = <<>> /\ answer = NoAnswer

Compile ==
  /\ phase = "compile"
  /\ phase' = "guard" /\ context' = CompileContext(history)
  /\ UNCHANGED <<history, constraints, streaming, candidate, shown, attempts, tool, original, answer>>

Deliver(response, kind) == phase' = "done" /\ answer' = [response |-> response, kind |-> kind]
Fail == phase' = "failed" /\ UNCHANGED answer

\* _guard_result: epistemic_preflight may answer in the model's place; its
\* answer is given even where it breaks a constraint.
Guard ==
  /\ phase = "guard"
  /\ history' = <<>> /\ context' = NoContext
  /\ \/ phase' = "generate" /\ UNCHANGED <<answer, shown>>
     \/ \E text \in Answers :
          /\ text # <<>> /\ Deliver(text, "guard")
          /\ shown' = IF streaming THEN text ELSE shown
  /\ UNCHANGED <<constraints, streaming, candidate, attempts, tool, original>>

Constrained == constraints # <<>>
Generating == phase = "generate" /\ ~Constrained

-----------------------------------------------------------------------------
(***************************************************************************)
(* _stream_candidate and its buffered counterpart.                         *)
(***************************************************************************)
\* normalize: no white space at either end of what has been shown.
Normalize(c, text) ==
  LET pending == IF shown = <<>> THEN Lstrip(c.held \o text) ELSE c.held \o text
      delta == Rstrip(pending)
  IN /\ shown' = shown \o delta
     /\ candidate' = [c EXCEPT !.held = SubSeq(pending, Len(delta) + 1, Len(pending))]

\* What is held back until it can no longer be the start of a tool call is
\* released to the filter at once.
Relay(c, text) ==
  LET f == Feed(c.filter, text)
  IN Normalize([c EXCEPT !.mode = "normal", !.buffer = <<>>, !.filter = [f EXCEPT !.out = <<>>]], f.out)

\* The provider yields a chunk.
ModelWrites(chunk) ==
  LET c == [candidate EXCEPT !.raw = @ \o chunk, !.chunks = @ + 1]
      buffer == c.buffer \o chunk
  IN /\ Generating /\ candidate.chunks < MaxChunks
     /\ IF ~streaming \/ c.mode = "tool" THEN candidate' = c /\ UNCHANGED shown
        ELSE IF c.mode = "normal" THEN Relay(c, chunk)
        ELSE \/ /\ Classify(buffer) = "ambiguous" /\ UNCHANGED shown
                /\ candidate' = [c EXCEPT !.buffer = buffer]
             \/ /\ Classify(buffer) = "reserved" /\ UNCHANGED shown
                /\ candidate' = [c EXCEPT !.mode = "tool", !.buffer = <<>>]
             \/ Classify(buffer) = "normal" /\ Relay(c, buffer)
     /\ UNCHANGED <<phase, history, context, constraints, streaming, attempts, tool, original,
                    answer>>

\* The candidate is a tool call, well formed or not: it uses up an attempt
\* before it is looked at, and is executed if there was one left.
UseTool(payload) ==
  /\ attempts' = attempts + 1
  /\ candidate' = NewCandidate
  /\ IF attempts' > MaxToolIterations THEN Fail /\ UNCHANGED tool
     ELSE phase' = "told" /\ tool' = Execute(payload) /\ UNCHANGED answer

\* What an envelope may ask for.
Asked(text) == IF IsEnvelope(text) THEN Payloads ELSE {Malformed}

\* The model is asked again, with its call and the result.
AskAgain ==
  /\ phase = "told" /\ phase' = "generate" /\ tool' = NoAttempt
  /\ UNCHANGED <<history, context, constraints, streaming, candidate, shown, attempts,
                 original, answer>>

\* The result of a request without constraints is what was shown.
DeliverStreamed == Deliver(shown', "streamed")

\* The end of a streamed candidate: what the gate or the filter still holds.
StreamEnds ==
  /\ Generating /\ streaming /\ Strip(candidate.raw) # <<>>
  /\ IF candidate.mode = "tool"
     THEN (\E payload \in Asked(candidate.raw) : UseTool(payload)) /\ UNCHANGED shown
     ELSE LET f == Feed(candidate.filter, candidate.buffer)
          IN /\ Normalize([candidate EXCEPT !.buffer = <<>>], f.out \o Finish(f))
             /\ IF shown' = <<>> THEN Fail ELSE DeliverStreamed
             /\ UNCHANGED <<attempts, tool>>
  /\ UNCHANGED <<history, context, constraints, streaming, original>>

\* The end of a buffered one: _run_tool_loop.
BufferEnds ==
  LET response == Strip(candidate.raw)
      text == Strip(Sanitize(response))
  IN /\ Generating /\ ~streaming /\ response # <<>>
     /\ IF Classify(response) = "reserved"
        THEN \E payload \in Asked(response) : UseTool(payload)
        ELSE /\ IF text = <<>> THEN Fail ELSE Deliver(text, "buffered")
             /\ UNCHANGED <<attempts, candidate, tool>>
     /\ UNCHANGED <<history, context, constraints, streaming, shown, original>>

-----------------------------------------------------------------------------
(***************************************************************************)
(* _generate_validated_response with constraints; its result is streamed   *)
(* as one delta.                                                           *)
(***************************************************************************)
DeliverWhole(response, kind) ==
  /\ Deliver(response, kind)
  /\ shown' = IF streaming THEN response ELSE shown

ConstrainedTool ==
  /\ phase = "generate" /\ Constrained
  /\ \E payload \in Payloads : UseTool(payload)
  /\ UNCHANGED <<history, context, constraints, streaming, shown, original>>

FirstAnswer(text) ==
  /\ phase = "generate" /\ Constrained /\ text # <<>>
  /\ original' = text
  /\ IF Passes(text, constraints) THEN DeliverWhole(text, "accepted")
     ELSE phase' = "repair" /\ UNCHANGED <<answer, shown>>
  /\ UNCHANGED <<history, context, constraints, streaming, candidate, attempts, tool>>

\* The one retry never enters the tool loop: markup in it is a failure.
Retry(text) ==
  /\ phase = "repair" /\ text # <<>>
  /\ LET result == Repair(original, text, constraints)
     IN IF result.kind = "failed" THEN Fail /\ UNCHANGED shown
        ELSE DeliverWhole(result.response, result.kind)
  /\ UNCHANGED <<history, context, constraints, streaming, candidate, attempts, tool, original>>

\* The provider fails, returns nothing or markup in a repair, or the turn is
\* cancelled: what was shown stays shown, and there is no result.
Broken ==
  /\ phase \in {"generate", "repair"}
  /\ Fail
  /\ UNCHANGED <<history, context, constraints, streaming, candidate, shown, attempts, tool,
                 original>>

Next ==
  \/ Compile \/ Guard \/ StreamEnds \/ BufferEnds \/ ConstrainedTool \/ AskAgain \/ Broken
  \/ \E chunk \in Chunks : ModelWrites(chunk)
  \/ \E text \in Answers : FirstAnswer(text) \/ Retry(text)

Spec == Init /\ [][Next]_vars

-----------------------------------------------------------------------------
\* The size of the last n messages, for each n.
SizeOfLast(messages) ==
  LET size[n \in 0..Len(messages)] ==
        IF n = 0 THEN 0 ELSE size[n - 1] + Suffix(messages, n)[1].size
  IN size

\* What a conversation shows the model is the longest recent part of it that
\* fits both limits and does not begin with an answer; private messages are
\* not there, their absence alone is not reported as truncation, and whether
\* the last turn is still there is told truly.
HistoryWindow ==
  phase = "guard" =>
    LET messages == Public(history)
        last(n) == Suffix(messages, n)
        fits(n) == n <= MaxHistoryMessages /\ SizeOfLast(messages)[n] <= MaxHistoryChars
        whole(n) == n > 0 => last(n)[1].role # "assistant"
        turns == { i \in DOMAIN history : history[i].role # "system" }
        latest == history[Max(turns)]
    IN /\ context.kept = last(Max({ n \in 0..Len(messages) : fits(n) /\ whole(n) }))
       /\ context.truncated <=> ~fits(Len(messages))
       /\ context.latest_turn <=>
            turns # {} /\ ~latest.private /\ Contains(context.kept, latest)

\* Whatever way the model's output is cut into chunks, the text shown is its
\* text without the envelopes: nothing of a tool call is ever shown, at any
\* time, and the result is what was shown.  The buffered path gives the text
\* without the envelopes as well, but for the beginning of a tag at its end.
VisibleText ==
  ~Constrained /\ answer.kind # "guard" =>
    /\ StartsWith(Strip(Visible(candidate.raw)), shown)
    /\ Classify(candidate.raw) = "reserved" => shown = <<>>
    /\ answer.kind = "streamed" =>
         answer.response = shown /\ shown = Strip(Visible(candidate.raw))
    /\ answer.kind = "buffered" =>
         answer.response = Strip(Visible(Strip(candidate.raw)))

\* An answer to a constrained request satisfies every constraint, keeps the
\* literals of the model's first answer and, where words are counted, differs
\* from it in articles only; or it is that first answer, and the result says
\* that it is a fallback.  The articles a quotation holds are never touched.
DeliveredIsHonest ==
  Constrained /\ phase = "done" /\ answer.kind # "guard" =>
    IF answer.kind = "fallback" THEN answer.response = original
    ELSE /\ Passes(answer.response, constraints)
         /\ KeepsLiterals(original, answer.response)
         /\ Asks(constraints, "exact_words") =>
              OnlyArticlesDeleted(original, answer.response, constraints)

\* The calculator tells the model what the expression means, or a failure that
\* the expression has; what is not an expression is neither computed nor kept
\* in the record, and an accepted one fails at a division by zero at most.
ToldTheTruth ==
  phase = "told" =>
    LET code == tool.outcome.code
        expression == tool.payload.expression
        meaning == Meaning(expression)
        kinds == { expression[i].kind : i \in DOMAIN expression }
    IN /\ code = "ok" =>
            meaning.grammatical /\ meaning.errors = {} /\ tool.outcome.value = meaning.value
       /\ code \in {"division_by_zero", "invalid_exponent", "result_limit"} =>
            meaning.grammatical /\ code \in meaning.errors
       /\ code = "unsupported_expression" => "BAD" \in kinds \/ ~meaning.grammatical
       /\ code = "expression_limit" =>
            \/ "HUGE" \in kinds \/ Len(expression) > MaxTokens
            \/ \E k \in DOMAIN expression : Depth(expression, k) > MaxNesting
       /\ tool.arguments <=> code \in {"ok", "division_by_zero"}
=============================================================================
