---------------------------- MODULE ToolProtocol ----------------------------
(***************************************************************************)
(* The markup in which the model asks for a tool (runtime/tooling.py): the *)
(* gate on the start of a response, the filter that removes a late         *)
(* envelope from text that is already being shown, and the registry that   *)
(* executes what an envelope asks for.                                     *)
(*                                                                         *)
(* A text is a sequence of tokens.  The markup is spelt in four of them,   *)
(* "<", "/", "tool_" and "call" or "result" (with its closing bracket), so *)
(* that a chunk can end inside a tag; " " is white space, and any other    *)
(* token an ordinary word.                                                 *)
(***************************************************************************)
EXTENDS Calculator

ReservedStarts == { <<"<", "tool_", "call">>, <<"<", "tool_", "result">> }
ReservedClose(start) == <<"<", "/">> \o Tail(start)

StartsWith(text, start) == IsPrefix(start, text)
Suffix(text, n) == SubSeq(text, Len(text) - n + 1, Len(text))

Space == " "
Lstrip(text) ==
  LET solid == { i \in 1..Len(text) : text[i] # Space }
  IN IF solid = {} THEN <<>> ELSE SubSeq(text, Min(solid), Len(text))
Rstrip(text) == SubSeq(text, 1, Max({0} \cup { i \in 1..Len(text) : text[i] # Space }))
Strip(text) == Rstrip(Lstrip(text))

\* classify_tool_protocol_prefix.
Classify(text) ==
  LET significant == Lstrip(text)
  IN IF \E s \in ReservedStarts : StartsWith(significant, s) THEN "reserved"
     ELSE IF \E s \in ReservedStarts : StartsWith(s, significant) THEN "ambiguous"
     ELSE "normal"

-----------------------------------------------------------------------------
(***************************************************************************)
(* LateToolProtocolFilter.                                                 *)
(***************************************************************************)
NewFilter == [pending |-> <<>>, closing |-> <<>>, closing_pending |-> <<>>, out |-> <<>>]

\* The longest end of the text that one of the words begins with.
LongestPrefixSuffix(text, words) ==
  Suffix(text, Max({ n \in 0..Len(text) : \E w \in words : StartsWith(w, Suffix(text, n)) }))

M_FeedNormal(f, c) ==
  LET text == Append(f.pending, c)
      held == IF \E s \in ReservedStarts : StartsWith(s, text) THEN text ELSE <<>>
      shown == SubSeq(text, 1, Len(text) - Len(held))
  IN IF held \in ReservedStarts
     THEN [f EXCEPT !.pending = <<>>, !.closing = ReservedClose(held), !.out = @ \o shown]
     ELSE [f EXCEPT !.pending = held, !.out = @ \o shown]
FeedNormal(f, c) ==
  LET text == Append(f.pending, c)
      held == LongestPrefixSuffix(text, ReservedStarts)
      shown == SubSeq(text, 1, Len(text) - Len(held))
  IN IF held \in ReservedStarts
     THEN [f EXCEPT !.pending = <<>>, !.closing = ReservedClose(held), !.out = @ \o shown]
     ELSE [f EXCEPT !.pending = held, !.out = @ \o shown]

FeedSuppressed(f, c) ==
  LET held == LongestPrefixSuffix(Append(f.closing_pending, c), {f.closing})
  IN IF held = f.closing
     THEN [f EXCEPT !.closing = <<>>, !.closing_pending = <<>>]
     ELSE [f EXCEPT !.closing_pending = held]

FeedToken(f, c) == IF f.closing = <<>> THEN FeedNormal(f, c) ELSE FeedSuppressed(f, c)

\* feed: `out' is what the call returns.
Feed(f, text) ==
  LET fed[n \in 0..Len(text)] ==
        IF n = 0 THEN [f EXCEPT !.out = <<>>] ELSE FeedToken(fed[n - 1], text[n])
  IN fed[Len(text)]

\* finish: a tag that is recognisable is dropped, anything shorter is text.
Finish(f) ==
  IF f.closing # <<>> \/ StartsWith(f.pending, <<"<", "tool_">>) THEN <<>> ELSE f.pending

\* sanitize_late_tool_protocol.
Sanitize(text) == LET f == Feed(NewFilter, text) IN f.out \o Finish(f)

-----------------------------------------------------------------------------
\* What the text says without its envelopes, read as a whole: at the start of
\* an envelope, everything to its end is skipped.
Visible(text) ==
  LET after(i) == SubSeq(text, i, Len(text))
      opened(i) == { s \in ReservedStarts : StartsWith(after(i), s) }
      closed(i) == { j \in i..Len(text) :
                       \E s \in opened(i) : StartsWith(after(j), ReservedClose(s)) }
      cut(i) == /\ StartsWith(after(i), <<"<", "tool_">>)
                /\ \E s \in ReservedStarts : StartsWith(s, after(i))
      from[i \in 1..(Len(text) + 1)] ==
        IF i > Len(text) \/ cut(i) THEN <<>>
        ELSE IF opened(i) = {} THEN <<text[i]>> \o from[i + 1]
        ELSE IF closed(i) = {} THEN <<>>
        ELSE from[Min(closed(i)) + 4]
  IN from[1]

-----------------------------------------------------------------------------
(***************************************************************************)
(* parse_tool_call and ToolRegistry.execute, with the calculator as the    *)
(* only tool.  A payload is what stands between the tags: "malformed" is   *)
(* none, or too long, or not the JSON of exactly a name and arguments;     *)
(* "unknown" asks for another tool; arguments that are not exactly one     *)
(* text count as an empty expression.                                      *)
(***************************************************************************)
Malformed == [kind |-> "malformed", expression |-> <<>>]

\* One whole envelope, with nothing before, after or missing inside.
IsEnvelope(text) ==
  LET stripped == Strip(text)
      call == <<"<", "tool_", "call">>
      inside == SubSeq(stripped, Len(call) + 1, Len(stripped) - Len(ReservedClose(call)))
  IN /\ StartsWith(stripped, call) /\ IsSuffix(ReservedClose(call), stripped)
     /\ Strip(inside) # <<>>

\* `arguments': the record keeps them, because the tool accepted them.
ToolAttempt(payload, arguments, outcome) ==
  [payload |-> payload, arguments |-> arguments, outcome |-> outcome]
FailedToolAttempt(payload, code) == ToolAttempt(payload, FALSE, Failure(code))

Execute(payload) ==
  LET validated == ValidateArguments(payload.expression)
  IN CASE payload.kind = "malformed" -> FailedToolAttempt(payload, "malformed_tool_call")
       [] payload.kind = "unknown" -> FailedToolAttempt(payload, "unknown_tool")
       [] payload.kind = "calculator" ->
            IF validated # "ok" THEN FailedToolAttempt(payload, validated)
            ELSE ToolAttempt(payload, TRUE, EvaluateExpression(payload.expression))

NoAttempt == FailedToolAttempt(Malformed, "none")
=============================================================================
