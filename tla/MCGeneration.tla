---------------------------- MODULE MCGeneration ----------------------------
EXTENDS Generation

\* Messages of one or two units; a private one is left out of what is sent.
MCMessages == [role : {"user", "assistant"}, size : {1, 2}, private : {FALSE}]
              \cup [role : {"user", "assistant"}, size : {1}, private : {TRUE}]
MCHistories == UNION { [1..n -> MCMessages] : n \in 0..4 }

Directive(type, count) == [type |-> type, count |-> count, hidden |-> FALSE]
MCPrompts == {
  <<>>,
  <<[type |-> "exact_words", count |-> 1, hidden |-> TRUE]>>,
  <<Directive("exact_words", 2), Directive("exact_words", 2)>>,
  <<Directive("exact_words", 1), Directive("exact_words", 2)>>,
  <<Directive("exact_words", 2), Directive("exact_bullets", 1)>>,
  <<Directive("exact_words", 2), Directive("code_only", 0)>>,
  <<Directive("at_most_bullets", 1)>> }

MCChunks == {
  <<"w">>, <<" ">>, <<"<">>, <<"call">>, <<"<", "tool_">>, <<"tool_", "call">>,
  <<"<", "tool_", "call">>, <<"<", "tool_", "result">>,
  <<"<", "/", "tool_">>, <<"<", "/", "tool_", "call">>, <<"<", "/", "tool_", "result", "w">> }

MCAnswers ==
  UNION { [1..n -> {"the", "q_the", "cat", "7"}] : n \in 1..3 }
  \cup { <<"yes">>, <<"no">>, <<"yes", "the", "cat">>, <<"no", "cat">>, <<"yes", "cat">>,
         <<"-", "cat">>, <<"-", "the", "cat">>, <<"-", "cat", "-", "the">>, <<"-", "cat", "cat">>,
         <<"fence", "the", "cat", "cat", "fence">>, <<"fence", "cat", "cat", "fence">>,
         <<"fence", "cat">>, <<"x_id", "the", "cat">>, <<"x_id", "cat">>,
         <<"the", "cat", "the", "cat">> }

Number(n) == [kind |-> "NUMBER", literal |-> n]
MCTokens == { Number(0), Number(2), Number(5) } \cup
  { Token(kind) : kind \in {"PLUS", "MINUS", "MULTIPLY", "DIVIDE", "OF", "POWER", "PERCENT",
                            "LPAREN", "RPAREN", "BAD", "HUGE"} }
Signs == { <<>>, <<Token("MINUS")>> }
Infix == { Token(kind) : kind \in {"MINUS", "MULTIPLY", "DIVIDE", "POWER"} }
Marks == { <<>>, <<Token("PERCENT")>> }
Group(text) == <<Token("LPAREN")>> \o text \o <<Token("RPAREN")>>
Two(op) == <<Number(5), op, Number(2)>>

\* Every expression of three tokens, and longer ones of the documented shapes.
MCExpressions ==
  UNION { [1..n -> MCTokens] : n \in 0..3 }
  \cup { s \o Two(op) \o m \o <<p, Number(2)>> \o m : s \in Signs, op, p \in Infix, m \in Marks }
  \cup { s \o Group(Two(op)) \o m \o <<p>> \o t \o <<Number(2)>> :
           s, t \in Signs, op, p \in Infix, m \in Marks }
  \cup { Group(Group(<<Number(2)>>)), Group(<<Number(2)>>) \o Group(<<Number(2)>>) }

MCPayloads ==
  { Malformed, [kind |-> "unknown", expression |-> <<>>] }
  \cup [kind : {"calculator"}, expression : MCExpressions]
=============================================================================
