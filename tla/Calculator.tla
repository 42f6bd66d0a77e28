----------------------------- MODULE Calculator -----------------------------
(***************************************************************************)
(* The calculator tool (runtime/calculator.py): a lexer, a validator of    *)
(* the grammar that computes nothing, and a recursive descent parser that  *)
(* computes while it reads and stops at the first thing that fails.        *)
(*                                                                         *)
(* An expression is the sequence of its lexemes.  A literal is a natural   *)
(* number; kind "BAD" stands for whatever the lexer does not know: another *)
(* name than "of", a lone point, any other character; kind "HUGE" for a    *)
(* literal with too many digits.  A literal of digits that Decimal does    *)
(* not take (a superscript two) is a "BAD" as well: the code only refuses  *)
(* it when the parser gets to it, so that an earlier failure of the parser *)
(* is reported in its place.  The bound on the characters of an expression *)
(* is covered by the one on its tokens.                                    *)
(*                                                                         *)
(* A value is an exact fraction in lowest terms.  The code rounds to 80    *)
(* digits: the two agree as long as no value needs more.                   *)
(***************************************************************************)
EXTENDS Integers, Sequences, FiniteSetsExt, SequencesExt

CONSTANTS
  MaxTokens,     \* MAX_TOKENS
  MaxNesting,    \* MAX_NESTING_DEPTH
  MaxExponent,   \* MAX_EXPONENT_MAGNITUDE
  MaxMagnitude   \* MAX_VALUE_MAGNITUDE

ASSUME CalculatorAssumption ==
  /\ MaxTokens \in Nat /\ MaxNesting \in Nat /\ MaxExponent \in Nat
  /\ MaxMagnitude \in Nat \ {0}

-----------------------------------------------------------------------------
(***************************************************************************)
(* Decimal: exact fractions.                                               *)
(***************************************************************************)
Fractions == [n : Int, d : Nat \ {0}]

gcd[p \in Nat \X Nat] == IF p[2] = 0 THEN p[1] ELSE gcd[<<p[2], p[1] % p[2]>>]
pow[p \in Int \X Nat] == IF p[2] = 0 THEN 1 ELSE p[1] * pow[<<p[1], p[2] - 1>>]
Magnitude(i) == IF i < 0 THEN -i ELSE i

\* n / d, for any d but zero.
Fraction(n, d) ==
  LET g == gcd[<<Magnitude(n), Magnitude(d)>>]
      sign == IF d < 0 THEN -1 ELSE 1
  IN [n |-> sign * (n \div g), d |-> Magnitude(d) \div g]
Integer(i) == [n |-> i, d |-> 1]

Plus(x, y)  == Fraction(x.n * y.d + y.n * x.d, x.d * y.d)
Minus(x, y) == Fraction(x.n * y.d - y.n * x.d, x.d * y.d)
Times(x, y) == Fraction(x.n * y.n, x.d * y.d)
Over(x, y)  == Fraction(x.n * y.d, x.d * y.n)
Raised(x, e) ==
  LET n == pow[<<x.n, Magnitude(e)>>]
      d == pow[<<x.d, Magnitude(e)>>]
  IN IF e < 0 THEN Fraction(d, n) ELSE Fraction(n, d)

IsBounded(x) == Magnitude(x.n) <= MaxMagnitude * x.d

-----------------------------------------------------------------------------
(***************************************************************************)
(* One step of the computation: a value, or the code of a ToolFailure.     *)
(***************************************************************************)
Value(x) == [code |-> "ok", value |-> x]
Failure(code) == [code |-> code, value |-> Integer(0)]

Bounded(x) == IF IsBounded(x) THEN Value(x) ELSE Failure("result_limit")

Operate(kind, x, y) ==
  CASE kind = "PLUS"   -> Bounded(Plus(x, y))
    [] kind = "MINUS"  -> Bounded(Minus(x, y))
    [] kind = "DIVIDE" -> IF y.n = 0 THEN Failure("division_by_zero") ELSE Bounded(Over(x, y))
    [] kind \in {"MULTIPLY", "OF"} -> Bounded(Times(x, y))

\* 0 ** 0 is an invalid operation of Decimal, which is reported as a limit.
Power(x, y) ==
  IF y.d # 1 \/ Magnitude(y.n) > MaxExponent THEN Failure("invalid_exponent")
  ELSE IF x.n = 0 /\ y.n < 0 THEN Failure("division_by_zero")
  ELSE IF x.n = 0 /\ y.n = 0 THEN Failure("result_limit")
  ELSE Bounded(Raised(x, y.n))

Additive == {"PLUS", "MINUS"}
Multiplicative == {"MULTIPLY", "DIVIDE", "OF"}

-----------------------------------------------------------------------------
(***************************************************************************)
(* The lexer: the first lexeme it cannot take decides, then their number.  *)
(***************************************************************************)
LexemeKinds ==
  Additive \cup Multiplicative \cup {"NUMBER", "POWER", "PERCENT", "LPAREN", "RPAREN", "BAD", "HUGE"}
Lexemes == [kind : LexemeKinds, literal : Nat]

Token(kind) == [kind |-> kind, literal |-> 0]
EOF == Token("EOF")

Tokenize(expression) ==
  LET bad == { i \in DOMAIN expression : expression[i].kind \in {"BAD", "HUGE"} }
  IN IF bad # {}
     THEN IF expression[Min(bad)].kind = "BAD" THEN "unsupported_expression" ELSE "expression_limit"
     ELSE IF Len(expression) > MaxTokens THEN "expression_limit" ELSE "ok"

-----------------------------------------------------------------------------
(***************************************************************************)
(* _GrammarValidator: every rule leads from a position to the position     *)
(* after what it read, or to a failure.  `read' is what the rules make of  *)
(* the positions behind.                                                   *)
(***************************************************************************)
Reached(i) == [code |-> "ok", at |-> i]
Stuck(code) == [code |-> code, at |-> 0]

GrammarRules == {"additive", "multiplicative", "unary", "percent", "power"}

Validate(tokens, read, rule, i, depth) ==
  LET kind(at) == tokens[at].kind
      Read(other, at) == read[<<other, at, depth>>]
      Repeat(operand, kinds) ==
        LET first == Read(operand, i)
        IN IF first.code = "ok" /\ kind(first.at) \in kinds THEN Read(rule, first.at + 1) ELSE first
      Exponent(at) == IF kind(at) = "POWER" THEN Read("unary", at + 1) ELSE Reached(at)
      base == Read("power", i)
      inner == read[<<"additive", i + 1, depth + 1>>]
  IN CASE rule = "additive" -> Repeat("multiplicative", Additive)
       [] rule = "multiplicative" -> Repeat("unary", Multiplicative)
       [] rule = "unary" ->
            IF kind(i) \in Additive THEN Read("unary", i + 1)
            ELSE IF base.code = "ok" THEN Read("percent", base.at) ELSE base
       [] rule = "percent" -> IF kind(i) = "PERCENT" THEN Read("percent", i + 1) ELSE Reached(i)
       [] rule = "power" ->
            IF kind(i) = "NUMBER" THEN Exponent(i + 1)
            ELSE IF kind(i) # "LPAREN" THEN Stuck("unsupported_expression")
            ELSE IF depth = MaxNesting THEN Stuck("expression_limit")
            ELSE IF inner.code # "ok" THEN inner
            ELSE IF kind(inner.at) = "RPAREN" THEN Exponent(inner.at + 1)
            ELSE Stuck("unsupported_expression")

Grammar(tokens) ==
  LET read[s \in GrammarRules \X (1..Len(tokens)) \X (0..MaxNesting)] ==
        Validate(tokens, read, s[1], s[2], s[3])
      whole == read[<<"additive", 1, 0>>]
  IN IF whole.code = "ok" /\ tokens[whole.at].kind # "EOF" THEN "unsupported_expression"
     ELSE whole.code

(***************************************************************************)
(* _Parser: the same rules with the value of what was read.  "sum",        *)
(* "product" and "percent" go on from a left operand.                      *)
(***************************************************************************)
Took(v, at) == [code |-> v.code, value |-> v.value, at |-> at]

ParserRules == GrammarRules \cup {"sum", "product"}

Compute(tokens, read, rule, i, depth, left) ==
  LET kind(at) == tokens[at].kind
      Read(other, at) == read[<<other, at, depth, left>>]
      GoOn(other, v, at) ==
        IF v.code = "ok" THEN read[<<other, at, depth, v.value>>] ELSE Took(v, at)
      Stop(code) == Took(Failure(code), 0)
      Operands(operand, kinds) ==
        LET right == Read(operand, i + 1)
        IN IF kind(i) \notin kinds THEN Took(Value(left), i)
           ELSE IF right.code # "ok" THEN right
           ELSE GoOn(rule, Operate(kind(i), left, right.value), right.at)
      Exponent(base) ==
        LET e == Read("unary", base.at + 1)
        IN IF base.code # "ok" \/ kind(base.at) # "POWER" THEN base
           ELSE IF e.code # "ok" THEN e ELSE Took(Power(base.value, e.value), e.at)
      First(operand, rest) ==
        LET first == Read(operand, i) IN GoOn(rest, first, first.at)
      operand == Read("unary", i + 1)
      inner == read[<<"additive", i + 1, depth + 1, left>>]
  IN CASE rule = "additive" -> First("multiplicative", "sum")
       [] rule = "sum" -> Operands("multiplicative", Additive)
       [] rule = "multiplicative" -> First("unary", "product")
       [] rule = "product" -> Operands("unary", Multiplicative)
       [] rule = "unary" ->
            IF kind(i) \notin Additive THEN First("power", "percent")
            ELSE IF operand.code # "ok" \/ kind(i) = "PLUS" THEN operand
            ELSE Took(Bounded(Minus(Integer(0), operand.value)), operand.at)
       [] rule = "percent" ->
            IF kind(i) = "PERCENT" THEN GoOn("percent", Bounded(Over(left, Integer(100))), i + 1)
            ELSE Took(Value(left), i)
       [] rule = "power" ->
            IF kind(i) = "NUMBER" THEN Exponent(Took(Bounded(Integer(tokens[i].literal)), i + 1))
            ELSE IF kind(i) # "LPAREN" THEN Stop("unsupported_expression")
            ELSE IF depth = MaxNesting THEN Stop("expression_limit")
            ELSE IF inner.code # "ok" THEN inner
            ELSE IF kind(inner.at) = "RPAREN" THEN Exponent(Took(Value(inner.value), inner.at + 1))
            ELSE Stop("unsupported_expression")

Parse(tokens) ==
  LET read[s \in ParserRules \X (1..Len(tokens)) \X (0..MaxNesting) \X Fractions] ==
        Compute(tokens, read, s[1], s[2], s[3], s[4])
      whole == read[<<"additive", 1, 0, Integer(0)>>]
  IN IF whole.code # "ok" THEN Failure(whole.code)
     ELSE IF tokens[whole.at].kind # "EOF" THEN Failure("unsupported_expression")
     ELSE Value(whole.value)

\* evaluate_expression: nothing is computed of what is not an expression.
EvaluateExpression(expression) ==
  LET lexed == Tokenize(expression)
      tokens == Append(expression, EOF)
      read == Grammar(tokens)
  IN IF expression = <<>> THEN Failure("invalid_arguments")
     ELSE IF lexed # "ok" THEN Failure(lexed)
     ELSE IF read # "ok" THEN Failure(read)
     ELSE Parse(tokens)

M_ValidateArguments(expression) ==   \* any failure is left to the execution
  IF expression = <<>> THEN "invalid_arguments" ELSE Tokenize(expression)

\* CalculatorTool.validate_arguments: whether the call is executed at all.
ValidateArguments(expression) ==
  LET code == EvaluateExpression(expression).code
  IN IF code = "division_by_zero" THEN "ok" ELSE code

-----------------------------------------------------------------------------
(***************************************************************************)
(* What an expression means, read from the outside in: it is split at the  *)
(* operator that binds least.  `errors' are the failures of all its parts. *)
(***************************************************************************)
\* The parentheses that are open after k lexemes.
Depth(e, k) ==
  Quantify(1..k, LAMBDA m : e[m].kind = "LPAREN") - Quantify(1..k, LAMBDA m : e[m].kind = "RPAREN")

\* The operators of some kinds between operands of the lexemes from i to j.
Infixes(e, i, j, kinds) ==
  { k \in (i + 1)..j : /\ Depth(e, k - 1) = Depth(e, i - 1)
                       /\ e[k].kind \in kinds
                       /\ e[k - 1].kind \in {"NUMBER", "RPAREN", "PERCENT"} }

\* The parenthesis at i is closed at j.
Paired(e, i, j) ==
  /\ i < j /\ e[i].kind = "LPAREN" /\ e[j].kind = "RPAREN"
  /\ \A k \in (i + 1)..j : Depth(e, k - 1) # Depth(e, i - 1)

Wrong == [grammatical |-> FALSE, value |-> Integer(0), errors |-> {}]
Known(v, errors) ==
  [grammatical |-> TRUE, value |-> v.value, errors |-> errors \cup ({v.code} \ {"ok"})]
Unary(x, v) == IF x.grammatical THEN Known(v, x.errors) ELSE Wrong
Binary(x, y, v) == IF x.grammatical /\ y.grammatical THEN Known(v, x.errors \cup y.errors) ELSE Wrong

\* The lexemes from i to j, given what shorter pieces mean.
Understand(e, of, i, j) ==
  LET kind(k) == e[k].kind
      from(k, l) == of[<<k, l>>]
      loose == IF Infixes(e, i, j, Additive) # {} THEN Infixes(e, i, j, Additive)
               ELSE Infixes(e, i, j, Multiplicative)
      powers == Infixes(e, i, j, {"POWER"})
      last == Max(loose)
      first == Min(powers)
  IN IF i > j THEN Wrong
     ELSE IF loose # {}
     THEN Binary(from(i, last - 1), from(last + 1, j),
                 Operate(kind(last), from(i, last - 1).value, from(last + 1, j).value))
     ELSE IF kind(i) = "PLUS" THEN Unary(from(i + 1, j), Value(from(i + 1, j).value))
     ELSE IF kind(i) = "MINUS"
     THEN Unary(from(i + 1, j), Bounded(Minus(Integer(0), from(i + 1, j).value)))
     ELSE IF powers # {}
     THEN IF first = i + 1 \/ kind(first - 1) = "RPAREN"
          THEN Binary(from(i, first - 1), from(first + 1, j),
                      Power(from(i, first - 1).value, from(first + 1, j).value))
          ELSE Wrong
     ELSE IF kind(j) = "PERCENT"
     THEN Unary(from(i, j - 1), Bounded(Over(from(i, j - 1).value, Integer(100))))
     ELSE IF Paired(e, i, j) THEN from(i + 1, j - 1)
     ELSE IF i = j /\ kind(i) = "NUMBER" THEN Known(Bounded(Integer(e[i].literal)), {})
     ELSE Wrong

Meaning(e) ==
  LET of[p \in (1..(Len(e) + 1)) \X (0..Len(e))] == Understand(e, of, p[1], p[2])
  IN of[<<1, Len(e)>>]
=============================================================================
