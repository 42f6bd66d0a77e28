------------------------ MODULE ResponseConstraints -------------------------
(***************************************************************************)
(* The mechanical constraints of a request and the policy that repairs an  *)
(* answer which breaks one (evaluation/constraints.py).                    *)
(*                                                                         *)
(* A text is the sequence of its white-space separated words.  "q_the" is  *)
(* the article inside a quotation, "x_id" an identifier in code quotes,    *)
(* "-" a bullet that begins a line and "fence" the line of a code fence.   *)
(* A prompt is the sequence of the directives it contains; one that is     *)
(* negated, quoted or only mentioned is `hidden'.                          *)
(***************************************************************************)
EXTENDS Naturals, Sequences, FiniteSets, SequencesExt

Numbers == {"7", "8"}
Identifiers == {"x_id"}
Polarities == {"yes", "no"}
Articles == {"the", "The", "a"}
Casefold(word) ==
  IF word \in {"the", "The", "q_the"} THEN "the" ELSE IF word \in {"a", "A"} THEN "a" ELSE word

\* parse_constraints: in order, without repetitions.
ParseConstraints(prompt) ==
  LET stated == SelectSeq(prompt, LAMBDA d : ~d.hidden)
      Add(seen, d) == LET c == [type |-> d.type, count |-> d.count]
                      IN IF Contains(seen, c) THEN seen ELSE Append(seen, c)
  IN FoldLeft(Add, <<>>, stated)

Asks(constraints, type) == \E i \in DOMAIN constraints : constraints[i].type = type

-----------------------------------------------------------------------------
(***************************************************************************)
(* validate_response.                                                      *)
(***************************************************************************)
CountBullets(text) ==
  Cardinality({ i \in 1..(Len(text) - 1) : text[i] = "-" /\ text[i + 1] # "-" })

\* normalize_code_only: the inside of one complete outer fence, else nothing.
NormalizeCodeOnly(text) ==
  IF Len(text) > 2 /\ { i \in DOMAIN text : text[i] = "fence" } = {1, Len(text)}
  THEN SubSeq(text, 2, Len(text) - 1)
  ELSE <<>>

Meets(text, constraints, c) ==
  LET code == IF Asks(constraints, "code_only") THEN NormalizeCodeOnly(text) ELSE <<>>
      body == IF code = <<>> THEN text ELSE code
  IN CASE c.type = "exact_words" -> Len(body) = c.count
       [] c.type = "exact_bullets" -> CountBullets(body) = c.count
       [] c.type = "at_most_bullets" -> CountBullets(body) <= c.count
       [] c.type = "code_only" -> NormalizeCodeOnly(text) # <<>> \/ ~Contains(text, "fence")

Passes(text, constraints) ==
  \A i \in DOMAIN constraints : Meets(text, constraints, constraints[i])

-----------------------------------------------------------------------------
(***************************************************************************)
(* What a repair may change.                                               *)
(***************************************************************************)
\* validate_repair_literals.
Literals(text) == Range(text) \cap (Numbers \cup Identifiers)
KeepsLiterals(original, repaired) ==
  /\ Literals(original) = Literals(repaired)
  /\ original # <<>> /\ repaired # <<>> =>
       {original[1], repaired[1]} # Polarities

\* _removable_articles: none where code is asked for.
RemovableArticles(text, constraints) ==
  IF Asks(constraints, "code_only") THEN {}
  ELSE { i \in DOMAIN text : text[i] \in Articles }

\* What a sequence has at some of its positions, in order.
Nth(positions, n) ==
  CHOOSE i \in positions : Cardinality({ k \in positions : k <= i }) = n
Selected(s, positions) == [n \in 1..Cardinality(positions) |-> s[Nth(positions, n)]]

Without(text, indices) == Selected(text, DOMAIN text \ indices)
Folded(text) == [i \in DOMAIN text |-> Casefold(text[i])]

\* validate_exact_word_repair: one pass over the original, always matching the
\* next word of the repair when it can.
M_KeepsWords(original, repaired, constraints) ==
  Asks(constraints, "exact_words") =>
    \A i \in DOMAIN original :
      i \in RemovableArticles(original, constraints) \/ Contains(repaired, original[i])
MatchWord(original, repaired, removable, cursor, i) ==
  IF cursor = 0 THEN 0
  ELSE IF cursor <= Len(repaired) /\ Casefold(original[i]) = Casefold(repaired[cursor])
  THEN cursor + 1
  ELSE IF i \in removable THEN cursor ELSE 0
MatchWords(original, repaired, removable) ==
  LET cursor[i \in 0..Len(original)] ==
        IF i = 0 THEN 1 ELSE MatchWord(original, repaired, removable, cursor[i - 1], i)
  IN cursor[Len(original)]
KeepsWords(original, repaired, constraints) ==
  Asks(constraints, "exact_words") =>
    MatchWords(original, repaired, RemovableArticles(original, constraints)) = Len(repaired) + 1

\* _delete_articles_to_exact_words: <<>> where it cannot be done.
DeleteArticles(original, constraints) ==
  LET counts == { constraints[i].count : i \in
                    { i \in DOMAIN constraints : constraints[i].type = "exact_words" } }
      expected == CHOOSE n \in counts : TRUE
      removable == RemovableArticles(original, constraints)
      first(n) == { i \in removable : Cardinality({ k \in removable : k <= i }) <= n }
  IN IF /\ Cardinality(counts) = 1
        /\ expected > 0 /\ Len(original) > expected
        /\ Cardinality(removable) >= Len(original) - expected
     THEN Without(original, first(Len(original) - expected))
     ELSE <<>>

\* One corrective retry of validate_with_bounded_retries: what is delivered
\* and why.  `failed': the repair is safe and still breaks a constraint.
Repair(original, repaired, constraints) ==
  LET edit == DeleteArticles(original, constraints)
  IN IF KeepsLiterals(original, repaired) /\ KeepsWords(original, repaired, constraints)
     THEN [response |-> repaired,
           kind |-> IF Passes(repaired, constraints) THEN "repaired" ELSE "failed"]
     ELSE IF edit # <<>> /\ Passes(edit, constraints) /\ KeepsLiterals(original, edit)
     THEN [response |-> edit, kind |-> "edited"]
     ELSE [response |-> original, kind |-> "fallback"]

-----------------------------------------------------------------------------
\* The meaning of "only articles were deleted": some set of removable articles
\* of the original is all that the other text lacks.
OnlyArticlesDeleted(original, text, constraints) ==
  \E gone \in SUBSET RemovableArticles(original, constraints) :
    Folded(Without(original, gone)) = Folded(text)
=============================================================================
