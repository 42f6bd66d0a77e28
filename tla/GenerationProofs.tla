-------------------------- MODULE GenerationProofs --------------------------
(***************************************************************************)
(* Proofs about Generation for any histories, limits, chunks and answers:  *)
(* the history window is the longest that fits (WindowIsLongest), the text *)
(* shown is the output without its tool envelopes (NothingIsLeaked),       *)
(* constrained answers are what they claim to be (AnswersAreHonest), and   *)
(* what the model is told of its call is what the call came to             *)
(* (ToldIsTrue).  The last rests on the grammar and the meaning of an      *)
(* expression in CalculatorProofs; so do the lemmas of induction here.     *)
(***************************************************************************)
EXTENDS Generation, CalculatorProofs

-----------------------------------------------------------------------------
(***************************************************************************)
(* Functions defined step by step.                                         *)
(***************************************************************************)
\* Such a function exists: Iterated.
Iterates(g, V, first, step, N) ==
  /\ g \in [0..N -> V] /\ g[0] = first
  /\ \A i \in 1..N : g[i] = step[<<g[i - 1], i>>]

LEMMA Iterated ==
  ASSUME NEW V, NEW first \in V, NEW step, NEW N \in Nat,
         \A v \in V, i \in 1..N : step[<<v, i>>] \in V
  PROVE  \E g : Iterates(g, V, first, step, N)
  <1> DEFINE Runs(g, n) == /\ g \in [0..n -> V] /\ g[0] = first
                           /\ \A i \in 1..n : g[i] = step[<<g[i - 1], i>>]
             S == { n \in Nat : n <= N => \E g : Runs(g, n) }
  <1>1. 0 \in S
    <2>1. Runs([i \in 0..0 |-> first], 0)
      OBVIOUS
    <2> QED BY <2>1
  <1>2. ASSUME NEW n \in Nat, n \in S PROVE n + 1 \in S
    <2> SUFFICES ASSUME n + 1 <= N PROVE \E g : Runs(g, n + 1)
      OBVIOUS
    <2>1. PICK g : Runs(g, n)
      BY <1>2
    <2> DEFINE h == [i \in 0..(n + 1) |-> IF i = n + 1 THEN step[<<g[n], n + 1>>] ELSE g[i]]
    <2>2. g[n] \in V /\ n + 1 \in 1..N
      BY <2>1
    <2>3. h[n + 1] \in V
      BY <2>2
    <2>4. h \in [0..(n + 1) -> V]
      <3>1. \A i \in 0..(n + 1) : h[i] \in V
        BY <2>1, <2>3
      <3> QED BY <3>1
    <2>5. \A i \in 0..n : h[i] = g[i]
      OBVIOUS
    <2>6. h[n + 1] = step[<<h[n], n + 1>>]
      BY <2>5
    <2> HIDE DEF h
    <2>7. \A i \in 1..(n + 1) : h[i] = step[<<h[i - 1], i>>]
      <3> TAKE i \in 1..(n + 1)
      <3>1. CASE i = n + 1
        BY <3>1, <2>6
      <3>2. CASE i # n + 1
        <4>1. i \in 1..n /\ i \in 0..n /\ i - 1 \in 0..n
          BY <3>2
        <4> QED BY <4>1, <2>1, <2>5
      <3> QED BY <3>1, <3>2
    <2>8. h[0] = first
      BY <2>1, <2>5
    <2> QED BY <2>4, <2>7, <2>8
  <1> HIDE DEF S
  <1>3. N \in S
    BY <1>1, <1>2, CountingUp
  <1>4. PICK g : Runs(g, N)
    BY <1>3 DEF S
  <1> QED BY <1>4 DEF Iterates
-----------------------------------------------------------------------------
(***************************************************************************)
(* Positions in order: Nth, Selected.                                      *)
(***************************************************************************)
LEMMA RankReaches ==
  ASSUME NEW N \in Nat, NEW P \in SUBSET (1..N)
  PROVE  \A i \in Nat : \A n \in 1..Rank(P, i) : \E k \in P : k <= i /\ Rank(P, k) = n
  <1> DEFINE S == { i \in Nat : \A n \in 1..Rank(P, i) : \E k \in P : k <= i /\ Rank(P, k) = n }
  <1>1. 0 \in S
    <2>1. Rank(P, 0) = 0
      BY RankUp
    <2> QED BY <2>1
  <1>2. ASSUME NEW i \in Nat, i \in S PROVE i + 1 \in S
    <2>0. i \in Nat
      OBVIOUS
    <2> SUFFICES ASSUME NEW n \in 1..Rank(P, i + 1)
                 PROVE  \E k \in P : k <= i + 1 /\ Rank(P, k) = n
      OBVIOUS
    <2>1. \A m \in 1..Rank(P, i) : \E k \in P : k <= i /\ Rank(P, k) = m
      BY <1>2
    <2>2. /\ Rank(P, i) \in Nat
          /\ i + 1 \in P => Rank(P, i + 1) = Rank(P, i) + 1
          /\ i + 1 \notin P => Rank(P, i + 1) = Rank(P, i)
      <3> HIDE DEF S
      <3> QED BY <2>0, RankUp
    <2>3. CASE n \in 1..Rank(P, i)
      <3>1. PICK k \in P : k <= i /\ Rank(P, k) = n
        BY <2>1, <2>3
      <3> QED BY <3>1
    <2>4. CASE n \notin 1..Rank(P, i)
      <3>1. i + 1 \in P /\ n = Rank(P, i + 1)
        BY <2>2, <2>4
      <3> QED BY <3>1
    <2> QED BY <2>3, <2>4
  <1> HIDE DEF S
  <1>3. Nat \subseteq S
    BY <1>1, <1>2, CountingUp
  <1> QED BY <1>3 DEF S

LEMMA RankIsStrict ==
  ASSUME NEW N \in Nat, NEW P \in SUBSET (1..N), NEW i \in Nat, NEW j \in P, i < j
  PROVE  Rank(P, i) < Rank(P, j)
  <1>1. j \in Nat /\ j - 1 \in Nat /\ i <= j - 1 /\ (j - 1) + 1 = j
    BY j \in 1..N
  <1>2. Rank(P, i) <= Rank(P, j - 1)
    BY <1>1, RankUp
  <1>3. Rank(P, (j - 1) + 1) = Rank(P, j - 1) + 1
    <2>1. \A k \in Nat : k + 1 \in P => Rank(P, k + 1) = Rank(P, k) + 1
      BY RankUp
    <2> QED BY <1>1, <2>1
  <1>4. Rank(P, i) \in Nat /\ Rank(P, j - 1) \in Nat
    BY <1>1, RankUp
  <1>5. Rank(P, j) = Rank(P, j - 1) + 1
    BY <1>1, <1>3
  <1> QED BY <1>2, <1>4, <1>5

LEMMA NthIsOfRank ==
  ASSUME NEW N \in Nat, NEW P \in SUBSET (1..N)
  PROVE  /\ \A n \in 1..Cardinality(P) : Nth(P, n) \in P /\ Rank(P, Nth(P, n)) = n
         /\ \A i \in P : Rank(P, i) \in 1..Cardinality(P) /\ Nth(P, Rank(P, i)) = i
  <1>1. ASSUME NEW n \in 1..Cardinality(P) PROVE Nth(P, n) \in P /\ Rank(P, Nth(P, n)) = n
    <2>1. \E k \in P : Rank(P, k) = n
      <3>1. n \in 1..Rank(P, N)
        BY RankUp
      <3> QED BY <3>1, RankReaches
    <2>2. Nth(P, n) = CHOOSE k \in P : Rank(P, k) = n
      BY DEF Nth, Rank
    <2> QED BY <2>1, <2>2
  <1>2. ASSUME NEW i \in P PROVE Rank(P, i) \in 1..Cardinality(P) /\ Nth(P, Rank(P, i)) = i
    <2>1. i \in Nat /\ i <= N /\ 0 < i
      OBVIOUS
    <2>2. Rank(P, 0) < Rank(P, i)
      BY <2>1, RankIsStrict
    <2>3. Rank(P, i) \in 1..Cardinality(P)
      BY <2>1, <2>2, RankUp
    <2>4. Nth(P, Rank(P, i)) \in P /\ Rank(P, Nth(P, Rank(P, i))) = Rank(P, i)
      BY <2>3, <1>1
    <2>5. \A j, k \in P : j < k => Rank(P, j) < Rank(P, k)
      BY RankIsStrict
    <2>6. \A j, k \in P : Rank(P, j) = Rank(P, k) => j = k
      <3> SUFFICES ASSUME NEW j \in P, NEW k \in P, Rank(P, j) = Rank(P, k), j # k
                   PROVE  FALSE
        OBVIOUS
      <3>1. j \in Nat /\ k \in Nat /\ Rank(P, j) \in Nat
        <4>1. j \in Nat /\ k \in Nat
          BY P \in SUBSET (1..N)
        <4> QED BY <4>1, RankUp
      <3>2. CASE j < k
        BY <3>1, <3>2, <2>5
      <3>3. CASE k < j
        BY <3>1, <3>3, <2>5
      <3> QED BY <3>2, <3>3
    <2> QED BY <2>3, <2>4, <2>6
  <1> QED BY <1>1, <1>2

LEMMA SelectedIs ==
  ASSUME NEW A, NEW s \in Seq(A), NEW P \in SUBSET (DOMAIN s)
  PROVE  /\ Selected(s, P) \in Seq(A) /\ Len(Selected(s, P)) = Cardinality(P)
         /\ Cardinality(P) \in Nat
         /\ \A n \in 1..Cardinality(P) : Nth(P, n) \in P /\ Selected(s, P)[n] = s[Nth(P, n)]
         /\ \A i \in P : Rank(P, i) \in 1..Cardinality(P) /\ Selected(s, P)[Rank(P, i)] = s[i]
  <1>1. P \in SUBSET (1..Len(s)) /\ Len(s) \in Nat
    OBVIOUS
  <1>2. Cardinality(P) \in Nat
    BY <1>1, RankUp
  <1>3. \A n \in 1..Cardinality(P) : Nth(P, n) \in P /\ Rank(P, Nth(P, n)) = n
    BY <1>1, NthIsOfRank
  <1>4. \A i \in P : Rank(P, i) \in 1..Cardinality(P) /\ Nth(P, Rank(P, i)) = i
    BY <1>1, NthIsOfRank
  <1>5. Selected(s, P) = [n \in 1..Cardinality(P) |-> s[Nth(P, n)]]
    BY DEF Selected
  <1>6. \A n \in 1..Cardinality(P) : s[Nth(P, n)] \in A
    BY <1>3, ElementOfSeq
  <1>7. Selected(s, P) \in Seq(A) /\ Len(Selected(s, P)) = Cardinality(P)
    BY <1>2, <1>5, <1>6
  <1> QED BY <1>2, <1>3, <1>4, <1>5, <1>7
-----------------------------------------------------------------------------
(***************************************************************************)
(* What validate_exact_word_repair accepts, for any texts.                 *)
(***************************************************************************)
\* The one pass over the original exists and stays within the repair.
LEMMA MatchRuns ==
  ASSUME NEW A, NEW o \in Seq(A), NEW r \in Seq(A), NEW gone
  PROVE  \E c \in [0..Len(o) -> 0..(Len(r) + 1)] :
           /\ c[0] = 1 /\ c[Len(o)] = MatchWords(o, r, gone)
           /\ \A i \in 1..Len(o) : c[i] = MatchWord(o, r, gone, c[i - 1], i)
  <1> DEFINE N == Len(o)
             V == 0..(Len(r) + 1)
             step == [p \in V \X (1..N) |-> MatchWord(o, r, gone, p[1], p[2])]
             D(c) == c = [i \in 0..N |-> IF i = 0 THEN 1 ELSE MatchWord(o, r, gone, c[i - 1], i)]
  <1>1. N \in Nat /\ Len(r) \in Nat
    OBVIOUS
  <1>2. \A v \in V, i \in 1..N : MatchWord(o, r, gone, v, i) \in V
    BY <1>1 DEF MatchWord
  <1>3. 1 \in V
    BY <1>1
  <1> HIDE DEF V
  <1>4. \A v \in V, i \in 1..N : step[<<v, i>>] = MatchWord(o, r, gone, v, i)
    OBVIOUS
  <1> HIDE DEF N, step
  <1> HIDE DEF D
  <1>5. PICK g \in [0..N -> V] : g[0] = 1 /\ \A i \in 1..N : g[i] = step[<<g[i - 1], i>>]
    <2>1. \A v \in V, i \in 1..N : step[<<v, i>>] \in V
      BY <1>2, <1>4
    <2>2. \E g : Iterates(g, V, 1, step, N)
      BY <1>1, <1>3, <2>1, Iterated
    <2> QED BY <2>2 DEF Iterates
  <1>6. \A i \in 1..N : step[<<g[i - 1], i>>] = MatchWord(o, r, gone, g[i - 1], i)
    <2> TAKE i \in 1..N
    <2>1. i - 1 \in 0..N
      BY <1>1
    <2>2. g[i - 1] \in V
      BY <2>1
    <2> QED BY <2>2, <1>4
  <1>7. D(g)
    <2>1. \A i \in 0..N : i = 0 \/ (i \in 1..N /\ i # 0)
      BY <1>1
    <2>2. \A i \in 0..N : g[i] = IF i = 0 THEN 1 ELSE MatchWord(o, r, gone, g[i - 1], i)
      BY <1>5, <2>1, <1>6
    <2>3. g = [i \in 0..N |-> g[i]]
      BY <1>5
    <2> QED BY <2>2, <2>3 DEF D
  <1>8. MatchWords(o, r, gone) = (CHOOSE c : D(c))[N]
    BY DEF MatchWords, N, D
  <1> DEFINE c == CHOOSE c : D(c)
  <1>9. D(c)
    BY <1>7
  <1> HIDE DEF c
  <1>10. /\ c = [i \in 0..N |-> c[i]] /\ c[0] = 1
         /\ \A i \in 1..N : c[i] = MatchWord(o, r, gone, c[i - 1], i)
    <2>1. c = [i \in 0..N |-> IF i = 0 THEN 1 ELSE MatchWord(o, r, gone, c[i - 1], i)]
      BY <1>9 DEF D
    <2>2. \A i \in 0..N : c[i] = IF i = 0 THEN 1 ELSE MatchWord(o, r, gone, c[i - 1], i)
      BY <2>1
    <2>3. 0 \in 0..N /\ \A i \in 1..N : i \in 0..N /\ i # 0
      BY <1>1
    <2>4. c[0] = 1
      BY <2>2, <2>3
    <2>5. \A i \in 1..N : c[i] = MatchWord(o, r, gone, c[i - 1], i)
      BY <2>2, <2>3
    <2>6. c = [i \in 0..N |-> c[i]]
      BY <2>1, <2>2
    <2> QED BY <2>4, <2>5, <2>6
  <1> DEFINE S == { i \in Nat : i <= N => c[i] \in V }
  <1>11. 0 \in S
    BY <1>3, <1>10
  <1>12. ASSUME NEW i \in Nat, i \in S PROVE i + 1 \in S
    <2> SUFFICES ASSUME i + 1 <= N PROVE c[i + 1] \in V
      OBVIOUS
    <2>1. c[i] \in V /\ i + 1 \in 1..N /\ (i + 1) - 1 = i
      BY <1>1, <1>12
    <2> QED BY <2>1, <1>2, <1>10
  <1> HIDE DEF S
  <1>13. Nat \subseteq S
    BY <1>11, <1>12, CountingUp
  <1>14. \A i \in 0..N : c[i] \in V
    <2> TAKE i \in 0..N
    <2>1. i \in S /\ i <= N
      BY <1>1, <1>13
    <2> QED BY <2>1 DEF S
  <1>15. c \in [0..N -> V] /\ c[N] = MatchWords(o, r, gone)
    BY <1>8, <1>10, <1>14 DEF c
  <1> QED BY <1>10, <1>15 DEF N, V
\* A text that is matched to its end lacks removable positions only.
LEMMA MatchIsDeletion ==
  ASSUME NEW A, NEW o \in Seq(A), NEW r \in Seq(A), NEW gone,
         MatchWords(o, r, gone) = Len(r) + 1
  PROVE  \E g \in SUBSET gone : Folded(Without(o, g)) = Folded(r)
  <1> DEFINE N == Len(o)
             M == Len(r)
  <1>1. N \in Nat /\ M \in Nat /\ DOMAIN o = 1..N /\ DOMAIN r = 1..M
    OBVIOUS
  <1>2. PICK c \in [0..N -> 0..(M + 1)] :
          /\ c[0] = 1 /\ c[N] = M + 1
          /\ \A i \in 1..N : c[i] = MatchWord(o, r, gone, c[i - 1], i)
    BY MatchRuns
  <1> HIDE DEF N, M
  <1>3. \A i \in 0..N : c[i] \in Nat /\ c[i] <= M + 1
    BY <1>1, <1>2
  <1> DEFINE Kept(i) == c[i] = c[i - 1] + 1 /\ c[i - 1] \in 1..M /\ Casefold(o[i]) = Casefold(r[c[i - 1]])
             Left(i) == c[i] = c[i - 1] /\ i \in gone
  <1>4. \A i \in 1..N : c[i] # 0 => c[i - 1] # 0 /\ (Kept(i) \/ Left(i))
    <2> TAKE i \in 1..N
    <2>1. i - 1 \in 0..N /\ c[i - 1] \in Nat
      BY <1>1, <1>3
    <2> QED BY <1>1, <1>2, <2>1 DEF MatchWord, M
  <1>5. \A i \in 0..N : c[i] # 0
    <2> DEFINE S == { k \in Nat : k <= N => c[N - k] # 0 }
    <2>1. 0 \in S
      BY <1>1, <1>2
    <2>2. ASSUME NEW k \in Nat, k \in S PROVE k + 1 \in S
      <3> SUFFICES ASSUME k + 1 <= N PROVE c[N - (k + 1)] # 0
        OBVIOUS
      <3>1. N - k \in 1..N /\ c[N - k] # 0 /\ N - (k + 1) = (N - k) - 1
        BY <1>1, <2>2
      <3> QED BY <3>1, <1>4
    <2> HIDE DEF S
    <2>3. Nat \subseteq S
      BY <2>1, <2>2, CountingUp
    <2> TAKE i \in 0..N
    <2>4. N - i \in S /\ N - i <= N /\ N - (N - i) = i
      BY <1>1, <2>3
    <2> QED BY <2>4 DEF S
  <1>6. \A i \in 1..N : i \in 0..N /\ i - 1 \in 0..N
    BY <1>1
  <1>7. \A i \in 1..N : Kept(i) \/ (~Kept(i) /\ Left(i))
    BY <1>4, <1>5, <1>6
  <1> DEFINE K == { i \in 1..N : Kept(i) }
             G == (1..N) \ K
  <1>8. G \in SUBSET gone /\ (DOMAIN o) \ G = K /\ K \in SUBSET (1..N) /\ K \in SUBSET (DOMAIN o)
    BY <1>1, <1>7
  <1>9. \A i \in 1..N : /\ i \in K => c[i] = c[i - 1] + 1 /\ Casefold(o[i]) = Casefold(r[c[i - 1]])
                        /\ i \notin K => c[i] = c[i - 1]
    BY <1>7
  <1> HIDE DEF K, G, Kept, Left
  <1>10. \A i \in 0..N : Rank(K, i) = c[i] - 1
    <2> DEFINE S == { i \in Nat : i <= N => Rank(K, i) = c[i] - 1 }
    <2>1. 0 \in S
      <3>1. Rank(K, 0) = 0
        BY <1>1, <1>8, RankUp
      <3> QED BY <1>2, <3>1
    <2>2. ASSUME NEW i \in Nat, i \in S PROVE i + 1 \in S
      <3> SUFFICES ASSUME i + 1 <= N PROVE Rank(K, i + 1) = c[i + 1] - 1
        OBVIOUS
      <3>0. i \in Nat
        OBVIOUS
      <3>1. i + 1 \in 1..N /\ (i + 1) - 1 = i /\ i \in 0..N /\ c[i] \in Nat /\ Rank(K, i) = c[i] - 1
        BY <1>1, <1>3, <2>2
      <3>2. /\ i + 1 \in K => Rank(K, i + 1) = Rank(K, i) + 1
            /\ i + 1 \notin K => Rank(K, i + 1) = Rank(K, i)
        <4> HIDE DEF S
        <4> QED BY <1>1, <1>8, <3>0, RankUp
      <3>3. i + 1 \in K => c[i + 1] = c[i] + 1
        BY <1>9, <3>1
      <3>4. i + 1 \notin K => c[i + 1] = c[i]
        BY <1>9, <3>1
      <3> HIDE DEF S
      <3> QED BY <3>1, <3>2, <3>3, <3>4
    <2> HIDE DEF S
    <2>3. Nat \subseteq S
      BY <2>1, <2>2, CountingUp
    <2> TAKE i \in 0..N
    <2>4. i \in S /\ i <= N
      BY <1>1, <2>3
    <2> QED BY <2>4 DEF S
  <1>11. Cardinality(K) = M
    <2>1. Cardinality(K) = Rank(K, N)
      BY <1>1, <1>8, RankUp
    <2>2. Rank(K, N) = c[N] - 1
      BY <1>1, <1>10
    <2> QED BY <1>1, <1>2, <2>1, <2>2
  <1> DEFINE w == Without(o, G)
  <1>12. w = Selected(o, K)
    BY <1>8 DEF Without
  <1>13. /\ w \in Seq(A) /\ Len(w) = M
         /\ \A n \in 1..M : Nth(K, n) \in K /\ w[n] = o[Nth(K, n)] /\ Rank(K, Nth(K, n)) = n
    <2>1. /\ Selected(o, K) \in Seq(A) /\ Len(Selected(o, K)) = M
          /\ \A n \in 1..M : Nth(K, n) \in K /\ Selected(o, K)[n] = o[Nth(K, n)]
      BY <1>8, <1>11, SelectedIs
    <2>2. \A n \in 1..M : Rank(K, Nth(K, n)) = n
      BY <1>1, <1>8, <1>11, NthIsOfRank
    <2> HIDE DEF w
    <2> QED BY <1>12, <2>1, <2>2
  <1>14. \A n \in 1..M : Casefold(w[n]) = Casefold(r[n])
    <2> TAKE n \in 1..M
    <2> DEFINE i == Nth(K, n)
    <2>1. i \in K /\ w[n] = o[i] /\ Rank(K, i) = n
      BY <1>13
    <2> HIDE DEF i, w
    <2>2. i \in 1..N /\ i \in 0..N /\ i - 1 \in 0..N
      BY <1>6, <1>8, <2>1
    <2>3. n = c[i] - 1 /\ c[i] = c[i - 1] + 1 /\ Casefold(o[i]) = Casefold(r[c[i - 1]])
      BY <1>9, <1>10, <2>1, <2>2
    <2>4. n = c[i - 1]
      BY <1>3, <2>2, <2>3
    <2> QED BY <2>1, <2>3, <2>4
  <1> HIDE DEF w
  <1>15. DOMAIN w = 1..M
    BY <1>13
  <1>16. Folded(w) = Folded(r)
    BY <1>1, <1>14, <1>15 DEF Folded
  <1> QED BY <1>8, <1>16 DEF w
\* A text from which nothing is left out is itself.
LEMMA NothingDeleted ==
  ASSUME NEW A, NEW o \in Seq(A)
  PROVE  Without(o, {}) = o
  <1> DEFINE N == Len(o)
             P == DOMAIN o
  <1>1. N \in Nat /\ P = 1..N /\ o = [n \in 1..N |-> o[n]]
    OBVIOUS
  <1>2. \A i \in 1..N : Rank(P, i) = i
    <2> TAKE i \in 1..N
    <2>1. { k \in P : k <= i } = 1..i /\ i \in Nat
      BY <1>1
    <2>2. Cardinality(1..i) = i
      BY <2>1, FS_Interval
    <2> QED BY <2>1, <2>2 DEF Rank
  <1>3. Cardinality(P) = N
    BY <1>1, FS_Interval
  <1>4. \A i \in 1..N : Nth(P, i) = i
    <2>1. \A i \in P : Nth(P, Rank(P, i)) = i
      BY <1>1, NthIsOfRank
    <2> QED BY <1>1, <1>2, <2>1
  <1>5. Selected(o, P) = [n \in 1..N |-> o[Nth(P, n)]]
    BY <1>3 DEF Selected
  <1>6. Selected(o, P) = o
    BY <1>1, <1>4, <1>5
  <1>7. P \ {} = P
    OBVIOUS
  <1> QED BY <1>6, <1>7 DEF Without

\* What DeliveredIsHonest asks of an answer that is not a fallback.
Honest(first, text, asked) ==
  /\ Passes(text, asked) /\ KeepsLiterals(first, text)
  /\ Asks(asked, "exact_words") => OnlyArticlesDeleted(first, text, asked)

LEMMA AcceptedIsHonest ==
  ASSUME NEW text \in Seq(STRING), NEW asked, Passes(text, asked)
  PROVE  Honest(text, text, asked)
  <1>1. KeepsLiterals(text, text)
    <2>1. "yes" # "no"
      OBVIOUS
    <2>2. ASSUME {text[1], text[1]} = {"yes", "no"} PROVE FALSE
      <3>1. "yes" \in {text[1], text[1]} /\ "no" \in {text[1], text[1]}
        BY <2>2
      <3> QED BY <2>1, <3>1
    <2> QED BY <2>2 DEF KeepsLiterals, Polarities
  <1>2. OnlyArticlesDeleted(text, text, asked)
    <2>1. Folded(Without(text, {})) = Folded(text)
      BY NothingDeleted
    <2> QED BY <2>1 DEF OnlyArticlesDeleted
  <1> QED BY <1>1, <1>2 DEF Honest

LEMMA RepairedIsHonest ==
  ASSUME NEW first \in Seq(STRING), NEW text \in Seq(STRING), NEW asked,
         KeepsLiterals(first, text), KeepsWords(first, text, asked), Passes(text, asked)
  PROVE  Honest(first, text, asked)
  <1> SUFFICES ASSUME Asks(asked, "exact_words")
               PROVE  OnlyArticlesDeleted(first, text, asked)
    BY DEF Honest
  <1> DEFINE gone == RemovableArticles(first, asked)
  <1>1. MatchWords(first, text, gone) = Len(text) + 1
    BY DEF KeepsWords
  <1> HIDE DEF gone
  <1>2. \E g \in SUBSET gone : Folded(Without(first, g)) = Folded(text)
    BY <1>1, MatchIsDeletion
  <1> QED BY <1>2 DEF OnlyArticlesDeleted, gone

LEMMA EditedIsHonest ==
  ASSUME NEW first, NEW asked,
         DeleteArticles(first, asked) # <<>>, Passes(DeleteArticles(first, asked), asked),
         KeepsLiterals(first, DeleteArticles(first, asked))
  PROVE  Honest(first, DeleteArticles(first, asked), asked)
  <1>1. PICK g \in SUBSET RemovableArticles(first, asked) :
          DeleteArticles(first, asked) = Without(first, g)
    BY DEF DeleteArticles
  <1>2. OnlyArticlesDeleted(first, DeleteArticles(first, asked), asked)
    BY <1>1 DEF OnlyArticlesDeleted
  <1> QED BY <1>2 DEF Honest
-----------------------------------------------------------------------------
(***************************************************************************)
(* Every answer to a constrained request is honest.                        *)
(***************************************************************************)
HInv ==
  /\ phase = "repair" => Constrained /\ original \in Answers
  /\ DeliveredIsHonest

LEMMA HonestInit == Init => HInv
  BY DEF Init, HInv, DeliveredIsHonest

LEMMA DeliverHonestly ==
  ASSUME Constrained, UNCHANGED constraints, NEW text, NEW kind,
         DeliverWhole(text, kind),
         IF kind = "fallback" THEN text = original' ELSE Honest(original', text, constraints)
  PROVE  HInv'
  <1>1. phase' = "done" /\ answer' = [response |-> text, kind |-> kind]
    BY DEF DeliverWhole, Deliver
  <1>2. answer'.response = text /\ answer'.kind = kind
    BY <1>1
  <1> QED BY <1>1, <1>2 DEF HInv, DeliveredIsHonest, Honest

LEMMA HonestStep == HInv /\ [Next]_vars => HInv'
  <1> SUFFICES ASSUME HInv, [Next]_vars PROVE HInv'
    OBVIOUS
  <1> USE GenerationAssumption
  <1>1. ASSUME Compile \/ ConstrainedTool \/ AskAgain \/ Broken PROVE HInv'
    <2>1. phase' \notin {"repair", "done"}
      BY <1>1 DEF Compile, ConstrainedTool, AskAgain, Broken, UseTool, Fail
    <2> QED BY <2>1 DEF HInv, DeliveredIsHonest
  <1>2. ASSUME Guard PROVE HInv'
    <2>1. phase' = "generate" \/ (phase' = "done" /\ answer'.kind = "guard")
      BY <1>2 DEF Guard, Deliver
    <2> QED BY <2>1 DEF HInv, DeliveredIsHonest
  <1>3. ASSUME StreamEnds \/ BufferEnds \/ \E chunk \in Chunks : ModelWrites(chunk)
        PROVE  HInv'
    <2>1. ~Constrained /\ UNCHANGED constraints
      BY <1>3 DEF StreamEnds, BufferEnds, ModelWrites, Generating
    <2>2. phase' # "repair"
      BY <1>3 DEF StreamEnds, BufferEnds, ModelWrites, Generating, UseTool, Fail, Deliver,
                  DeliverStreamed
    <2> QED BY <2>1, <2>2 DEF HInv, DeliveredIsHonest, Constrained
  <1>4. ASSUME NEW text \in Answers, FirstAnswer(text) PROVE HInv'
    <2>1. Constrained /\ UNCHANGED constraints /\ original' = text /\ text \in Seq(STRING)
      BY <1>4 DEF FirstAnswer
    <2>2. CASE Passes(text, constraints)
      <3>1. DeliverWhole(text, "accepted")
        BY <1>4, <2>2 DEF FirstAnswer
      <3>2. Honest(original', text, constraints)
        BY <2>1, <2>2, AcceptedIsHonest
      <3> QED BY <2>1, <3>1, <3>2, DeliverHonestly
    <2>3. CASE ~Passes(text, constraints)
      <3>1. phase' = "repair"
        BY <1>4, <2>3 DEF FirstAnswer
      <3> QED BY <2>1, <3>1 DEF HInv, DeliveredIsHonest, Constrained
    <2> QED BY <2>2, <2>3
  <1>5. ASSUME NEW text \in Answers, Retry(text) PROVE HInv'
    <2> DEFINE edit == DeleteArticles(original, constraints)
               result == Repair(original, text, constraints)
               kept == KeepsLiterals(original, text) /\ KeepsWords(original, text, constraints)
    <2>1. /\ Constrained /\ UNCHANGED <<constraints, original>>
          /\ original \in Seq(STRING) /\ text \in Seq(STRING)
      BY <1>5 DEF Retry, HInv
    <2>2. IF result.kind = "failed" THEN Fail ELSE DeliverWhole(result.response, result.kind)
      BY <1>5 DEF Retry
    <2>3. CASE kept /\ Passes(text, constraints)
      <3>1. result.response = text /\ result.kind = "repaired"
        BY <2>3 DEF Repair
      <3>2. DeliverWhole(text, "repaired")
        BY <2>2, <3>1
      <3>3. Honest(original', text, constraints)
        BY <2>1, <2>3, RepairedIsHonest
      <3> QED BY <2>1, <3>2, <3>3, DeliverHonestly
    <2>4. CASE kept /\ ~Passes(text, constraints)
      <3>1. result.kind = "failed"
        BY <2>4 DEF Repair
      <3>2. phase' = "failed"
        BY <2>2, <3>1 DEF Fail
      <3> QED BY <3>2 DEF HInv, DeliveredIsHonest
    <2>5. CASE /\ ~kept /\ edit # <<>>
               /\ Passes(edit, constraints) /\ KeepsLiterals(original, edit)
      <3>1. result.response = edit /\ result.kind = "edited"
        BY <2>5 DEF Repair
      <3>2. DeliverWhole(edit, "edited")
        BY <2>2, <3>1
      <3>3. Honest(original', edit, constraints)
        BY <2>1, <2>5, EditedIsHonest
      <3> QED BY <2>1, <3>2, <3>3, DeliverHonestly
    <2>6. CASE ~kept /\ ~(/\ edit # <<>>
                          /\ Passes(edit, constraints) /\ KeepsLiterals(original, edit))
      <3>1. result.response = original /\ result.kind = "fallback"
        BY <2>6 DEF Repair
      <3>2. DeliverWhole(original, "fallback")
        BY <2>2, <3>1
      <3> QED BY <2>1, <3>2, DeliverHonestly
    <2> QED BY <2>3, <2>4, <2>5, <2>6
  <1>6. CASE UNCHANGED vars
    BY <1>6 DEF vars, HInv, DeliveredIsHonest, Constrained
  <1> QED BY <1>1, <1>2, <1>3, <1>4, <1>5, <1>6 DEF Next

\* _validated_response: whatever the model answers and however it repairs, what
\* a constrained request is given satisfies every constraint, keeps the
\* literals and loses articles only, or is the first answer, called a fallback.
THEOREM AnswersAreHonest == Spec => []DeliveredIsHonest
  <1>1. HInv => DeliveredIsHonest
    BY DEF HInv
  <1> QED BY <1>1, HonestInit, HonestStep, PTL DEF Spec
-----------------------------------------------------------------------------
(***************************************************************************)
(* The history window, for any history and any limits.                     *)
(***************************************************************************)
Messages == [role : STRING, size : Nat, private : BOOLEAN]

LEMMA SuffixIs ==
  ASSUME NEW s \in Seq(Messages), NEW n \in 0..Len(s)
  PROVE  /\ Suffix(s, n) \in Seq(Messages) /\ Len(Suffix(s, n)) = n
         /\ \A k \in 1..n : Len(s) - n + k \in 1..Len(s) /\ Suffix(s, n)[k] = s[Len(s) - n + k]
         /\ Suffix(s, n) = [k \in 1..n |-> s[Len(s) - n + k]]
  <1> DEFINE L == Len(s)
  <1>1. L \in Nat /\ DOMAIN s = 1..L /\ \A i \in 1..L : s[i] \in Messages
    OBVIOUS
  <1>2. SubSeq(s, L - n + 1, L) = [k \in 1..(L - (L - n + 1) + 1) |-> s[(L - n + 1) + k - 1]]
    BY <1>1
  <1> HIDE DEF L
  <1>3. n \in Nat /\ n <= L /\ L - (L - n + 1) + 1 = n
    BY <1>1 DEF L
  <1>4. \A k \in 1..n : L - n + k \in 1..L /\ (L - n + 1) + k - 1 = L - n + k
    BY <1>1, <1>3
  <1>5. Suffix(s, n) = [k \in 1..n |-> s[L - n + k]]
    BY <1>2, <1>3, <1>4 DEF Suffix, L
  <1>6. \A k \in 1..n : s[L - n + k] \in Messages
    BY <1>1, <1>4
  <1>7. Suffix(s, n) \in Seq(Messages) /\ Len(Suffix(s, n)) = n
    BY <1>3, <1>5, <1>6
  <1> QED BY <1>4, <1>5, <1>7 DEF L

LEMMA SuffixGrows ==
  ASSUME NEW s \in Seq(Messages), NEW n \in 1..Len(s)
  PROVE  /\ s[Len(s) - n + 1] \in Messages /\ Suffix(s, n)[1] = s[Len(s) - n + 1]
         /\ <<s[Len(s) - n + 1]>> \o Suffix(s, n - 1) = Suffix(s, n)
  <1> DEFINE L == Len(s)
             m == s[L - n + 1]
             t == Suffix(s, n - 1)
  <1>1. L \in Nat /\ n \in 0..L /\ n - 1 \in 0..L /\ L - n + 1 \in 1..L /\ n \in Nat /\ n # 0
    OBVIOUS
  <1>2. /\ t \in Seq(Messages) /\ Len(t) = n - 1
        /\ \A k \in 1..(n - 1) : t[k] = s[L - (n - 1) + k]
    BY <1>1, SuffixIs
  <1>3. Suffix(s, n) = [k \in 1..n |-> s[L - n + k]]
    BY <1>1, SuffixIs
  <1>4. m \in Messages
    BY <1>1
  <1> HIDE DEF L, m, t
  <1>5. <<m>> \o t = [k \in 1..n |-> IF k = 1 THEN m ELSE t[k - 1]]
    BY <1>1, <1>2, <1>4
  <1>6. \A k \in 1..n : (IF k = 1 THEN m ELSE t[k - 1]) = s[L - n + k]
    <2> TAKE k \in 1..n
    <2>1. CASE k = 1
      BY <1>1, <2>1 DEF m
    <2>2. CASE k # 1
      <3>1. k - 1 \in 1..(n - 1) /\ L - (n - 1) + (k - 1) = L - n + k
        BY <1>1, <2>2
      <3>2. t[k - 1] = s[L - (n - 1) + (k - 1)]
        BY <1>2, <3>1
      <3> QED BY <2>2, <3>1, <3>2
    <2> QED BY <2>1, <2>2
  <1>7. <<m>> \o t = Suffix(s, n)
    BY <1>3, <1>5, <1>6
  <1>8. Suffix(s, n)[1] = m
    BY <1>1, <1>3 DEF m
  <1> QED BY <1>4, <1>7, <1>8 DEF L, m, t

LEMMA SizesRun ==
  ASSUME NEW s \in Seq(Messages)
  PROVE  /\ SizeOfLast(s) \in [0..Len(s) -> Nat] /\ SizeOfLast(s)[0] = 0
         /\ \A n \in 1..Len(s) : SizeOfLast(s)[n] = SizeOfLast(s)[n - 1] + s[Len(s) - n + 1].size
  <1> DEFINE L == Len(s)
             size(n) == s[L - n + 1].size
             step == [p \in Nat \X (1..L) |-> p[1] + size(p[2])]
             D(c) == c = [n \in 0..L |-> IF n = 0 THEN 0 ELSE c[n - 1] + Suffix(s, n)[1].size]
  <1>1. L \in Nat
    OBVIOUS
  <1>2. \A n \in 1..L : Suffix(s, n)[1].size = size(n) /\ size(n) \in Nat
    <2> TAKE n \in 1..L
    <2>1. s[L - n + 1] \in Messages /\ Suffix(s, n)[1] = s[L - n + 1]
      BY SuffixGrows
    <2> QED BY <2>1 DEF Messages
  <1>3. \A v \in Nat, n \in 1..L : step[<<v, n>>] = v + size(n)
    OBVIOUS
  <1> HIDE DEF L, size, step, D
  <1>4. \A v \in Nat, n \in 1..L : step[<<v, n>>] \in Nat
    <2> TAKE v \in Nat, n \in 1..L
    <2>1. step[<<v, n>>] = v + size(n) /\ size(n) \in Nat
      BY <1>2, <1>3
    <2> QED BY <2>1
  <1>5. PICK g : Iterates(g, Nat, 0, step, L)
    <2>1. 0 \in Nat
      OBVIOUS
    <2> QED BY <1>1, <1>4, <2>1, Iterated
  <1>6. /\ g \in [0..L -> Nat] /\ g[0] = 0
        /\ \A n \in 1..L : g[n] = step[<<g[n - 1], n>>]
    BY <1>5 DEF Iterates
  <1>7. \A n \in 1..L : n - 1 \in 0..L /\ n \in 0..L /\ n # 0
    BY <1>1
  <1>8. D(g)
    <2>1. \A n \in 1..L : g[n] = g[n - 1] + Suffix(s, n)[1].size
      <3> TAKE n \in 1..L
      <3>1. g[n - 1] \in Nat
        BY <1>6, <1>7
      <3>2. step[<<g[n - 1], n>>] = g[n - 1] + size(n)
        BY <1>3, <3>1
      <3> QED BY <1>2, <1>6, <3>2
    <2>2. \A n \in 0..L : n = 0 \/ (n \in 1..L /\ n # 0)
      BY <1>1
    <2>3. \A n \in 0..L : g[n] = IF n = 0 THEN 0 ELSE g[n - 1] + Suffix(s, n)[1].size
      BY <1>6, <2>1, <2>2
    <2>4. g = [n \in 0..L |-> g[n]]
      BY <1>6
    <2> QED BY <2>3, <2>4 DEF D
  <1>9. SizeOfLast(s) = CHOOSE c : D(c)
    BY DEF SizeOfLast, D, L
  <1> DEFINE c == SizeOfLast(s)
  <1>10. D(c)
    BY <1>8, <1>9
  <1> HIDE DEF c
  <1>11. /\ c = [n \in 0..L |-> c[n]] /\ c[0] = 0
         /\ \A n \in 1..L : c[n] = c[n - 1] + size(n)
    <2>1. c = [n \in 0..L |-> IF n = 0 THEN 0 ELSE c[n - 1] + Suffix(s, n)[1].size]
      BY <1>10 DEF D
    <2>2. \A n \in 0..L : c[n] = IF n = 0 THEN 0 ELSE c[n - 1] + Suffix(s, n)[1].size
      BY <2>1
    <2>3. c[0] = 0
      BY <1>1, <2>2
    <2>4. \A n \in 1..L : c[n] = c[n - 1] + Suffix(s, n)[1].size
      BY <1>7, <2>2
    <2>5. c = [n \in 0..L |-> c[n]]
      BY <2>1, <2>2
    <2> QED BY <1>2, <2>3, <2>4, <2>5
  <1>12. \A n \in 0..L : c[n] \in Nat
    <2> DEFINE S == { n \in Nat : n <= L => c[n] \in Nat }
    <2>1. 0 \in S
      BY <1>11
    <2>2. ASSUME NEW n \in Nat, n \in S PROVE n + 1 \in S
      <3> SUFFICES ASSUME n + 1 <= L PROVE c[n + 1] \in Nat
        OBVIOUS
      <3>1. c[n] \in Nat /\ n + 1 \in 1..L /\ (n + 1) - 1 = n
        BY <1>1, <2>2
      <3>2. c[n + 1] = c[n] + size(n + 1) /\ size(n + 1) \in Nat
        BY <3>1, <1>2, <1>11
      <3> QED BY <3>1, <3>2
    <2> HIDE DEF S
    <2>3. Nat \subseteq S
      BY <2>1, <2>2, CountingUp
    <2> TAKE n \in 0..L
    <2>4. n \in S /\ n <= L
      BY <1>1, <2>3
    <2> QED BY <2>4 DEF S
  <1> QED BY <1>11, <1>12 DEF L, c, size
Windows == [kept : Seq(Messages), chars : Nat, full : BOOLEAN]
NoWindow == [kept |-> <<>>, chars |-> 0, full |-> FALSE]

Stops(w, m) ==
  w.full \/ Len(w.kept) = MaxHistoryMessages \/ w.chars + m.size > MaxHistoryChars

LEMMA TakeIs ==
  ASSUME NEW w \in Windows, NEW m \in Messages
  PROVE  /\ Take(w, m) \in Windows
         /\ Stops(w, m) => Take(w, m).full /\ Take(w, m).kept = w.kept
         /\ ~Stops(w, m) => /\ ~Take(w, m).full
                            /\ Take(w, m).kept = <<m>> \o w.kept
                            /\ Take(w, m).chars = w.chars + m.size
  <1>1. w.kept \in Seq(Messages) /\ w.chars \in Nat /\ w.full \in BOOLEAN /\ m.size \in Nat
    BY DEF Windows, Messages
  <1> DEFINE x == <<m>> \o w.kept
             y == w.chars + m.size
  <1>2. x \in Seq(Messages) /\ y \in Nat
    BY <1>1
  <1>3. Take(w, m) = IF Stops(w, m) THEN [w EXCEPT !.full = TRUE]
                     ELSE [w EXCEPT !.kept = x, !.chars = y]
    BY DEF Take, Stops
  <1> HIDE DEF x, y
  <1>4. /\ [w EXCEPT !.full = TRUE] \in Windows
        /\ [w EXCEPT !.full = TRUE].full /\ [w EXCEPT !.full = TRUE].kept = w.kept
    BY <1>1 DEF Windows
  <1>5. /\ [w EXCEPT !.kept = x, !.chars = y] \in Windows
        /\ [w EXCEPT !.kept = x, !.chars = y].full = w.full
        /\ [w EXCEPT !.kept = x, !.chars = y].kept = x
        /\ [w EXCEPT !.kept = x, !.chars = y].chars = y
    BY <1>1, <1>2 DEF Windows
  <1>6. CASE Stops(w, m)
    BY <1>3, <1>4, <1>6
  <1>7. CASE ~Stops(w, m)
    <2>1. ~w.full
      BY <1>7 DEF Stops
    <2> QED BY <1>3, <1>5, <1>7, <2>1 DEF x, y
  <1> QED BY <1>6, <1>7

LEMMA TakenRuns ==
  ASSUME NEW s \in Seq(Messages)
  PROVE  \E t \in [0..Len(s) -> Windows] :
           /\ t[0] = NoWindow
           /\ \A n \in 1..Len(s) : t[n] = Take(t[n - 1], s[Len(s) - n + 1])
           /\ SelectRecentHistory(s) =
                [kept |-> DropAnswers(t[Len(s)].kept), truncated |-> t[Len(s)].full]
  <1> DEFINE L == Len(s)
             m(n) == s[L - n + 1]
             step == [p \in Windows \X (1..L) |-> Take(p[1], m(p[2]))]
             D(c) == c = [n \in 0..L |-> IF n = 0 THEN NoWindow ELSE Take(c[n - 1], m(n))]
  <1>1. L \in Nat /\ \A n \in 1..L : m(n) \in Messages
    BY SuffixGrows
  <1>2. \A v \in Windows, n \in 1..L : step[<<v, n>>] = Take(v, m(n))
    OBVIOUS
  <1>3. SelectRecentHistory(s) =
          LET c == CHOOSE c : D(c)
          IN [kept |-> DropAnswers(c[L].kept), truncated |-> c[L].full]
    BY DEF SelectRecentHistory, NoWindow
  <1> HIDE DEF L, m, step, D
  <1>4. \A v \in Windows, n \in 1..L : Take(v, m(n)) \in Windows
    BY <1>1, TakeIs
  <1>5. NoWindow \in Windows
    BY DEF NoWindow, Windows
  <1>6. PICK g : Iterates(g, Windows, NoWindow, step, L)
    <2>1. \A v \in Windows, n \in 1..L : step[<<v, n>>] \in Windows
      BY <1>2, <1>4
    <2> QED BY <1>1, <1>5, <2>1, Iterated
  <1>7. /\ g \in [0..L -> Windows] /\ g[0] = NoWindow
        /\ \A n \in 1..L : g[n] = step[<<g[n - 1], n>>]
    BY <1>6 DEF Iterates
  <1>8. \A n \in 1..L : n - 1 \in 0..L /\ n \in 0..L /\ n # 0
    BY <1>1
  <1>9. D(g)
    <2>1. \A n \in 1..L : g[n] = Take(g[n - 1], m(n))
      <3> TAKE n \in 1..L
      <3>1. g[n - 1] \in Windows
        BY <1>7, <1>8
      <3>2. step[<<g[n - 1], n>>] = Take(g[n - 1], m(n))
        BY <1>2, <3>1
      <3> QED BY <1>7, <3>2
    <2>2. \A n \in 0..L : n = 0 \/ (n \in 1..L /\ n # 0)
      BY <1>1
    <2>3. \A n \in 0..L : g[n] = IF n = 0 THEN NoWindow ELSE Take(g[n - 1], m(n))
      BY <1>7, <2>1, <2>2
    <2>4. g = [n \in 0..L |-> g[n]]
      BY <1>7
    <2> QED BY <2>3, <2>4 DEF D
  <1> DEFINE c == CHOOSE c : D(c)
  <1>10. D(c)
    BY <1>9
  <1> HIDE DEF c
  <1>11. /\ c = [n \in 0..L |-> c[n]] /\ c[0] = NoWindow
         /\ \A n \in 1..L : c[n] = Take(c[n - 1], m(n))
    <2>1. c = [n \in 0..L |-> IF n = 0 THEN NoWindow ELSE Take(c[n - 1], m(n))]
      BY <1>10 DEF D
    <2>2. \A n \in 0..L : c[n] = IF n = 0 THEN NoWindow ELSE Take(c[n - 1], m(n))
      BY <2>1
    <2>3. c[0] = NoWindow
      BY <1>1, <2>2
    <2>4. \A n \in 1..L : c[n] = Take(c[n - 1], m(n))
      BY <1>8, <2>2
    <2>5. c = [n \in 0..L |-> c[n]]
      BY <2>1, <2>2
    <2> QED BY <2>3, <2>4, <2>5
  <1>12. \A n \in 0..L : c[n] \in Windows
    <2> DEFINE S == { n \in Nat : n <= L => c[n] \in Windows }
    <2>1. 0 \in S
      BY <1>5, <1>11
    <2>2. ASSUME NEW n \in Nat, n \in S PROVE n + 1 \in S
      <3> SUFFICES ASSUME n + 1 <= L PROVE c[n + 1] \in Windows
        OBVIOUS
      <3>1. c[n] \in Windows /\ n + 1 \in 1..L /\ (n + 1) - 1 = n
        BY <1>1, <2>2
      <3> QED BY <3>1, <1>4, <1>11
    <2> HIDE DEF S
    <2>3. Nat \subseteq S
      BY <2>1, <2>2, CountingUp
    <2> TAKE n \in 0..L
    <2>4. n \in S /\ n <= L
      BY <1>1, <2>3
    <2> QED BY <2>4 DEF S
  <1>13. c \in [0..L -> Windows]
    BY <1>11, <1>12
  <1>14. SelectRecentHistory(s) = [kept |-> DropAnswers(c[L].kept), truncated |-> c[L].full]
    BY <1>3 DEF c
  <1> QED BY <1>11, <1>13, <1>14 DEF L, m
Fits(s, n) == n <= MaxHistoryMessages /\ SizeOfLast(s)[n] <= MaxHistoryChars
Whole(s, n) == n > 0 => Suffix(s, n)[1].role # "assistant"

\* What fits still fits when the oldest messages are left out.
LEMMA FitsShrink ==
  ASSUME NEW s \in Seq(Messages), NEW i \in 0..Len(s), NEW j \in 0..Len(s), i <= j, Fits(s, j)
  PROVE  Fits(s, i)
  <1> DEFINE L == Len(s)
             z == SizeOfLast(s)
             S == { d \in Nat : i + d <= L => z[i] <= z[i + d] }
  <1>1. L \in Nat /\ i \in Nat /\ i <= L /\ j \in Nat /\ j <= L
    OBVIOUS
  <1>2. \A n \in 0..L : z[n] \in Nat
    BY SizesRun
  <1>3. \A n \in 1..L : z[n] = z[n - 1] + s[L - n + 1].size /\ s[L - n + 1].size \in Nat
    <2> TAKE n \in 1..L
    <2>1. s[L - n + 1] \in Messages
      BY SuffixGrows
    <2>2. z[n] = z[n - 1] + s[L - n + 1].size
      BY SizesRun
    <2> QED BY <2>1, <2>2 DEF Messages
  <1> HIDE DEF L, z
  <1>4. 0 \in S
    BY <1>1, <1>2
  <1>5. ASSUME NEW d \in Nat, d \in S PROVE d + 1 \in S
    <2> SUFFICES ASSUME i + (d + 1) <= L PROVE z[i] <= z[i + (d + 1)]
      OBVIOUS
    <2> DEFINE n == i + (d + 1)
    <2>1. n \in 1..L /\ n - 1 = i + d /\ i + d \in 0..L /\ i \in 0..L
      BY <1>1
    <2>2. z[i] <= z[n - 1] /\ z[i] \in Nat /\ z[n - 1] \in Nat
      BY <1>1, <1>2, <1>5, <2>1
    <2> HIDE DEF n
    <2>3. PICK a \in Nat : z[n] = z[n - 1] + a
      BY <1>3, <2>1
    <2>4. z[i] <= z[n]
      BY <2>2, <2>3
    <2> QED BY <2>4 DEF n
  <1> HIDE DEF S
  <1>6. j - i \in S
    <2>1. Nat \subseteq S
      BY <1>4, <1>5, CountingUp
    <2> QED BY <1>1, <2>1
  <1>7. z[i] <= z[j]
    <2>1. i + (j - i) = j
      BY <1>1
    <2> QED BY <1>1, <1>6, <2>1 DEF S
  <1>8. z[i] \in Nat /\ z[j] \in Nat
    BY <1>1, <1>2
  <1> QED BY <1>1, <1>7, <1>8, GenerationAssumption DEF Fits, z

\* What was taken fits, and what stopped it does not.
LEMMA TakenFits ==
  ASSUME NEW s \in Seq(Messages), NEW t \in [0..Len(s) -> Windows], t[0] = NoWindow,
         \A n \in 1..Len(s) : t[n] = Take(t[n - 1], s[Len(s) - n + 1])
  PROVE  \E k \in 0..Len(s) : /\ t[Len(s)].kept = Suffix(s, k) /\ Fits(s, k)
                              /\ ~t[Len(s)].full => k = Len(s)
                              /\ t[Len(s)].full => k < Len(s) /\ ~Fits(s, k + 1)
  <1> DEFINE L == Len(s)
             z == SizeOfLast(s)
             Going(n) == /\ ~t[n].full /\ t[n].kept = Suffix(s, n) /\ t[n].chars = z[n] /\ Fits(s, n)
             Stopped(n, k) == /\ t[n].full /\ t[n].kept = Suffix(s, k) /\ k < n
                              /\ Fits(s, k) /\ ~Fits(s, k + 1)
             S == { n \in Nat : n <= L => Going(n) \/ \E k \in 0..L : Stopped(n, k) }
  <1>1. L \in Nat
    OBVIOUS
  <1>2. 0 \in S
    <2>1. Suffix(s, 0) = <<>>
      BY SuffixIs
    <2>2. z[0] = 0
      BY SizesRun
    <2>3. Fits(s, 0)
      BY <2>2, GenerationAssumption DEF Fits
    <2> QED BY <2>1, <2>2, <2>3 DEF NoWindow
  <1>3. ASSUME NEW n \in Nat, n \in S PROVE n + 1 \in S
    <2> SUFFICES ASSUME n + 1 <= L
                 PROVE  Going(n + 1) \/ \E k \in 0..L : Stopped(n + 1, k)
      OBVIOUS
    <2> DEFINE m == s[L - (n + 1) + 1]
               w == t[n]
               v == t[n + 1]
    <2>1. n + 1 \in 1..L /\ n \in 0..L /\ (n + 1) - 1 = n /\ n \in Nat
      BY <1>1
    <2>2. /\ m \in Messages /\ <<m>> \o Suffix(s, n) = Suffix(s, n + 1)
          /\ Len(Suffix(s, n)) = n /\ z[n + 1] = z[n] + m.size /\ z[n] \in Nat /\ m.size \in Nat
      <3>1. m \in Messages /\ <<m>> \o Suffix(s, n) = Suffix(s, n + 1)
        BY <2>1, SuffixGrows
      <3>2. Len(Suffix(s, n)) = n
        BY <2>1, SuffixIs
      <3>3. z[n + 1] = z[n] + m.size /\ z[n] \in Nat
        BY <2>1, SizesRun
      <3>4. m.size \in Nat
        BY <3>1 DEF Messages
      <3> QED BY <3>1, <3>2, <3>3, <3>4
    <2>3. w \in Windows /\ v = Take(w, m)
      BY <2>1
    <2>4. Going(n) \/ \E k \in 0..L : Stopped(n, k)
      BY <1>3, <2>1, <1>1
    <2> HIDE DEF m, v, z
    <2>5. /\ Stops(w, m) => v.full /\ v.kept = w.kept
          /\ ~Stops(w, m) => ~v.full /\ v.kept = <<m>> \o w.kept /\ v.chars = w.chars + m.size
      BY <2>2, <2>3, TakeIs
    <2>6. CASE Going(n) /\ Stops(w, m)
      <3>1. ~Fits(s, n + 1)
        BY <2>1, <2>2, <2>6, GenerationAssumption DEF Fits, Stops, z
      <3>2. Stopped(n + 1, n)
        BY <2>1, <2>5, <2>6, <3>1 DEF v
      <3> QED BY <2>1, <3>2
    <2>7. CASE Going(n) /\ ~Stops(w, m)
      <3>1. Fits(s, n + 1)
        BY <2>1, <2>2, <2>7, GenerationAssumption DEF Fits, Stops, z
      <3> QED BY <2>2, <2>5, <2>7, <3>1 DEF v
    <2>8. ASSUME NEW k \in 0..L, Stopped(n, k) PROVE Stopped(n + 1, k)
      <3>1. Stops(w, m)
        BY <2>8 DEF Stops
      <3>2. k < n + 1
        BY <1>1, <2>8
      <3> QED BY <2>5, <2>8, <3>1, <3>2 DEF v
    <2> QED BY <2>4, <2>6, <2>7, <2>8
  <1> HIDE DEF S
  <1>4. L \in S
    BY <1>1, <1>2, <1>3, CountingUp
  <1>5. Going(L) \/ \E k \in 0..L : Stopped(L, k)
    BY <1>1, <1>4 DEF S
  <1> QED BY <1>1, <1>5
\* The answers that begin a window go, and nothing else.
LEMMA DropIs ==
  ASSUME NEW s \in Seq(Messages), NEW k \in 0..Len(s)
  PROVE  \E j \in 0..k : /\ DropAnswers(Suffix(s, k)) = Suffix(s, j) /\ Whole(s, j)
                         /\ \A n \in (j + 1)..k : ~Whole(s, n)
  <1> DEFINE L == Len(s)
             w == Suffix(s, k)
             others == { i \in DOMAIN w : w[i].role # "assistant" }
  <1>1. L \in Nat /\ k \in Nat /\ k <= L
    OBVIOUS
  <1>2. /\ w \in Seq(Messages) /\ Len(w) = k /\ DOMAIN w = 1..k
        /\ \A i \in 1..k : w[i] = s[L - k + i]
    BY SuffixIs
  <1>3. \A n \in 1..k : Suffix(s, n)[1] = w[k - n + 1] /\ k - n + 1 \in 1..k
    <2> TAKE n \in 1..k
    <2>1. n \in 1..L /\ k - n + 1 \in 1..k /\ L - k + (k - n + 1) = L - n + 1
      BY <1>1
    <2>2. Suffix(s, n)[1] = s[L - n + 1]
      BY <2>1, SuffixGrows
    <2> HIDE DEF w
    <2> QED BY <1>2, <2>1, <2>2
  <1>4. DropAnswers(w) = IF others = {} THEN <<>> ELSE SubSeq(w, Min(others), Len(w))
    BY DEF DropAnswers
  <1> HIDE DEF w
  <1>5. \A i \in 1..k : i \in others <=> w[i].role # "assistant"
    BY <1>2
  <1>6. others \in SUBSET Nat /\ others \in SUBSET (1..k)
    BY <1>2
  <1> HIDE DEF others
  <1>7. CASE others = {}
    <2>1. Suffix(s, 0) = <<>>
      BY SuffixIs, <1>1
    <2>2. Whole(s, 0)
      BY DEF Whole
    <2>3. \A n \in (0 + 1)..k : ~Whole(s, n)
      BY <1>1, <1>3, <1>5, <1>7 DEF Whole
    <2>4. DropAnswers(w) = Suffix(s, 0) /\ 0 \in 0..k
      BY <1>1, <1>4, <1>7, <2>1
    <2> QED BY <2>2, <2>3, <2>4 DEF w
  <1>8. CASE others # {}
    <2> DEFINE b == Min(others)
               j == k - b + 1
    <2>1. b \in others /\ \A i \in others : b <= i
      BY <1>6, <1>8, MinIs
    <2> HIDE DEF b
    <2>2. b \in 1..k /\ j \in 1..k /\ k - j + 1 = b
      BY <1>1, <1>6, <2>1
    <2>3. Whole(s, j)
      <3>1. Suffix(s, j)[1] = w[b]
        BY <1>3, <2>2
      <3> QED BY <1>5, <2>1, <2>2, <3>1 DEF Whole
    <2>4. \A n \in (j + 1)..k : ~Whole(s, n)
      <3> TAKE n \in (j + 1)..k
      <3>1. n \in 1..k /\ n > 0 /\ k - n + 1 \in 1..k /\ k - n + 1 < b
        BY <1>1, <2>2
      <3>2. k - n + 1 \notin others
        BY <2>1, <2>2, <3>1
      <3> QED BY <1>3, <1>5, <3>1, <3>2 DEF Whole
    <2>5. SubSeq(w, b, k) = Suffix(s, j)
      <3>1. SubSeq(w, b, k) = [i \in 1..(k - b + 1) |-> w[b + i - 1]]
        BY <1>1, <1>2, <2>2
      <3>2. Suffix(s, j) = [i \in 1..j |-> s[L - j + i]]
        <4>1. j \in 0..L
          BY <1>1, <2>2
        <4> HIDE DEF j
        <4> QED BY <4>1, SuffixIs
      <3>3. \A i \in 1..j : w[b + i - 1] = s[L - j + i]
        <4> TAKE i \in 1..j
        <4>1. b + i - 1 \in 1..k /\ L - k + (b + i - 1) = L - j + i
          BY <1>1, <2>2
        <4> QED BY <1>2, <4>1
      <3> QED BY <3>1, <3>2, <3>3
    <2>6. DropAnswers(w) = Suffix(s, j)
      BY <1>2, <1>4, <1>8, <2>5 DEF b
    <2>7. j \in 0..k
      BY <2>2
    <2> HIDE DEF j
    <2> QED BY <2>3, <2>4, <2>6, <2>7 DEF w
  <1> QED BY <1>7, <1>8

\* The recent history is the longest end that fits and is whole.
LEMMA WindowIs ==
  ASSUME NEW s \in Seq(Messages)
  PROVE  LET j == Max({ n \in 0..Len(s) : Fits(s, n) /\ Whole(s, n) })
         IN  /\ j \in 0..Len(s) /\ SelectRecentHistory(s).kept = Suffix(s, j)
             /\ SelectRecentHistory(s).truncated <=> ~Fits(s, Len(s))
  <1> DEFINE L == Len(s)
             J == { n \in 0..L : Fits(s, n) /\ Whole(s, n) }
  <1>1. L \in Nat
    OBVIOUS
  <1>2. PICK t \in [0..L -> Windows] :
          /\ t[0] = NoWindow
          /\ \A n \in 1..L : t[n] = Take(t[n - 1], s[L - n + 1])
          /\ SelectRecentHistory(s) =
               [kept |-> DropAnswers(t[L].kept), truncated |-> t[L].full]
    BY TakenRuns
  <1>3. PICK k \in 0..L : /\ t[L].kept = Suffix(s, k) /\ Fits(s, k)
                          /\ ~t[L].full => k = L
                          /\ t[L].full => k < L /\ ~Fits(s, k + 1)
    BY <1>2, TakenFits
  <1>4. PICK j \in 0..k : /\ DropAnswers(Suffix(s, k)) = Suffix(s, j) /\ Whole(s, j)
                          /\ \A n \in (j + 1)..k : ~Whole(s, n)
    BY DropIs
  <1> HIDE DEF L
  <1>5. k \in Nat /\ k <= L /\ j \in Nat /\ j <= k /\ j \in 0..L
    BY <1>1
  <1>6. \A n \in 0..L : Fits(s, n) => n <= k
    <2> SUFFICES ASSUME NEW n \in 0..L, Fits(s, n), k < n PROVE FALSE
      BY <1>1, <1>5
    <2>1. n \in Nat /\ n <= L
      BY <1>1
    <2>2. k + 1 \in 0..L /\ k + 1 <= n /\ ~Fits(s, k + 1)
      BY <1>1, <1>3, <1>5, <2>1
    <2> QED BY <2>1, <2>2, FitsShrink DEF L
  <1>7. t[L].full <=> ~Fits(s, L)
    <2>1. t[L].full => ~Fits(s, L)
      <3>1. L \in 0..L
        BY <1>1
      <3> QED BY <1>1, <1>3, <1>5, <1>6, <3>1
    <2> QED BY <1>3, <2>1
  <1>8. j \in J
    BY <1>1, <1>3, <1>4, <1>5, FitsShrink DEF L
  <1>9. \A n \in J : n <= j
    <2> SUFFICES ASSUME NEW n \in J, j < n PROVE FALSE
      BY <1>1, <1>5
    <2>1. n \in 0..L /\ n \in Nat /\ n <= k /\ Whole(s, n)
      BY <1>1, <1>6
    <2>2. n \in (j + 1)..k
      BY <1>5, <2>1
    <2> QED BY <1>4, <2>1, <2>2
  <1>10. J \in SUBSET Nat
    BY <1>1
  <1> HIDE DEF J
  <1>11. Max(J) = j
    BY <1>8, <1>9, <1>10, MaxIs
  <1>12. SelectRecentHistory(s).kept = Suffix(s, j) /\ (SelectRecentHistory(s).truncated <=> t[L].full)
    BY <1>2, <1>3, <1>4
  <1> QED BY <1>5, <1>7, <1>11, <1>12 DEF J, L
LEMMA NewerIs ==
  ASSUME NEW N \in Nat, NEW P \in SUBSET (1..N), NEW i \in Nat
  PROVE  Cardinality({ k \in P : k > i }) = Cardinality(P) - Rank(P, i)
  <1> DEFINE old == { k \in P : k <= i }
             new == { k \in P : k > i }
  <1>1. IsFiniteSet(P)
    BY RankUp
  <1>2. old \in SUBSET P /\ new \in SUBSET P
    OBVIOUS
  <1>3. old \cap new = {} /\ old \cup new = P
    <2>1. \A k \in P : ~(k <= i /\ k > i) /\ (k <= i \/ k > i)
      BY P \in SUBSET (1..N)
    <2> QED BY <2>1
  <1>4. Rank(P, i) = Cardinality(old)
    BY DEF Rank
  <1> HIDE DEF old, new
  <1>5. /\ IsFiniteSet(old) /\ IsFiniteSet(new)
        /\ Cardinality(old) \in Nat /\ Cardinality(new) \in Nat
    BY <1>1, <1>2, FS_Subset, FS_CardinalityType
  <1>6. Cardinality(P) = Cardinality(old) + Cardinality(new) - Cardinality(old \cap new)
    BY <1>3, <1>5, FS_Union
  <1>7. Cardinality(old \cap new) = 0
    BY <1>3, FS_EmptySet
  <1> QED BY <1>4, <1>5, <1>6, <1>7 DEF new

Turns(h) == { i \in DOMAIN h : h[i].role # "system" }
LastTurn(h) == h[Max(Turns(h))]

\* The last turn is among the newest public messages exactly when it is shown.
LEMMA LastTurnIs ==
  ASSUME NEW h \in Seq(Messages), NEW j \in 0..Len(Public(h)), Turns(h) # {}
  PROVE  /\ Public(h) \in Seq(Messages)
         /\ \/ /\ Max(Turns(h)) \in PublicPositions(h)
               /\ Cardinality({ k \in PublicPositions(h) : k > Max(Turns(h)) }) < j
               /\ ~LastTurn(h).private /\ Contains(Suffix(Public(h), j), LastTurn(h))
            \/ /\ ~(/\ Max(Turns(h)) \in PublicPositions(h)
                    /\ Cardinality({ k \in PublicPositions(h) : k > Max(Turns(h)) }) < j)
               /\ ~(~LastTurn(h).private /\ Contains(Suffix(Public(h), j), LastTurn(h)))
  <1> DEFINE P == PublicPositions(h)
             s == Public(h)
             L == Len(s)
             T == Turns(h)
             t == Max(T)
             newer == Cardinality({ k \in P : k > t })
             w == Suffix(s, j)
  <1>1. P \in SUBSET (DOMAIN h) /\ DOMAIN h = 1..Len(h) /\ Len(h) \in Nat /\ s = Selected(h, P)
    BY DEF PublicPositions, Public
  <1>2. /\ s \in Seq(Messages) /\ L = Cardinality(P) /\ L \in Nat
        /\ \A n \in 1..L : Nth(P, n) \in P /\ s[n] = h[Nth(P, n)] /\ Rank(P, Nth(P, n)) = n
        /\ \A i \in P : Rank(P, i) \in 1..L /\ s[Rank(P, i)] = h[i]
    <2>1. /\ s \in Seq(Messages) /\ L = Cardinality(P) /\ L \in Nat
          /\ \A n \in 1..Cardinality(P) : Nth(P, n) \in P /\ s[n] = h[Nth(P, n)]
          /\ \A i \in P : Rank(P, i) \in 1..Cardinality(P) /\ s[Rank(P, i)] = h[i]
      <3> HIDE DEF P, s
      <3> QED BY <1>1, SelectedIs
    <2>2. \A n \in 1..Cardinality(P) : Rank(P, Nth(P, n)) = n
      <3> HIDE DEF P
      <3> QED BY <1>1, NthIsOfRank
    <2> QED BY <2>1, <2>2
  <1>3. T # {} /\ T \in SUBSET Nat /\ T \in SUBSET (1..Len(h))
    BY <1>1 DEF Turns
  <1>4. t \in T /\ \A y \in T : y <= t
    <2>1. \E x \in T : \A y \in T : y <= x
      <3> DEFINE back == { Len(h) - y : y \in T }
      <3>1. back \in SUBSET Nat /\ back # {}
        BY <1>1, <1>3
      <3>2. PICK b \in back : \A y \in back : b <= y
        BY <3>1, LeastNumber
      <3>3. PICK x \in T : b = Len(h) - x
        BY <3>2
      <3>4. \A y \in T : Len(h) - x <= Len(h) - y /\ y \in Nat /\ x \in Nat
        BY <1>3, <3>2, <3>3
      <3>5. \A y \in T : y <= x
        BY <1>1, <3>4
      <3> QED BY <3>5
    <2>2. PICK x \in T : \A y \in T : y <= x
      BY <2>1
    <2>3. t = x
      <3> HIDE DEF T
      <3> QED BY <1>3, <2>2, MaxIs
    <2> QED BY <2>2, <2>3
  <1>5. /\ w \in Seq(Messages) /\ Len(w) = j
        /\ \A k \in 1..j : L - j + k \in 1..L /\ w[k] = s[L - j + k]
    <2>1. j \in 0..Len(s)
      OBVIOUS
    <2> HIDE DEF s
    <2> QED BY <1>2, <2>1, SuffixIs DEF L
  <1>6. t \in P <=> ~h[t].private
    BY <1>1, <1>3, <1>4 DEF PublicPositions
  <1>7. Contains(w, h[t]) <=> \E k \in 1..j : w[k] = h[t]
    BY <1>5 DEF Contains
  <1> HIDE DEF w, s, L
  <1>8. t \in Nat /\ Rank(P, t) \in Nat /\ newer = L - Rank(P, t)
    <2>1. t \in Nat
      BY <1>3, <1>4
    <2> HIDE DEF P, t
    <2>2. P \in SUBSET (1..Len(h))
      BY <1>1
    <2> QED BY <1>1, <1>2, <2>1, <2>2, NewerIs, RankUp DEF s
  <1>9. j \in Nat /\ j <= L
    BY <1>2 DEF L, s
  <1> HIDE DEF newer
  <1>10. ASSUME t \in P, newer < j PROVE Contains(w, h[t])
    <2> DEFINE k == Rank(P, t) - (L - j)
    <2>1. Rank(P, t) \in 1..L /\ s[Rank(P, t)] = h[t]
      BY <1>2, <1>10
    <2>2. k \in 1..j /\ L - j + k = Rank(P, t)
      BY <1>2, <1>8, <1>9, <1>10, <2>1
    <2> HIDE DEF k
    <2>3. w[k] = h[t]
      BY <1>5, <2>1, <2>2
    <2> QED BY <1>7, <2>2, <2>3
  <1>11. ASSUME ~h[t].private, Contains(w, h[t]) PROVE t \in P /\ newer < j
    <2>1. PICK k \in 1..j : w[k] = h[t]
      BY <1>7, <1>11
    <2> DEFINE q == L - j + k
               p == Nth(P, q)
    <2>2. q \in 1..L /\ w[k] = s[q] /\ q > L - j
      BY <1>2, <1>5, <1>9
    <2>3. p \in P /\ s[q] = h[p] /\ Rank(P, p) = q
      BY <1>2, <2>2
    <2> HIDE DEF q, p
    <2>4. p \in T
      <3>1. h[p] = h[t] /\ h[t].role # "system"
        BY <1>4, <2>1, <2>2, <2>3 DEF Turns
      <3> QED BY <1>1, <2>3, <3>1 DEF Turns
    <2>5. p <= t /\ p \in Nat
      BY <1>3, <1>4, <2>4
    <2>6. Rank(P, p) <= Rank(P, t)
      <3> HIDE DEF P, t
      <3>1. P \in SUBSET (1..Len(h))
        BY <1>1
      <3> QED BY <1>1, <1>8, <2>5, <3>1, RankUp
    <2>7. newer < j
      BY <1>2, <1>8, <1>9, <2>2, <2>3, <2>6
    <2> QED BY <1>6, <1>11, <2>7
  <1> QED BY <1>2, <1>6, <1>10, <1>11 DEF LastTurn, newer, w, s

\* HistoryWindow, of one history.
Window(h, c) ==
  /\ c.kept = Suffix(Public(h), Max({ n \in 0..Len(Public(h)) :
                                        Fits(Public(h), n) /\ Whole(Public(h), n) }))
  /\ c.truncated <=> ~Fits(Public(h), Len(Public(h)))
  /\ c.latest_turn <=> Turns(h) # {} /\ ~LastTurn(h).private /\ Contains(c.kept, LastTurn(h))

LEMMA CompiledWindow ==
  ASSUME NEW h \in Seq(Messages)
  PROVE  Window(h, CompileContext(h))
  <1> DEFINE s == Public(h)
             j == Max({ n \in 0..Len(s) : Fits(s, n) /\ Whole(s, n) })
             recent == SelectRecentHistory(s)
             newer == Cardinality({ k \in PublicPositions(h) : k > Max(Turns(h)) })
             c == CompileContext(h)
  <1>1. s \in Seq(Messages)
    <2>1. PublicPositions(h) \in SUBSET (DOMAIN h)
      BY DEF PublicPositions
    <2> QED BY <2>1, SelectedIs DEF Public
  <1>2. /\ j \in 0..Len(s) /\ recent.kept = Suffix(s, j)
        /\ recent.truncated <=> ~Fits(s, Len(s))
    <2> HIDE DEF s
    <2> QED BY <1>1, WindowIs
  <1>3. Len(recent.kept) = j
    <2> HIDE DEF s, j
    <2> QED BY <1>1, <1>2, SuffixIs
  <1>4. /\ c.kept = recent.kept /\ c.truncated = recent.truncated
        /\ c.latest_turn <=>
             Turns(h) # {} /\ Max(Turns(h)) \in PublicPositions(h) /\ newer < Len(recent.kept)
    BY DEF CompileContext, Turns
  <1> HIDE DEF j, recent, newer, c
  <1>5. CASE Turns(h) = {}
    BY <1>2, <1>4, <1>5 DEF Window, j, c
  <1>6. CASE Turns(h) # {}
    <2>1. (Max(Turns(h)) \in PublicPositions(h) /\ newer < j)
            <=> (~LastTurn(h).private /\ Contains(Suffix(s, j), LastTurn(h)))
      BY <1>2, <1>6, LastTurnIs DEF newer
    <2> QED BY <1>2, <1>3, <1>4, <1>6, <2>1 DEF Window, j, c
  <1> QED BY <1>5, <1>6
WInv ==
  /\ phase = "compile" => history \in Histories
  /\ HistoryWindow

LEMMA WindowInit == Init => WInv
  BY DEF Init, WInv, HistoryWindow

LEMMA WindowStep == WInv /\ [Next]_vars => WInv'
  <1> SUFFICES ASSUME WInv, [Next]_vars PROVE WInv'
    OBVIOUS
  <1>1. ASSUME Compile PROVE WInv'
    <2>1. history \in Seq(Messages)
      BY <1>1, GenerationAssumption DEF Compile, WInv, Messages
    <2>2. phase' = "guard" /\ history' = history /\ context' = CompileContext(history)
      BY <1>1 DEF Compile
    <2>3. Window(history', context')
      BY <2>1, <2>2, CompiledWindow
    <2>4. HistoryWindow'
      BY <2>3 DEF HistoryWindow, Window, Fits, Whole, Turns, LastTurn
    <2> QED BY <2>2, <2>4 DEF WInv
  <1>2. ASSUME ~Compile, Next PROVE WInv'
    <2>1. phase' \notin {"compile", "guard"}
      BY <1>2 DEF Next, Guard, StreamEnds, BufferEnds, ConstrainedTool, AskAgain, Broken, ModelWrites,
                  FirstAnswer, Retry, UseTool, Fail, Deliver, DeliverStreamed, DeliverWhole,
                  Generating
    <2> QED BY <2>1 DEF WInv, HistoryWindow
  <1>3. CASE UNCHANGED vars
    <2>1. phase' = phase /\ history' = history /\ context' = context
      BY <1>3 DEF vars
    <2> QED BY <2>1 DEF WInv, HistoryWindow
  <1> QED BY <1>1, <1>2, <1>3

\* compile_model_context: whatever the conversation holds and wherever the
\* limits are, the model is shown its longest end that fits and is whole, and
\* told truly whether something was cut off and whether the last turn is there.
THEOREM WindowIsLongest == Spec => []HistoryWindow
  <1>1. WInv => HistoryWindow
    BY DEF WInv
  <1> QED BY <1>1, WindowInit, WindowStep, PTL DEF Spec

-----------------------------------------------------------------------------
(***************************************************************************)
(* Texts, their beginnings and the white space around them.                *)
(***************************************************************************)
\* The provers do not know of a literal that it is in STRING.
Tokens == STRING \cup {"<", "/", "tool_", "call", "result"}
Blank(t) == \A i \in 1..Len(t) : t[i] = Space
EndsSolid(t) == t = <<>> \/ t[Len(t)] # Space

LEMMA LenIs ==
  ASSUME NEW t \in Seq(Tokens)
  PROVE  Len(t) \in Nat /\ \A i \in 1..Len(t) : t[i] \in Tokens
  OBVIOUS

LEMMA PrefixIs ==
  ASSUME NEW s \in Seq(Tokens), NEW t \in Seq(Tokens)
  PROVE  IsPrefix(s, t) <=> Len(s) <= Len(t) /\ \A k \in 1..Len(s) : s[k] = t[k]
  BY DEF IsPrefix

LEMMA JoinIs ==
  ASSUME NEW s \in Seq(Tokens), NEW t \in Seq(Tokens)
  PROVE  /\ s \o t \in Seq(Tokens) /\ Len(s \o t) = Len(s) + Len(t)
         /\ \A i \in 1..Len(s) : (s \o t)[i] = s[i]
         /\ \A i \in 1..Len(t) : (s \o t)[Len(s) + i] = t[i]
         /\ Len(s) \in Nat /\ Len(t) \in Nat
         /\ <<>> \in Seq(Tokens) /\ s \o <<>> = s /\ <<>> \o s = s
         /\ IsPrefix(s, s \o t)
  <1>1. /\ s \o t \in Seq(Tokens) /\ Len(s \o t) = Len(s) + Len(t)
        /\ \A i \in 1..Len(s) : (s \o t)[i] = s[i]
        /\ \A i \in 1..Len(t) : (s \o t)[Len(s) + i] = t[i]
        /\ Len(s) \in Nat /\ Len(t) \in Nat
    OBVIOUS
  <1>2. <<>> \in Seq(Tokens) /\ s \o <<>> = s /\ <<>> \o s = s
    OBVIOUS
  <1>3. Len(s) <= Len(s \o t) /\ \A k \in 1..Len(s) : s[k] = (s \o t)[k]
    BY <1>1
  <1>4. IsPrefix(s, s \o t)
    BY <1>1, <1>3, PrefixIs
  <1> QED BY <1>1, <1>2, <1>4

LEMMA JoinAssociates ==
  ASSUME NEW s \in Seq(Tokens), NEW t \in Seq(Tokens), NEW u \in Seq(Tokens)
  PROVE  (s \o t) \o u = s \o (t \o u)
  BY ConcatAssociative

LEMMA PartIs ==
  ASSUME NEW t \in Seq(Tokens), NEW m \in 1..(Len(t) + 1), NEW n \in 0..Len(t), m <= n + 1
  PROVE  /\ SubSeq(t, m, n) \in Seq(Tokens) /\ Len(SubSeq(t, m, n)) = n - m + 1
         /\ \A i \in 1..(n - m + 1) : SubSeq(t, m, n)[i] = t[m + i - 1]
  <1>1. m \in Int /\ n \in Int /\ \A i \in m..n : t[i] \in Tokens
    OBVIOUS
  <1>2. /\ SubSeq(t, m, n) \in Seq(Tokens)
        /\ Len(SubSeq(t, m, n)) = IF m <= n THEN n - m + 1 ELSE 0
        /\ \A i \in 1..(n - m + 1) : SubSeq(t, m, n)[i] = t[m + i - 1]
    BY <1>1, SubSeqProperties
  <1> QED BY <1>1, <1>2

\* A text is what comes first and the rest of it.
LEMMA SplitAt ==
  ASSUME NEW t \in Seq(Tokens), NEW n \in 0..Len(t)
  PROVE  t = SubSeq(t, 1, n) \o SubSeq(t, n + 1, Len(t))
  <1>0. Len(t) \in Nat /\ 1 \in 1..(Len(t) + 1) /\ n \in (1 - 1)..Len(t) /\ Len(t) \in n..Len(t)
    OBVIOUS
  <1>1. SubSeq(t, 1, n) \o SubSeq(t, n + 1, Len(t)) = SubSeq(t, 1, Len(t))
    BY <1>0, ConcatAdjacentSubSeq
  <1>2. SubSeq(t, 1, Len(t)) = t
    BY SubSeqFull
  <1> QED BY <1>1, <1>2

LEMMA SameText ==
  ASSUME NEW s \in Seq(Tokens), NEW t \in Seq(Tokens), Len(s) = Len(t), \A i \in 1..Len(s) : s[i] = t[i]
  PROVE  s = t
  BY SeqEqual

LEMMA LstripAt ==
  ASSUME NEW t \in Seq(Tokens)
  PROVE  /\ Blank(t) => Lstrip(t) = <<>>
         /\ \A m \in 1..Len(t) : t[m] # Space /\ (\A i \in 1..(m - 1) : t[i] = Space)
                                   => Lstrip(t) = SubSeq(t, m, Len(t))
  <1> DEFINE solid == { i \in 1..Len(t) : t[i] # Space }
  <1>1. Lstrip(t) = IF solid = {} THEN <<>> ELSE SubSeq(t, Min(solid), Len(t))
    BY DEF Lstrip
  <1>2. Blank(t) => solid = {}
    BY DEF Blank
  <1>3. ASSUME NEW m \in 1..Len(t), t[m] # Space, \A i \in 1..(m - 1) : t[i] = Space
        PROVE  Min(solid) = m /\ solid # {}
    <2>1. Len(t) \in Nat
      BY LenIs
    <2>2. m \in solid /\ solid \in SUBSET Nat
      BY <1>3, <2>1
    <2>3. \A i \in solid : m <= i
      BY <1>3, <2>1
    <2> HIDE DEF solid
    <2>4. Min(solid) \in solid /\ \A y \in solid : Min(solid) <= y
      BY <2>2, MinIs
    <2> DEFINE first == Min(solid)
    <2>5. first \in Nat /\ m \in Nat /\ first <= m /\ m <= first
      BY <2>2, <2>3, <2>4
    <2> HIDE DEF first
    <2>6. first = m
      BY <2>5
    <2> QED BY <2>2, <2>6 DEF first
  <1> QED BY <1>1, <1>2, <1>3

LEMMA RstripAt ==
  ASSUME NEW t \in Seq(Tokens), NEW m \in 0..Len(t), m = 0 \/ t[m] # Space,
         \A i \in (m + 1)..Len(t) : t[i] = Space
  PROVE  Rstrip(t) = SubSeq(t, 1, m)
  <1> DEFINE solid == {0} \cup { i \in 1..Len(t) : t[i] # Space }
  <1>1. Len(t) \in Nat /\ m \in Nat
    BY LenIs
  <1>2. solid \in SUBSET Nat /\ m \in solid /\ \A i \in solid : i <= m
    BY <1>1
  <1> HIDE DEF solid
  <1>3. Max(solid) = m
    BY <1>2, MaxIs
  <1> QED BY <1>3 DEF Rstrip, solid

\* Where a text that is not blank begins and ends.
LEMMA SolidEnds ==
  ASSUME NEW t \in Seq(Tokens), ~Blank(t)
  PROVE  /\ \E m \in 1..Len(t) : t[m] # Space /\ \A i \in 1..(m - 1) : t[i] = Space
         /\ \E m \in 1..Len(t) : t[m] # Space /\ \A i \in (m + 1)..Len(t) : t[i] = Space
  <1> DEFINE solid == { i \in 1..Len(t) : t[i] # Space }
             back == { Len(t) - i : i \in solid }
  <1>0. Len(t) \in Nat
    BY LenIs
  <1>1. Len(t) \in Nat /\ solid # {} /\ solid \in SUBSET Nat
    BY <1>0 DEF Blank
  <1>2. back # {} /\ back \in SUBSET Nat
    BY <1>1
  <1>3. PICK m \in solid : \A i \in solid : m <= i
    BY <1>1, LeastNumber
  <1>4. \A i \in 1..(m - 1) : t[i] = Space
    BY <1>1, <1>3
  <1>5. PICK b \in back : \A i \in back : b <= i
    <2> HIDE DEF back
    <2> QED BY <1>2, LeastNumber
  <1>6. PICK n \in solid : b = Len(t) - n
    BY <1>5
  <1>7. \A i \in (n + 1)..Len(t) : t[i] = Space
    <2> SUFFICES ASSUME NEW i \in (n + 1)..Len(t), t[i] # Space PROVE FALSE
      OBVIOUS
    <2>1. i \in solid /\ n \in Nat
      BY <1>1
    <2>2. b <= Len(t) - i
      BY <1>5, <2>1
    <2> QED BY <1>1, <1>6, <2>1, <2>2
  <1> QED BY <1>3, <1>4, <1>6, <1>7

LEMMA RstripIs ==
  ASSUME NEW t \in Seq(Tokens)
  PROVE  /\ Rstrip(t) \in Seq(Tokens) /\ EndsSolid(Rstrip(t)) /\ Len(Rstrip(t)) <= Len(t)
         /\ SubSeq(t, Len(Rstrip(t)) + 1, Len(t)) \in Seq(Tokens)
         /\ t = Rstrip(t) \o SubSeq(t, Len(Rstrip(t)) + 1, Len(t))
         /\ Blank(t) <=> Rstrip(t) = <<>>
  <1>1. PICK m \in 0..Len(t) : /\ m = 0 \/ t[m] # Space
                               /\ \A i \in (m + 1)..Len(t) : t[i] = Space
                               /\ Blank(t) <=> m = 0
    <2>1. CASE Blank(t)
      <3>1. 0 \in 0..Len(t) /\ \A i \in (0 + 1)..Len(t) : t[i] = Space
        BY <2>1 DEF Blank
      <3> QED BY <2>1, <3>1
    <2>2. CASE ~Blank(t)
      <3>1. PICK m \in 1..Len(t) : t[m] # Space /\ \A i \in (m + 1)..Len(t) : t[i] = Space
        BY <2>2, SolidEnds
      <3>2. m \in 0..Len(t) /\ m # 0
        OBVIOUS
      <3> QED BY <2>2, <3>1, <3>2
    <2> QED BY <2>1, <2>2
  <1> DEFINE r == SubSeq(t, 1, m)
  <1>2. Rstrip(t) = r
    BY <1>1, RstripAt
  <1>3. Len(t) \in Nat /\ m \in Nat /\ m <= Len(t)
    OBVIOUS
  <1>4. r \in Seq(Tokens) /\ Len(r) = m /\ \A i \in 1..m : r[i] = t[i]
    <2>1. 1 \in 1..(Len(t) + 1) /\ 1 <= m + 1 /\ m - 1 + 1 = m /\ \A i \in 1..m : 1 + i - 1 = i
      BY <1>3
    <2>2. r \in Seq(Tokens) /\ Len(r) = m - 1 + 1 /\ \A i \in 1..(m - 1 + 1) : r[i] = t[1 + i - 1]
      BY <2>1, PartIs
    <2> QED BY <2>1, <2>2
  <1>5. t = r \o SubSeq(t, m + 1, Len(t))
    BY SplitAt
  <1>6. SubSeq(t, m + 1, Len(t)) \in Seq(Tokens)
    <2>1. m + 1 \in 1..(Len(t) + 1) /\ Len(t) \in 0..Len(t) /\ m + 1 <= Len(t) + 1
      BY <1>3
    <2> QED BY <2>1, PartIs
  <1> HIDE DEF r
  <1>7. r = <<>> <=> m = 0
    BY <1>4
  <1>8. EndsSolid(r)
    <2>1. CASE m = 0
      BY <1>7, <2>1 DEF EndsSolid
    <2>2. CASE m # 0
      BY <1>1, <1>3, <1>4, <2>2 DEF EndsSolid
    <2> QED BY <2>1, <2>2
  <1> QED BY <1>1, <1>2, <1>3, <1>4, <1>5, <1>6, <1>7, <1>8

LEMMA LstripIs ==
  ASSUME NEW t \in Seq(Tokens), NEW u \in Seq(Tokens)
  PROVE  /\ Lstrip(t) \in Seq(Tokens)
         /\ Blank(t) => Lstrip(t) = <<>> /\ Lstrip(t \o u) = Lstrip(u)
         /\ ~Blank(t) => Lstrip(t \o u) = Lstrip(t) \o u /\ Lstrip(t) # <<>> /\ ~Blank(Lstrip(t))
  <1> DEFINE j == t \o u
             T == Len(t)
             U == Len(u)
  <1>1. /\ j \in Seq(Tokens) /\ Len(j) = T + U /\ T \in Nat /\ U \in Nat
        /\ \A i \in 1..T : j[i] = t[i]
        /\ \A i \in 1..U : j[T + i] = u[i]
    BY JoinIs
  <1> HIDE DEF j, T, U
  <1>2. ASSUME Blank(t) PROVE Lstrip(t) = <<>> /\ Lstrip(j) = Lstrip(u)
    <2>1. \A i \in 1..T : j[i] = Space
      BY <1>1, <1>2 DEF Blank, T
    <2>2. Lstrip(t) = <<>>
      BY <1>2, LstripAt
    <2>3. CASE Blank(u)
      <3>1. \A i \in 1..U : j[T + i] = Space
        BY <1>1, <2>3 DEF Blank, U
      <3>2. \A i \in 1..(T + U) : i \in 1..T \/ (i - T \in 1..U /\ T + (i - T) = i)
        BY <1>1
      <3>3. Blank(j)
        BY <1>1, <2>1, <3>1, <3>2 DEF Blank
      <3>4. Lstrip(j) = <<>>
        BY <1>1, <3>3, LstripAt
      <3>5. Lstrip(u) = <<>>
        BY <2>3, LstripAt
      <3> QED BY <2>2, <3>4, <3>5
    <2>4. CASE ~Blank(u)
      <3>1. PICK m \in 1..U : u[m] # Space /\ \A i \in 1..(m - 1) : u[i] = Space
        BY <2>4, SolidEnds DEF U
      <3>2. T + m \in 1..(T + U) /\ j[T + m] # Space
        BY <1>1, <3>1
      <3>3. \A i \in 1..((T + m) - 1) : i \in 1..T \/ (i - T \in 1..(m - 1) /\ T + (i - T) = i /\ i - T \in 1..U)
        BY <1>1
      <3>4. \A i \in 1..((T + m) - 1) : j[i] = Space
        BY <1>1, <2>1, <3>1, <3>3
      <3>5. Lstrip(j) = SubSeq(j, T + m, T + U)
        BY <1>1, <3>2, <3>4, LstripAt
      <3>6. Lstrip(u) = SubSeq(u, m, U)
        BY <3>1, LstripAt DEF U
      <3>7. SubSeq(j, T + m, T + U) = SubSeq(u, m, U)
        <4>1. /\ T + m \in T + 1..T + U /\ T + U \in T + 1..T + U
              /\ (T + m) - T = m /\ (T + U) - T = U
          BY <1>1
        <4> QED BY <4>1, SubSeqOfConcat2 DEF j, T, U
      <3> QED BY <2>2, <3>5, <3>6, <3>7
    <2> QED BY <2>3, <2>4
  <1>3. ASSUME ~Blank(t) PROVE Lstrip(j) = Lstrip(t) \o u /\ Lstrip(t) # <<>> /\ ~Blank(Lstrip(t))
    <2>1. PICK m \in 1..T : t[m] # Space /\ \A i \in 1..(m - 1) : t[i] = Space
      BY <1>3, SolidEnds DEF T
    <2>2. m \in 1..(T + U) /\ j[m] # Space /\ \A i \in 1..(m - 1) : j[i] = Space
      BY <1>1, <2>1
    <2>3. Lstrip(j) = SubSeq(j, m, T + U)
      BY <1>1, <2>2, LstripAt
    <2>4. Lstrip(t) = SubSeq(t, m, T)
      BY <2>1, LstripAt DEF T
    <2>5. /\ SubSeq(t, m, T) \in Seq(Tokens) /\ Len(SubSeq(t, m, T)) = T - m + 1
          /\ \A i \in 1..(T - m + 1) : SubSeq(t, m, T)[i] = t[m + i - 1]
      <3>1. m \in 1..(T + 1) /\ T \in 0..T /\ m <= T + 1
        BY <1>1
      <3> QED BY <3>1, PartIs DEF T
    <2>6. /\ SubSeq(j, m, T + U) \in Seq(Tokens) /\ Len(SubSeq(j, m, T + U)) = T + U - m + 1
          /\ \A i \in 1..(T + U - m + 1) : SubSeq(j, m, T + U)[i] = j[m + i - 1]
      <3>1. m \in 1..(T + U + 1) /\ T + U \in 0..(T + U) /\ m <= T + U + 1
        BY <1>1
      <3> QED BY <1>1, <3>1, PartIs
    <2> DEFINE a == SubSeq(t, m, T)
               b == SubSeq(j, m, T + U)
               A == T - m + 1
    <2>7. A \in Nat /\ A # 0 /\ a \in Seq(Tokens) /\ Len(a) = A
      BY <1>1, <2>5
    <2>8. /\ a \o u \in Seq(Tokens) /\ Len(a \o u) = A + U
          /\ \A i \in 1..A : (a \o u)[i] = a[i]
          /\ \A i \in 1..U : (a \o u)[A + i] = u[i]
      <3> HIDE DEF a, A
      <3> QED BY <2>7, JoinIs DEF U
    <2>9. b = a \o u
      <3>1. Len(b) = A + U
        BY <1>1, <2>6
      <3>2. \A i \in 1..(A + U) : b[i] = (a \o u)[i]
        <4> TAKE i \in 1..(A + U)
        <4>1. b[i] = j[m + i - 1]
          BY <1>1, <2>6
        <4>2. CASE i <= A
          <5>1. i \in 1..A /\ m + i - 1 \in 1..T
            BY <1>1, <2>7, <4>2
          <5>2. (a \o u)[i] = t[m + i - 1]
            BY <2>5, <2>8, <5>1
          <5> QED BY <1>1, <4>1, <5>1, <5>2
        <4>3. CASE i > A
          <5>1. i - A \in 1..U /\ A + (i - A) = i /\ m + i - 1 = T + (i - A)
            BY <1>1, <2>7, <4>3
          <5>2. (a \o u)[i] = u[i - A]
            BY <2>8, <5>1
          <5>3. j[T + (i - A)] = u[i - A]
            BY <1>1, <5>1
          <5>4. b[i] = j[T + (i - A)]
            BY <4>1, <5>1
          <5> QED BY <5>2, <5>3, <5>4
        <4>4. i <= A \/ i > A
          BY <1>1, <2>7
        <4> QED BY <4>2, <4>3, <4>4
      <3> HIDE DEF a, b
      <3> QED BY <2>6, <2>8, <3>1, <3>2, SameText DEF b
    <2>10. a # <<>> /\ ~Blank(a)
      <3>1. 1 \in 1..A /\ a[1] = t[m]
        BY <1>1, <2>5, <2>7
      <3> HIDE DEF a
      <3>2. a # <<>>
        BY <2>7
      <3> QED BY <2>1, <2>7, <3>1, <3>2 DEF Blank
    <2> QED BY <2>3, <2>4, <2>9, <2>10
  <1>4. Lstrip(t) \in Seq(Tokens)
    <2>1. CASE Blank(t)
      <3>1. <<>> \in Seq(Tokens)
        OBVIOUS
      <3> QED BY <1>2, <2>1, <3>1, LstripAt
    <2>2. CASE ~Blank(t)
      <3>1. PICK m \in 1..T : t[m] # Space /\ \A i \in 1..(m - 1) : t[i] = Space
        BY <2>2, SolidEnds DEF T
      <3>2. Lstrip(t) = SubSeq(t, m, T)
        BY <3>1, LstripAt DEF T
      <3>3. m \in 1..(T + 1) /\ T \in 0..T /\ m <= T + 1
        BY <1>1
      <3> QED BY <3>2, <3>3, PartIs DEF T
    <2> QED BY <2>1, <2>2
  <1> QED BY <1>2, <1>3, <1>4 DEF j

LEMMA RstripJoin ==
  ASSUME NEW t \in Seq(Tokens), NEW u \in Seq(Tokens), EndsSolid(t)
  PROVE  Rstrip(t \o u) = t \o Rstrip(u)
  <1> DEFINE j == t \o u
             r == Rstrip(u)
             w == SubSeq(u, Len(r) + 1, Len(u))
             m == Len(t) + Len(r)
  <1>1. /\ r \in Seq(Tokens) /\ EndsSolid(r) /\ w \in Seq(Tokens) /\ u = r \o w
    BY RstripIs
  <1>2. \A i \in (Len(r) + 1)..Len(u) : u[i] = Space
    <2>1. CASE Blank(u)
      BY <2>1, <1>1 DEF Blank
    <2>2. CASE ~Blank(u)
      <3>1. PICK n \in 1..Len(u) : u[n] # Space /\ \A i \in (n + 1)..Len(u) : u[i] = Space
        BY <2>2, SolidEnds
      <3>2. Len(u) \in Nat /\ n \in 0..Len(u) /\ n <= Len(u)
        BY LenIs
      <3>3. r = SubSeq(u, 1, n)
        BY <3>1, <3>2, RstripAt
      <3>4. Len(r) = n
        <4>1. 1 \in 1..(Len(u) + 1) /\ 1 <= n + 1 /\ n - 1 + 1 = n
          BY <3>2
        <4> QED BY <3>2, <3>3, <4>1, PartIs
      <3> QED BY <3>1, <3>4
    <2> QED BY <2>1, <2>2
  <1>3. /\ j \in Seq(Tokens) /\ Len(j) = Len(t) + Len(u) /\ Len(t) \in Nat /\ Len(u) \in Nat
        /\ \A i \in 1..Len(t) : j[i] = t[i]
        /\ \A i \in 1..Len(u) : j[Len(t) + i] = u[i]
    BY JoinIs
  <1>4. Len(r) \in Nat /\ Len(r) <= Len(u)
    BY RstripIs, LenIs
  <1> HIDE DEF j, r, w
  <1>5. m \in 0..Len(j) /\ m \in Nat
    BY <1>3, <1>4
  <1>6. m = 0 \/ j[m] # Space
    <2>1. CASE r # <<>>
      <3>1. Len(r) \in 1..Len(r) /\ Len(r) \in 1..Len(u)
        BY <1>1, <1>4, <2>1
      <3>2. u[Len(r)] = r[Len(r)]
        BY <1>1, <3>1, JoinIs
      <3>3. r[Len(r)] # Space
        BY <1>1, <2>1 DEF EndsSolid
      <3> QED BY <1>3, <3>1, <3>2, <3>3
    <2>2. CASE r = <<>> /\ t # <<>>
      <3>1. Len(r) = 0 /\ Len(t) \in 1..Len(t)
        BY <1>3, <2>2
      <3>2. t[Len(t)] # Space
        BY <2>2 DEF EndsSolid
      <3> QED BY <1>3, <3>1, <3>2
    <2>3. CASE r = <<>> /\ t = <<>>
      BY <2>3
    <2> QED BY <2>1, <2>2, <2>3
  <1>7. \A i \in (m + 1)..Len(j) : j[i] = Space
    <2> TAKE i \in (m + 1)..Len(j)
    <2>1. i - Len(t) \in (Len(r) + 1)..Len(u) /\ Len(t) + (i - Len(t)) = i /\ i - Len(t) \in 1..Len(u)
      BY <1>3, <1>4
    <2> QED BY <1>2, <1>3, <2>1
  <1>8. Rstrip(j) = SubSeq(j, 1, m)
    BY <1>3, <1>5, <1>6, <1>7, RstripAt
  <1>9. SubSeq(j, 1, m) = t \o r
    <2>1. /\ SubSeq(j, 1, m) \in Seq(Tokens) /\ Len(SubSeq(j, 1, m)) = m
          /\ \A i \in 1..m : SubSeq(j, 1, m)[i] = j[i]
      <3>1. 1 \in 1..(Len(j) + 1) /\ 1 <= m + 1 /\ m - 1 + 1 = m /\ \A i \in 1..m : 1 + i - 1 = i
        BY <1>3, <1>5
      <3>2. /\ SubSeq(j, 1, m) \in Seq(Tokens) /\ Len(SubSeq(j, 1, m)) = m - 1 + 1
            /\ \A i \in 1..(m - 1 + 1) : SubSeq(j, 1, m)[i] = j[1 + i - 1]
        <4> HIDE DEF m
        <4> QED BY <1>3, <1>5, <3>1, PartIs
      <3> QED BY <3>1, <3>2
    <2>2. /\ t \o r \in Seq(Tokens) /\ Len(t \o r) = m
          /\ \A i \in 1..Len(t) : (t \o r)[i] = t[i]
          /\ \A i \in 1..Len(r) : (t \o r)[Len(t) + i] = r[i]
      BY <1>1, JoinIs
    <2>3. \A i \in 1..m : j[i] = (t \o r)[i]
      <3> TAKE i \in 1..m
      <3>1. CASE i <= Len(t)
        <4>1. i \in 1..Len(t)
          BY <1>3, <1>5, <3>1
        <4> QED BY <1>3, <2>2, <4>1
      <3>2. CASE i > Len(t)
        <4>1. i - Len(t) \in 1..Len(r) /\ Len(t) + (i - Len(t)) = i /\ i - Len(t) \in 1..Len(u)
          BY <1>3, <1>4, <3>2
        <4>2. u[i - Len(t)] = r[i - Len(t)]
          BY <1>1, <4>1, JoinIs
        <4> QED BY <1>3, <2>2, <4>1, <4>2
      <3> QED BY <1>3, <3>1, <3>2
    <2>4. Len(SubSeq(j, 1, m)) = Len(t \o r)
      BY <2>1, <2>2
    <2>5. \A i \in 1..Len(SubSeq(j, 1, m)) : SubSeq(j, 1, m)[i] = (t \o r)[i]
      BY <2>1, <2>3
    <2> HIDE DEF m
    <2> QED BY <2>1, <2>2, <2>4, <2>5, SameText
  <1> QED BY <1>8, <1>9 DEF j, r

\* What has been said stays, stripped, the beginning of what is said later.
LEMMA StripGrows ==
  ASSUME NEW t \in Seq(Tokens), NEW u \in Seq(Tokens)
  PROVE  IsPrefix(Strip(t), Strip(t \o u))
  <1> DEFINE a == Lstrip(t)
             r == Rstrip(a)
             w == SubSeq(a, Len(r) + 1, Len(a))
  <1>1. t \o u \in Seq(Tokens) /\ a \in Seq(Tokens) /\ Lstrip(t \o u) \in Seq(Tokens)
    BY JoinIs, LstripIs
  <1>2. r \in Seq(Tokens) /\ EndsSolid(r) /\ w \in Seq(Tokens) /\ a = r \o w
    <2> HIDE DEF a
    <2> QED BY <1>1, RstripIs
  <1>3. CASE Blank(t)
    <2>1. Strip(t) = Rstrip(<<>>)
      BY <1>3, LstripIs DEF Strip
    <2>2. Rstrip(<<>>) = <<>> /\ <<>> \in Seq(Tokens)
      <3>1. <<>> \in Seq(Tokens) /\ Blank(<<>>)
        BY DEF Blank
      <3> QED BY <3>1, RstripIs
    <2>3. Strip(t \o u) \in Seq(Tokens)
      BY <1>1, RstripIs DEF Strip
    <2>4. Len(<<>>) <= Len(Strip(t \o u)) /\ \A k \in 1..Len(<<>>) : <<>>[k] = Strip(t \o u)[k]
      BY <2>3, LenIs
    <2> QED BY <2>1, <2>2, <2>3, <2>4, PrefixIs
  <1>4. CASE ~Blank(t)
    <2>1. Lstrip(t \o u) = a \o u
      BY <1>4, LstripIs
    <2> HIDE DEF a, r, w
    <2>2. w \o u \in Seq(Tokens) /\ a \o u = r \o (w \o u)
      BY <1>2, JoinIs, JoinAssociates
    <2>3. Rstrip(a \o u) = r \o Rstrip(w \o u)
      BY <1>2, <2>2, RstripJoin
    <2>4. Rstrip(w \o u) \in Seq(Tokens)
      BY <2>2, RstripIs
    <2>5. IsPrefix(r, r \o Rstrip(w \o u))
      BY <1>2, <2>4, JoinIs
    <2> QED BY <2>1, <2>3, <2>5 DEF Strip, a, r
  <1> QED BY <1>3, <1>4

-----------------------------------------------------------------------------
(***************************************************************************)
(* The gate on the start of a response.                                    *)
(***************************************************************************)
Tags == {"call", "result"}
Start(c) == <<"<", "tool_", c>>
Close(c) == <<"<", "/", "tool_", c>>

LEMMA TagsAre ==
  /\ ReservedStarts = { Start(c) : c \in Tags }
  /\ \A c \in Tags : /\ Start(c) \in Seq(Tokens) /\ Len(Start(c)) = 3
                     /\ Start(c)[1] = "<" /\ Start(c)[2] = "tool_" /\ Start(c)[3] = c
                     /\ Close(c) \in Seq(Tokens) /\ Len(Close(c)) = 4
                     /\ Close(c)[1] = "<" /\ Close(c)[2] = "/"
                     /\ Close(c)[3] = "tool_" /\ Close(c)[4] = c
                     /\ ReservedClose(Start(c)) = Close(c)
  <1>1. ReservedStarts = { Start(c) : c \in Tags }
    BY DEF ReservedStarts, Tags, Start
  <1>2. /\ "<" \in Tokens /\ "/" \in Tokens /\ "tool_" \in Tokens
        /\ \A c \in Tags : c \in Tokens
    BY DEF Tokens, Tags
  <1>3. ASSUME NEW c \in Tokens
        PROVE  /\ Start(c) \in Seq(Tokens) /\ Len(Start(c)) = 3
               /\ Start(c)[1] = "<" /\ Start(c)[2] = "tool_" /\ Start(c)[3] = c
               /\ Close(c) \in Seq(Tokens) /\ Len(Close(c)) = 4
               /\ Close(c)[1] = "<" /\ Close(c)[2] = "/"
               /\ Close(c)[3] = "tool_" /\ Close(c)[4] = c
    BY <1>2 DEF Start, Close
  <1>4. ASSUME NEW c \in Tokens PROVE ReservedClose(Start(c)) = Close(c)
    <2> DEFINE open == <<"<", "/">>
               rest == Tail(Start(c))
    <2>1. Start(c) \in Seq(Tokens) /\ Start(c) # <<>>
      BY <1>3, EmptySeq
    <2>2. rest \in Seq(Tokens) /\ Len(rest) = 2 /\ rest[1] = "tool_" /\ rest[2] = c
      BY <1>3, <2>1, HeadTailProperties
    <2>3. open \in Seq(Tokens) /\ Len(open) = 2 /\ open[1] = "<" /\ open[2] = "/"
      BY <1>2
    <2> HIDE DEF open, rest
    <2>4. /\ open \o rest \in Seq(Tokens) /\ Len(open \o rest) = 4
          /\ \A i \in 1..2 : (open \o rest)[i] = open[i] /\ (open \o rest)[2 + i] = rest[i]
      <3>1. /\ open \o rest \in Seq(Tokens) /\ Len(open \o rest) = Len(open) + Len(rest)
            /\ \A i \in 1..Len(open) : (open \o rest)[i] = open[i]
            /\ \A i \in 1..Len(rest) : (open \o rest)[Len(open) + i] = rest[i]
        BY <2>2, <2>3, JoinIs
      <3> QED BY <2>2, <2>3, <3>1
    <2>5. /\ (open \o rest)[1] = "<" /\ (open \o rest)[2] = "/"
          /\ (open \o rest)[3] = "tool_" /\ (open \o rest)[4] = c
      <3>1. 1 \in 1..2 /\ 2 \in 1..2 /\ 2 + 1 = 3 /\ 2 + 2 = 4
        OBVIOUS
      <3> QED BY <2>2, <2>3, <2>4, <3>1
    <2>6. open \o rest = Close(c)
      <3>1. \A i \in 1..4 : i = 1 \/ i = 2 \/ i = 3 \/ i = 4
        OBVIOUS
      <3>2. /\ Close(c) \in Seq(Tokens) /\ Len(Close(c)) = 4 /\ Close(c)[1] = "<"
            /\ Close(c)[2] = "/" /\ Close(c)[3] = "tool_" /\ Close(c)[4] = c
        BY <1>3
      <3>3. \A i \in 1..4 : (open \o rest)[i] = Close(c)[i]
        BY <2>5, <3>1, <3>2
      <3> QED BY <2>4, <3>2, <3>3, SameText
    <2> QED BY <2>6 DEF ReservedClose, open, rest
  <1> QED BY <1>1, <1>2, <1>3, <1>4

LEMMA NormalStays ==
  ASSUME NEW t \in Seq(Tokens), NEW u \in Seq(Tokens)
  PROVE  /\ Classify(t) \in {"reserved", "ambiguous", "normal"}
         /\ Classify(t) = "normal" => Classify(t \o u) = "normal"
         /\ Classify(<<>>) = "ambiguous"
  <1> DEFINE s == Lstrip(t)
             z == Lstrip(t \o u)
  <1>1. Classify(t) \in {"reserved", "ambiguous", "normal"}
    BY DEF Classify
  <1>2. ASSUME NEW x \in Seq(Tokens), Blank(x) PROVE Classify(x) = "ambiguous"
    <2>1. Lstrip(x) = <<>>
      BY <1>2, LstripIs
    <2>2. <<>> \in Seq(Tokens) /\ Len(<<>>) = 0
      OBVIOUS
    <2>3. "call" \in Tags
      BY DEF Tags
    <2>4. IsPrefix(<<>>, Start("call"))
      <3>1. Start("call") \in Seq(Tokens) /\ Len(Start("call")) = 3
        BY <2>3, TagsAre
      <3>2. Len(<<>>) <= Len(Start("call")) /\ \A k \in 1..Len(<<>>) : <<>>[k] = Start("call")[k]
        BY <2>2, <3>1
      <3> QED BY <2>2, <3>1, <3>2, PrefixIs
    <2>5. ASSUME NEW r \in ReservedStarts PROVE ~IsPrefix(r, <<>>)
      <3>1. r \in Seq(Tokens) /\ Len(r) = 3
        BY TagsAre
      <3>2. ~(Len(r) <= Len(<<>>))
        BY <2>2, <3>1
      <3> QED BY <2>2, <3>1, <3>2, PrefixIs
    <2> QED BY <2>1, <2>3, <2>4, <2>5, TagsAre DEF Classify, StartsWith
  <1>3. ASSUME Classify(t) = "normal" PROVE Classify(t \o u) = "normal"
    <2>1. ~Blank(t)
      BY <1>2, <1>3
    <2>2. z = s \o u /\ s \in Seq(Tokens)
      BY <2>1, LstripIs
    <2>3. \A r \in ReservedStarts : ~IsPrefix(r, s) /\ ~IsPrefix(s, r)
      BY <1>3 DEF Classify, StartsWith
    <2> HIDE DEF s, z
    <2>4. /\ z \in Seq(Tokens) /\ Len(z) = Len(s) + Len(u)
          /\ \A i \in 1..Len(s) : z[i] = s[i]
          /\ Len(s) \in Nat /\ Len(u) \in Nat
      BY <2>2, JoinIs
    <2>5. ASSUME NEW r \in ReservedStarts PROVE ~IsPrefix(r, z) /\ ~IsPrefix(z, r)
      <3>1. r \in Seq(Tokens) /\ Len(r) = 3
        BY TagsAre
      <3>2. ASSUME IsPrefix(r, z) PROVE FALSE
        <4>0. IsPrefix(r, z) <=> Len(r) <= Len(z) /\ \A k \in 1..Len(r) : r[k] = z[k]
          BY <2>4, <3>1, PrefixIs
        <4>1. 3 <= Len(z) /\ \A k \in 1..3 : r[k] = z[k]
          BY <3>1, <3>2, <4>0
        <4>2. CASE Len(s) >= 3
          <5>1. \A k \in 1..3 : k \in 1..Len(s)
            BY <2>4, <4>2
          <5>2. \A k \in 1..3 : r[k] = s[k]
            BY <2>4, <4>1, <5>1
          <5> QED BY <2>2, <2>3, <2>4, <3>1, <4>2, <5>2, PrefixIs
        <4>3. CASE Len(s) < 3
          <5>1. \A k \in 1..Len(s) : s[k] = r[k]
            BY <2>4, <4>1, <4>3
          <5> QED BY <2>2, <2>3, <2>4, <3>1, <4>3, <5>1, PrefixIs
        <4> QED BY <2>4, <4>2, <4>3
      <3>3. ASSUME IsPrefix(z, r) PROVE FALSE
        <4>0. IsPrefix(z, r) <=> Len(z) <= Len(r) /\ \A k \in 1..Len(z) : z[k] = r[k]
          BY <2>4, <3>1, PrefixIs
        <4>1. Len(z) <= 3 /\ \A k \in 1..Len(z) : z[k] = r[k]
          BY <3>1, <3>3, <4>0
        <4>2. Len(s) <= 3 /\ \A k \in 1..Len(s) : s[k] = r[k]
          BY <2>4, <4>1
        <4> QED BY <2>2, <2>3, <3>1, <4>2, PrefixIs
      <3> QED BY <3>2, <3>3
    <2> QED BY <2>5 DEF Classify, StartsWith, z
  <1>4. Classify(<<>>) = "ambiguous"
    <2>1. <<>> \in Seq(Tokens) /\ Blank(<<>>)
      BY DEF Blank
    <2> QED BY <1>2, <2>1
  <1> QED BY <1>1, <1>3, <1>4

\* normalize: what has been shown is the text so far, stripped, and what is
\* held the white space that may still turn out to be inside it.
Pending(sh, held, text) == IF sh = <<>> THEN Lstrip(held \o text) ELSE held \o text

Shows(sh, held, said, text) ==
  LET pending == Pending(sh, held, text)
      delta == Rstrip(pending)
      rest == SubSeq(pending, Len(delta) + 1, Len(pending))
  IN  /\ sh \o delta \in Seq(Tokens) /\ sh \o delta = Strip(said \o text)
      /\ rest \in Seq(Tokens) /\ (sh \o delta) \o rest = Lstrip(said \o text)

LEMMA NormalizeIs ==
  ASSUME NEW said \in Seq(Tokens), NEW text \in Seq(Tokens),
         NEW sh \in Seq(Tokens), NEW held \in Seq(Tokens),
         sh = Strip(said), sh \o held = Lstrip(said)
  PROVE  Shows(sh, held, said, text)
  <1> DEFINE pending == Pending(sh, held, text)
             delta == Rstrip(pending)
             rest == SubSeq(pending, Len(delta) + 1, Len(pending))
  <1> HIDE DEF pending
  <1>1. /\ said \o text \in Seq(Tokens) /\ held \o text \in Seq(Tokens)
        /\ Lstrip(said) \in Seq(Tokens)
    BY JoinIs, LstripIs
  <1>2. pending \in Seq(Tokens)
    <2>1. Lstrip(held \o text) \in Seq(Tokens)
      BY <1>1, LstripIs
    <2> QED BY <1>1, <2>1 DEF pending, Pending
  <1>3. /\ delta \in Seq(Tokens) /\ rest \in Seq(Tokens) /\ pending = delta \o rest
    BY <1>2, RstripIs
  <1> HIDE DEF delta, rest
  <1>4. EndsSolid(sh) /\ (Blank(Lstrip(said)) <=> sh = <<>>)
    BY <1>1, RstripIs DEF Strip
  <1>5. sh \o pending = Lstrip(said \o text)
    <2>1. CASE Blank(said)
      <3>1. Lstrip(said) = <<>> /\ Lstrip(said \o text) = Lstrip(text)
        BY <2>1, LstripIs
      <3>2. sh = <<>> /\ held = <<>>
        <4>1. Blank(<<>>)
          BY DEF Blank
        <4>2. sh = <<>>
          BY <1>4, <3>1, <4>1
        <4>3. sh \o held = held
          BY <4>2, JoinIs
        <4> QED BY <3>1, <4>2, <4>3
      <3>3. held \o text = text
        BY <3>2, JoinIs
      <3>4. <<>> \o pending = pending
        BY <1>2, JoinIs
      <3>5. pending = Lstrip(text)
        BY <3>2, <3>3 DEF pending, Pending
      <3> QED BY <3>1, <3>2, <3>4, <3>5
    <2>2. CASE ~Blank(said)
      <3>1. Lstrip(said \o text) = Lstrip(said) \o text /\ ~Blank(Lstrip(said))
        BY <2>2, LstripIs
      <3>2. pending = held \o text
        BY <1>4, <3>1 DEF pending, Pending
      <3>3. (sh \o held) \o text = sh \o (held \o text)
        BY JoinAssociates
      <3> QED BY <3>1, <3>2, <3>3
    <2> QED BY <2>1, <2>2
  <1>6. sh \o delta = Strip(said \o text)
    <2>1. Rstrip(sh \o pending) = sh \o Rstrip(pending)
      BY <1>2, <1>4, RstripJoin
    <2> QED BY <1>5, <2>1 DEF Strip, delta
  <1>7. (sh \o delta) \o rest = sh \o (delta \o rest)
    BY <1>3, JoinAssociates
  <1>8. sh \o delta \in Seq(Tokens)
    BY <1>3, JoinIs
  <1> QED BY <1>3, <1>5, <1>6, <1>7, <1>8 DEF Shows, pending, delta, rest

-----------------------------------------------------------------------------
(***************************************************************************)
(* Visible, position by position.                                          *)
(***************************************************************************)
Opens(t, i, c) == i + 2 <= Len(t) /\ t[i] = "<" /\ t[i + 1] = "tool_" /\ t[i + 2] = c
Closes(t, i, c) ==
  i + 3 <= Len(t) /\ t[i] = "<" /\ t[i + 1] = "/" /\ t[i + 2] = "tool_" /\ t[i + 3] = c
EndsInTag(t, i) == i + 1 = Len(t) /\ t[i] = "<" /\ t[i + 1] = "tool_"

\* v[i]: what the text says from position i, if no envelope is open there.
Reads(t, v) ==
  /\ v \in [1..(Len(t) + 1) -> Seq(Tokens)] /\ Visible(t) = v[1] /\ v[Len(t) + 1] = <<>>
  /\ \A i \in 1..Len(t) :
       /\ EndsInTag(t, i) => v[i] = <<>>
       /\ ~EndsInTag(t, i) /\ (\A c \in Tags : ~Opens(t, i, c)) => v[i] = <<t[i]>> \o v[i + 1]
       /\ \A c \in Tags : Opens(t, i, c) =>
            /\ (\A j \in i..Len(t) : ~Closes(t, j, c)) => v[i] = <<>>
            /\ \A j \in i..Len(t) : Closes(t, j, c) /\ (\A k \in i..(j - 1) : ~Closes(t, k, c))
                                      => j + 4 \in 1..(Len(t) + 1) /\ v[i] = v[j + 4]

LEMMA BeginsAt ==
  ASSUME NEW t \in Seq(Tokens), NEW s \in Seq(Tokens), NEW i \in 1..Len(t)
  PROVE  /\ StartsWith(SubSeq(t, i, Len(t)), s)
              <=> i + Len(s) - 1 <= Len(t) /\ \A k \in 1..Len(s) : t[i + k - 1] = s[k]
         /\ StartsWith(s, SubSeq(t, i, Len(t)))
              <=> Len(t) <= i + Len(s) - 1 /\ \A k \in 1..(Len(t) - i + 1) : t[i + k - 1] = s[k]
  <1> DEFINE a == SubSeq(t, i, Len(t))
  <1>1. Len(t) \in Nat /\ i \in Nat /\ 1 <= i /\ i <= Len(t) /\ Len(s) \in Nat
    BY LenIs
  <1>2. /\ a \in Seq(Tokens) /\ Len(a) = Len(t) - i + 1
        /\ \A k \in 1..(Len(t) - i + 1) : a[k] = t[i + k - 1]
    <2>1. i \in 1..(Len(t) + 1) /\ Len(t) \in 0..Len(t) /\ i <= Len(t) + 1
      BY <1>1
    <2> QED BY <2>1, PartIs
  <1> HIDE DEF a
  <1>3. IsPrefix(s, a) <=> Len(s) <= Len(a) /\ \A k \in 1..Len(s) : s[k] = a[k]
    BY <1>2, PrefixIs
  <1>4. IsPrefix(a, s) <=> Len(a) <= Len(s) /\ \A k \in 1..Len(a) : a[k] = s[k]
    BY <1>2, PrefixIs
  <1>5. Len(s) <= Len(a) <=> i + Len(s) - 1 <= Len(t)
    BY <1>1, <1>2
  <1>6. Len(a) <= Len(s) <=> Len(t) <= i + Len(s) - 1
    BY <1>1, <1>2
  <1>7. ASSUME Len(s) <= Len(a)
        PROVE  (\A k \in 1..Len(s) : s[k] = a[k]) <=> \A k \in 1..Len(s) : t[i + k - 1] = s[k]
    <2>1. \A k \in 1..Len(s) : k \in 1..(Len(t) - i + 1)
      BY <1>1, <1>2, <1>7
    <2>2. \A k \in 1..Len(s) : a[k] = t[i + k - 1]
      BY <1>2, <2>1
    <2> QED BY <2>2
  <1>8. (\A k \in 1..Len(a) : a[k] = s[k]) <=> \A k \in 1..(Len(t) - i + 1) : t[i + k - 1] = s[k]
    BY <1>2
  <1> QED BY <1>3, <1>4, <1>5, <1>6, <1>7, <1>8 DEF StartsWith, a

LEMMA MarkupAt ==
  ASSUME NEW t \in Seq(Tokens), NEW i \in 1..Len(t), NEW c \in Tags
  PROVE  /\ StartsWith(SubSeq(t, i, Len(t)), Start(c)) <=> Opens(t, i, c)
         /\ StartsWith(SubSeq(t, i, Len(t)), Close(c)) <=> Closes(t, i, c)
         /\ StartsWith(SubSeq(t, i, Len(t)), <<"<", "tool_">>)
              <=> i + 1 <= Len(t) /\ t[i] = "<" /\ t[i + 1] = "tool_"
         /\ StartsWith(Start(c), SubSeq(t, i, Len(t))) => Len(t) <= i + 2
         /\ EndsInTag(t, i) => StartsWith(Start(c), SubSeq(t, i, Len(t)))
         /\ StartsWith(Start(c), SubSeq(t, i, Len(t))) /\ Len(t) = i + 2 => Opens(t, i, c)
  <1>1. Len(t) \in Nat /\ i \in Nat /\ 1 <= i /\ i <= Len(t)
    BY LenIs
  <1>2. /\ Start(c) \in Seq(Tokens) /\ Len(Start(c)) = 3
        /\ Start(c)[1] = "<" /\ Start(c)[2] = "tool_" /\ Start(c)[3] = c
        /\ Close(c) \in Seq(Tokens) /\ Len(Close(c)) = 4
        /\ Close(c)[1] = "<" /\ Close(c)[2] = "/" /\ Close(c)[3] = "tool_" /\ Close(c)[4] = c
    BY TagsAre
  <1> DEFINE cut == <<"<", "tool_">>
  <1>3. cut \in Seq(Tokens) /\ Len(cut) = 2 /\ cut[1] = "<" /\ cut[2] = "tool_"
    BY DEF Tokens
  <1>4. /\ i + 1 - 1 = i /\ i + 2 - 1 = i + 1 /\ i + 3 - 1 = i + 2 /\ i + 4 - 1 = i + 3
        /\ \A k \in 1..2 : k = 1 \/ k = 2
        /\ \A k \in 1..3 : k = 1 \/ k = 2 \/ k = 3
        /\ \A k \in 1..4 : k = 1 \/ k = 2 \/ k = 3 \/ k = 4
        /\ 1 \in 1..2 /\ 2 \in 1..2 /\ 1 \in 1..3 /\ 2 \in 1..3 /\ 3 \in 1..3
        /\ 1 \in 1..4 /\ 2 \in 1..4 /\ 3 \in 1..4 /\ 4 \in 1..4
    BY <1>1
  <1> HIDE DEF cut
  <1>5. StartsWith(SubSeq(t, i, Len(t)), Start(c)) <=> Opens(t, i, c)
    <2>1. StartsWith(SubSeq(t, i, Len(t)), Start(c))
            <=> i + 3 - 1 <= Len(t) /\ \A k \in 1..3 : t[i + k - 1] = Start(c)[k]
      <3> DEFINE s == Start(c)
      <3>1. s \in Seq(Tokens) /\ Len(s) = 3
        BY <1>2
      <3> HIDE DEF s
      <3>2. StartsWith(SubSeq(t, i, Len(t)), s)
              <=> i + Len(s) - 1 <= Len(t) /\ \A k \in 1..Len(s) : t[i + k - 1] = s[k]
        BY <3>1, BeginsAt
      <3> QED BY <3>1, <3>2 DEF s
    <2>2. (\A k \in 1..3 : t[i + k - 1] = Start(c)[k])
            <=> t[i] = "<" /\ t[i + 1] = "tool_" /\ t[i + 2] = c
      BY <1>2, <1>4
    <2> QED BY <1>4, <2>1, <2>2 DEF Opens
  <1>6. StartsWith(SubSeq(t, i, Len(t)), Close(c)) <=> Closes(t, i, c)
    <2>1. StartsWith(SubSeq(t, i, Len(t)), Close(c))
            <=> i + 4 - 1 <= Len(t) /\ \A k \in 1..4 : t[i + k - 1] = Close(c)[k]
      <3> DEFINE s == Close(c)
      <3>1. s \in Seq(Tokens) /\ Len(s) = 4
        BY <1>2
      <3> HIDE DEF s
      <3>2. StartsWith(SubSeq(t, i, Len(t)), s)
              <=> i + Len(s) - 1 <= Len(t) /\ \A k \in 1..Len(s) : t[i + k - 1] = s[k]
        BY <3>1, BeginsAt
      <3> QED BY <3>1, <3>2 DEF s
    <2>2. (\A k \in 1..4 : t[i + k - 1] = Close(c)[k])
            <=> t[i] = "<" /\ t[i + 1] = "/" /\ t[i + 2] = "tool_" /\ t[i + 3] = c
      BY <1>2, <1>4
    <2> QED BY <1>4, <2>1, <2>2 DEF Closes
  <1>7. StartsWith(SubSeq(t, i, Len(t)), cut)
          <=> i + 1 <= Len(t) /\ t[i] = "<" /\ t[i + 1] = "tool_"
    <2>1. StartsWith(SubSeq(t, i, Len(t)), cut)
            <=> i + 2 - 1 <= Len(t) /\ \A k \in 1..2 : t[i + k - 1] = cut[k]
      <3>1. StartsWith(SubSeq(t, i, Len(t)), cut)
              <=> i + Len(cut) - 1 <= Len(t) /\ \A k \in 1..Len(cut) : t[i + k - 1] = cut[k]
        BY <1>3, BeginsAt
      <3> QED BY <1>3, <3>1
    <2>2. (\A k \in 1..2 : t[i + k - 1] = cut[k]) <=> t[i] = "<" /\ t[i + 1] = "tool_"
      BY <1>3, <1>4
    <2> QED BY <1>4, <2>1, <2>2
  <1>8. StartsWith(Start(c), SubSeq(t, i, Len(t)))
          <=> Len(t) <= i + 3 - 1 /\ \A k \in 1..(Len(t) - i + 1) : t[i + k - 1] = Start(c)[k]
    BY <1>2, BeginsAt
  <1>9. ASSUME EndsInTag(t, i) PROVE StartsWith(Start(c), SubSeq(t, i, Len(t)))
    <2>1. i + 1 = Len(t) /\ t[i] = "<" /\ t[i + 1] = "tool_" /\ Len(t) - i + 1 = 2
      BY <1>1, <1>9 DEF EndsInTag
    <2>2. \A k \in 1..2 : t[i + k - 1] = Start(c)[k]
      <3>1. t[i + 1 - 1] = Start(c)[1] /\ t[i + 2 - 1] = Start(c)[2]
        BY <1>2, <1>4, <2>1
      <3> QED BY <1>4, <3>1
    <2> QED BY <1>1, <1>8, <2>1, <2>2
  <1>10. ASSUME StartsWith(Start(c), SubSeq(t, i, Len(t))), Len(t) = i + 2 PROVE Opens(t, i, c)
    <2>1. Len(t) - i + 1 = 3
      BY <1>1, <1>10
    <2>2. \A k \in 1..3 : t[i + k - 1] = Start(c)[k]
      BY <1>8, <1>10, <2>1
    <2> QED BY <1>1, <1>2, <1>4, <1>10, <2>2 DEF Opens
  <1>11. StartsWith(Start(c), SubSeq(t, i, Len(t))) => Len(t) <= i + 2
    BY <1>4, <1>8
  <1> QED BY <1>5, <1>6, <1>7, <1>9, <1>10, <1>11 DEF cut

LEMMA VisibleRuns ==
  ASSUME NEW t \in Seq(Tokens)
  PROVE  \E v : Reads(t, v)
  <1> DEFINE N == Len(t)
             V == Seq(Tokens)
             after(i) == SubSeq(t, i, Len(t))
             opened(i) == { s \in ReservedStarts : StartsWith(after(i), s) }
             closed(i) == { j \in i..Len(t) :
                              \E s \in opened(i) : StartsWith(after(j), ReservedClose(s)) }
             cut(i) == /\ StartsWith(after(i), <<"<", "tool_">>)
                       /\ \E s \in ReservedStarts : StartsWith(s, after(i))
             next(i) == Min(closed(i)) + 4
             body(g, i) == IF i > Len(t) \/ cut(i) THEN <<>>
                           ELSE IF opened(i) = {} THEN <<t[i]>> \o g[i + 1]
                           ELSE IF closed(i) = {} THEN <<>>
                           ELSE g[next(i)]
             D(g) == g = [i \in 1..(Len(t) + 1) |-> body(g, i)]
  <1>1. Visible(t) = (CHOOSE g : D(g))[1]
    BY DEF Visible
  <1>2. N \in Nat /\ \A i \in 1..N : t[i] \in Tokens
    BY LenIs
  <1>3. ASSUME NEW i \in 1..N, NEW c \in Tags
        PROVE  Start(c) \in opened(i) <=> Opens(t, i, c)
    <2>1. Start(c) \in ReservedStarts
      BY TagsAre
    <2> QED BY <2>1, MarkupAt
  <1>4. \A i : \A s \in opened(i) : \E c \in Tags : s = Start(c)
    BY TagsAre
  <1>5. ASSUME NEW i \in 1..N, NEW j \in i..N
        PROVE  j \in closed(i) <=> \E c \in Tags : Opens(t, i, c) /\ Closes(t, j, c)
    <2>1. j \in 1..N
      BY <1>2
    <2>2. \A c \in Tags : /\ ReservedClose(Start(c)) = Close(c)
                          /\ StartsWith(after(j), Close(c)) <=> Closes(t, j, c)
      BY <2>1, TagsAre, MarkupAt
    <2>3. ASSUME j \in closed(i) PROVE \E c \in Tags : Opens(t, i, c) /\ Closes(t, j, c)
      <3>1. PICK s \in opened(i) : StartsWith(after(j), ReservedClose(s))
        BY <2>3
      <3>2. PICK c \in Tags : s = Start(c)
        BY <1>4
      <3>3. Closes(t, j, c) /\ Opens(t, i, c)
        BY <1>3, <2>2, <3>1, <3>2
      <3> QED BY <3>3
    <2>4. ASSUME NEW c \in Tags, Opens(t, i, c), Closes(t, j, c) PROVE j \in closed(i)
      BY <1>3, <2>2, <2>4
    <2> QED BY <2>3, <2>4
  <1>6. ASSUME NEW i \in 1..N, cut(i)
        PROVE  EndsInTag(t, i) \/ \E c \in Tags : Opens(t, i, c) /\ Len(t) = i + 2
    <2>1. PICK c \in Tags : StartsWith(Start(c), after(i))
      BY <1>6, TagsAre
    <2>2. /\ i + 1 <= Len(t) /\ t[i] = "<" /\ t[i + 1] = "tool_" /\ Len(t) <= i + 2
          /\ Len(t) = i + 2 => Opens(t, i, c)
      BY <1>6, <2>1, MarkupAt
    <2> QED BY <1>2, <2>2 DEF EndsInTag
  <1>7. ASSUME NEW i \in 1..N, EndsInTag(t, i) PROVE cut(i)
    <2>1. "call" \in Tags /\ Start("call") \in ReservedStarts
      BY TagsAre DEF Tags
    <2>2. StartsWith(Start("call"), after(i))
      BY <1>7, <2>1, MarkupAt
    <2>3. i + 1 <= Len(t) /\ t[i] = "<" /\ t[i + 1] = "tool_"
      BY <1>2, <1>7 DEF EndsInTag
    <2> QED BY <2>1, <2>2, <2>3, MarkupAt
  <1>8. ASSUME NEW i \in 1..N, closed(i) # {}
        PROVE  /\ Min(closed(i)) \in closed(i) /\ \A j \in closed(i) : Min(closed(i)) <= j
               /\ Min(closed(i)) \in i..N /\ next(i) \in (i + 1)..(N + 1)
    <2> DEFINE m == Min(closed(i))
    <2>1. closed(i) \in SUBSET Nat
      BY <1>2
    <2>2. m \in closed(i) /\ \A j \in closed(i) : m <= j
      <3> HIDE DEF closed
      <3> QED BY <1>8, <2>1, MinIs
    <2>3. m \in i..N
      BY <2>2
    <2> HIDE DEF closed, m
    <2>4. \E c \in Tags : Closes(t, m, c)
      BY <1>5, <2>2, <2>3
    <2>5. m + 3 <= N
      BY <2>4 DEF Closes
    <2> QED BY <1>2, <2>2, <2>3, <2>5 DEF m
  <1> HIDE DEF N, after, opened, closed, cut, next
  <1>9. \A i \in 1..(N + 1) : i \in Nat /\ (i > N <=> i = N + 1) /\ (i # N + 1 => i \in 1..N)
    BY <1>2
  <1>10. \A g \in [1..(N + 1) -> V] : \A i \in 1..(N + 1) : body(g, i) \in V
    <2> TAKE g \in [1..(N + 1) -> V]
    <2> TAKE i \in 1..(N + 1)
    <2>1. <<>> \in V
      OBVIOUS
    <2>2. CASE i = N + 1
      BY <1>9, <2>1, <2>2 DEF N
    <2>3. CASE i # N + 1
      <3>1. i \in 1..N /\ i + 1 \in 1..(N + 1)
        BY <1>2, <1>9, <2>3
      <3>2. g[i + 1] \in V /\ t[i] \in Tokens /\ <<t[i]>> \in V
        BY <1>2, <3>1
      <3>3. <<t[i]>> \o g[i + 1] \in V
        BY <3>2
      <3>4. closed(i) # {} => g[next(i)] \in V
        <4>1. closed(i) # {} => next(i) \in 1..(N + 1)
          BY <1>2, <1>8, <3>1
        <4> QED BY <4>1
      <3> QED BY <2>1, <3>3, <3>4
    <2> QED BY <2>2, <2>3
  <1>11. \A g, h : \A i \in 1..(N + 1) :
           (\A k \in 1..(N + 1) : k > i => g[k] = h[k]) => body(g, i) = body(h, i)
    <2> TAKE g, h
    <2> TAKE i \in 1..(N + 1)
    <2> HAVE \A k \in 1..(N + 1) : k > i => g[k] = h[k]
    <2>1. CASE i = N + 1
      BY <1>9, <2>1 DEF N
    <2>2. CASE i # N + 1
      <3>1. i \in 1..N /\ i + 1 \in 1..(N + 1) /\ i + 1 > i
        BY <1>2, <1>9, <2>2
      <3>2. g[i + 1] = h[i + 1]
        BY <3>1
      <3>3. closed(i) # {} => g[next(i)] = h[next(i)]
        <4>1. closed(i) # {} => next(i) \in 1..(N + 1) /\ next(i) > i
          BY <1>2, <1>8, <3>1
        <4> QED BY <4>1
      <3> QED BY <3>2, <3>3
    <2> QED BY <2>1, <2>2
  <1> HIDE DEF body
  <1> DEFINE From(g, m) == /\ g \in [1..(N + 1) -> V]
                           /\ \A i \in 1..(N + 1) : i + m > N + 1 => g[i] = body(g, i)
             S == { m \in Nat : m <= N + 1 => \E g : From(g, m) }
  <1>12. 0 \in S
    <2> DEFINE g == [i \in 1..(N + 1) |-> <<>>]
    <2>1. g \in [1..(N + 1) -> V]
      OBVIOUS
    <2>2. \A i \in 1..(N + 1) : ~(i + 0 > N + 1)
      BY <1>2
    <2> HIDE DEF g
    <2>3. From(g, 0)
      BY <2>1, <2>2
    <2> QED BY <2>3
  <1>13. ASSUME NEW m \in Nat, m \in S PROVE m + 1 \in S
    <2> SUFFICES ASSUME m + 1 <= N + 1 PROVE \E g : From(g, m + 1)
      OBVIOUS
    <2>1. PICK g : From(g, m)
      BY <1>2, <1>13
    <2> DEFINE p == N + 1 - m
               b == body(g, p)
               h == [g EXCEPT ![p] = b]
    <2>2. p \in 1..(N + 1) /\ g \in [1..(N + 1) -> V] /\ b \in V
      <3>1. p \in 1..(N + 1)
        BY <1>2
      <3> QED BY <2>1, <3>1, <1>10
    <2> HIDE DEF p, b
    <2>3. /\ h \in [1..(N + 1) -> V] /\ h[p] = b
          /\ \A k \in 1..(N + 1) : k # p => h[k] = g[k]
      BY <2>2
    <2> HIDE DEF h
    <2>4. ASSUME NEW i \in 1..(N + 1), i + (m + 1) > N + 1 PROVE h[i] = body(h, i)
      <3>1. i >= p /\ p \in Nat
        BY <1>2, <2>4 DEF p
      <3>2. \A k \in 1..(N + 1) : k > i => g[k] = h[k]
        BY <1>2, <2>2, <2>3, <3>1
      <3>3. body(g, i) = body(h, i)
        BY <3>2, <1>11
      <3>4. CASE i = p
        BY <2>3, <3>3, <3>4 DEF b
      <3>5. CASE i # p
        <4>1. i + m > N + 1
          BY <1>2, <3>1, <3>5 DEF p
        <4>2. g[i] = body(g, i)
          BY <2>1, <4>1
        <4> QED BY <2>3, <3>3, <3>5, <4>2
      <3> QED BY <3>4, <3>5
    <2>5. From(h, m + 1)
      BY <2>3, <2>4
    <2> QED BY <2>5
  <1> HIDE DEF S
  <1>14. N + 1 \in S
    <2>1. Nat \subseteq S
      BY <1>12, <1>13, CountingUp
    <2> QED BY <1>2, <2>1
  <1>15. PICK g : From(g, N + 1)
    BY <1>2, <1>14 DEF S
  <1>16. D(g)
    <2>1. \A i \in 1..(N + 1) : i + (N + 1) > N + 1
      BY <1>2
    <2>2. \A i \in 1..(N + 1) : g[i] = body(g, i)
      BY <1>15, <2>1
    <2>3. g = [i \in 1..(N + 1) |-> g[i]]
      BY <1>15
    <2> QED BY <2>2, <2>3 DEF N
  <1> DEFINE v == CHOOSE x : D(x)
  <1>17. D(v)
    BY <1>16
  <1> HIDE DEF v
  <1>18. v = [i \in 1..(N + 1) |-> v[i]] /\ \A i \in 1..(N + 1) : v[i] = body(v, i)
    <2>1. v = [i \in 1..(N + 1) |-> body(v, i)]
      BY <1>17 DEF N
    <2>2. \A i \in 1..(N + 1) : v[i] = body(v, i)
      BY <2>1
    <2> QED BY <2>1, <2>2
  <1> HIDE DEF D
  <1>19. v \in [1..(N + 1) -> V]
    <2> DEFINE P == { m \in Nat : \A i \in 1..(N + 1) : i + m > N + 1 => v[i] = g[i] }
    <2>1. 0 \in P
      BY <1>2
    <2>2. ASSUME NEW m \in Nat, m \in P PROVE m + 1 \in P
      <3> SUFFICES ASSUME NEW i \in 1..(N + 1), i + (m + 1) > N + 1 PROVE v[i] = g[i]
        OBVIOUS
      <3>1. \A k \in 1..(N + 1) : k > i => k + m > N + 1
        BY <1>2
      <3>2. \A k \in 1..(N + 1) : k > i => v[k] = g[k]
        BY <2>2, <3>1
      <3>3. body(v, i) = body(g, i)
        BY <3>2, <1>11
      <3>4. i + (N + 1) > N + 1
        BY <1>2
      <3> QED BY <1>15, <1>18, <3>3, <3>4
    <2> HIDE DEF P
    <2>3. N + 1 \in P
      <3>1. Nat \subseteq P
        BY <2>1, <2>2, CountingUp
      <3> QED BY <1>2, <3>1
    <2>4. \A i \in 1..(N + 1) : v[i] = g[i]
      <3>1. \A i \in 1..(N + 1) : i + (N + 1) > N + 1
        BY <1>2
      <3> QED BY <2>3, <3>1 DEF P
    <2>5. \A i \in 1..(N + 1) : v[i] \in V
      BY <1>15, <2>4
    <2> QED BY <1>18, <2>5
  <1>20. v[N + 1] = <<>>
    <2>1. N + 1 \in 1..(N + 1) /\ N + 1 > N
      BY <1>2
    <2> QED BY <1>18, <2>1 DEF body, N
  <1>21. ASSUME NEW i \in 1..N
         PROVE  /\ EndsInTag(t, i) => v[i] = <<>>
                /\ ~EndsInTag(t, i) /\ (\A c \in Tags : ~Opens(t, i, c)) => v[i] = <<t[i]>> \o v[i + 1]
                /\ \A c \in Tags : Opens(t, i, c) =>
                     /\ (\A j \in i..N : ~Closes(t, j, c)) => v[i] = <<>>
                     /\ \A j \in i..N : Closes(t, j, c) /\ (\A k \in i..(j - 1) : ~Closes(t, k, c))
                                          => j + 4 \in 1..(N + 1) /\ v[i] = v[j + 4]
    <2>1. i \in 1..(N + 1) /\ ~(i > Len(t))
      BY <1>2 DEF N
    <2>2. v[i] = IF cut(i) THEN <<>>
                 ELSE IF opened(i) = {} THEN <<t[i]>> \o v[i + 1]
                 ELSE IF closed(i) = {} THEN <<>>
                 ELSE v[next(i)]
      BY <1>18, <2>1 DEF body
    <2>3. EndsInTag(t, i) => v[i] = <<>>
      BY <1>7, <2>2
    <2>4. ASSUME ~EndsInTag(t, i), \A c \in Tags : ~Opens(t, i, c) PROVE v[i] = <<t[i]>> \o v[i + 1]
      <3>1. ~cut(i)
        BY <1>6, <2>4
      <3>2. opened(i) = {}
        BY <1>3, <1>4, <2>4
      <3> QED BY <2>2, <3>1, <3>2
    <2>5. ASSUME NEW c \in Tags, Opens(t, i, c)
          PROVE  /\ Start(c) \in opened(i) /\ opened(i) # {}
                 /\ \A d \in Tags : Opens(t, i, d) => d = c
                 /\ \A j \in i..N : j \in closed(i) <=> Closes(t, j, c)
                 /\ closed(i) \in SUBSET (i..N)
      <3>1. Start(c) \in opened(i)
        BY <1>3, <2>5
      <3>2. \A d \in Tags : Opens(t, i, d) => d = c
        BY <2>5 DEF Opens
      <3>3. \A j \in i..N : j \in closed(i) <=> Closes(t, j, c)
        BY <1>5, <2>5, <3>2
      <3>4. closed(i) \in SUBSET (i..N)
        BY DEF closed, N
      <3> QED BY <3>1, <3>2, <3>3, <3>4
    <2>6. ASSUME NEW c \in Tags, Opens(t, i, c), \A j \in i..N : ~Closes(t, j, c) PROVE v[i] = <<>>
      <3>1. closed(i) = {} /\ opened(i) # {}
        BY <2>5, <2>6
      <3> QED BY <2>2, <3>1
    <2>7. ASSUME NEW c \in Tags, Opens(t, i, c), NEW j \in i..N, Closes(t, j, c),
                 \A k \in i..(j - 1) : ~Closes(t, k, c)
          PROVE  j + 4 \in 1..(N + 1) /\ v[i] = v[j + 4]
      <3>1. j \in closed(i) /\ opened(i) # {} /\ closed(i) # {}
        BY <2>5, <2>7
      <3>2. j + 3 <= N /\ j \in Nat /\ i \in Nat /\ i <= j
        BY <1>2, <2>7 DEF Closes, N
      <3>3. ~cut(i)
        <4> SUFFICES ASSUME cut(i) PROVE FALSE
          OBVIOUS
        <4>1. EndsInTag(t, i) \/ Len(t) = i + 2
          BY <1>6
        <4>2. N = i + 1 \/ N = i + 2
          BY <4>1 DEF EndsInTag, N
        <4> QED BY <1>2, <3>2, <4>2
      <3>4. Min(closed(i)) = j
        <4> DEFINE m == Min(closed(i))
        <4>1. m \in closed(i) /\ m <= j /\ m \in i..N
          BY <1>8, <3>1
        <4> HIDE DEF m
        <4>2. Closes(t, m, c)
          BY <2>5, <2>7, <4>1
        <4>3. m \notin i..(j - 1)
          BY <2>7, <4>2
        <4>4. m = j
          BY <3>2, <4>1, <4>3
        <4> QED BY <4>4 DEF m
      <3>5. v[i] = v[next(i)]
        BY <2>2, <3>1, <3>3
      <3> QED BY <1>2, <3>2, <3>4, <3>5 DEF next
    <2> QED BY <2>3, <2>4, <2>6, <2>7
  <1>22. Visible(t) = v[1]
    BY <1>1 DEF v
  <1>23. Reads(t, v)
    BY <1>19, <1>20, <1>21, <1>22 DEF Reads, N
  <1> QED BY <1>23

-----------------------------------------------------------------------------
(***************************************************************************)
(* LateToolProtocolFilter, token by token.                                 *)
(***************************************************************************)
Filters == [pending : Seq(Tokens), closing : Seq(Tokens), closing_pending : Seq(Tokens),
            out : Seq(Tokens)]

\* One of the words begins with the last n tokens.
Matches(text, words, n) == \E w \in words : StartsWith(w, Suffix(text, n))

LEMMA TextSuffixIs ==
  ASSUME NEW text \in Seq(Tokens), NEW n \in 0..Len(text)
  PROVE  /\ Suffix(text, n) \in Seq(Tokens) /\ Len(Suffix(text, n)) = n
         /\ \A k \in 1..n : Suffix(text, n)[k] = text[Len(text) - n + k]
         /\ Suffix(text, Len(text)) = text /\ Suffix(text, 0) = <<>>
  <1> DEFINE L == Len(text)
  <1>1. L \in Nat /\ n \in Nat /\ n <= L
    BY LenIs
  <1>2. /\ L - n + 1 \in 1..(L + 1) /\ L \in 0..L /\ L - n + 1 <= L + 1
        /\ L - (L - n + 1) + 1 = n
        /\ \A k \in 1..n : (L - n + 1) + k - 1 = L - n + k
    BY <1>1
  <1>3. /\ SubSeq(text, L - n + 1, L) \in Seq(Tokens)
        /\ Len(SubSeq(text, L - n + 1, L)) = L - (L - n + 1) + 1
        /\ \A k \in 1..(L - (L - n + 1) + 1) :
             SubSeq(text, L - n + 1, L)[k] = text[(L - n + 1) + k - 1]
    BY <1>2, PartIs
  <1>4. SubSeq(text, L - L + 1, L) = text
    <2>1. L - L + 1 = 1
      BY <1>1
    <2> QED BY <2>1, SubSeqFull
  <1>5. SubSeq(text, L - 0 + 1, L) = <<>>
    <2>1. L - 0 + 1 \in Int /\ L \in Int /\ L < L - 0 + 1
      BY <1>1
    <2> QED BY <2>1, SubSeqEmpty
  <1> HIDE DEF L
  <1>6. Suffix(text, n) = SubSeq(text, L - n + 1, L)
    BY DEF Suffix, L
  <1>7. /\ Suffix(text, n) \in Seq(Tokens) /\ Len(Suffix(text, n)) = n
        /\ \A k \in 1..n : Suffix(text, n)[k] = text[L - n + k]
    BY <1>2, <1>3, <1>6
  <1> QED BY <1>4, <1>5, <1>7 DEF Suffix, L

LEMMA LongestIs ==
  ASSUME NEW text \in Seq(Tokens), NEW words, NEW n \in 0..Len(text), Matches(text, words, n),
         \A m \in (n + 1)..Len(text) : ~Matches(text, words, m)
  PROVE  LongestPrefixSuffix(text, words) = Suffix(text, n)
  <1> DEFINE T == { m \in 0..Len(text) : Matches(text, words, m) }
  <1>1. Len(text) \in Nat
    BY LenIs
  <1>2. T \in SUBSET Nat /\ n \in T /\ \A m \in T : m <= n
    BY <1>1
  <1> HIDE DEF T
  <1>3. Max(T) = n
    BY <1>2, MaxIs
  <1> QED BY <1>3 DEF LongestPrefixSuffix, Matches, T

LEMMA MatchesIs ==
  ASSUME NEW text \in Seq(Tokens), NEW w \in Seq(Tokens), NEW n \in 0..Len(text)
  PROVE  StartsWith(w, Suffix(text, n))
           <=> n <= Len(w) /\ \A k \in 1..n : text[Len(text) - n + k] = w[k]
  <1> DEFINE s == Suffix(text, n)
  <1>1. s \in Seq(Tokens) /\ Len(s) = n /\ \A k \in 1..n : s[k] = text[Len(text) - n + k]
    BY TextSuffixIs
  <1> HIDE DEF s
  <1>2. IsPrefix(s, w) <=> n <= Len(w) /\ \A k \in 1..n : s[k] = w[k]
    BY <1>1, PrefixIs
  <1> QED BY <1>1, <1>2 DEF StartsWith, s

LEMMA AppendIs ==
  ASSUME NEW p \in Seq(Tokens), NEW c \in Tokens
  PROVE  /\ Append(p, c) \in Seq(Tokens) /\ Len(Append(p, c)) = Len(p) + 1
         /\ \A k \in 1..Len(p) : Append(p, c)[k] = p[k]
         /\ Append(p, c)[Len(p) + 1] = c
         /\ Append(p, c) = p \o <<c>> /\ <<c>> \in Seq(Tokens)
         /\ SubSeq(Append(p, c), 1, Len(p)) = p
  <1>1. /\ Append(p, c) \in Seq(Tokens) /\ Len(Append(p, c)) = Len(p) + 1
        /\ \A k \in 1..Len(p) : Append(p, c)[k] = p[k]
        /\ Append(p, c)[Len(p) + 1] = c
    BY AppendProperties
  <1>2. Append(p, c) = p \o <<c>> /\ <<c>> \in Seq(Tokens)
    BY AppendIsConcat
  <1> DEFINE a == Append(p, c)
  <1> HIDE DEF a
  <1>3. Len(p) \in Nat /\ Len(a) = Len(p) + 1 /\ a \in Seq(Tokens)
    BY <1>1, LenIs DEF a
  <1>4. /\ 1 \in 1..(Len(a) + 1) /\ Len(p) \in 0..Len(a) /\ 1 <= Len(p) + 1
        /\ Len(p) - 1 + 1 = Len(p) /\ \A k \in 1..Len(p) : 1 + k - 1 = k
    BY <1>3
  <1> DEFINE s == SubSeq(a, 1, Len(p))
  <1>5. s \in Seq(Tokens) /\ Len(s) = Len(p) /\ \A k \in 1..Len(p) : s[k] = a[k]
    <2>1. /\ s \in Seq(Tokens) /\ Len(s) = Len(p) - 1 + 1
          /\ \A k \in 1..(Len(p) - 1 + 1) : s[k] = a[1 + k - 1]
      BY <1>3, <1>4, PartIs
    <2> HIDE DEF s
    <2> QED BY <1>4, <2>1
  <1> HIDE DEF s
  <1>6. s = p
    <2>1. \A k \in 1..Len(s) : s[k] = p[k]
      BY <1>1, <1>5 DEF a
    <2> QED BY <1>5, <2>1, SameText
  <1> QED BY <1>1, <1>2, <1>6 DEF a, s

LEMMA FeedsNormal ==
  ASSUME NEW f \in Filters, NEW c \in Tokens, f.closing = <<>>, f.closing_pending = <<>>,
         Len(f.pending) <= 2, Len(f.pending) >= 1 => f.pending[1] = "<",
         Len(f.pending) = 2 => f.pending[2] = "tool_"
  PROVE  LET g == FeedToken(f, c)
             n == Len(f.pending)
         IN  /\ g \in Filters /\ g.closing_pending = <<>>
             /\ c = "<" => /\ g.closing = <<>> /\ g.pending = <<"<">>
                           /\ g.out = f.out \o f.pending
             /\ n = 1 /\ c = "tool_" => /\ g.closing = <<>> /\ g.pending = <<"<", "tool_">>
                                        /\ g.out = f.out
             /\ n = 2 /\ c \in Tags => /\ g.closing = Close(c) /\ g.pending = <<>>
                                       /\ g.out = f.out
             /\ c # "<" /\ ~(n = 1 /\ c = "tool_") /\ ~(n = 2 /\ c \in Tags)
                  => g.closing = <<>> /\ g.pending = <<>> /\ g.out = f.out \o Append(f.pending, c)
  <1> DEFINE p == f.pending
             n == Len(p)
             text == Append(p, c)
             held == LongestPrefixSuffix(text, ReservedStarts)
             said == SubSeq(text, 1, Len(text) - Len(held))
             g == FeedToken(f, c)
  <1>1. /\ p \in Seq(Tokens) /\ f.closing \in Seq(Tokens) /\ f.closing_pending \in Seq(Tokens)
        /\ f.out \in Seq(Tokens)
    BY DEF Filters
  <1>2. /\ text \in Seq(Tokens) /\ Len(text) = n + 1 /\ n \in Nat
        /\ \A k \in 1..n : text[k] = p[k]
        /\ text[n + 1] = c /\ SubSeq(text, 1, n) = p
    BY <1>1, AppendIs, LenIs
  <1>20. \A m \in 0..(n + 1) :
           /\ Suffix(text, m) \in Seq(Tokens) /\ Len(Suffix(text, m)) = m
           /\ \A k \in 1..m : Suffix(text, m)[k] = text[n + 1 - m + k]
           /\ \A w \in Seq(Tokens) :
                StartsWith(w, Suffix(text, m))
                  <=> m <= Len(w) /\ \A k \in 1..m : text[n + 1 - m + k] = w[k]
    <2> HIDE DEF text, n
    <2>1. \A m \in 0..Len(text) :
            /\ Suffix(text, m) \in Seq(Tokens) /\ Len(Suffix(text, m)) = m
            /\ \A k \in 1..m : Suffix(text, m)[k] = text[Len(text) - m + k]
      BY <1>2, TextSuffixIs
    <2>2. \A m \in 0..Len(text) : \A w \in Seq(Tokens) :
            StartsWith(w, Suffix(text, m))
              <=> m <= Len(w) /\ \A k \in 1..m : text[Len(text) - m + k] = w[k]
      BY <1>2, MatchesIs
    <2> TAKE m \in 0..(n + 1)
    <2>3. Len(text) = n + 1 /\ m \in 0..Len(text) /\ n \in Nat /\ m \in Nat
      BY <1>2
    <2>4. /\ Suffix(text, m) \in Seq(Tokens) /\ Len(Suffix(text, m)) = m
          /\ \A k \in 1..m : Suffix(text, m)[k] = text[Len(text) - m + k]
      BY <2>1, <2>3
    <2>5. \A k \in 1..m : Suffix(text, m)[k] = text[n + 1 - m + k]
      <3>1. \A k \in 1..m : Len(text) - m + k = n + 1 - m + k
        BY <2>3
      <3> QED BY <2>4, <3>1
    <2>6. ASSUME NEW w \in Seq(Tokens)
          PROVE  StartsWith(w, Suffix(text, m))
                   <=> m <= Len(w) /\ \A k \in 1..m : text[n + 1 - m + k] = w[k]
      <3>1. StartsWith(w, Suffix(text, m))
              <=> m <= Len(w) /\ \A k \in 1..m : text[Len(text) - m + k] = w[k]
        BY <2>2, <2>3
      <3>2. \A k \in 1..m : Len(text) - m + k = n + 1 - m + k
        BY <2>3
      <3> QED BY <3>1, <3>2
    <2> QED BY <2>4, <2>5, <2>6
  <1>3. \A m \in 0..(n + 1) :
          Matches(text, ReservedStarts, m)
            <=> m <= 3 /\ \E d \in Tags : \A k \in 1..m : text[n + 1 - m + k] = Start(d)[k]
    <2> TAKE m \in 0..(n + 1)
    <2>1. \A d \in Tags : StartsWith(Start(d), Suffix(text, m))
                            <=> m <= 3 /\ \A k \in 1..m : text[n + 1 - m + k] = Start(d)[k]
      <3> TAKE d \in Tags
      <3>1. Start(d) \in Seq(Tokens) /\ Len(Start(d)) = 3
        BY TagsAre
      <3> HIDE DEF text, n
      <3> QED BY <1>20, <3>1
    <2>2. Matches(text, ReservedStarts, m) <=> \E d \in Tags : StartsWith(Start(d), Suffix(text, m))
      <3> HIDE DEF text, n
      <3> QED BY TagsAre DEF Matches
    <2> HIDE DEF text, n
    <2> QED BY <2>1, <2>2
  <1>4. \A d \in Tags : /\ Start(d)[1] = "<" /\ Start(d)[2] = "tool_" /\ Start(d)[3] = d
                        /\ Start(d) \in Seq(Tokens) /\ Len(Start(d)) = 3
                        /\ d # "<" /\ d # "tool_"
    BY TagsAre DEF Tags
  <1>5. "call" \in Tags
    BY DEF Tags
  <1>6. /\ n >= 1 => text[1] = "<"
        /\ n = 2 => text[2] = "tool_"
        /\ n = 0 \/ n = 1 \/ n = 2
    <2>1. n >= 1 => 1 \in 1..n
      BY <1>2
    <2>2. n = 2 => 2 \in 1..n
      BY <1>2
    <2>3. n = 0 \/ n = 1 \/ n = 2
      <3>1. n <= 2
        OBVIOUS
      <3> HIDE DEF n
      <3> QED BY <1>2, <3>1
    <2>4. (n >= 1 => p[1] = "<") /\ (n = 2 => p[2] = "tool_")
      OBVIOUS
    <2> HIDE DEF n, p, text
    <2> QED BY <1>2, <2>1, <2>2, <2>3, <2>4
  <1>7. g = IF held \in ReservedStarts
            THEN [f EXCEPT !.pending = <<>>, !.closing = ReservedClose(held), !.out = @ \o said]
            ELSE [f EXCEPT !.pending = held, !.out = @ \o said]
    BY DEF FeedToken, FeedNormal
  <1> HIDE DEF p, n, text, held, said, g
  <1>8. ASSUME NEW m \in 0..(n + 1), held = Suffix(text, m)
        PROVE  /\ held \in Seq(Tokens) /\ Len(held) = m
               /\ said = SubSeq(text, 1, n + 1 - m) /\ said \in Seq(Tokens)
               /\ f.out \o said \in Seq(Tokens)
               /\ g \in Filters /\ g.closing_pending = <<>> /\ g.out = f.out \o said
               /\ held \notin ReservedStarts => g.closing = <<>> /\ g.pending = held
               /\ held \in ReservedStarts => g.closing = ReservedClose(held) /\ g.pending = <<>>
    <2>1. held \in Seq(Tokens) /\ Len(held) = m
      BY <1>2, <1>8, TextSuffixIs
    <2>2. said = SubSeq(text, 1, n + 1 - m)
      BY <1>2, <2>1 DEF said
    <2>3. said \in Seq(Tokens)
      <3>1. 1 \in 1..(Len(text) + 1) /\ n + 1 - m \in 0..Len(text) /\ 1 <= (n + 1 - m) + 1
        BY <1>2
      <3> QED BY <1>2, <2>2, <3>1, PartIs
    <2>4. f.out \o said \in Seq(Tokens)
      BY <1>1, <2>3, JoinIs
    <2> DEFINE o == f.out \o said
    <2> HIDE DEF o
    <2>5. o \in Seq(Tokens)
      BY <2>4 DEF o
    <2>6. CASE held \notin ReservedStarts
      <3>1. g = [f EXCEPT !.pending = held, !.out = o]
        BY <1>7, <2>6 DEF o
      <3>2. /\ g \in Filters /\ g.closing_pending = <<>> /\ g.out = o
            /\ g.closing = <<>> /\ g.pending = held
        BY <1>1, <2>1, <2>5, <3>1 DEF Filters
      <3> QED BY <2>1, <2>2, <2>3, <2>4, <2>6, <3>2 DEF o
    <2>7. CASE held \in ReservedStarts
      <3> DEFINE z == ReservedClose(held)
      <3>1. z \in Seq(Tokens) /\ <<>> \in Seq(Tokens)
        BY <2>7, TagsAre
      <3> HIDE DEF z
      <3>2. g = [f EXCEPT !.pending = <<>>, !.closing = z, !.out = o]
        BY <1>7, <2>7 DEF o, z
      <3>3. /\ g \in Filters /\ g.closing_pending = <<>> /\ g.out = o
            /\ g.closing = z /\ g.pending = <<>>
        BY <1>1, <2>5, <3>1, <3>2 DEF Filters
      <3> QED BY <2>1, <2>2, <2>3, <2>4, <2>7, <3>3 DEF o, z
    <2> QED BY <2>6, <2>7
  <1>9. \A s \in ReservedStarts : s \in Seq(Tokens) /\ Len(s) = 3
    BY TagsAre
  <1>10. \A m \in 0..(n + 1) : m = 0 \/ m = 1 \/ m = 2 \/ m = 3
    BY <1>2, <1>6
  <1>11. ~Matches(text, ReservedStarts, 1) \/ c = "<"
    <2>1. 1 \in 0..(n + 1) /\ 1 \in 1..1 /\ n + 1 - 1 + 1 = n + 1
      BY <1>2
    <2> QED BY <1>2, <1>3, <1>4, <2>1
  <1>12. ASSUME 2 \in 0..(n + 1), Matches(text, ReservedStarts, 2) PROVE c = "tool_" /\ n = 1
    <2>1. 1 \in 1..2 /\ 2 \in 1..2 /\ n + 1 - 2 + 1 = n /\ n + 1 - 2 + 2 = n + 1
      BY <1>2
    <2>2. text[n] = "<" /\ text[n + 1] = "tool_"
      BY <1>3, <1>4, <1>12, <2>1
    <2>3. n # 2
      BY <1>6, <2>2
    <2> QED BY <1>2, <1>6, <1>12, <2>2, <2>3
  <1>13. ASSUME 3 \in 0..(n + 1), Matches(text, ReservedStarts, 3) PROVE c \in Tags /\ n = 2
    <2>1. 3 \in 1..3 /\ n + 1 - 3 + 3 = n + 1
      BY <1>2
    <2>2. PICK d \in Tags : text[n + 1] = Start(d)[3]
      BY <1>3, <1>13, <2>1
    <2> QED BY <1>2, <1>4, <1>6, <1>13, <2>2
  <1>14. ASSUME c = "<" PROVE /\ g \in Filters /\ g.closing_pending = <<>> /\ g.closing = <<>>
                              /\ g.pending = <<"<">> /\ g.out = f.out \o p
    <2>1. 1 \in 0..(n + 1) /\ \A m \in (1 + 1)..(n + 1) : m \in 0..(n + 1) /\ m # 0 /\ m # 1
      BY <1>2
    <2>2. Matches(text, ReservedStarts, 1)
      <3>1. \A k \in 1..1 : text[n + 1 - 1 + k] = Start("call")[k]
        <4>1. n + 1 - 1 + 1 = n + 1 /\ \A k \in 1..1 : k = 1
          BY <1>2
        <4> QED BY <1>2, <1>4, <1>5, <1>14, <4>1
      <3> QED BY <1>3, <1>5, <2>1, <3>1
    <2>3. \A m \in (1 + 1)..(n + 1) : ~Matches(text, ReservedStarts, m)
      BY <1>4, <1>10, <1>12, <1>13, <1>14, <2>1
    <2>4. held = Suffix(text, 1)
      BY <1>2, <2>1, <2>2, <2>3, LongestIs DEF held
    <2>5. held = <<"<">>
      <3>1. /\ held \in Seq(Tokens) /\ Len(held) = 1
            /\ \A k \in 1..1 : held[k] = text[n + 1 - 1 + k]
        BY <1>20, <2>1, <2>4
      <3>2. held[1] = "<"
        BY <1>2, <1>14, <3>1
      <3> QED BY <3>1, <3>2
    <2>6. held \notin ReservedStarts
      <3>1. Len(held) # 3
        BY <1>20, <2>1, <2>4
      <3> QED BY <1>9, <3>1
    <2>7. n + 1 - 1 = n
      BY <1>2
    <2> QED BY <1>2, <1>8, <2>1, <2>4, <2>5, <2>6, <2>7
  <1>15. ASSUME n = 1, c = "tool_"
         PROVE  /\ g \in Filters /\ g.closing_pending = <<>> /\ g.closing = <<>>
                /\ g.pending = <<"<", "tool_">> /\ g.out = f.out
    <2>1. 2 \in 0..(n + 1) /\ \A m \in (2 + 1)..(n + 1) : FALSE
      BY <1>15
    <2>2. Matches(text, ReservedStarts, 2)
      <3>1. \A k \in 1..2 : text[n + 1 - 2 + k] = Start("call")[k]
        <4>1. n + 1 - 2 + 1 = 1 /\ n + 1 - 2 + 2 = n + 1 /\ \A k \in 1..2 : k = 1 \/ k = 2
          BY <1>15
        <4> QED BY <1>2, <1>4, <1>5, <1>6, <1>15, <4>1
      <3> QED BY <1>3, <1>5, <2>1, <3>1
    <2>3. held = Suffix(text, 2)
      BY <1>2, <2>1, <2>2, LongestIs DEF held
    <2>4. held = <<"<", "tool_">>
      <3>1. /\ held \in Seq(Tokens) /\ Len(held) = 2
            /\ \A k \in 1..2 : held[k] = text[n + 1 - 2 + k]
        BY <1>20, <2>1, <2>3
      <3>2. held[1] = "<" /\ held[2] = "tool_"
        BY <1>2, <1>6, <1>15, <3>1
      <3> QED BY <3>1, <3>2
    <2>5. held \notin ReservedStarts
      <3>1. Len(held) = 2
        BY <1>20, <2>1, <2>3
      <3>2. \A s \in ReservedStarts : Len(s) = 3
        BY <1>9
      <3>3. Len(held) # 3
        BY <3>1
      <3> QED BY <3>2, <3>3
    <2>6. said = <<>>
      <3>1. said = SubSeq(text, 1, n + 1 - 2)
        BY <1>8, <2>1, <2>3
      <3>2. n + 1 - 2 = 0
        BY <1>15
      <3> QED BY <3>1, <3>2, SubSeqEmpty
    <2>7. f.out \o said = f.out
      BY <1>1, <2>6, JoinIs
    <2> QED BY <1>8, <2>1, <2>3, <2>4, <2>5, <2>7
  <1>16. ASSUME n = 2, c \in Tags
         PROVE  /\ g \in Filters /\ g.closing_pending = <<>> /\ g.closing = Close(c)
                /\ g.pending = <<>> /\ g.out = f.out
    <2>1. 3 \in 0..(n + 1) /\ \A m \in (3 + 1)..(n + 1) : FALSE
      BY <1>16
    <2>2. \A k \in 1..3 : text[n + 1 - 3 + k] = Start(c)[k]
      <3>1. /\ n + 1 - 3 + 1 = 1 /\ n + 1 - 3 + 2 = 2 /\ n + 1 - 3 + 3 = n + 1
            /\ \A k \in 1..3 : k = 1 \/ k = 2 \/ k = 3
        BY <1>16
      <3> QED BY <1>2, <1>4, <1>6, <1>16, <3>1
    <2>3. Matches(text, ReservedStarts, 3)
      BY <1>3, <1>16, <2>1, <2>2
    <2>4. held = Suffix(text, 3)
      BY <1>2, <2>1, <2>3, LongestIs DEF held
    <2>5. held = Start(c)
      <3>1. /\ held \in Seq(Tokens) /\ Len(held) = 3
            /\ \A k \in 1..3 : held[k] = text[n + 1 - 3 + k]
        BY <1>20, <2>1, <2>4
      <3>2. Start(c) \in Seq(Tokens) /\ Len(Start(c)) = 3
        BY <1>16, TagsAre
      <3> QED BY <2>2, <3>1, <3>2, SameText
    <2>6. held \in ReservedStarts /\ ReservedClose(held) = Close(c)
      BY <1>16, <2>5, TagsAre
    <2>7. said = <<>>
      <3>1. said = SubSeq(text, 1, n + 1 - 3)
        BY <1>8, <2>1, <2>4
      <3>2. n + 1 - 3 = 0
        BY <1>16
      <3> QED BY <3>1, <3>2, SubSeqEmpty
    <2>8. f.out \o said = f.out
      BY <1>1, <2>7, JoinIs
    <2> QED BY <1>8, <2>1, <2>4, <2>6, <2>8
  <1>17. ASSUME c # "<", ~(n = 1 /\ c = "tool_"), ~(n = 2 /\ c \in Tags)
         PROVE  /\ g \in Filters /\ g.closing_pending = <<>> /\ g.closing = <<>>
                /\ g.pending = <<>> /\ g.out = f.out \o text
    <2>1. 0 \in 0..(n + 1) /\ \A m \in (0 + 1)..(n + 1) : m \in 0..(n + 1) /\ m # 0
      BY <1>2
    <2>2. Matches(text, ReservedStarts, 0)
      <3>1. \A k \in 1..0 : text[n + 1 - 0 + k] = Start("call")[k]
        OBVIOUS
      <3> QED BY <1>3, <1>5, <2>1, <3>1
    <2>3. \A m \in (0 + 1)..(n + 1) : ~Matches(text, ReservedStarts, m)
      BY <1>10, <1>11, <1>12, <1>13, <1>17, <2>1
    <2>4. held = Suffix(text, 0)
      BY <1>2, <2>1, <2>2, <2>3, LongestIs DEF held
    <2>5. held = <<>>
      BY <1>2, <2>1, <2>4, TextSuffixIs
    <2>6. held \notin ReservedStarts
      <3>1. Len(held) # 3
        BY <1>20, <2>1, <2>4
      <3> QED BY <1>9, <3>1
    <2>7. said = text
      <3>1. said = SubSeq(text, 1, n + 1 - 0)
        BY <1>8, <2>1, <2>4
      <3>2. n + 1 - 0 = Len(text)
        BY <1>2
      <3> QED BY <1>2, <3>1, <3>2, SubSeqFull
    <2> QED BY <1>8, <2>1, <2>4, <2>5, <2>6, <2>7
  <1>18. c = "<" \/ (n = 1 /\ c = "tool_") \/ (n = 2 /\ c \in Tags)
           \/ (c # "<" /\ ~(n = 1 /\ c = "tool_") /\ ~(n = 2 /\ c \in Tags))
    OBVIOUS
  <1>19. g \in Filters /\ g.closing_pending = <<>>
    BY <1>14, <1>15, <1>16, <1>17, <1>18
  <1> QED BY <1>14, <1>15, <1>16, <1>17, <1>19 DEF g, n, p, text

LEMMA FeedsSuppressed ==
  ASSUME NEW f \in Filters, NEW c \in Tokens, NEW d \in Tags, f.closing = Close(d),
         f.pending = <<>>, Len(f.closing_pending) <= 3,
         \A k \in 1..Len(f.closing_pending) : f.closing_pending[k] = Close(d)[k]
  PROVE  LET g == FeedToken(f, c)
             n == Len(f.closing_pending)
         IN  /\ g \in Filters /\ g.out = f.out /\ g.pending = <<>>
             /\ c = Close(d)[n + 1] /\ n = 3 => g.closing = <<>> /\ g.closing_pending = <<>>
             /\ c = Close(d)[n + 1] /\ n # 3 => /\ g.closing = Close(d)
                                                /\ g.closing_pending = Append(f.closing_pending, c)
             /\ c # Close(d)[n + 1] /\ c = "<" => /\ g.closing = Close(d)
                                                  /\ g.closing_pending = <<"<">>
             /\ c # Close(d)[n + 1] /\ c # "<" => /\ g.closing = Close(d)
                                                  /\ g.closing_pending = <<>>
  <1> DEFINE p == f.closing_pending
             n == Len(p)
             text == Append(p, c)
             z == Close(d)
             held == LongestPrefixSuffix(text, {f.closing})
             g == FeedToken(f, c)
  <1>1. /\ p \in Seq(Tokens) /\ f.closing \in Seq(Tokens) /\ f.pending \in Seq(Tokens)
        /\ f.out \in Seq(Tokens) /\ <<>> \in Seq(Tokens)
    BY DEF Filters
  <1>2. /\ text \in Seq(Tokens) /\ Len(text) = n + 1 /\ n \in Nat
        /\ \A k \in 1..n : text[k] = p[k]
        /\ text[n + 1] = c
    BY <1>1, AppendIs, LenIs
  <1>3. n <= 3 /\ (\A k \in 1..n : p[k] = z[k]) /\ f.closing = z /\ f.pending = <<>>
    OBVIOUS
  <1>4. /\ z \in Seq(Tokens) /\ Len(z) = 4
        /\ z[1] = "<" /\ z[2] = "/" /\ z[3] = "tool_" /\ z[4] = d /\ d # "<"
        /\ z # <<>>
    <2>1. /\ z \in Seq(Tokens) /\ Len(z) = 4
          /\ z[1] = "<" /\ z[2] = "/" /\ z[3] = "tool_" /\ z[4] = d /\ d # "<"
      BY TagsAre DEF Tags
    <2> HIDE DEF z
    <2>2. z # <<>>
      BY <2>1
    <2> QED BY <2>1, <2>2
  <1>5. g = IF held = f.closing THEN [f EXCEPT !.closing = <<>>, !.closing_pending = <<>>]
            ELSE [f EXCEPT !.closing_pending = held]
    BY <1>3, <1>4 DEF FeedToken, FeedSuppressed
  <1> HIDE DEF p, n, text, z, held, g
  <1>6. \A m \in 0..(n + 1) :
           /\ Suffix(text, m) \in Seq(Tokens) /\ Len(Suffix(text, m)) = m
           /\ \A k \in 1..m : Suffix(text, m)[k] = text[n + 1 - m + k]
           /\ Matches(text, {z}, m) <=> m <= 4 /\ \A k \in 1..m : text[n + 1 - m + k] = z[k]
    <2> TAKE m \in 0..(n + 1)
    <2>1. Len(text) = n + 1 /\ m \in 0..Len(text) /\ n \in Nat /\ m \in Nat
      BY <1>2
    <2>2. /\ Suffix(text, m) \in Seq(Tokens) /\ Len(Suffix(text, m)) = m
          /\ \A k \in 1..m : Suffix(text, m)[k] = text[Len(text) - m + k]
      BY <1>2, <2>1, TextSuffixIs
    <2>3. StartsWith(z, Suffix(text, m))
            <=> m <= Len(z) /\ \A k \in 1..m : text[Len(text) - m + k] = z[k]
      BY <1>2, <1>4, <2>1, MatchesIs
    <2>4. \A k \in 1..m : Len(text) - m + k = n + 1 - m + k
      BY <2>1
    <2>5. Matches(text, {z}, m) <=> StartsWith(z, Suffix(text, m))
      BY DEF Matches
    <2> QED BY <1>4, <2>2, <2>3, <2>4, <2>5
  <1>7. ASSUME NEW m \in 0..(n + 1), Matches(text, {z}, m),
               \A x \in (m + 1)..(n + 1) : ~Matches(text, {z}, x)
        PROVE  held = Suffix(text, m)
    <2>1. Len(text) = n + 1 /\ m \in 0..Len(text)
      BY <1>2
    <2>2. \A x \in (m + 1)..Len(text) : ~Matches(text, {z}, x)
      BY <1>7, <2>1
    <2>3. LongestPrefixSuffix(text, {z}) = Suffix(text, m)
      BY <1>2, <1>7, <2>1, <2>2, LongestIs
    <2> QED BY <1>3, <2>3 DEF held
  <1>8. \A i \in 2..4 : z[i] # "<"
    <2>1. \A i \in 2..4 : i = 2 \/ i = 3 \/ i = 4
      OBVIOUS
    <2> QED BY <1>4, <2>1
  <1>9. n + 1 \in 0..(n + 1) /\ 0 \in 0..(n + 1) /\ 1 \in 0..(n + 1) /\ n + 1 \in 1..4
    BY <1>2, <1>3
  <1>10. ASSUME c = z[n + 1] PROVE held = text
    <2>1. \A k \in 1..(n + 1) : n + 1 - (n + 1) + k = k
      BY <1>2
    <2>2. \A k \in 1..(n + 1) : text[k] = z[k]
      <3>1. \A k \in 1..(n + 1) : k \in 1..n \/ k = n + 1
        BY <1>2
      <3> QED BY <1>2, <1>3, <1>10, <3>1
    <2>3. \A k \in 1..(n + 1) : text[n + 1 - (n + 1) + k] = z[k]
      BY <2>1, <2>2
    <2>4. n + 1 <= 4
      BY <1>2, <1>3
    <2>5. Matches(text, {z}, n + 1)
      BY <1>6, <1>9, <2>3, <2>4
    <2>6. \A x \in ((n + 1) + 1)..(n + 1) : ~Matches(text, {z}, x)
      BY <1>2
    <2>7. held = Suffix(text, n + 1)
      BY <1>7, <1>9, <2>5, <2>6
    <2>8. /\ held \in Seq(Tokens) /\ Len(held) = n + 1
          /\ \A k \in 1..(n + 1) : held[k] = text[n + 1 - (n + 1) + k]
      BY <1>6, <1>9, <2>7
    <2>9. \A k \in 1..(n + 1) : held[k] = text[k]
      BY <2>1, <2>8
    <2>10. Len(held) = Len(text) /\ \A k \in 1..Len(held) : held[k] = text[k]
      BY <1>2, <2>8, <2>9
    <2> QED BY <1>2, <2>8, <2>10, SameText
  <1>11. ASSUME c # z[n + 1], NEW m \in 0..(n + 1), Matches(text, {z}, m)
         PROVE  m = 0 \/ (m = 1 /\ c = "<")
    <2>0. m \in Nat /\ m <= n + 1
      BY <1>2
    <2>1. m <= 4 /\ \A k \in 1..m : text[n + 1 - m + k] = z[k]
      BY <1>6, <1>11
    <2>2. m # n + 1
      <3> SUFFICES ASSUME m = n + 1 PROVE FALSE
        OBVIOUS
      <3>1. n + 1 \in 1..m /\ n + 1 - m + (n + 1) = n + 1
        BY <1>2
      <3> QED BY <1>2, <1>11, <2>1, <3>1
    <2>3. CASE m = 1
      <3>1. 1 \in 1..m /\ n + 1 - m + 1 = n + 1
        BY <1>2, <2>3
      <3> QED BY <1>2, <1>4, <2>1, <2>3, <3>1
    <2>4. CASE m > 1
      <3>1. 1 \in 1..m /\ n + 1 - m + 1 \in 1..n /\ n + 1 - m + 1 \in 2..4
        BY <1>2, <1>3, <2>0, <2>2, <2>4
      <3>2. text[n + 1 - m + 1] = "<"
        BY <1>4, <2>1, <3>1
      <3>3. text[n + 1 - m + 1] = z[n + 1 - m + 1]
        BY <1>2, <1>3, <3>1
      <3> QED BY <1>8, <3>1, <3>2, <3>3
    <2> QED BY <2>0, <2>3, <2>4
  <1>12. ASSUME c # z[n + 1], c = "<" PROVE held = <<"<">>
    <2>1. Matches(text, {z}, 1)
      <3>1. \A k \in 1..1 : text[n + 1 - 1 + k] = z[k]
        <4>1. n + 1 - 1 + 1 = n + 1 /\ \A k \in 1..1 : k = 1
          BY <1>2
        <4> QED BY <1>2, <1>4, <1>12, <4>1
      <3>2. 1 <= 4
        OBVIOUS
      <3> QED BY <1>6, <1>9, <3>1, <3>2
    <2>2. \A x \in (1 + 1)..(n + 1) : x \in 0..(n + 1) /\ x # 0 /\ x # 1
      BY <1>2
    <2>3. \A x \in (1 + 1)..(n + 1) : ~Matches(text, {z}, x)
      BY <1>11, <1>12, <2>2
    <2>4. held = Suffix(text, 1)
      BY <1>7, <1>9, <2>1, <2>3
    <2>5. /\ held \in Seq(Tokens) /\ Len(held) = 1
          /\ \A k \in 1..1 : held[k] = text[n + 1 - 1 + k]
      BY <1>6, <1>9, <2>4
    <2>6. held[1] = "<"
      BY <1>2, <1>12, <2>5
    <2> QED BY <2>5, <2>6
  <1>13. ASSUME c # z[n + 1], c # "<" PROVE held = <<>>
    <2>1. Matches(text, {z}, 0)
      <3>1. \A k \in 1..0 : text[n + 1 - 0 + k] = z[k]
        OBVIOUS
      <3>2. 0 <= 4
        OBVIOUS
      <3> QED BY <1>6, <1>9, <3>1, <3>2
    <2>2. \A x \in (0 + 1)..(n + 1) : x \in 0..(n + 1) /\ x # 0
      BY <1>2
    <2>3. \A x \in (0 + 1)..(n + 1) : ~Matches(text, {z}, x)
      BY <1>11, <1>13, <2>2
    <2>4. held = Suffix(text, 0)
      BY <1>7, <1>9, <2>1, <2>3
    <2> QED BY <1>2, <1>9, <2>4, TextSuffixIs
  <1>14. ASSUME c = z[n + 1], n = 3
         PROVE  /\ g \in Filters /\ g.out = f.out /\ g.pending = <<>>
                /\ g.closing = <<>> /\ g.closing_pending = <<>>
    <2>1. held = z
      <3>1. \A k \in 1..4 : k \in 1..n \/ k = n + 1
        BY <1>14
      <3>2. \A k \in 1..4 : text[k] = z[k]
        BY <1>2, <1>3, <1>14, <3>1
      <3>3. Len(text) = 4
        BY <1>2, <1>14
      <3> QED BY <1>2, <1>4, <1>10, <1>14, <3>2, <3>3, SameText
    <2>2. g = [f EXCEPT !.closing = <<>>, !.closing_pending = <<>>]
      BY <1>3, <1>5, <2>1
    <2> QED BY <1>1, <1>3, <2>2 DEF Filters
  <1>15. ASSUME NEW h \in Seq(Tokens), held = h, Len(h) # 4
         PROVE  /\ g \in Filters /\ g.out = f.out /\ g.pending = <<>>
                /\ g.closing = z /\ g.closing_pending = h
    <2>1. g = [f EXCEPT !.closing_pending = h]
      BY <1>3, <1>4, <1>5, <1>15
    <2> QED BY <1>1, <1>3, <2>1 DEF Filters
  <1>16. ASSUME c = z[n + 1], n # 3
         PROVE  /\ g \in Filters /\ g.out = f.out /\ g.pending = <<>>
                /\ g.closing = z /\ g.closing_pending = text
    <2>1. Len(text) # 4
      BY <1>2, <1>3, <1>16
    <2> QED BY <1>2, <1>10, <1>15, <1>16, <2>1
  <1>17. ASSUME c # z[n + 1], c = "<"
         PROVE  /\ g \in Filters /\ g.out = f.out /\ g.pending = <<>>
                /\ g.closing = z /\ g.closing_pending = <<"<">>
    <2>1. <<"<">> \in Seq(Tokens) /\ Len(<<"<">>) # 4
      BY <1>17
    <2> QED BY <1>12, <1>15, <1>17, <2>1
  <1>18. ASSUME c # z[n + 1], c # "<"
         PROVE  /\ g \in Filters /\ g.out = f.out /\ g.pending = <<>>
                /\ g.closing = z /\ g.closing_pending = <<>>
    <2>1. <<>> \in Seq(Tokens) /\ Len(<<>>) # 4
      OBVIOUS
    <2> QED BY <1>13, <1>15, <1>18, <2>1
  <1> QED BY <1>14, <1>16, <1>17, <1>18 DEF g, n, p, text, z

LEMMA PairIs ==
  ASSUME NEW a \in Tokens, NEW b \in Tokens
  PROVE  /\ <<a>> \o <<b>> = <<a, b>> /\ <<a, b>> \in Seq(Tokens)
         /\ Len(<<a, b>>) = 2 /\ <<a, b>>[1] = a /\ <<a, b>>[2] = b
  <1> DEFINE x == <<a>>
             y == <<b>>
             z == <<a, b>>
  <1>1. /\ x \in Seq(Tokens) /\ Len(x) = 1 /\ x[1] = a
        /\ y \in Seq(Tokens) /\ Len(y) = 1 /\ y[1] = b
        /\ z \in Seq(Tokens) /\ Len(z) = 2 /\ z[1] = a /\ z[2] = b
    OBVIOUS
  <1> HIDE DEF x, y, z
  <1>2. /\ x \o y \in Seq(Tokens) /\ Len(x \o y) = Len(x) + Len(y)
        /\ \A i \in 1..Len(x) : (x \o y)[i] = x[i]
        /\ \A i \in 1..Len(y) : (x \o y)[Len(x) + i] = y[i]
    BY <1>1, JoinIs
  <1>3. Len(x \o y) = 2 /\ (x \o y)[1] = a /\ (x \o y)[2] = b
    <2>1. 1 \in 1..1 /\ 1 + 1 = 2
      OBVIOUS
    <2> QED BY <1>1, <1>2, <2>1
  <1>4. \A i \in 1..2 : i = 1 \/ i = 2
    OBVIOUS
  <1>5. x \o y = z
    BY <1>1, <1>2, <1>3, <1>4, SameText
  <1> QED BY <1>1, <1>5 DEF x, y, z

\* After k tokens: what was let through, with what the text says from the
\* first token that is held back, or from the envelope that is open.
Normally(t, v, k, f, p) ==
  /\ p \in 0..2 /\ p <= k /\ f.closing = <<>> /\ f.closing_pending = <<>> /\ Len(f.pending) = p
  /\ \A i \in 1..p : f.pending[i] = t[k - p + i]
  /\ p >= 1 => f.pending[1] = "<"
  /\ p = 2 => f.pending[2] = "tool_"
  /\ f.out \o v[k - p + 1] = v[1]

Suppressing(t, v, k, f, d, i, m) ==
  /\ d \in Tags /\ i \in 1..k /\ m \in 0..3 /\ i + 2 + m <= k /\ Opens(t, i, d)
  /\ f.closing = Close(d) /\ f.pending = <<>> /\ Len(f.closing_pending) = m
  /\ \A x \in 1..m : f.closing_pending[x] = Close(d)[x] /\ t[k - m + x] = Close(d)[x]
  /\ \A j \in i..(k - m) : ~Closes(t, j, d)
  /\ f.out \o v[i] = v[1]

Filtering(t, v, k, f) ==
  /\ f \in Filters
  /\ \/ \E p : Normally(t, v, k, f, p)
     \/ \E d, i, m : Suppressing(t, v, k, f, d, i, m)

\* What is held back is text, and so is a next token that goes on with it no
\* further.
HeldReads(t, v, k, f, p) ==
  /\ v[k + 1] \in Seq(Tokens) /\ v[k + 2] \in Seq(Tokens)
  /\ v[k - p + 1] = f.pending \o v[k + 1]
  /\ t[k + 1] # "<" => v[k - p + 1] = Append(f.pending, t[k + 1]) \o v[k + 2]

\* Tokens that are held back and turn out to be text.
LEMMA HeldIsText ==
  ASSUME NEW t \in Seq(Tokens), NEW v, Reads(t, v), NEW k \in 0..(Len(t) - 1),
         NEW f \in Filters, NEW p, Normally(t, v, k, f, p),
         ~(p = 1 /\ t[k + 1] = "tool_"), ~(p = 2 /\ t[k + 1] \in Tags)
  PROVE  HeldReads(t, v, k, f, p)
  <1> DEFINE q == f.pending
             c == t[k + 1]
  <1>1. /\ Len(t) \in Nat /\ k \in Nat /\ k + 1 <= Len(t) /\ p \in 0..2 /\ p <= k
        /\ \A i \in 1..Len(t) : t[i] \in Tokens
    BY LenIs DEF Normally
  <1>2. /\ q \in Seq(Tokens) /\ Len(q) = p /\ \A i \in 1..p : q[i] = t[k - p + i]
        /\ p >= 1 => q[1] = "<"
        /\ p = 2 => q[2] = "tool_"
    BY DEF Normally, Filters
  <1> HIDE DEF q, c
  <1>3. \A i \in 1..(Len(t) + 1) : v[i] \in Seq(Tokens)
    BY DEF Reads
  <1>4. \A i \in 1..Len(t) : ~EndsInTag(t, i) /\ (\A x \in Tags : ~Opens(t, i, x))
                               => v[i] = <<t[i]>> \o v[i + 1]
    BY DEF Reads
  <1>5. k + 1 \in 1..(Len(t) + 1) /\ k + 2 \in 1..(Len(t) + 1) /\ k + 1 \in 1..Len(t)
    BY <1>1
  <1>6. v[k + 1] \in Seq(Tokens) /\ v[k + 2] \in Seq(Tokens) /\ c \in Tokens
    BY <1>1, <1>3, <1>5 DEF c
  <1>7. v[k - p + 1] = q \o v[k + 1]
    <2>1. CASE p = 0
      <3>1. q = <<>>
        BY <1>2, <2>1
      <3>2. q \o v[k + 1] = v[k + 1]
        BY <1>6, <3>1, JoinIs
      <3>3. k - p + 1 = k + 1
        BY <1>1, <2>1
      <3> QED BY <3>2, <3>3
    <2>2. CASE p = 1
      <3>1. k \in 1..Len(t) /\ k - p + 1 = k /\ 1 \in 1..p
        BY <1>1, <2>2
      <3>2. q[1] = t[k] /\ t[k] = "<"
        BY <1>2, <2>2, <3>1
      <3>3. ~EndsInTag(t, k) /\ \A x \in Tags : ~Opens(t, k, x)
        BY <2>2 DEF EndsInTag, Opens
      <3>4. v[k] = <<t[k]>> \o v[k + 1]
        BY <1>4, <3>1, <3>3
      <3>5. q = <<t[k]>>
        BY <1>2, <2>2, <3>2
      <3> QED BY <3>1, <3>4, <3>5
    <2>3. CASE p = 2
      <3>1. /\ k - 1 \in 1..Len(t) /\ k \in 1..Len(t) /\ k - p + 1 = k - 1 /\ (k - 1) + 1 = k
            /\ (k - 1) + 2 = k + 1 /\ k # Len(t) /\ 1 \in 1..p /\ 2 \in 1..p /\ k - p + 2 = k
        BY <1>1, <2>3
      <3>2. q[1] = t[k - 1] /\ q[2] = t[k] /\ t[k - 1] = "<" /\ t[k] = "tool_"
        BY <1>2, <2>3, <3>1
      <3>3. ~EndsInTag(t, k - 1) /\ \A x \in Tags : ~Opens(t, k - 1, x)
        <4>1. ~EndsInTag(t, k - 1)
          BY <3>1 DEF EndsInTag
        <4>2. \A x \in Tags : Opens(t, k - 1, x) => t[k + 1] = x
          BY <3>1 DEF Opens
        <4> QED BY <2>3, <4>1, <4>2
      <3>4. ~EndsInTag(t, k) /\ \A x \in Tags : ~Opens(t, k, x)
        BY <3>2 DEF EndsInTag, Opens
      <3>5. v[k - 1] = <<t[k - 1]>> \o v[k] /\ v[k] = <<t[k]>> \o v[k + 1]
        BY <1>4, <3>1, <3>3, <3>4
      <3>6. q = <<t[k - 1]>> \o <<t[k]>>
        <4>1. t[k - 1] \in Tokens /\ t[k] \in Tokens
          BY <1>1, <3>1
        <4> DEFINE w == <<t[k - 1], t[k]>>
        <4>2. /\ <<t[k - 1]>> \o <<t[k]>> = w /\ w \in Seq(Tokens)
              /\ Len(w) = 2 /\ w[1] = t[k - 1] /\ w[2] = t[k]
          BY <4>1, PairIs
        <4> HIDE DEF w
        <4>3. \A i \in 1..2 : i = 1 \/ i = 2
          OBVIOUS
        <4>4. q \in Seq(Tokens) /\ Len(q) = 2 /\ q[1] = w[1] /\ q[2] = w[2]
          <5>1. q \in Seq(Tokens) /\ Len(q) = 2
            BY <1>2, <2>3
          <5> QED BY <3>2, <4>2, <5>1
        <4>5. Len(q) = Len(w) /\ \A i \in 1..Len(q) : q[i] = w[i]
          BY <4>2, <4>3, <4>4
        <4>6. q = w
          BY <4>2, <4>4, <4>5, SameText
        <4> QED BY <4>2, <4>6
      <3>7. <<t[k - 1]>> \in Seq(Tokens) /\ <<t[k]>> \in Seq(Tokens)
        BY <1>1, <3>1
      <3>8. (<<t[k - 1]>> \o <<t[k]>>) \o v[k + 1] = <<t[k - 1]>> \o (<<t[k]>> \o v[k + 1])
        <4>1. v[k + 1] \in Seq(Tokens)
          BY <1>6
        <4> QED BY <3>7, <4>1, JoinAssociates, Zenon
      <3>9. v[k - p + 1] = v[k - 1]
        BY <3>1
      <3>10. v[k - 1] = <<t[k - 1]>> \o (<<t[k]>> \o v[k + 1])
        BY <3>5, Zenon
      <3>11. v[k - 1] = (<<t[k - 1]>> \o <<t[k]>>) \o v[k + 1]
        BY <3>8, <3>10, Zenon
      <3>12. v[k - 1] = q \o v[k + 1]
        BY <3>6, <3>11, Zenon
      <3> QED BY <3>9, <3>12, Zenon
    <2> QED BY <1>1, <2>1, <2>2, <2>3
  <1>8. ASSUME c # "<" PROVE v[k - p + 1] = Append(q, c) \o v[k + 2]
    <2>1. ~EndsInTag(t, k + 1) /\ \A x \in Tags : ~Opens(t, k + 1, x)
      BY <1>8 DEF EndsInTag, Opens, c
    <2>2. v[k + 1] = <<c>> \o v[(k + 1) + 1]
      BY <1>4, <1>5, <2>1 DEF c
    <2>3. (k + 1) + 1 = k + 2
      BY <1>1
    <2>4. Append(q, c) = q \o <<c>> /\ <<c>> \in Seq(Tokens)
      BY <1>2, <1>6, AppendIs
    <2>5. (q \o <<c>>) \o v[k + 2] = q \o (<<c>> \o v[k + 2])
      BY <1>2, <1>6, <2>4, JoinAssociates
    <2> QED BY <1>7, <2>2, <2>3, <2>4, <2>5
  <1> QED BY <1>6, <1>7, <1>8 DEF HeldReads, q, c

LEMMA NormalStep ==
  ASSUME NEW t \in Seq(Tokens), NEW v, Reads(t, v), NEW k \in 0..(Len(t) - 1),
         NEW f \in Filters, NEW p, Normally(t, v, k, f, p)
  PROVE  Filtering(t, v, k + 1, FeedToken(f, t[k + 1]))
  <1> DEFINE q == f.pending
             c == t[k + 1]
             g == FeedToken(f, c)
  <1>1. /\ Len(t) \in Nat /\ k \in Nat /\ k + 1 <= Len(t) /\ p \in 0..2 /\ p <= k /\ p \in Nat
        /\ c \in Tokens /\ v[k - p + 1] \in Seq(Tokens)
    <2>1. Len(t) \in Nat /\ k \in Nat /\ k + 1 <= Len(t) /\ p \in 0..2 /\ p <= k /\ p \in Nat
      BY LenIs DEF Normally
    <2>2. k + 1 \in 1..Len(t) /\ k - p + 1 \in 1..(Len(t) + 1)
      BY <2>1
    <2> QED BY <2>1, <2>2, LenIs DEF Reads
  <1>2. /\ q \in Seq(Tokens) /\ Len(q) = p /\ \A i \in 1..p : q[i] = t[k - p + i]
        /\ p >= 1 => q[1] = "<"
        /\ p = 2 => q[2] = "tool_"
        /\ f.out \in Seq(Tokens) /\ f.out \o v[k - p + 1] = v[1]
    BY DEF Normally, Filters
  <1>3. /\ g \in Filters /\ g.closing_pending = <<>>
        /\ c = "<" => /\ g.closing = <<>> /\ g.pending = <<"<">>
                      /\ g.out = f.out \o q
        /\ p = 1 /\ c = "tool_" => /\ g.closing = <<>> /\ g.pending = <<"<", "tool_">>
                                   /\ g.out = f.out
        /\ p = 2 /\ c \in Tags => /\ g.closing = Close(c) /\ g.pending = <<>>
                                  /\ g.out = f.out
        /\ c # "<" /\ ~(p = 1 /\ c = "tool_") /\ ~(p = 2 /\ c \in Tags)
             => g.closing = <<>> /\ g.pending = <<>> /\ g.out = f.out \o Append(q, c)
    <2>1. /\ f.closing = <<>> /\ f.closing_pending = <<>> /\ Len(f.pending) = p /\ Len(f.pending) <= 2
          /\ Len(f.pending) >= 1 => f.pending[1] = "<"
          /\ Len(f.pending) = 2 => f.pending[2] = "tool_"
      BY DEF Normally
    <2> QED BY <1>1, <2>1, FeedsNormal
  <1>9. ASSUME ~(p = 1 /\ c = "tool_"), ~(p = 2 /\ c \in Tags)
        PROVE  /\ v[k + 1] \in Seq(Tokens) /\ v[k + 2] \in Seq(Tokens)
               /\ v[k - p + 1] = q \o v[k + 1]
               /\ c # "<" => v[k - p + 1] = Append(q, c) \o v[k + 2]
    <2>1. ~(p = 1 /\ t[k + 1] = "tool_") /\ ~(p = 2 /\ t[k + 1] \in Tags)
      BY <1>9
    <2>2. HeldReads(t, v, k, f, p)
      BY <2>1, HeldIsText
    <2> QED BY <2>2 DEF HeldReads
  <1> HIDE DEF g, q, c
  <1>4. ASSUME c = "<" PROVE Normally(t, v, k + 1, g, 1)
    <2>1. /\ v[k + 1] \in Seq(Tokens) /\ v[k - p + 1] = q \o v[k + 1]
      <3>1. c # "tool_" /\ c \notin Tags
        BY <1>4 DEF Tags
      <3> QED BY <1>9, <3>1
    <2>2. (f.out \o q) \o v[k + 1] = f.out \o (q \o v[k + 1])
      BY <1>2, <2>1, JoinAssociates
    <2>3. g.out \o v[k + 1] = v[1] /\ (k + 1) - 1 + 1 = k + 1
      <3>1. (k + 1) - 1 + 1 = k + 1
        BY <1>1
      <3>2. g.out = f.out \o q
        BY <1>3, <1>4
      <3>3. g.out \o v[k + 1] = v[1]
        BY <1>2, <2>1, <2>2, <3>2, Zenon
      <3> QED BY <3>1, <3>3
    <2>4. g.pending = <<"<">> /\ Len(<<"<">>) = 1 /\ <<"<">>[1] = "<"
      BY <1>3, <1>4
    <2>5. \A i \in 1..1 : g.pending[i] = t[(k + 1) - 1 + i]
      <3>1. \A i \in 1..1 : i = 1
        OBVIOUS
      <3> QED BY <1>4, <2>3, <2>4, <3>1 DEF c
    <2>6. 1 \in 0..2 /\ 1 <= k + 1 /\ ~(1 = 2)
      BY <1>1
    <2> QED BY <1>3, <1>4, <2>3, <2>4, <2>5, <2>6 DEF Normally
  <1>5. ASSUME p = 1, c = "tool_" PROVE Normally(t, v, k + 1, g, 2)
    <2>1. g.pending = <<"<", "tool_">> /\ Len(g.pending) = 2 /\ g.pending[1] = "<" /\ g.pending[2] = "tool_"
      <3>1. g.pending = <<"<", "tool_">>
        BY <1>3, <1>5
      <3>2. "<" \in Tokens /\ "tool_" \in Tokens
        BY DEF Tokens
      <3> QED BY <3>1, <3>2, PairIs
    <2>2. (k + 1) - 2 + 1 = k /\ (k + 1) - 2 + 2 = k + 1 /\ k - p + 1 = k /\ 2 \in 0..2 /\ 2 <= k + 1
      BY <1>1, <1>5
    <2>3. t[k] = "<"
      <3>1. 1 \in 1..p
        BY <1>5
      <3> QED BY <1>2, <1>5, <2>2, <3>1
    <2>4. \A i \in 1..2 : g.pending[i] = t[(k + 1) - 2 + i]
      <3>1. \A i \in 1..2 : i = 1 \/ i = 2
        OBVIOUS
      <3> QED BY <1>5, <2>1, <2>2, <2>3, <3>1 DEF c
    <2> QED BY <1>2, <1>3, <1>5, <2>1, <2>2, <2>4 DEF Normally
  <1>6. ASSUME p = 2, c \in Tags PROVE Suppressing(t, v, k + 1, g, c, k - 1, 0)
    <2>1. /\ k - p + 1 = k - 1 /\ k - p + 2 = k /\ 1 \in 1..p /\ 2 \in 1..p
          /\ k - 1 \in 1..(k + 1) /\ (k - 1) + 2 = k + 1 /\ (k - 1) + 1 = k /\ (k - 1) + 2 + 0 <= k + 1
          /\ (k + 1) - 0 = k + 1
      BY <1>1, <1>6
    <2>2. t[k - 1] = "<" /\ t[k] = "tool_"
      BY <1>2, <1>6, <2>1
    <2>3. Opens(t, k - 1, c)
      BY <1>1, <2>1, <2>2 DEF Opens, c
    <2>4. \A j \in (k - 1)..(k + 1) : ~Closes(t, j, c)
      <3>1. \A j \in (k - 1)..(k + 1) : j = k - 1 \/ j = k \/ j = k + 1
        BY <1>1
      <3>2. ~Closes(t, k - 1, c)
        BY <2>1, <2>2 DEF Closes
      <3>3. ~Closes(t, k, c)
        BY <2>2 DEF Closes
      <3>4. ~Closes(t, k + 1, c)
        BY <1>6 DEF Closes, Tags, c
      <3> QED BY <3>1, <3>2, <3>3, <3>4
    <2>5. g.out \o v[k - 1] = v[1]
      BY <1>2, <1>3, <1>6, <2>1
    <2>6. Len(g.closing_pending) = 0 /\ 0 \in 0..3 /\ \A x \in 1..0 : FALSE
      BY <1>3
    <2> QED BY <1>3, <1>6, <2>1, <2>3, <2>4, <2>5, <2>6 DEF Suppressing
  <1>7. ASSUME c # "<", ~(p = 1 /\ c = "tool_"), ~(p = 2 /\ c \in Tags)
        PROVE  Normally(t, v, k + 1, g, 0)
    <2>1. v[k + 2] \in Seq(Tokens) /\ v[k - p + 1] = Append(q, c) \o v[k + 2]
      BY <1>7, <1>9
    <2>2. Append(q, c) \in Seq(Tokens)
      BY <1>1, <1>2, AppendIs
    <2>3. (f.out \o Append(q, c)) \o v[k + 2] = f.out \o (Append(q, c) \o v[k + 2])
      BY <1>2, <2>1, <2>2, JoinAssociates
    <2>4. g.closing = <<>> /\ g.pending = <<>> /\ g.out = f.out \o Append(q, c)
      BY <1>3, <1>7
    <2>5. g.out \o v[k + 2] = v[1] /\ (k + 1) - 0 + 1 = k + 2
      <3>1. (k + 1) - 0 + 1 = k + 2
        BY <1>1
      <3>2. g.out \o v[k + 2] = v[1]
        BY <1>2, <2>1, <2>3, <2>4, Zenon
      <3> QED BY <3>1, <3>2
    <2>6. 0 \in 0..2 /\ 0 <= k + 1 /\ Len(<<>>) = 0 /\ ~(0 >= 1) /\ ~(0 = 2) /\ \A i \in 1..0 : FALSE
      BY <1>1
    <2> QED BY <1>3, <2>4, <2>5, <2>6 DEF Normally
  <1>8. g \in Filters
    BY <1>3
  <1> QED BY <1>4, <1>5, <1>6, <1>7, <1>8 DEF Filtering, g, c

LEMMA SuppressedStep ==
  ASSUME NEW t \in Seq(Tokens), NEW v, Reads(t, v), NEW k \in 0..(Len(t) - 1),
         NEW f \in Filters, NEW d, NEW i, NEW m, Suppressing(t, v, k, f, d, i, m)
  PROVE  Filtering(t, v, k + 1, FeedToken(f, t[k + 1]))
  <1> DEFINE q == f.closing_pending
             c == t[k + 1]
             z == Close(d)
             g == FeedToken(f, c)
  <1>1. /\ Len(t) \in Nat /\ k \in Nat /\ k + 1 <= Len(t) /\ c \in Tokens
        /\ i \in Nat /\ 1 <= i /\ m \in 0..3 /\ m \in Nat /\ i + 2 + m <= k
    <2>1. /\ Len(t) \in Nat /\ k \in Nat /\ k + 1 <= Len(t)
          /\ i \in Nat /\ 1 <= i /\ m \in 0..3 /\ m \in Nat /\ i + 2 + m <= k
      BY LenIs DEF Suppressing
    <2>2. k + 1 \in 1..Len(t)
      BY <2>1
    <2> QED BY <2>1, <2>2, LenIs
  <1>2. /\ d \in Tags /\ Opens(t, i, d) /\ f.closing = z /\ f.pending = <<>> /\ Len(q) = m
        /\ \A x \in 1..m : q[x] = z[x] /\ t[k - m + x] = z[x]
        /\ \A j \in i..(k - m) : ~Closes(t, j, d)
        /\ f.out \o v[i] = v[1] /\ q \in Seq(Tokens)
    BY DEF Suppressing, Filters
  <1>3. /\ z \in Seq(Tokens) /\ Len(z) = 4
        /\ z[1] = "<" /\ z[2] = "/" /\ z[3] = "tool_" /\ z[4] = d /\ d # "<"
    BY <1>2, TagsAre DEF Tags
  <1>4. /\ g \in Filters /\ g.out = f.out /\ g.pending = <<>>
        /\ c = z[m + 1] /\ m = 3 => g.closing = <<>> /\ g.closing_pending = <<>>
        /\ c = z[m + 1] /\ m # 3 => g.closing = z /\ g.closing_pending = Append(q, c)
        /\ c # z[m + 1] /\ c = "<" => g.closing = z /\ g.closing_pending = <<"<">>
        /\ c # z[m + 1] /\ c # "<" => g.closing = z /\ g.closing_pending = <<>>
    <2>1. Len(f.closing_pending) = m /\ Len(f.closing_pending) <= 3
          /\ \A x \in 1..Len(f.closing_pending) : f.closing_pending[x] = z[x]
      BY <1>1, <1>2
    <2>2. LET n == Len(f.closing_pending)
          IN  /\ g \in Filters /\ g.out = f.out /\ g.pending = <<>>
              /\ c = z[n + 1] /\ n = 3 => g.closing = <<>> /\ g.closing_pending = <<>>
              /\ c = z[n + 1] /\ n # 3 => g.closing = z /\ g.closing_pending = Append(q, c)
              /\ c # z[n + 1] /\ c = "<" => g.closing = z /\ g.closing_pending = <<"<">>
              /\ c # z[n + 1] /\ c # "<" => g.closing = z /\ g.closing_pending = <<>>
      <3>1. c \in Tokens /\ d \in Tags /\ f.closing = Close(d) /\ f.pending = <<>>
        BY <1>1, <1>2
      <3> QED BY <2>1, <3>1, FeedsSuppressed
    <2> HIDE DEF g, z, c
    <2> QED BY <2>1, <2>2
  <1> HIDE DEF g, z
  <1>5. ASSUME c # z[m + 1], NEW j \in i..k PROVE ~Closes(t, j, d)
    <2>1. CASE j <= k - m
      <3>1. j \in i..(k - m)
        BY <1>1, <2>1
      <3> QED BY <1>2, <3>1
    <2>2. CASE j > k - m
      <3> SUFFICES ASSUME Closes(t, j, d) PROVE FALSE
        OBVIOUS
      <3> DEFINE x == j - (k - m)
      <3>1. x \in 1..m /\ k - m + x = j /\ x \in Nat
        BY <1>1, <2>2
      <3>2. z[x] = "<"
        BY <1>2, <3>1 DEF Closes
      <3> HIDE DEF x
      <3>3. x = 1
        <4>1. x = 1 \/ x = 2 \/ x = 3
          BY <1>1, <3>1
        <4> QED BY <1>3, <3>2, <4>1
      <3>4. k + 1 = j + m /\ (m = 1 \/ m = 2 \/ m = 3)
        BY <1>1, <3>1, <3>3
      <3>5. t[j + 1] = "/" /\ t[j + 2] = "tool_" /\ t[j + 3] = d
        BY DEF Closes
      <3>6. CASE m = 1
        BY <1>3, <1>5, <3>4, <3>5, <3>6
      <3>7. CASE m = 2
        BY <1>3, <1>5, <3>4, <3>5, <3>7
      <3>8. CASE m = 3
        BY <1>3, <1>5, <3>4, <3>5, <3>8
      <3> QED BY <3>4, <3>6, <3>7, <3>8
    <2> QED BY <1>1, <2>1, <2>2
  <1>6. ASSUME c = z[m + 1], m = 3 PROVE Normally(t, v, k + 1, g, 0)
    <2> DEFINE j == k - 2
    <2>1. /\ j \in i..Len(t) /\ j + 3 = k + 1 /\ j + 4 = k + 2 /\ i \in 1..Len(t)
          /\ k - m + 1 = j /\ k - m + 2 = j + 1 /\ k - m + 3 = j + 2
          /\ 1 \in 1..m /\ 2 \in 1..m /\ 3 \in 1..m /\ j - 1 = k - m /\ j + 3 <= Len(t)
      BY <1>1, <1>6
    <2> HIDE DEF j
    <2>2. t[j] = "<" /\ t[j + 1] = "/" /\ t[j + 2] = "tool_"
      BY <1>2, <1>3, <2>1
    <2>3. t[j + 3] = d
      BY <1>3, <1>6, <2>1
    <2>4. Closes(t, j, d)
      BY <2>1, <2>2, <2>3 DEF Closes
    <2>5. \A x \in i..(j - 1) : ~Closes(t, x, d)
      BY <1>2, <2>1
    <2>6. v[i] = v[k + 2]
      <3>1. \A x \in i..Len(t) : Closes(t, x, d) /\ (\A y \in i..(x - 1) : ~Closes(t, y, d))
                                  => v[i] = v[x + 4]
        BY <1>2, <2>1 DEF Reads
      <3>2. v[i] = v[j + 4]
        BY <2>1, <2>4, <2>5, <3>1
      <3> QED BY <2>1, <3>2
    <2>7. g.out \o v[k + 2] = v[1] /\ (k + 1) - 0 + 1 = k + 2
      <3>1. (k + 1) - 0 + 1 = k + 2
        BY <1>1
      <3>2. g.out \o v[k + 2] = v[1]
        BY <1>2, <1>4, <2>6, Zenon
      <3> QED BY <3>1, <3>2
    <2>8. 0 \in 0..2 /\ 0 <= k + 1 /\ Len(<<>>) = 0 /\ ~(0 >= 1) /\ ~(0 = 2) /\ \A x \in 1..0 : FALSE
      BY <1>1
    <2> QED BY <1>4, <1>6, <2>7, <2>8 DEF Normally
  <1>7. ASSUME c = z[m + 1], m # 3 PROVE Suppressing(t, v, k + 1, g, d, i, m + 1)
    <2>1. /\ Append(q, c) \in Seq(Tokens) /\ Len(Append(q, c)) = m + 1
          /\ \A x \in 1..m : Append(q, c)[x] = q[x]
          /\ Append(q, c)[m + 1] = c
      BY <1>1, <1>2, AppendIs
    <2>2. /\ m + 1 \in 0..3 /\ i \in 1..(k + 1) /\ i + 2 + (m + 1) <= k + 1
          /\ (k + 1) - (m + 1) = k - m /\ k - m + (m + 1) = k + 1
          /\ \A x \in 1..(m + 1) : x \in 1..m \/ x = m + 1
      BY <1>1, <1>7
    <2>3. g.closing = z /\ g.closing_pending = Append(q, c)
      BY <1>4, <1>7
    <2>4. \A x \in 1..(m + 1) : Append(q, c)[x] = z[x] /\ t[k - m + x] = z[x]
      BY <1>2, <1>7, <2>1, <2>2
    <2>5. \A x \in 1..(m + 1) : g.closing_pending[x] = z[x] /\ t[(k + 1) - (m + 1) + x] = z[x]
      BY <2>2, <2>3, <2>4
    <2>6. \A j \in i..((k + 1) - (m + 1)) : ~Closes(t, j, d)
      BY <1>2, <2>2
    <2> QED BY <1>2, <1>4, <2>1, <2>2, <2>3, <2>5, <2>6 DEF Suppressing, z
  <1>8. ASSUME c # z[m + 1], c = "<" PROVE Suppressing(t, v, k + 1, g, d, i, 1)
    <2>1. /\ 1 \in 0..3 /\ i \in 1..(k + 1) /\ i + 2 + 1 <= k + 1 /\ (k + 1) - 1 + 1 = k + 1
          /\ (k + 1) - 1 = k /\ \A x \in 1..1 : x = 1
      BY <1>1
    <2>2. g.closing = z /\ g.closing_pending = <<"<">> /\ Len(<<"<">>) = 1 /\ <<"<">>[1] = "<"
      BY <1>4, <1>8
    <2>3. \A x \in 1..1 : g.closing_pending[x] = z[x] /\ t[(k + 1) - 1 + x] = z[x]
      BY <1>3, <1>8, <2>1, <2>2
    <2>4. \A j \in i..((k + 1) - 1) : ~Closes(t, j, d)
      BY <1>5, <1>8, <2>1
    <2> QED BY <1>2, <1>4, <2>1, <2>2, <2>3, <2>4 DEF Suppressing, z
  <1>9. ASSUME c # z[m + 1], c # "<" PROVE Suppressing(t, v, k + 1, g, d, i, 0)
    <2>1. /\ 0 \in 0..3 /\ i \in 1..(k + 1) /\ i + 2 + 0 <= k + 1
          /\ (k + 1) - 0 = k + 1 /\ \A j \in i..(k + 1) : j \in i..k \/ j = k + 1
      BY <1>1
    <2>2. g.closing = z /\ g.closing_pending = <<>> /\ Len(<<>>) = 0 /\ \A x \in 1..0 : FALSE
      BY <1>4, <1>9
    <2>3. ~Closes(t, k + 1, d)
      BY <1>9 DEF Closes
    <2>4. \A j \in i..((k + 1) - 0) : ~Closes(t, j, d)
      BY <1>5, <1>9, <2>1, <2>3
    <2> QED BY <1>2, <1>4, <2>1, <2>2, <2>4 DEF Suppressing, z
  <1> QED BY <1>4, <1>6, <1>7, <1>8, <1>9 DEF Filtering, g

-----------------------------------------------------------------------------
(***************************************************************************)
(* A whole text, in one chunk or in several.                               *)
(***************************************************************************)
LEMMA HeldTyped ==
  ASSUME NEW text \in Seq(Tokens), NEW words, NEW w \in words, w \in Seq(Tokens)
  PROVE  LET held == LongestPrefixSuffix(text, words)
         IN  held \in Seq(Tokens) /\ Len(held) \in 0..Len(text)
  <1> DEFINE L == Len(text)
             T == { m \in 0..L : Matches(text, words, m) }
             U == { L - m : m \in T }
  <1>1. L \in Nat /\ 0 \in 0..Len(text)
    BY LenIs
  <1>2. Matches(text, words, 0)
    <2>1. StartsWith(w, Suffix(text, 0))
              <=> 0 <= Len(w) /\ \A k \in 1..0 : text[Len(text) - 0 + k] = w[k]
      BY <1>1, MatchesIs
    <2>2. 0 <= Len(w) /\ \A k \in 1..0 : FALSE
      BY LenIs
    <2>3. StartsWith(w, Suffix(text, 0))
      BY <2>1, <2>2
    <2> QED BY <2>3 DEF Matches
  <1>3. T \in SUBSET Nat /\ T \in SUBSET (0..L) /\ 0 \in T
    BY <1>1, <1>2
  <1> HIDE DEF T
  <1>4. U \in SUBSET Nat /\ U # {}
    BY <1>1, <1>3
  <1>5. PICK x \in U : \A y \in U : x <= y
    BY <1>4, LeastNumber
  <1>6. PICK n \in T : x = L - n
    BY <1>5
  <1>7. \A m \in T : m <= n
    <2> TAKE m \in T
    <2>1. L - m \in U
      OBVIOUS
    <2>2. L - n <= L - m /\ m \in 0..L /\ n \in 0..L
      BY <1>3, <1>5, <1>6, <2>1
    <2> QED BY <1>1, <2>2
  <1>8. Max(T) = n
    BY <1>3, <1>7, MaxIs
  <1>9. LongestPrefixSuffix(text, words) = Suffix(text, n)
    BY <1>8 DEF LongestPrefixSuffix, Matches, T, L
  <1>10. n \in 0..Len(text)
    BY <1>3, <1>6 DEF L
  <1> QED BY <1>9, <1>10, TextSuffixIs

\* What the filter has let through before has no influence on it.
LEMMA FeedAppends ==
  ASSUME NEW f \in Filters, NEW c \in Tokens, NEW x \in Seq(Tokens)
  PROVE  LET g == FeedToken(f, c)
         IN  /\ g \in Filters
             /\ FeedToken([f EXCEPT !.out = x \o @], c) = [g EXCEPT !.out = x \o @]
  <1> DEFINE o == x \o f.out
             k == [f EXCEPT !.out = o]
             g == FeedToken(f, c)
             h == FeedToken(k, c)
  <1>1. /\ f.pending \in Seq(Tokens) /\ f.closing \in Seq(Tokens)
        /\ f.closing_pending \in Seq(Tokens) /\ f.out \in Seq(Tokens)
        /\ f = [pending |-> f.pending, closing |-> f.closing,
                closing_pending |-> f.closing_pending, out |-> f.out]
    BY DEF Filters
  <1>2. o \in Seq(Tokens) /\ <<>> \in Seq(Tokens)
    BY <1>1, JoinIs
  <1>3. /\ k \in Filters /\ k.pending = f.pending /\ k.closing = f.closing
        /\ k.closing_pending = f.closing_pending /\ k.out = o
    BY <1>2 DEF Filters
  <1> HIDE DEF k
  <1>4. CASE f.closing = <<>>
    <2> DEFINE text == Append(f.pending, c)
               held == LongestPrefixSuffix(text, ReservedStarts)
               said == SubSeq(text, 1, Len(text) - Len(held))
               rc == ReservedClose(held)
               s == f.out \o said
               z == o \o said
    <2>1. g = IF held \in ReservedStarts
              THEN [f EXCEPT !.pending = <<>>, !.closing = rc, !.out = s]
              ELSE [f EXCEPT !.pending = held, !.out = s]
      BY <1>4 DEF FeedToken, FeedNormal
    <2>2. h = IF held \in ReservedStarts
              THEN [k EXCEPT !.pending = <<>>, !.closing = rc, !.out = z]
              ELSE [k EXCEPT !.pending = held, !.out = z]
      BY <1>3, <1>4 DEF FeedToken, FeedNormal
    <2>3. text \in Seq(Tokens)
      BY <1>1, AppendIs
    <2> HIDE DEF text
    <2>4. held \in Seq(Tokens) /\ Len(held) \in 0..Len(text) /\ Len(text) \in Nat
      <3>1. PICK w : w \in ReservedStarts /\ w \in Seq(Tokens)
        BY TagsAre DEF Tags
      <3> QED BY <2>3, <3>1, HeldTyped, LenIs
    <2>5. held \in ReservedStarts => rc \in Seq(Tokens)
      BY TagsAre
    <2> HIDE DEF held, rc
    <2>6. said \in Seq(Tokens)
      <3>1. /\ 1 \in 1..(Len(text) + 1) /\ Len(text) - Len(held) \in 0..Len(text)
            /\ 1 <= (Len(text) - Len(held)) + 1
        BY <2>4
      <3> QED BY <2>3, <3>1, PartIs
    <2> HIDE DEF said
    <2>7. s \in Seq(Tokens) /\ z = x \o s /\ z \in Seq(Tokens)
      <3>1. f.out \o said \in Seq(Tokens) /\ o \o said \in Seq(Tokens)
        BY <1>1, <1>2, <2>6, JoinIs
      <3>2. (x \o f.out) \o said = x \o (f.out \o said)
        BY <1>1, <2>6, JoinAssociates
      <3> QED BY <3>1, <3>2
    <2> HIDE DEF s, z
    <2>8. CASE held \in ReservedStarts
      <3>1. g = [f EXCEPT !.pending = <<>>, !.closing = rc, !.out = s]
        BY <2>1, <2>8
      <3>2. h = [k EXCEPT !.pending = <<>>, !.closing = rc, !.out = z]
        BY <2>2, <2>8
      <3>3. /\ g \in Filters /\ g.pending = <<>> /\ g.closing = rc
            /\ g.closing_pending = f.closing_pending /\ g.out = s
        BY <1>1, <1>2, <2>5, <2>7, <2>8, <3>1 DEF Filters
      <3>4. /\ h \in Filters /\ h.pending = <<>> /\ h.closing = rc
            /\ h.closing_pending = f.closing_pending /\ h.out = z
        BY <1>2, <1>3, <2>5, <2>7, <2>8, <3>2 DEF Filters
      <3> HIDE DEF g, h
      <3>5. h = [g EXCEPT !.out = z]
        BY <3>3, <3>4 DEF Filters
      <3>6. h = [g EXCEPT !.out = x \o g.out]
        BY <2>7, <3>3, <3>5
      <3> QED BY <3>3, <3>6 DEF g, h, k
    <2>9. CASE held \notin ReservedStarts
      <3>1. g = [f EXCEPT !.pending = held, !.out = s]
        BY <2>1, <2>9
      <3>2. h = [k EXCEPT !.pending = held, !.out = z]
        BY <2>2, <2>9
      <3>3. /\ g \in Filters /\ g.pending = held /\ g.closing = f.closing
            /\ g.closing_pending = f.closing_pending /\ g.out = s
        BY <1>1, <2>4, <2>7, <3>1 DEF Filters
      <3>4. /\ h \in Filters /\ h.pending = held /\ h.closing = f.closing
            /\ h.closing_pending = f.closing_pending /\ h.out = z
        BY <1>3, <2>4, <2>7, <3>2 DEF Filters
      <3> HIDE DEF g, h
      <3>5. h = [g EXCEPT !.out = z]
        BY <3>3, <3>4 DEF Filters
      <3>6. h = [g EXCEPT !.out = x \o g.out]
        BY <2>7, <3>3, <3>5
      <3> QED BY <3>3, <3>6 DEF g, h, k
    <2> QED BY <2>8, <2>9
  <1>5. CASE f.closing # <<>>
    <2> DEFINE text == Append(f.closing_pending, c)
               held == LongestPrefixSuffix(text, {f.closing})
    <2>1. g = IF held = f.closing THEN [f EXCEPT !.closing = <<>>, !.closing_pending = <<>>]
              ELSE [f EXCEPT !.closing_pending = held]
      BY <1>5 DEF FeedToken, FeedSuppressed
    <2>2. h = IF held = f.closing THEN [k EXCEPT !.closing = <<>>, !.closing_pending = <<>>]
              ELSE [k EXCEPT !.closing_pending = held]
      BY <1>3, <1>5 DEF FeedToken, FeedSuppressed
    <2>3. text \in Seq(Tokens)
      BY <1>1, AppendIs
    <2> HIDE DEF text
    <2>4. held \in Seq(Tokens)
      <3>1. f.closing \in {f.closing}
        OBVIOUS
      <3> QED BY <1>1, <2>3, <3>1, HeldTyped
    <2> HIDE DEF held
    <2>5. CASE held = f.closing
      <3>1. g = [f EXCEPT !.closing = <<>>, !.closing_pending = <<>>]
        BY <2>1, <2>5
      <3>2. h = [k EXCEPT !.closing = <<>>, !.closing_pending = <<>>]
        BY <2>2, <2>5
      <3>3. /\ g \in Filters /\ g.pending = f.pending /\ g.closing = <<>>
            /\ g.closing_pending = <<>> /\ g.out = f.out
        BY <1>1, <1>2, <3>1 DEF Filters
      <3>4. /\ h \in Filters /\ h.pending = f.pending /\ h.closing = <<>>
            /\ h.closing_pending = <<>> /\ h.out = o
        BY <1>2, <1>3, <3>2 DEF Filters
      <3> HIDE DEF g, h
      <3>5. h = [g EXCEPT !.out = o]
        BY <3>3, <3>4 DEF Filters
      <3>6. h = [g EXCEPT !.out = x \o g.out]
        BY <3>3, <3>5
      <3> QED BY <3>3, <3>6 DEF g, h, k
    <2>6. CASE held # f.closing
      <3>1. g = [f EXCEPT !.closing_pending = held]
        BY <2>1, <2>6
      <3>2. h = [k EXCEPT !.closing_pending = held]
        BY <2>2, <2>6
      <3>3. /\ g \in Filters /\ g.pending = f.pending /\ g.closing = f.closing
            /\ g.closing_pending = held /\ g.out = f.out
        BY <1>1, <2>4, <3>1 DEF Filters
      <3>4. /\ h \in Filters /\ h.pending = f.pending /\ h.closing = f.closing
            /\ h.closing_pending = held /\ h.out = o
        BY <1>3, <2>4, <3>2 DEF Filters
      <3> HIDE DEF g, h
      <3>5. h = [g EXCEPT !.out = o]
        BY <3>3, <3>4 DEF Filters
      <3>6. h = [g EXCEPT !.out = x \o g.out]
        BY <3>3, <3>5
      <3> QED BY <3>3, <3>6 DEF g, h, k
    <2> QED BY <2>5, <2>6
  <1> QED BY <1>4, <1>5

\* u is the filter after each token of the text.
Fed(f, text, u) ==
  /\ u \in [0..Len(text) -> Filters] /\ u[0] = [f EXCEPT !.out = <<>>]
  /\ \A n \in 1..Len(text) : u[n] = FeedToken(u[n - 1], text[n])
  /\ Feed(f, text) = u[Len(text)]

LEMMA FeedRuns ==
  ASSUME NEW f \in Filters, NEW text \in Seq(Tokens)
  PROVE  \E u : Fed(f, text, u)
  <1> DEFINE L == Len(text)
             e == [f EXCEPT !.out = <<>>]
             step == [p \in Filters \X (1..L) |-> FeedToken(p[1], text[p[2]])]
             D(c) == c = [n \in 0..L |-> IF n = 0 THEN e ELSE FeedToken(c[n - 1], text[n])]
  <1>1. L \in Nat /\ \A n \in 1..L : text[n] \in Tokens
    BY LenIs
  <1>2. \A v \in Filters, n \in 1..L : step[<<v, n>>] = FeedToken(v, text[n])
    OBVIOUS
  <1>3. Feed(f, text) = (CHOOSE c : D(c))[L]
    BY DEF Feed
  <1>4. e \in Filters
    <2>1. <<>> \in Seq(Tokens)
      OBVIOUS
    <2> QED BY <2>1 DEF Filters
  <1> HIDE DEF L, e, step, D
  <1>5. \A v \in Filters, n \in 1..L : FeedToken(v, text[n]) \in Filters
    <2>1. <<>> \in Seq(Tokens)
      OBVIOUS
    <2> QED BY <1>1, <2>1, FeedAppends
  <1>6. PICK g : Iterates(g, Filters, e, step, L)
    <2>1. \A v \in Filters, n \in 1..L : step[<<v, n>>] \in Filters
      BY <1>2, <1>5
    <2> QED BY <1>1, <1>4, <2>1, Iterated
  <1>7. /\ g \in [0..L -> Filters] /\ g[0] = e
        /\ \A n \in 1..L : g[n] = step[<<g[n - 1], n>>]
    BY <1>6 DEF Iterates
  <1>8. \A n \in 1..L : n - 1 \in 0..L /\ n \in 0..L /\ n # 0
    BY <1>1
  <1>9. D(g)
    <2>1. \A n \in 1..L : g[n] = FeedToken(g[n - 1], text[n])
      <3> TAKE n \in 1..L
      <3>1. g[n - 1] \in Filters
        BY <1>7, <1>8
      <3>2. step[<<g[n - 1], n>>] = FeedToken(g[n - 1], text[n])
        BY <1>2, <3>1
      <3> QED BY <1>7, <3>2
    <2>2. \A n \in 0..L : n = 0 \/ (n \in 1..L /\ n # 0)
      BY <1>1
    <2>3. \A n \in 0..L : g[n] = IF n = 0 THEN e ELSE FeedToken(g[n - 1], text[n])
      BY <1>7, <2>1, <2>2
    <2>4. g = [n \in 0..L |-> g[n]]
      BY <1>7
    <2> QED BY <2>3, <2>4 DEF D
  <1> DEFINE c == CHOOSE c : D(c)
  <1>10. D(c)
    BY <1>9
  <1> HIDE DEF c
  <1>11. /\ c = [n \in 0..L |-> c[n]] /\ c[0] = e
         /\ \A n \in 1..L : c[n] = FeedToken(c[n - 1], text[n])
    <2>1. c = [n \in 0..L |-> IF n = 0 THEN e ELSE FeedToken(c[n - 1], text[n])]
      BY <1>10 DEF D
    <2>2. \A n \in 0..L : c[n] = IF n = 0 THEN e ELSE FeedToken(c[n - 1], text[n])
      BY <2>1
    <2>3. c[0] = e
      BY <1>1, <2>2
    <2>4. \A n \in 1..L : c[n] = FeedToken(c[n - 1], text[n])
      BY <1>8, <2>2
    <2>5. c = [n \in 0..L |-> c[n]]
      BY <2>1, <2>2
    <2> QED BY <2>3, <2>4, <2>5
  <1>12. \A n \in 0..L : c[n] \in Filters
    <2> DEFINE S == { n \in Nat : n <= L => c[n] \in Filters }
    <2>1. 0 \in S
      BY <1>4, <1>11
    <2>2. ASSUME NEW n \in Nat, n \in S PROVE n + 1 \in S
      <3> SUFFICES ASSUME n + 1 <= L PROVE c[n + 1] \in Filters
        OBVIOUS
      <3>1. c[n] \in Filters /\ n + 1 \in 1..L /\ (n + 1) - 1 = n
        BY <1>1, <2>2
      <3> QED BY <3>1, <1>5, <1>11
    <2> HIDE DEF S
    <2>3. Nat \subseteq S
      BY <2>1, <2>2, CountingUp
    <2> TAKE n \in 0..L
    <2>4. n \in S /\ n <= L
      BY <1>1, <2>3
    <2> QED BY <2>4 DEF S
  <1>13. c \in [0..L -> Filters]
    BY <1>11, <1>12
  <1>14. Feed(f, text) = c[L]
    BY <1>3 DEF c
  <1>15. Fed(f, text, c)
    BY <1>11, <1>13, <1>14 DEF Fed, L, e
  <1> QED BY <1>15

LEMMA NewFilterIs ==
  /\ NewFilter \in Filters /\ NewFilter.pending = <<>> /\ NewFilter.closing = <<>>
  /\ NewFilter.closing_pending = <<>> /\ NewFilter.out = <<>>
  /\ [NewFilter EXCEPT !.out = <<>>] = NewFilter
  <1>1. <<>> \in Seq(Tokens)
    OBVIOUS
  <1>2. /\ NewFilter.pending = <<>> /\ NewFilter.closing = <<>>
        /\ NewFilter.closing_pending = <<>> /\ NewFilter.out = <<>>
        /\ [NewFilter EXCEPT !.out = <<>>] = NewFilter
    BY DEF NewFilter
  <1>3. NewFilter \in Filters
    BY <1>1 DEF NewFilter, Filters
  <1> QED BY <1>2, <1>3

LEMMA FilterRuns ==
  ASSUME NEW t \in Seq(Tokens), NEW v, Reads(t, v)
  PROVE  Filtering(t, v, Len(t), Feed(NewFilter, t))
  <1> DEFINE N == Len(t)
  <1>1. N \in Nat
    BY LenIs
  <1>2. PICK u : Fed(NewFilter, t, u)
    BY NewFilterIs, FeedRuns
  <1>3. /\ u \in [0..N -> Filters] /\ u[0] = NewFilter
        /\ \A n \in 1..N : u[n] = FeedToken(u[n - 1], t[n])
        /\ Feed(NewFilter, t) = u[N]
    BY <1>2, NewFilterIs DEF Fed
  <1> HIDE DEF N
  <1> DEFINE S == { n \in Nat : n <= N => Filtering(t, v, n, u[n]) }
  <1>4. 0 \in S
    <2>1. v[1] \in Seq(Tokens)
      <3>1. 1 \in 1..(Len(t) + 1)
        BY <1>1 DEF N
      <3> QED BY <3>1 DEF Reads
    <2>2. <<>> \o v[0 - 0 + 1] = v[1]
      <3>1. 0 - 0 + 1 = 1
        OBVIOUS
      <3> QED BY <2>1, <3>1, JoinIs
    <2>3. Normally(t, v, 0, NewFilter, 0)
      <3>1. Len(NewFilter.pending) = 0
        BY NewFilterIs
      <3> QED BY <2>2, <3>1, NewFilterIs DEF Normally
    <2>4. Filtering(t, v, 0, u[0])
      BY <1>3, <2>3, NewFilterIs DEF Filtering
    <2> QED BY <2>4
  <1>5. ASSUME NEW n \in Nat, n \in S PROVE n + 1 \in S
    <2> SUFFICES ASSUME n + 1 <= N PROVE Filtering(t, v, n + 1, u[n + 1])
      OBVIOUS
    <2>1. n \in 0..(Len(t) - 1) /\ n + 1 \in 1..N /\ (n + 1) - 1 = n /\ n <= N
      BY <1>1 DEF N
    <2>2. Filtering(t, v, n, u[n]) /\ u[n + 1] = FeedToken(u[n], t[n + 1])
      BY <1>3, <1>5, <2>1
    <2>3. u[n] \in Filters
      BY <2>2 DEF Filtering
    <2>4. ASSUME NEW p, Normally(t, v, n, u[n], p)
          PROVE  Filtering(t, v, n + 1, FeedToken(u[n], t[n + 1]))
      BY <2>1, <2>3, <2>4, NormalStep
    <2>5. ASSUME NEW d, NEW i, NEW m, Suppressing(t, v, n, u[n], d, i, m)
          PROVE  Filtering(t, v, n + 1, FeedToken(u[n], t[n + 1]))
      BY <2>1, <2>3, <2>5, SuppressedStep
    <2>6. (\E p : Normally(t, v, n, u[n], p)) \/ \E d, i, m : Suppressing(t, v, n, u[n], d, i, m)
      BY <2>2 DEF Filtering
    <2> QED BY <2>2, <2>4, <2>5, <2>6
  <1> HIDE DEF S
  <1>6. N \in S
    <2>1. Nat \subseteq S
      BY <1>4, <1>5, CountingUp
    <2> QED BY <1>1, <2>1
  <1>7. Filtering(t, v, N, u[N])
    BY <1>1, <1>6 DEF S
  <1> QED BY <1>3, <1>7 DEF N

\* sanitize_late_tool_protocol is what the text says without its envelopes.
LEMMA FinishedIs ==
  ASSUME NEW t \in Seq(Tokens), NEW v, Reads(t, v), NEW f \in Filters,
         NEW p, Normally(t, v, Len(t), f, p)
  PROVE  Finish(f) \in Seq(Tokens) /\ f.out \o Finish(f) = v[1]
  <1> DEFINE N == Len(t)
             q == f.pending
  <1>1. /\ N \in Nat /\ p \in 0..2 /\ p <= N /\ f.closing = <<>>
        /\ q \in Seq(Tokens) /\ Len(q) = p /\ \A i \in 1..p : q[i] = t[N - p + i]
        /\ p >= 1 => q[1] = "<"
        /\ p = 2 => q[2] = "tool_"
        /\ f.out \in Seq(Tokens) /\ f.out \o v[N - p + 1] = v[1]
    BY LenIs DEF Normally, Filters
  <1>2. v[N + 1] = <<>> /\ <<>> \in Seq(Tokens) /\ \A i \in 1..(N + 1) : v[i] \in Seq(Tokens)
    BY DEF Reads
  <1>3. Finish(f) = IF StartsWith(q, <<"<", "tool_">>) THEN <<>> ELSE q
    BY <1>1 DEF Finish
  <1> DEFINE x == <<"<", "tool_">>
  <1>4. x \in Seq(Tokens) /\ Len(x) = 2 /\ x[1] = "<" /\ x[2] = "tool_"
    <2>1. "<" \in Tokens /\ "tool_" \in Tokens
      BY DEF Tokens
    <2> QED BY <2>1, PairIs
  <1> HIDE DEF x, q
  <1>5. StartsWith(q, x) <=> 2 <= p /\ \A k \in 1..2 : x[k] = q[k]
    BY <1>1, <1>4, PrefixIs DEF StartsWith
  <1>6. CASE p = 0
    <2>1. q = <<>> /\ N - p + 1 = N + 1 /\ ~(2 <= p)
      BY <1>1, <1>6
    <2>2. Finish(f) = <<>>
      BY <1>3, <1>5, <2>1 DEF x
    <2> QED BY <1>1, <1>2, <2>1, <2>2
  <1>7. CASE p = 1
    <2>1. N - p + 1 = N /\ N \in 1..N /\ N - p + 1 \in 1..N /\ 1 \in 1..p /\ ~(2 <= p) /\ N # 0
      BY <1>1, <1>7
    <2>2. t[N] = "<" /\ q[1] = "<" /\ q[1] = t[N]
      BY <1>1, <1>7, <2>1
    <2>3. ~EndsInTag(t, N) /\ \A c \in Tags : ~Opens(t, N, c)
      <3>1. N + 1 # Len(t) /\ ~(N + 2 <= Len(t))
        BY <1>1
      <3> QED BY <3>1 DEF EndsInTag, Opens
    <2>4. v[N] = <<t[N]>> \o v[N + 1]
      BY <2>1, <2>3 DEF Reads, N
    <2>5. <<t[N]>> \in Seq(Tokens)
      BY <2>1, LenIs DEF N
    <2>6. v[N] = <<t[N]>>
      BY <1>2, <2>4, <2>5, JoinIs
    <2>7. q = <<t[N]>>
      BY <1>1, <1>7, <2>2
    <2>8. Finish(f) = q
      BY <1>3, <1>5, <2>1 DEF x
    <2> QED BY <1>1, <2>1, <2>6, <2>7, <2>8
  <1>8. CASE p = 2
    <2>1. /\ N - p + 1 = N - 1 /\ N - 1 \in 1..N /\ N - p + 2 = N /\ 1 \in 1..p /\ 2 \in 1..p
          /\ (N - 1) + 1 = N
      BY <1>1, <1>8
    <2>2. t[N - 1] = "<" /\ t[N] = "tool_" /\ q[1] = "<" /\ q[2] = "tool_"
      BY <1>1, <1>8, <2>1
    <2>3. EndsInTag(t, N - 1)
      BY <2>1, <2>2 DEF EndsInTag, N
    <2>4. v[N - 1] = <<>>
      BY <2>1, <2>3 DEF Reads, N
    <2>5. Finish(f) = <<>>
      <3>1. \A k \in 1..2 : k = 1 \/ k = 2
        OBVIOUS
      <3>2. StartsWith(q, x)
        BY <1>4, <1>5, <1>8, <2>2, <3>1
      <3> QED BY <1>3, <3>2 DEF x
    <2> QED BY <1>1, <1>2, <2>1, <2>4, <2>5
  <1> QED BY <1>1, <1>6, <1>7, <1>8

LEMMA SuppressedIs ==
  ASSUME NEW t \in Seq(Tokens), NEW v, Reads(t, v), NEW f \in Filters,
         NEW d, NEW i, NEW m, Suppressing(t, v, Len(t), f, d, i, m)
  PROVE  Finish(f) \in Seq(Tokens) /\ f.out \o Finish(f) = v[1]
  <1> DEFINE N == Len(t)
  <1>1. /\ N \in Nat /\ d \in Tags /\ i \in 1..N /\ m \in 0..3 /\ i + 2 + m <= N /\ Opens(t, i, d)
        /\ f.closing = Close(d) /\ \A j \in i..(N - m) : ~Closes(t, j, d)
        /\ f.out \in Seq(Tokens) /\ f.out \o v[i] = v[1] /\ <<>> \in Seq(Tokens)
    BY LenIs DEF Suppressing, Filters
  <1>2. \A j \in i..N : ~Closes(t, j, d)
    <2> TAKE j \in i..N
    <2>1. CASE j \in i..(N - m)
      BY <1>1, <2>1
    <2>2. CASE j \notin i..(N - m)
      <3>1. ~(j + 3 <= N)
        BY <1>1, <2>2
      <3> QED BY <3>1 DEF Closes, N
    <2> QED BY <2>1, <2>2
  <1>3. v[i] = <<>>
    BY <1>1, <1>2 DEF Reads, N
  <1>4. Finish(f) = <<>>
    <2>1. Close(d) # <<>>
      <3> DEFINE z == Close(d)
      <3>1. z \in Seq(Tokens) /\ Len(z) = 4
        BY <1>1, TagsAre
      <3> HIDE DEF z
      <3>2. z # <<>>
        BY <3>1, EmptySeq
      <3> QED BY <3>2 DEF z
    <2> QED BY <1>1, <2>1 DEF Finish
  <1> QED BY <1>1, <1>3, <1>4

LEMMA SanitizeIs ==
  ASSUME NEW t \in Seq(Tokens)
  PROVE  LET f == Feed(NewFilter, t)
         IN  /\ f \in Filters /\ Finish(f) \in Seq(Tokens) /\ f.out \in Seq(Tokens)
             /\ f.out \o Finish(f) = Visible(t) /\ Visible(t) \in Seq(Tokens)
             /\ \E w \in Seq(Tokens) : Visible(t) = f.out \o w
  <1> DEFINE f == Feed(NewFilter, t)
  <1>1. PICK v : Reads(t, v)
    BY VisibleRuns
  <1>2. Filtering(t, v, Len(t), f)
    BY <1>1, FilterRuns
  <1> HIDE DEF f
  <1>3. f \in Filters /\ f.out \in Seq(Tokens)
    BY <1>2 DEF Filtering, Filters
  <1>4. Finish(f) \in Seq(Tokens) /\ f.out \o Finish(f) = v[1]
    <2>1. ASSUME NEW p, Normally(t, v, Len(t), f, p)
          PROVE  Finish(f) \in Seq(Tokens) /\ f.out \o Finish(f) = v[1]
      BY <1>1, <1>3, <2>1, FinishedIs
    <2>2. ASSUME NEW d, NEW i, NEW m, Suppressing(t, v, Len(t), f, d, i, m)
          PROVE  Finish(f) \in Seq(Tokens) /\ f.out \o Finish(f) = v[1]
      BY <1>1, <1>3, <2>2, SuppressedIs
    <2> QED BY <1>2, <2>1, <2>2 DEF Filtering
  <1>5. Visible(t) = v[1]
    BY <1>1 DEF Reads
  <1>6. Visible(t) \in Seq(Tokens)
    <2>1. f.out \o Finish(f) \in Seq(Tokens)
      BY <1>3, <1>4, JoinIs
    <2> QED BY <1>4, <1>5, <2>1, Zenon
  <1> QED BY <1>3, <1>4, <1>5, <1>6 DEF f

\* A filter with something in front of what it has let through.
Shifted(f, x) == [f EXCEPT !.out = x \o @]
Emptied(f) == [f EXCEPT !.out = <<>>]

LEMMA ShiftedIs ==
  ASSUME NEW f \in Filters, NEW x \in Seq(Tokens)
  PROVE  /\ Shifted(f, x) \in Filters /\ Shifted(f, x).out = x \o f.out
         /\ Emptied(f) \in Filters /\ Emptied(f).out = <<>> /\ Emptied(Emptied(f)) = Emptied(f)
         /\ Emptied(Shifted(f, x)) = Emptied(f) /\ Finish(Shifted(f, x)) = Finish(f)
         /\ Finish(Emptied(f)) = Finish(f)
         /\ Shifted(Emptied(f), f.out) = f /\ f.out \in Seq(Tokens)
  <1> DEFINE o == x \o f.out
             g == Shifted(f, x)
             e == Emptied(f)
  <1>1. /\ f.pending \in Seq(Tokens) /\ f.closing \in Seq(Tokens)
        /\ f.closing_pending \in Seq(Tokens) /\ f.out \in Seq(Tokens)
    BY DEF Filters
  <1>2. o \in Seq(Tokens) /\ <<>> \in Seq(Tokens) /\ f.out \o <<>> = f.out
    BY <1>1, JoinIs
  <1>3. g = [f EXCEPT !.out = o]
    BY DEF Shifted
  <1> HIDE DEF o, g, e
  <1>4. /\ g \in Filters /\ g.pending = f.pending /\ g.closing = f.closing
        /\ g.closing_pending = f.closing_pending /\ g.out = o
    BY <1>2, <1>3 DEF Filters
  <1>5. /\ e \in Filters /\ e.pending = f.pending /\ e.closing = f.closing
        /\ e.closing_pending = f.closing_pending /\ e.out = <<>>
    BY <1>2 DEF Filters, Emptied, e
  <1>6. Emptied(g) = e
    BY <1>2, <1>3 DEF Emptied, e, Filters
  <1>7. Emptied(e) = e
    BY <1>5 DEF Emptied, Filters
  <1>8. Finish(g) = Finish(f) /\ Finish(e) = Finish(f)
    BY <1>4, <1>5 DEF Finish
  <1>9. Shifted(e, f.out) = f
    <2>1. Shifted(e, f.out) = [e EXCEPT !.out = f.out \o e.out]
      BY DEF Shifted
    <2>2. f.out \o e.out = f.out
      BY <1>2, <1>5
    <2>3. Shifted(e, f.out) = [e EXCEPT !.out = f.out]
      BY <2>1, <2>2
    <2>4. [e EXCEPT !.out = f.out] = f
      BY <1>1, <1>5 DEF Filters
    <2> QED BY <2>3, <2>4
  <1> QED BY <1>1, <1>4, <1>5, <1>6, <1>7, <1>8, <1>9 DEF g, e, o

LEMMA FeedNothing ==
  ASSUME NEW f \in Filters
  PROVE  Feed(f, <<>>) = Emptied(f)
  <1>1. <<>> \in Seq(Tokens) /\ Len(<<>>) = 0
    OBVIOUS
  <1>2. PICK u : Fed(f, <<>>, u)
    BY <1>1, FeedRuns
  <1> QED BY <1>1, <1>2 DEF Fed, Emptied

\* A text can be fed in two pieces: the filter carries over what it needs.
LEMMA FeedMore ==
  ASSUME NEW a \in Seq(Tokens), NEW b \in Seq(Tokens)
  PROVE  LET A == Feed(NewFilter, a)
             B == Feed(Emptied(A), b)
         IN  /\ A \in Filters /\ B \in Filters /\ a \o b \in Seq(Tokens)
             /\ Feed(NewFilter, a \o b) = Shifted(B, A.out)
  <1> DEFINE M == Len(a)
             N == Len(b)
             c == a \o b
             A == Feed(NewFilter, a)
             e == Emptied(A)
             B == Feed(e, b)
             C == Feed(NewFilter, c)
  <1>1. /\ M \in Nat /\ N \in Nat /\ c \in Seq(Tokens) /\ Len(c) = M + N
        /\ \A n \in 1..M : c[n] = a[n]
        /\ \A n \in 1..N : c[M + n] = b[n]
    BY JoinIs
  <1>2. PICK u : Fed(NewFilter, a, u)
    BY NewFilterIs, FeedRuns
  <1>3. /\ u \in [0..M -> Filters] /\ u[0] = NewFilter
        /\ \A n \in 1..M : u[n] = FeedToken(u[n - 1], a[n])
        /\ A = u[M]
    BY <1>2, NewFilterIs DEF Fed
  <1> HIDE DEF M, A
  <1>4. A \in Filters
    BY <1>1, <1>3
  <1>5. e \in Filters /\ Emptied(e) = e /\ Shifted(e, A.out) = A /\ A.out \in Seq(Tokens)
    BY <1>4, ShiftedIs
  <1> HIDE DEF e
  <1>6. PICK v : Fed(e, b, v)
    BY <1>5, FeedRuns
  <1>7. /\ v \in [0..N -> Filters] /\ v[0] = e
        /\ \A n \in 1..N : v[n] = FeedToken(v[n - 1], b[n])
        /\ B = v[N]
    BY <1>5, <1>6 DEF Fed, Emptied
  <1> HIDE DEF c
  <1>8. PICK w : Fed(NewFilter, c, w)
    BY <1>1, NewFilterIs, FeedRuns
  <1>9. /\ w \in [0..(M + N) -> Filters] /\ w[0] = NewFilter
        /\ \A n \in 1..(M + N) : w[n] = FeedToken(w[n - 1], c[n])
        /\ C = w[M + N]
    BY <1>1, <1>8, NewFilterIs DEF Fed
  <1> HIDE DEF N, B, C
  <1>10. w[M] = A
    <2> DEFINE S == { n \in Nat : n <= M => w[n] = u[n] }
    <2>1. 0 \in S
      BY <1>3, <1>9
    <2>2. ASSUME NEW n \in Nat, n \in S PROVE n + 1 \in S
      <3> SUFFICES ASSUME n + 1 <= M PROVE w[n + 1] = u[n + 1]
        OBVIOUS
      <3>1. n + 1 \in 1..M /\ n + 1 \in 1..(M + N) /\ (n + 1) - 1 = n /\ n <= M
        BY <1>1
      <3>2. w[n] = u[n] /\ c[n + 1] = a[n + 1]
        BY <1>1, <2>2, <3>1
      <3>3. w[n + 1] = FeedToken(w[n], c[n + 1])
        BY <1>9, <3>1
      <3>4. u[n + 1] = FeedToken(u[n], a[n + 1])
        BY <1>3, <3>1
      <3> QED BY <3>2, <3>3, <3>4
    <2> HIDE DEF S
    <2>3. M \in S
      <3>1. Nat \subseteq S
        BY <2>1, <2>2, CountingUp
      <3> QED BY <1>1, <3>1
    <2> QED BY <1>1, <1>3, <2>3 DEF S
  <1>11. \A n \in 1..N : b[n] \in Tokens
    BY LenIs DEF N
  <1>12. w[M + N] = Shifted(v[N], A.out)
    <2> DEFINE S == { n \in Nat : n <= N => w[M + n] = Shifted(v[n], A.out) }
    <2>1. 0 \in S
      <3>1. M + 0 = M
        BY <1>1
      <3>2. w[M + 0] = Shifted(v[0], A.out)
        BY <1>5, <1>7, <1>10, <3>1
      <3> QED BY <3>2
    <2>2. ASSUME NEW n \in Nat, n \in S PROVE n + 1 \in S
      <3> SUFFICES ASSUME n + 1 <= N PROVE w[M + (n + 1)] = Shifted(v[n + 1], A.out)
        OBVIOUS
      <3>1. /\ n + 1 \in 1..N /\ M + (n + 1) \in 1..(M + N) /\ (n + 1) - 1 = n /\ n <= N
            /\ (M + (n + 1)) - 1 = M + n /\ n \in 0..N
        BY <1>1
      <3>2. w[M + n] = Shifted(v[n], A.out) /\ c[M + (n + 1)] = b[n + 1]
        BY <1>1, <2>2, <3>1
      <3>3. w[M + (n + 1)] = FeedToken(w[M + n], b[n + 1])
        <4>1. w[M + (n + 1)] = FeedToken(w[(M + (n + 1)) - 1], c[M + (n + 1)])
          BY <1>9, <3>1
        <4> QED BY <3>1, <3>2, <4>1
      <3>4. v[n + 1] = FeedToken(v[n], b[n + 1]) /\ v[n] \in Filters /\ b[n + 1] \in Tokens
        BY <1>7, <1>11, <3>1
      <3>5. FeedToken(Shifted(v[n], A.out), b[n + 1]) = Shifted(FeedToken(v[n], b[n + 1]), A.out)
        <4> DEFINE f == v[n]
                   d == b[n + 1]
                   x == A.out
        <4>1. f \in Filters /\ d \in Tokens /\ x \in Seq(Tokens)
          BY <1>5, <3>4
        <4> HIDE DEF f, d, x
        <4>2. FeedToken(Shifted(f, x), d) = Shifted(FeedToken(f, d), x)
          BY <4>1, FeedAppends DEF Shifted
        <4> QED BY <4>2 DEF f, d, x
      <3> QED BY <3>2, <3>3, <3>4, <3>5
    <2> HIDE DEF S
    <2>3. N \in S
      <3>1. Nat \subseteq S
        BY <2>1, <2>2, CountingUp
      <3> QED BY <1>1, <3>1
    <2> QED BY <1>1, <2>3 DEF S
  <1>13. B \in Filters
    BY <1>1, <1>7
  <1>14. C = Shifted(B, A.out)
    BY <1>7, <1>9, <1>12
  <1> QED BY <1>1, <1>4, <1>13, <1>14 DEF A, B, C, c, e

-----------------------------------------------------------------------------
(***************************************************************************)
(* A streamed candidate.  What went to the filter is r, what was shown of  *)
(* it has no white space at either end, and the gate holds back the rest.  *)
(***************************************************************************)
Candidates == [raw : Seq(Tokens), chunks : Nat, mode : {"prefix", "tool", "normal"},
               buffer : Seq(Tokens), filter : Filters, held : Seq(Tokens)]

Said(r) == Feed(NewFilter, r).out
Relayed(c, sh, r) ==
  /\ c.filter = Emptied(Feed(NewFilter, r))
  /\ sh = Strip(Said(r)) /\ sh \o c.held = Lstrip(Said(r))

LEMMA StripIs ==
  ASSUME NEW t \in Seq(Tokens)
  PROVE  Strip(t) \in Seq(Tokens) /\ Lstrip(t) \in Seq(Tokens)
  <1>1. Lstrip(t) \in Seq(Tokens)
    BY LstripIs
  <1>2. Rstrip(Lstrip(t)) \in Seq(Tokens)
    BY <1>1, RstripIs
  <1> QED BY <1>1, <1>2 DEF Strip

LEMMA NothingIs ==
  /\ <<>> \in Seq(Tokens) /\ Strip(<<>>) = <<>> /\ Lstrip(<<>>) = <<>>
  /\ Feed(NewFilter, <<>>) = NewFilter /\ Said(<<>>) = <<>>
  /\ NewCandidate \in Candidates /\ Relayed(NewCandidate, <<>>, <<>>)
  /\ NewCandidate.raw = <<>> /\ NewCandidate.mode = "prefix" /\ NewCandidate.buffer = <<>>
  /\ Classify(<<>>) = "ambiguous"
  <1>1. <<>> \in Seq(Tokens) /\ Blank(<<>>) /\ <<>> \o <<>> = <<>>
    BY DEF Blank
  <1>2. Lstrip(<<>>) = <<>>
    BY <1>1, LstripAt
  <1>3. Rstrip(<<>>) = <<>>
    BY <1>1, RstripIs
  <1>4. Strip(<<>>) = <<>>
    BY <1>2, <1>3 DEF Strip
  <1>5. Feed(NewFilter, <<>>) = NewFilter
    BY NewFilterIs, FeedNothing DEF Emptied
  <1>6. Said(<<>>) = <<>> /\ Emptied(NewFilter) = NewFilter
    BY <1>5, NewFilterIs DEF Said, Emptied
  <1>7. /\ NewCandidate.raw = <<>> /\ NewCandidate.mode = "prefix" /\ NewCandidate.buffer = <<>>
        /\ NewCandidate.filter = NewFilter /\ NewCandidate.held = <<>> /\ NewCandidate.chunks = 0
    BY DEF NewCandidate
  <1>8. NewCandidate \in Candidates
    BY <1>1, NewFilterIs DEF NewCandidate, Candidates
  <1>9. Relayed(NewCandidate, <<>>, <<>>)
    BY <1>1, <1>2, <1>4, <1>5, <1>6, <1>7 DEF Relayed
  <1>10. Classify(<<>>) = "ambiguous"
    BY <1>1, NormalStays
  <1> QED BY <1>1, <1>2, <1>4, <1>5, <1>6, <1>7, <1>8, <1>9, <1>10

\* More text for the filter of a candidate.
GoesOn(f, r, b) ==
  /\ f.out \in Seq(Tokens) /\ Finish(f) \in Seq(Tokens) /\ Said(r) \in Seq(Tokens)
  /\ r \o b \in Seq(Tokens) /\ f.out \o Finish(f) \in Seq(Tokens)
  /\ f \in Filters /\ Emptied(f) = Emptied(Feed(NewFilter, r \o b))
  /\ Said(r \o b) = Said(r) \o f.out
  /\ Visible(r \o b) = Said(r) \o (f.out \o Finish(f))

LEMMA RelayedMore ==
  ASSUME NEW c \in Candidates, NEW sh, NEW r \in Seq(Tokens), NEW b \in Seq(Tokens),
         Relayed(c, sh, r)
  PROVE  GoesOn(Feed(c.filter, b), r, b)
  <1> DEFINE f == Feed(c.filter, b)
             A == Feed(NewFilter, r)
             C == Feed(NewFilter, r \o b)
  <1>1. A \in Filters /\ f \in Filters /\ r \o b \in Seq(Tokens) /\ C = Shifted(f, A.out)
    <2>1. c.filter = Emptied(A)
      BY DEF Relayed
    <2> QED BY <2>1, FeedMore
  <1>2. /\ C \in Filters /\ Finish(C) \in Seq(Tokens) /\ C.out \o Finish(C) = Visible(r \o b)
    BY <1>1, SanitizeIs
  <1> HIDE DEF f, A, C
  <1>3. A.out \in Seq(Tokens) /\ f.out \in Seq(Tokens)
    BY <1>1 DEF Filters
  <1>4. C.out = A.out \o f.out /\ Emptied(C) = Emptied(f) /\ Finish(C) = Finish(f)
    BY <1>1, <1>3, ShiftedIs
  <1>5. Finish(f) \in Seq(Tokens)
    BY <1>2, <1>4
  <1>6. f.out \o Finish(f) \in Seq(Tokens)
    BY <1>3, <1>5, JoinIs
  <1>7. (A.out \o f.out) \o Finish(f) = A.out \o (f.out \o Finish(f))
    BY <1>3, <1>5, JoinAssociates
  <1>8. Visible(r \o b) = A.out \o (f.out \o Finish(f))
    BY <1>2, <1>4, <1>7, Zenon
  <1>9. Said(r) = A.out /\ Said(r \o b) = C.out
    BY DEF Said, A, C
  <1>10. Said(r \o b) = Said(r) \o f.out
    BY <1>4, <1>9, Zenon
  <1>11. Visible(r \o b) = Said(r) \o (f.out \o Finish(f))
    BY <1>8, <1>9, Zenon
  <1>12. Said(r) \in Seq(Tokens)
    BY <1>3, <1>9
  <1>13. Emptied(f) = Emptied(Feed(NewFilter, r \o b))
    BY <1>4 DEF C
  <1> QED BY <1>1, <1>3, <1>5, <1>6, <1>10, <1>11, <1>12, <1>13 DEF f, GoesOn

LEMMA RelayedIsVisible ==
  ASSUME NEW c \in Candidates, NEW sh, NEW r \in Seq(Tokens), NEW b \in Seq(Tokens),
         Relayed(c, sh, r)
  PROVE  StartsWith(Strip(Visible(r \o b)), sh)
  <1> DEFINE f == Feed(c.filter, b)
             w == f.out \o Finish(f)
  <1>1. Said(r) \in Seq(Tokens) /\ w \in Seq(Tokens) /\ Visible(r \o b) = Said(r) \o w
    <2>1. GoesOn(f, r, b)
      BY RelayedMore
    <2> QED BY <2>1 DEF GoesOn
  <1> HIDE DEF w
  <1>2. IsPrefix(Strip(Said(r)), Strip(Said(r) \o w))
    BY <1>1, StripGrows
  <1>3. sh = Strip(Said(r))
    BY DEF Relayed
  <1>4. IsPrefix(sh, Strip(Visible(r \o b)))
    BY <1>1, <1>2, <1>3, Zenon
  <1> QED BY <1>4 DEF StartsWith

LEMMA NormalizeKeeps ==
  ASSUME NEW c \in Candidates, NEW text \in Seq(Tokens), NEW said \in Seq(Tokens),
         shown \in Seq(Tokens), shown = Strip(said), shown \o c.held = Lstrip(said),
         Normalize(c, text)
  PROVE  /\ shown' \in Seq(Tokens) /\ shown' = Strip(said \o text)
         /\ shown' \o candidate'.held = Lstrip(said \o text)
         /\ candidate' \in Candidates /\ candidate'.raw = c.raw /\ candidate'.mode = c.mode
         /\ candidate'.buffer = c.buffer /\ candidate'.filter = c.filter
  <1> DEFINE held == c.held
             pending == Pending(shown, held, text)
             delta == Rstrip(pending)
             rest == SubSeq(pending, Len(delta) + 1, Len(pending))
             s == shown \o delta
  <1>1. held \in Seq(Tokens)
    BY DEF Candidates
  <1>2. shown' = s /\ candidate' = [c EXCEPT !.held = rest]
    BY DEF Normalize, Pending
  <1> HIDE DEF held
  <1>3. shown \o held = Lstrip(said)
    BY DEF held
  <1>4. /\ s \in Seq(Tokens) /\ s = Strip(said \o text)
        /\ rest \in Seq(Tokens) /\ s \o rest = Lstrip(said \o text)
    <2>1. Shows(shown, held, said, text)
      BY <1>1, <1>3, NormalizeIs
    <2> QED BY <2>1 DEF Shows
  <1> HIDE DEF rest, s
  <1>5. /\ candidate' \in Candidates /\ candidate'.raw = c.raw /\ candidate'.mode = c.mode
        /\ candidate'.buffer = c.buffer /\ candidate'.filter = c.filter
        /\ candidate'.held = rest
    BY <1>2, <1>4 DEF Candidates
  <1> QED BY <1>2, <1>4, <1>5

\* The gate of a candidate c, when sh has been shown.
Gate(c, sh, live) ==
  /\ c \in Candidates /\ sh \in Seq(Tokens)
  /\ ~live \/ c.mode = "tool" => sh = <<>>
  /\ live /\ c.mode = "prefix" =>
       Relayed(c, sh, <<>>) /\ c.buffer = c.raw /\ Classify(c.raw) = "ambiguous"
  /\ live /\ c.mode = "normal" =>
       Relayed(c, sh, c.raw) /\ c.buffer = <<>> /\ Classify(c.raw) = "normal"

\* Of a turn without constraints.  At its end the answer is left.
Live == phase \notin {"done", "failed"}
VInv ==
  ~Constrained =>
    /\ phase \in {"compile", "guard", "generate", "told", "done", "failed"}
    /\ Live => Gate(candidate, shown, streaming) /\ answer = NoAnswer
    /\ VisibleText

LEMMA NothingShown ==
  ASSUME NEW t \in Seq(Tokens)
  PROVE  StartsWith(Strip(Visible(t)), <<>>)
  <1>1. Visible(t) \in Seq(Tokens)
    BY SanitizeIs
  <1>2. Strip(Visible(t)) \in Seq(Tokens) /\ <<>> \in Seq(Tokens) /\ Len(<<>>) = 0
    BY <1>1, StripIs
  <1>3. IsPrefix(<<>>, Strip(Visible(t)))
    <2>1. <<>> \o Strip(Visible(t)) = Strip(Visible(t))
      BY <1>2, JoinIs
    <2>2. IsPrefix(<<>>, <<>> \o Strip(Visible(t)))
      BY <1>2, JoinIs
    <2> QED BY <2>1, <2>2, Zenon
  <1> QED BY <1>3 DEF StartsWith

LEMMA GateShows ==
  ASSUME NEW c, NEW sh, NEW live, Gate(c, sh, live)
  PROVE  /\ StartsWith(Strip(Visible(c.raw)), sh)
         /\ Classify(c.raw) = "reserved" => sh = <<>>
  <1>1. c.raw \in Seq(Tokens) /\ c.mode \in {"prefix", "tool", "normal"} /\ c \in Candidates
    BY DEF Gate, Candidates
  <1>2. CASE ~live \/ c.mode = "tool"
    <2>1. sh = <<>>
      BY <1>2 DEF Gate
    <2> QED BY <1>1, <2>1, NothingShown
  <1>3. CASE live /\ c.mode = "prefix"
    <2>1. Relayed(c, sh, <<>>) /\ Classify(c.raw) = "ambiguous"
      BY <1>3 DEF Gate
    <2>2. <<>> \o c.raw = c.raw /\ <<>> \in Seq(Tokens)
      BY <1>1, JoinIs
    <2>3. StartsWith(Strip(Visible(<<>> \o c.raw)), sh)
      BY <1>1, <2>1, <2>2, RelayedIsVisible
    <2>4. StartsWith(Strip(Visible(c.raw)), sh)
      BY <2>2, <2>3, Zenon
    <2> QED BY <2>1, <2>4
  <1>4. CASE live /\ c.mode = "normal"
    <2>1. Relayed(c, sh, c.raw) /\ Classify(c.raw) = "normal"
      BY <1>4 DEF Gate
    <2>2. c.raw \o <<>> = c.raw /\ <<>> \in Seq(Tokens)
      BY <1>1, JoinIs
    <2>3. StartsWith(Strip(Visible(c.raw \o <<>>)), sh)
      BY <1>1, <2>1, <2>2, RelayedIsVisible
    <2>4. StartsWith(Strip(Visible(c.raw)), sh)
      BY <2>2, <2>3, Zenon
    <2> QED BY <2>1, <2>4
  <1> QED BY <1>1, <1>2, <1>3, <1>4

LEMMA RelayKeeps ==
  ASSUME NEW c \in Candidates, NEW text \in Seq(Tokens), NEW r \in Seq(Tokens),
         shown \in Seq(Tokens), Relayed(c, shown, r), c.raw = r \o text,
         Classify(c.raw) = "normal", Relay(c, text)
  PROVE  Gate(candidate', shown', TRUE)
  <1> DEFINE f == Feed(c.filter, text)
             e == Emptied(f)
             d == [c EXCEPT !.mode = "normal", !.buffer = <<>>, !.filter = e]
  <1>1. GoesOn(f, r, text)
    BY RelayedMore
  <1>2. Normalize(d, f.out)
    BY DEF Relay, Emptied
  <1> HIDE DEF f
  <1>3. /\ f.out \in Seq(Tokens) /\ Said(r) \in Seq(Tokens) /\ f \in Filters
        /\ e = Emptied(Feed(NewFilter, r \o text)) /\ Said(r \o text) = Said(r) \o f.out
    BY <1>1 DEF GoesOn
  <1>4. e \in Filters
    <2>1. <<>> \in Seq(Tokens)
      OBVIOUS
    <2> QED BY <1>3, <2>1, ShiftedIs
  <1> HIDE DEF e
  <1>5. /\ d \in Candidates /\ d.raw = c.raw /\ d.mode = "normal" /\ d.buffer = <<>>
        /\ d.filter = e /\ d.held = c.held
    <2>1. <<>> \in Seq(Tokens)
      OBVIOUS
    <2> QED BY <1>4, <2>1 DEF Candidates
  <1> HIDE DEF d
  <1>6. shown = Strip(Said(r)) /\ shown \o d.held = Lstrip(Said(r))
    BY <1>5 DEF Relayed
  <1>7. /\ shown' \in Seq(Tokens) /\ shown' = Strip(Said(r) \o f.out)
        /\ shown' \o candidate'.held = Lstrip(Said(r) \o f.out)
        /\ candidate' \in Candidates /\ candidate'.raw = d.raw /\ candidate'.mode = d.mode
        /\ candidate'.buffer = d.buffer /\ candidate'.filter = d.filter
    BY <1>2, <1>3, <1>5, <1>6, NormalizeKeeps
  <1>8. Relayed(candidate', shown', c.raw)
    BY <1>3, <1>5, <1>7 DEF Relayed
  <1> QED BY <1>5, <1>7, <1>8 DEF Gate

LEMMA WritesKeep ==
  ASSUME Gate(candidate, shown, streaming), NEW chunk \in Chunks, ModelWrites(chunk)
  PROVE  Gate(candidate', shown', streaming)
  <1> DEFINE raw == candidate.raw \o chunk
             buffer == candidate.buffer \o chunk
             n == candidate.chunks + 1
             c == [candidate EXCEPT !.raw = raw, !.chunks = n]
  <1>1. chunk \in Seq(Tokens)
    <2>1. Chunks \subseteq Seq(STRING)
      BY GenerationAssumption
    <2>2. STRING \subseteq Tokens
      BY DEF Tokens
    <2> QED BY <2>1, <2>2, SeqMonotonic
  <1>2. /\ candidate \in Candidates /\ shown \in Seq(Tokens) /\ candidate.raw \in Seq(Tokens)
        /\ candidate.buffer \in Seq(Tokens) /\ candidate.chunks \in Nat
        /\ candidate.mode \in {"prefix", "tool", "normal"}
    BY DEF Gate, Candidates
  <1>3. raw \in Seq(Tokens) /\ buffer \in Seq(Tokens) /\ n \in Nat
    BY <1>1, <1>2, JoinIs
  <1>4. /\ ~streaming \/ c.mode = "tool" => candidate' = c /\ shown' = shown
        /\ streaming /\ c.mode = "normal" => Relay(c, chunk)
        /\ streaming /\ c.mode = "prefix" =>
             /\ Classify(buffer) = "ambiguous" =>
                  candidate' = [c EXCEPT !.buffer = buffer] /\ shown' = shown
             /\ Classify(buffer) = "reserved" =>
                  candidate' = [c EXCEPT !.mode = "tool", !.buffer = <<>>] /\ shown' = shown
             /\ Classify(buffer) = "normal" => Relay(c, buffer)
    <2>1. ASSUME ~streaming \/ c.mode = "tool" PROVE candidate' = c /\ shown' = shown
      BY <2>1 DEF ModelWrites
    <2>2. ASSUME ~(~streaming \/ c.mode = "tool"), c.mode = "normal" PROVE Relay(c, chunk)
      BY <2>2 DEF ModelWrites
    <2>4. ASSUME streaming, c.mode = "prefix", Classify(buffer) = "ambiguous"
          PROVE  candidate' = [c EXCEPT !.buffer = buffer] /\ shown' = shown
      BY <2>4 DEF ModelWrites
    <2>5. ASSUME streaming, c.mode = "prefix", Classify(buffer) = "reserved"
          PROVE  candidate' = [c EXCEPT !.mode = "tool", !.buffer = <<>>] /\ shown' = shown
      BY <2>5 DEF ModelWrites
    <2>6. ASSUME streaming, c.mode = "prefix", Classify(buffer) = "normal"
          PROVE  Relay(c, buffer)
      BY <2>6 DEF ModelWrites
    <2> QED BY <2>1, <2>2, <2>4, <2>5, <2>6
  <1> HIDE DEF raw, buffer, n
  <1>5. /\ c \in Candidates /\ c.raw = raw /\ c.mode = candidate.mode
        /\ c.buffer = candidate.buffer /\ c.filter = candidate.filter /\ c.held = candidate.held
    BY <1>2, <1>3 DEF Candidates
  <1> HIDE DEF c
  <1>6. CASE ~streaming \/ c.mode = "tool"
    <2>1. candidate' = c /\ shown' = shown /\ shown = <<>>
      BY <1>4, <1>5, <1>6 DEF Gate
    <2> QED BY <1>2, <1>5, <1>6, <2>1 DEF Gate
  <1>7. CASE streaming /\ c.mode = "normal"
    <2>1. Relayed(candidate, shown, candidate.raw) /\ Classify(candidate.raw) = "normal"
      BY <1>5, <1>7 DEF Gate
    <2>2. Relayed(c, shown, candidate.raw)
      BY <1>5, <2>1 DEF Relayed
    <2>3. Classify(raw) = "normal"
      BY <1>1, <1>2, <2>1, NormalStays DEF raw
    <2>4. Relay(c, chunk)
      BY <1>4, <1>7
    <2>5. c.raw = candidate.raw \o chunk /\ Classify(c.raw) = "normal"
      BY <1>5, <2>3 DEF raw
    <2>6. Gate(candidate', shown', TRUE)
      BY <1>1, <1>2, <1>5, <2>2, <2>4, <2>5, RelayKeeps
    <2> QED BY <1>7, <2>6 DEF Gate
  <1>8. CASE streaming /\ c.mode = "prefix"
    <2>1. /\ Relayed(candidate, shown, <<>>) /\ candidate.buffer = candidate.raw
          /\ Classify(candidate.raw) = "ambiguous"
      BY <1>5, <1>8 DEF Gate
    <2>2. Relayed(c, shown, <<>>) /\ buffer = raw /\ shown = <<>>
      <3>1. Relayed(c, shown, <<>>) /\ buffer = raw
        BY <1>5, <2>1 DEF Relayed, buffer, raw
      <3> QED BY <2>1, <3>1, NothingIs DEF Relayed
    <2>3. Classify(buffer) \in {"reserved", "ambiguous", "normal"}
      <3>1. <<>> \in Seq(Tokens)
        OBVIOUS
      <3> QED BY <1>3, <3>1, NormalStays
    <2>4. CASE Classify(buffer) = "ambiguous"
      <3>1. candidate' = [c EXCEPT !.buffer = buffer] /\ shown' = shown
        BY <1>4, <1>8, <2>4
      <3>2. /\ candidate' \in Candidates /\ candidate'.raw = raw /\ candidate'.mode = "prefix"
            /\ candidate'.buffer = raw /\ candidate'.filter = c.filter /\ candidate'.held = c.held
        BY <1>3, <1>5, <1>8, <2>2, <3>1 DEF Candidates
      <3>3. Relayed(candidate', shown', <<>>)
        BY <2>2, <3>1, <3>2 DEF Relayed
      <3> QED BY <1>2, <1>8, <2>2, <2>4, <3>1, <3>2, <3>3 DEF Gate
    <2>5. CASE Classify(buffer) = "reserved"
      <3>1. candidate' = [c EXCEPT !.mode = "tool", !.buffer = <<>>] /\ shown' = shown
        BY <1>4, <1>8, <2>5
      <3>2. candidate' \in Candidates /\ candidate'.mode = "tool"
        <4>1. <<>> \in Seq(Tokens)
          OBVIOUS
        <4> QED BY <1>5, <3>1, <4>1 DEF Candidates
      <3> QED BY <1>2, <1>8, <2>2, <3>1, <3>2 DEF Gate
    <2>6. CASE Classify(buffer) = "normal"
      <3>1. Relay(c, buffer)
        BY <1>4, <1>8, <2>6
      <3>2. <<>> \in Seq(Tokens) /\ c.raw = <<>> \o buffer /\ Classify(c.raw) = "normal"
        <4>1. <<>> \o buffer = buffer
          BY <1>3, JoinIs
        <4> QED BY <1>5, <2>2, <2>6, <4>1
      <3>3. Gate(candidate', shown', TRUE)
        BY <1>2, <1>3, <1>5, <2>2, <3>1, <3>2, RelayKeeps
      <3> QED BY <1>8, <3>3 DEF Gate
    <2> QED BY <2>3, <2>4, <2>5, <2>6
  <1> QED BY <1>2, <1>5, <1>6, <1>7, <1>8

LEMMA EndShows ==
  ASSUME Gate(candidate, shown, streaming), streaming, candidate.mode # "tool",
         LET f == Feed(candidate.filter, candidate.buffer)
         IN  Normalize([candidate EXCEPT !.buffer = <<>>], f.out \o Finish(f))
  PROVE  /\ shown' = Strip(Visible(candidate.raw)) /\ candidate'.raw = candidate.raw
         /\ Classify(candidate.raw) # "reserved"
  <1> DEFINE r == IF candidate.mode = "prefix" THEN <<>> ELSE candidate.raw
             b == candidate.buffer
             c == [candidate EXCEPT !.buffer = <<>>]
             f == Feed(candidate.filter, b)
             w == f.out \o Finish(f)
  <1>1. /\ candidate \in Candidates /\ shown \in Seq(Tokens) /\ candidate.raw \in Seq(Tokens)
        /\ b \in Seq(Tokens) /\ candidate.mode \in {"prefix", "tool", "normal"}
        /\ <<>> \in Seq(Tokens)
    BY DEF Gate, Candidates
  <1>2. /\ r \in Seq(Tokens) /\ Relayed(candidate, shown, r) /\ candidate.raw = r \o b
        /\ Classify(candidate.raw) \in {"ambiguous", "normal"}
    <2>1. CASE candidate.mode = "prefix"
      <3>1. /\ Relayed(candidate, shown, <<>>) /\ b = candidate.raw /\ r = <<>>
            /\ Classify(candidate.raw) = "ambiguous"
        BY <2>1 DEF Gate
      <3>2. <<>> \o b = b
        BY <1>1, JoinIs
      <3> QED BY <1>1, <3>1, <3>2
    <2>2. CASE candidate.mode = "normal"
      <3>1. /\ Relayed(candidate, shown, candidate.raw) /\ b = <<>> /\ r = candidate.raw
            /\ Classify(candidate.raw) = "normal"
        BY <2>2 DEF Gate
      <3>2. candidate.raw \o <<>> = candidate.raw
        BY <1>1, JoinIs
      <3> QED BY <1>1, <3>1, <3>2
    <2> QED BY <1>1, <2>1, <2>2
  <1>3. Normalize(c, w)
    OBVIOUS
  <1>4. c \in Candidates /\ c.raw = candidate.raw /\ c.held = candidate.held
    BY <1>1 DEF Candidates
  <1> HIDE DEF r, b, c
  <1>5. GoesOn(f, r, b)
    BY <1>1, <1>2, RelayedMore
  <1>6. /\ w \in Seq(Tokens) /\ Said(r) \in Seq(Tokens)
        /\ Visible(r \o b) = Said(r) \o w
    <2> HIDE DEF f
    <2> QED BY <1>5 DEF GoesOn
  <1> HIDE DEF w
  <1>7. shown = Strip(Said(r)) /\ shown \o c.held = Lstrip(Said(r))
    BY <1>2, <1>4 DEF Relayed
  <1>8. shown' = Strip(Said(r) \o w) /\ candidate'.raw = c.raw
    BY <1>1, <1>3, <1>4, <1>6, <1>7, NormalizeKeeps
  <1>9. shown' = Strip(Visible(candidate.raw))
    BY <1>2, <1>6, <1>8, Zenon
  <1> QED BY <1>2, <1>4, <1>8, <1>9

LEMMA NewCandidateGate ==
  ASSUME NEW live
  PROVE  Gate(NewCandidate, <<>>, live)
  BY NothingIs DEF Gate

LEMMA VisibleInit == Init => VInv
  <1> SUFFICES ASSUME Init, ~Constrained PROVE VInv
    BY DEF VInv
  <1>1. /\ phase = "compile" /\ candidate = NewCandidate /\ shown = <<>> /\ answer = NoAnswer
    BY DEF Init
  <1>2. Gate(candidate, shown, streaming)
    BY <1>1, NewCandidateGate
  <1>3. answer.kind = "none"
    BY <1>1 DEF NoAnswer
  <1>4. VisibleText
    BY <1>2, <1>3, GateShows DEF VisibleText
  <1> QED BY <1>1, <1>2, <1>4 DEF VInv, Live

\* A turn that goes on.
LEMMA GoesOnVisibly ==
  ASSUME Gate(candidate', shown', streaming'), answer' = NoAnswer,
         phase' \in {"compile", "guard", "generate", "told", "done", "failed"}
  PROVE  VInv'
  <1>1. /\ StartsWith(Strip(Visible(candidate'.raw)), shown')
        /\ Classify(candidate'.raw) = "reserved" => shown' = <<>>
    <2> DEFINE c == candidate'
               sh == shown'
               live == streaming'
    <2>1. Gate(c, sh, live)
      OBVIOUS
    <2> HIDE DEF c, sh, live
    <2>2. /\ StartsWith(Strip(Visible(c.raw)), sh)
          /\ Classify(c.raw) = "reserved" => sh = <<>>
      BY <2>1, GateShows
    <2> QED BY <2>2 DEF c, sh
  <1>2. answer'.kind = "none"
    BY DEF NoAnswer
  <1>3. VisibleText'
    BY <1>1, <1>2 DEF VisibleText
  <1> QED BY <1>3 DEF VInv, Live

LEMMA ToolKeeps ==
  ASSUME shown' = <<>>, answer = NoAnswer, NEW payload, UseTool(payload)
  PROVE  VInv'
  <1>1. candidate' = NewCandidate /\ phase' \in {"told", "failed"} /\ answer' = NoAnswer
    BY DEF UseTool, Fail
  <1>2. Gate(candidate', shown', streaming')
    <2>1. Gate(NewCandidate, <<>>, streaming')
      BY NewCandidateGate
    <2> QED BY <1>1, <2>1
  <1> QED BY <1>1, <1>2, GoesOnVisibly

LEMMA StreamEndsKeeps ==
  ASSUME Gate(candidate, shown, streaming), answer = NoAnswer, StreamEnds
  PROVE  VInv'
  <1>1. streaming
    BY DEF StreamEnds
  <1>2. CASE candidate.mode = "tool"
    <2>1. PICK payload : UseTool(payload)
      BY <1>2 DEF StreamEnds
    <2>2. shown' = <<>>
      BY <1>2 DEF StreamEnds, Gate
    <2> QED BY <2>1, <2>2, ToolKeeps
  <1>3. CASE candidate.mode # "tool"
    <2>1. /\ LET f == Feed(candidate.filter, candidate.buffer)
             IN  Normalize([candidate EXCEPT !.buffer = <<>>], f.out \o Finish(f))
          /\ IF shown' = <<>> THEN Fail ELSE DeliverStreamed
      BY <1>3 DEF StreamEnds
    <2>2. /\ shown' = Strip(Visible(candidate.raw)) /\ candidate'.raw = candidate.raw
          /\ Classify(candidate.raw) # "reserved"
      BY <1>1, <1>3, <2>1, EndShows
    <2>3. candidate.raw \in Seq(Tokens)
      BY DEF Gate, Candidates
    <2>4. StartsWith(Strip(Visible(candidate'.raw)), shown')
      <3> DEFINE x == Strip(Visible(candidate.raw))
      <3>1. Visible(candidate.raw) \in Seq(Tokens)
        BY <2>3, SanitizeIs
      <3>2. x \in Seq(Tokens)
        BY <3>1, StripIs
      <3>3. shown' = x /\ Strip(Visible(candidate'.raw)) = x
        BY <2>2
      <3> HIDE DEF x
      <3>4. IsPrefix(x, x)
        BY <3>2, PrefixIs
      <3> QED BY <3>3, <3>4 DEF StartsWith
    <2>5. CASE shown' = <<>>
      <3>1. phase' = "failed" /\ answer'.kind = "none"
        BY <2>1, <2>5 DEF Fail, NoAnswer
      <3> QED BY <2>2, <2>4, <3>1 DEF VInv, Live, VisibleText
    <2>6. CASE shown' # <<>>
      <3>1. phase' = "done" /\ answer' = [response |-> shown', kind |-> "streamed"]
        BY <2>1, <2>6 DEF DeliverStreamed, Deliver
      <3>2. answer'.kind = "streamed" /\ answer'.response = shown'
        BY <3>1
      <3> QED BY <2>2, <2>4, <3>1, <3>2 DEF VInv, Live, VisibleText
    <2> QED BY <2>5, <2>6
  <1> QED BY <1>2, <1>3

LEMMA BufferEndsKeeps ==
  ASSUME Gate(candidate, shown, streaming), answer = NoAnswer, BufferEnds
  PROVE  VInv'
  <1> DEFINE response == Strip(candidate.raw)
             text == Strip(Sanitize(response))
  <1>1. shown = <<>> /\ shown' = <<>> /\ candidate.raw \in Seq(Tokens)
    BY DEF BufferEnds, Gate, Candidates
  <1>2. text = Strip(Visible(response))
    <2>1. response \in Seq(Tokens)
      BY <1>1, StripIs
    <2> HIDE DEF response
    <2>2. Sanitize(response) = Visible(response)
      BY <2>1, SanitizeIs DEF Sanitize
    <2> QED BY <2>2
  <1>3. CASE Classify(response) = "reserved"
    <2>1. PICK payload : UseTool(payload)
      BY <1>3 DEF BufferEnds
    <2> QED BY <1>1, <2>1, ToolKeeps
  <1>4. CASE Classify(response) # "reserved"
    <2>1. candidate' = candidate /\ IF text = <<>> THEN Fail ELSE Deliver(text, "buffered")
      BY <1>4 DEF BufferEnds
    <2>2. StartsWith(Strip(Visible(candidate'.raw)), shown')
      <3>1. StartsWith(Strip(Visible(candidate.raw)), <<>>)
        BY <1>1, NothingShown
      <3> QED BY <1>1, <2>1, <3>1
    <2> HIDE DEF text
    <2>3. CASE text = <<>>
      <3>1. phase' = "failed" /\ answer'.kind = "none"
        BY <2>1, <2>3 DEF Fail, NoAnswer
      <3> QED BY <1>1, <2>2, <3>1 DEF VInv, Live, VisibleText
    <2>4. CASE text # <<>>
      <3>1. phase' = "done" /\ answer' = [response |-> text, kind |-> "buffered"]
        BY <2>1, <2>4 DEF Deliver
      <3>2. answer'.kind = "buffered" /\ answer'.response = text
        BY <3>1
      <3>3. answer'.response = Strip(Visible(Strip(candidate'.raw)))
        BY <1>2, <2>1, <3>2
      <3> QED BY <1>1, <2>2, <3>1, <3>2, <3>3 DEF VInv, Live, VisibleText
    <2> QED BY <2>3, <2>4
  <1> QED BY <1>3, <1>4

LEMMA VisibleStep == VInv /\ [Next]_vars => VInv'
  <1> SUFFICES ASSUME VInv, [Next]_vars, ~Constrained' PROVE VInv'
    BY DEF VInv
  <1>1. CASE UNCHANGED vars
    <2>1. UNCHANGED <<phase, constraints, streaming, candidate, shown, answer>>
      BY <1>1 DEF vars
    <2> QED BY <2>1 DEF VInv, Live, Constrained, VisibleText
  <1>2. CASE Next
    <2>1. constraints' = constraints /\ streaming' = streaming
      BY <1>2 DEF Next, Compile, Guard, StreamEnds, BufferEnds, ConstrainedTool, AskAgain, Broken,
                  ModelWrites, FirstAnswer, Retry
    <2>2. ~Constrained
      BY <2>1 DEF Constrained
    <2>3. /\ phase \in {"compile", "guard", "generate", "told", "done", "failed"}
          /\ Live => Gate(candidate, shown, streaming) /\ answer = NoAnswer
      BY <2>2 DEF VInv
    <2>4. CASE Compile \/ AskAgain
      <3>1. /\ phase' \in {"guard", "generate"} /\ Live
            /\ UNCHANGED <<candidate, shown, streaming, answer>>
        BY <2>4 DEF Compile, AskAgain, Live
      <3>2. Gate(candidate', shown', streaming') /\ answer' = NoAnswer
        BY <2>3, <3>1
      <3> QED BY <3>1, <3>2, GoesOnVisibly
    <2>5. CASE Guard
      <3>1. Live /\ UNCHANGED <<candidate, streaming>>
        BY <2>5 DEF Guard, Live
      <3>2. CASE phase' = "generate" /\ UNCHANGED <<answer, shown>>
        <4>1. Gate(candidate', shown', streaming') /\ answer' = NoAnswer
          BY <2>3, <3>1, <3>2
        <4> QED BY <3>2, <4>1, GoesOnVisibly
      <3>3. CASE \E text \in Answers : Deliver(text, "guard")
        <4>1. phase' = "done" /\ answer'.kind = "guard"
          BY <3>3 DEF Deliver
        <4> QED BY <4>1 DEF VInv, Live, VisibleText
      <3> QED BY <2>5, <3>2, <3>3 DEF Guard
    <2>6. CASE StreamEnds
      <3>1. Live
        BY <2>6 DEF StreamEnds, Generating, Live
      <3> QED BY <2>3, <2>6, <3>1, StreamEndsKeeps
    <2>7. CASE BufferEnds
      <3>1. Live
        BY <2>7 DEF BufferEnds, Generating, Live
      <3> QED BY <2>3, <2>7, <3>1, BufferEndsKeeps
    <2>8. CASE ConstrainedTool \/ \E text \in Answers : FirstAnswer(text) \/ Retry(text)
      <3>1. Constrained \/ phase = "repair"
        BY <2>8 DEF ConstrainedTool, FirstAnswer, Retry
      <3> QED BY <2>2, <2>3, <3>1
    <2>9. CASE Broken
      <3>1. Live /\ phase' = "failed" /\ UNCHANGED <<candidate, shown, streaming, answer>>
        BY <2>9 DEF Broken, Fail, Live
      <3>2. Gate(candidate', shown', streaming') /\ answer' = NoAnswer
        BY <2>3, <3>1
      <3> QED BY <3>1, <3>2, GoesOnVisibly
    <2>10. CASE \E chunk \in Chunks : ModelWrites(chunk)
      <3>1. PICK chunk \in Chunks : ModelWrites(chunk)
        BY <2>10
      <3>2. Live /\ phase' = "generate" /\ answer' = answer
        BY <3>1 DEF ModelWrites, Generating, Live
      <3>3. Gate(candidate', shown', streaming)
        BY <2>3, <3>1, <3>2, WritesKeep
      <3>4. Gate(candidate', shown', streaming') /\ answer' = NoAnswer
        BY <2>1, <2>3, <3>2, <3>3
      <3> QED BY <3>2, <3>4, GoesOnVisibly
    <2> QED BY <1>2, <2>4, <2>5, <2>6, <2>7, <2>8, <2>9, <2>10 DEF Next
  <1> QED BY <1>1, <1>2

\* Whatever chunks the output of the model arrives in, what is shown of it is
\* a beginning of its text without the envelopes, nothing of a tool call among
\* it; the result is what was shown, and the buffered path gives that text as
\* well, but for the beginning of a tag at its end.
THEOREM NothingIsLeaked == Spec => []VisibleText
  <1>1. VInv => VisibleText
    BY DEF VInv, VisibleText
  <1> QED BY <1>1, VisibleInit, VisibleStep, PTL DEF Spec

-----------------------------------------------------------------------------
(***************************************************************************)
(* What the model is told of its call.                                     *)
(***************************************************************************)
\* The attempt that is being reported came of a call.
Reported == phase = "told" => tool.payload \in Payloads /\ tool = Execute(tool.payload)

LEMMA PayloadIs ==
  ASSUME NEW p \in Payloads
  PROVE  p.kind \in {"malformed", "unknown", "calculator"} /\ p.expression \in Seq(Lexemes)
  BY GenerationAssumption

\* A call that the tool accepts is executed; any other is answered with a
\* failure, and its arguments are not kept.
Executed(p, v, t) ==
  /\ p.kind = "calculator" /\ v.code \in {"ok", "division_by_zero"}
  /\ t.arguments = TRUE /\ t.outcome = v
Refused(p, v, t) ==
  /\ t.arguments = FALSE
  /\ \/ p.kind = "calculator" /\ v.code \notin {"ok", "division_by_zero"} /\ t.outcome = Failure(v.code)
     \/ t.outcome = Failure("malformed_tool_call")
     \/ t.outcome = Failure("unknown_tool")

LEMMA ExecuteIs ==
  ASSUME NEW p \in Payloads
  PROVE  /\ Execute(p).payload = p
         /\ \/ Executed(p, EvaluateExpression(p.expression), Execute(p))
            \/ Refused(p, EvaluateExpression(p.expression), Execute(p))
  <1> DEFINE v == EvaluateExpression(p.expression)
             a == ValidateArguments(p.expression)
             t == Execute(p)
  <1>1. a = IF v.code = "division_by_zero" THEN "ok" ELSE v.code
    BY DEF ValidateArguments
  <1>2. t = CASE p.kind = "malformed" -> FailedToolAttempt(p, "malformed_tool_call")
              [] p.kind = "unknown" -> FailedToolAttempt(p, "unknown_tool")
              [] p.kind = "calculator" -> IF a # "ok" THEN FailedToolAttempt(p, a)
                                          ELSE ToolAttempt(p, TRUE, v)
    BY DEF Execute
  <1>3. p.kind \in {"malformed", "unknown", "calculator"}
    BY PayloadIs
  <1>4. \A c : /\ FailedToolAttempt(p, c).payload = p /\ FailedToolAttempt(p, c).arguments = FALSE
               /\ FailedToolAttempt(p, c).outcome = Failure(c)
    BY DEF FailedToolAttempt, ToolAttempt
  <1>5. /\ ToolAttempt(p, TRUE, v).payload = p /\ ToolAttempt(p, TRUE, v).arguments = TRUE
        /\ ToolAttempt(p, TRUE, v).outcome = v
    BY DEF ToolAttempt
  <1> HIDE DEF v, a, t
  <1>6. CASE p.kind = "malformed"
    <2>1. t = FailedToolAttempt(p, "malformed_tool_call")
      BY <1>2, <1>6
    <2>2. t.payload = p /\ t.arguments = FALSE /\ t.outcome = Failure("malformed_tool_call")
      BY <1>4, <2>1
    <2> QED BY <2>2 DEF Refused, v, t
  <1>7. CASE p.kind = "unknown"
    <2>1. t = FailedToolAttempt(p, "unknown_tool")
      BY <1>2, <1>7
    <2>2. t.payload = p /\ t.arguments = FALSE /\ t.outcome = Failure("unknown_tool")
      BY <1>4, <2>1
    <2> QED BY <2>2 DEF Refused, v, t
  <1>8. CASE p.kind = "calculator"
    <2>1. t = IF a # "ok" THEN FailedToolAttempt(p, a) ELSE ToolAttempt(p, TRUE, v)
      BY <1>2, <1>8
    <2>2. CASE v.code \in {"ok", "division_by_zero"}
      <3>1. t = ToolAttempt(p, TRUE, v)
        BY <1>1, <2>1, <2>2
      <3>2. t.payload = p /\ t.arguments = TRUE /\ t.outcome = v
        BY <1>5, <3>1
      <3> QED BY <1>8, <2>2, <3>2 DEF Executed, v, t
    <2>3. CASE v.code \notin {"ok", "division_by_zero"}
      <3>1. t = FailedToolAttempt(p, v.code)
        BY <1>1, <2>1, <2>3
      <3>2. t.payload = p /\ t.arguments = FALSE /\ t.outcome = Failure(v.code)
        BY <1>4, <3>1
      <3> QED BY <1>8, <2>3, <3>2 DEF Refused, v, t
    <2> QED BY <2>2, <2>3
  <1> QED BY <1>3, <1>6, <1>7, <1>8

\* Whatever the calculator answers, the model is told the truth of it.
LEMMA ReportIsTrue ==
  ASSUME Reported
  PROVE  ToldTheTruth
  <1> SUFFICES ASSUME phase = "told" PROVE ToldTheTruth
    BY DEF ToldTheTruth
  <1> DEFINE p == tool.payload
             e == p.expression
             v == EvaluateExpression(e)
             outcome == tool.outcome
  <1>1. p \in Payloads /\ tool = Execute(p)
    BY DEF Reported
  <1>2. Truthful(e, v)
    <2>1. e \in Seq(Lexemes)
      BY <1>1, PayloadIs
    <2> HIDE DEF e
    <2> QED BY <2>1, EvaluationIsTrue
  <1>3. Executed(p, v, tool) \/ Refused(p, v, tool)
    <2> HIDE DEF p
    <2>1. Executed(p, v, Execute(p)) \/ Refused(p, v, Execute(p))
      BY <1>1, ExecuteIs
    <2> HIDE DEF v
    <2> QED BY <1>1, <2>1
  <1>4. \A code : Failure(code).code = code
    BY DEF Failure
  <1>5. Truthful(e, outcome) /\ (tool.arguments <=> outcome.code \in {"ok", "division_by_zero"})
    <2> HIDE DEF p, e, v
    <2>1. CASE Executed(p, v, tool)
      BY <1>2, <2>1 DEF Executed
    <2>2. CASE /\ tool.arguments = FALSE /\ outcome = Failure(v.code)
               /\ v.code \notin {"ok", "division_by_zero"}
      <3>1. outcome.code = v.code /\ outcome.code \notin {"ok", "division_by_zero"}
        BY <1>4, <2>2
      <3>2. Truthful(e, outcome)
        BY <1>2, <3>1 DEF Truthful
      <3> QED BY <2>2, <3>1, <3>2
    <2>3. CASE tool.arguments = FALSE /\ outcome.code \in {"malformed_tool_call", "unknown_tool"}
      <3>1. Truthful(e, outcome)
        BY <2>3 DEF Truthful
      <3> QED BY <2>3, <3>1
    <2> QED BY <1>3, <1>4, <2>1, <2>2, <2>3 DEF Refused
  <1> QED BY <1>5 DEF Truthful, ToldTheTruth

LEMMA UseToolReports ==
  ASSUME NEW p \in Payloads, UseTool(p)
  PROVE  Reported'
  <1>1. phase' = "failed" \/ tool' = Execute(p)
    BY DEF UseTool, Fail
  <1>2. Execute(p).payload = p
    BY ExecuteIs
  <1> QED BY <1>1, <1>2 DEF Reported

\* Only a call makes the model be told of one.
LEMMA ReportedStep == Reported /\ [Next]_vars => Reported'
  <1> SUFFICES ASSUME Reported, [Next]_vars PROVE Reported'
    OBVIOUS
  <1>1. \A text : Asked(text) \subseteq Payloads
    BY GenerationAssumption DEF Asked
  <1>2. CASE Compile \/ Guard \/ AskAgain \/ Broken
    BY <1>2 DEF Compile, Guard, AskAgain, Broken, Deliver, Fail, Reported
  <1>3. CASE \E chunk \in Chunks : ModelWrites(chunk)
    BY <1>3 DEF ModelWrites, Reported
  <1>4. CASE StreamEnds
    <2>1. \/ \E p \in Asked(candidate.raw) : UseTool(p)
          \/ phase' \in {"failed", "done"}
      BY <1>4 DEF StreamEnds, Fail, DeliverStreamed, Deliver
    <2> QED BY <1>1, <2>1, UseToolReports DEF Reported
  <1>5. CASE BufferEnds
    <2>1. \/ \E p \in Asked(Strip(candidate.raw)) : UseTool(p)
          \/ phase' \in {"failed", "done"}
      BY <1>5 DEF BufferEnds, Fail, Deliver
    <2> QED BY <1>1, <2>1, UseToolReports DEF Reported
  <1>6. CASE ConstrainedTool
    BY <1>6, UseToolReports DEF ConstrainedTool
  <1>7. CASE \E text \in Answers : FirstAnswer(text) \/ Retry(text)
    <2>1. phase' \in {"failed", "done", "repair"}
      BY <1>7 DEF FirstAnswer, Retry, DeliverWhole, Deliver, Fail
    <2> QED BY <2>1 DEF Reported
  <1>8. CASE UNCHANGED vars
    BY <1>8 DEF vars, Reported
  <1> QED BY <1>2, <1>3, <1>4, <1>5, <1>6, <1>7, <1>8 DEF Next

\* What the model is told of a call of the calculator is what the expression
\* means, or a failure that it has.
THEOREM ToldIsTrue == Spec => []ToldTheTruth
  <1>1. Init => Reported
    BY DEF Init, Reported
  <1>2. Reported => ToldTheTruth
    BY ReportIsTrue
  <1> QED BY <1>1, <1>2, ReportedStep, PTL DEF Spec
=============================================================================
