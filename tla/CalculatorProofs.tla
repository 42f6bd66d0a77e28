--------------------------- MODULE CalculatorProofs --------------------------
(***************************************************************************)
(* Proofs about Calculator for every expression and any limits: the        *)
(* validator accepts exactly the grammar that Meaning reads from the       *)
(* outside in (GrammarIsExact), the parser computes the value it gives or  *)
(* reports one of its failures (ParseIsFaithful), and so whatever          *)
(* evaluate_expression answers is true of the expression                   *)
(* (EvaluationIsTrue).                                                     *)
(*                                                                         *)
(* A piece of an expression is the lexemes from i to j.  Both directions   *)
(* are inductions, on the length of a piece and on how much of the         *)
(* expression is ahead of a rule; both are stated with a set (CountingUp,  *)
(* RankInduction), because the library states induction with an operator   *)
(* as a parameter.                                                         *)
(***************************************************************************)
EXTENDS Calculator, FiniteSetTheorems, WellFoundedInduction, SequenceTheorems, TLAPS

-----------------------------------------------------------------------------
(***************************************************************************)
(* Induction, and functions that are defined by recursion: one exists when *)
(* its body looks at smaller arguments only (Recursion).                   *)
(***************************************************************************)
LEMMA LeastNumber ==
  ASSUME NEW T \in SUBSET Nat, T # {}
  PROVE  \E n \in T : \A k \in T : n <= k
  <1> DEFINE S == FiniteSubsetsOf(Nat)
             R == StrictSubsetOrdering(Nat)
             U == { 0..n : n \in T }
  <1>1. IsWellFoundedOn(R, S)
    BY FS_StrictSubsetOrderingWellFounded
  <1>2. \A n \in Nat : IsFiniteSet(0..n)
    BY FS_Interval
  <1>3. U \subseteq S /\ U # {}
    <2>1. \A n \in T : 0..n \in S
      <3> TAKE n \in T
      <3>1. 0..n \in SUBSET Nat /\ IsFiniteSet(0..n)
        BY <1>2
      <3> QED BY <3>1 DEF FiniteSubsetsOf
    <2> QED BY <2>1
  <1> HIDE DEF R, S, U
  <1>4. PICK x \in U : \A y \in U : ~(<<y, x>> \in R)
    BY <1>1, <1>3, WFMin
  <1>5. PICK n \in T : x = 0..n
    BY <1>4 DEF U
  <1>6. ASSUME NEW k \in T, k < n PROVE FALSE
    <2>1. 0..k \in U /\ 0..k \subseteq 0..n /\ n \in 0..n /\ n \notin 0..k
      BY <1>6 DEF U
    <2>2. <<0..k, 0..n>> \in R
      BY <2>1 DEF R, StrictSubsetOrdering
    <2> QED BY <1>4, <1>5, <2>1, <2>2
  <1> QED BY <1>6

LEMMA CountingUp ==
  ASSUME NEW S, 0 \in S, \A n \in Nat : n \in S => n + 1 \in S
  PROVE  Nat \subseteq S
  <1> SUFFICES ASSUME Nat \ S # {} PROVE FALSE
    OBVIOUS
  <1>1. PICK n \in Nat \ S : \A k \in Nat \ S : n <= k
    BY LeastNumber
  <1>2. n - 1 \in Nat /\ n - 1 < n
    BY <1>1
  <1> QED BY <1>1, <1>2

LEMMA RankInduction ==
  ASSUME NEW S, NEW r \in [S -> Nat], NEW T,
         \A x \in S : (\A y \in S : r[y] < r[x] => y \in T) => x \in T
  PROVE  S \subseteq T
  <1> DEFINE Bad == { n \in Nat : \E x \in S : r[x] = n /\ x \notin T }
  <1> SUFFICES ASSUME Bad # {} PROVE FALSE
    OBVIOUS
  <1>1. PICK n \in Bad : \A k \in Bad : n <= k
    BY LeastNumber
  <1>2. PICK x \in S : r[x] = n /\ x \notin T
    BY <1>1
  <1>3. \A y \in S : r[y] < r[x] => y \in T
    BY <1>1, <1>2
  <1> QED BY <1>2, <1>3

\* A recursive function exists when its body looks only at smaller arguments.
Solves(f, S, V, W) == f \in [S -> V] /\ \A x \in S : f[x] \in W[x]

\* H[f][x] is the body at x when f is the function that is defined.
Recursive(S, r, V, W, H) ==
  /\ r \in [S -> Nat]
  /\ \A x \in S : \E v \in V : v \in W[x]
  /\ \A f, x : Solves(f, S, V, W) /\ x \in S => H[f][x] \in V /\ H[f][x] \in W[x]
  /\ \A f, g, x : /\ Solves(f, S, V, W) /\ Solves(g, S, V, W) /\ x \in S
                  /\ \A y \in S : r[y] < r[x] => f[y] = g[y]
                  => H[f][x] = H[g][x]

LEMMA Recursion ==
  ASSUME NEW S, NEW r, NEW V, NEW W, NEW H, Recursive(S, r, V, W, H)
  PROVE  \E f : Solves(f, S, V, W) /\ \A x \in S : f[x] = H[f][x]
  <1> USE DEF Recursive
  <1> DEFINE Upto(f, n) == Solves(f, S, V, W) /\ \A x \in S : r[x] < n => f[x] = H[f][x]
             L == { n \in Nat : \E f : Upto(f, n) }
  <1>1. 0 \in L
    <2> DEFINE f == [x \in S |-> CHOOSE v \in V : v \in W[x]]
    <2>1. \A x \in S : f[x] \in V /\ f[x] \in W[x]
      OBVIOUS
    <2>2. f \in [S -> V]
      BY <2>1
    <2> HIDE DEF f
    <2>3. Upto(f, 0)
      BY <2>1, <2>2 DEF Solves
    <2> QED BY <2>3
  <1>2. ASSUME NEW n \in Nat, n \in L PROVE n + 1 \in L
    <2>1. PICK f : Upto(f, n)
      BY <1>2
    <2> DEFINE h == [x \in S |-> H[f][x]]
    <2>2. Solves(h, S, V, W) /\ Solves(f, S, V, W)
      BY <2>1 DEF Solves
    <2>0. \A x \in S : h[x] = H[f][x]
      OBVIOUS
    <2> HIDE DEF h
    <2>3. ASSUME NEW x \in S, r[x] < n + 1 PROVE h[x] = H[h][x]
      <3>1. \A y \in S : r[y] < r[x] => f[y] = h[y]
        BY <2>0, <2>1, <2>3
      <3>2. H[f][x] = H[h][x]
        BY <2>2, <3>1
      <3> QED BY <2>0, <3>2
    <2>4. Upto(h, n + 1)
      BY <2>2, <2>3
    <2> QED BY <2>4
  <1> HIDE DEF L
  <1>3. \A n \in Nat : \E f : Upto(f, n)
    BY <1>1, <1>2, CountingUp DEF L
  <1>4. ASSUME NEW n \in Nat, NEW f, NEW g, Upto(f, n), Upto(g, n)
        PROVE  \A x \in S : r[x] < n => f[x] = g[x]
    <2> DEFINE T == { x \in S : r[x] < n => f[x] = g[x] }
    <2>1. ASSUME NEW x \in S, \A y \in S : r[y] < r[x] => y \in T PROVE x \in T
      <3> SUFFICES ASSUME r[x] < n PROVE f[x] = g[x]
        OBVIOUS
      <3>1. \A y \in S : r[y] < r[x] => f[y] = g[y]
        BY <2>1
      <3>2. H[f][x] = H[g][x]
        BY <3>1, <1>4
      <3> QED BY <3>2, <1>4
    <2> HIDE DEF T
    <2>2. S \subseteq T
      BY <2>1, RankInduction
    <2> QED BY <2>2 DEF T
  <1> DEFINE at(x) == CHOOSE f : Upto(f, r[x] + 1)
             h == [x \in S |-> at(x)[x]]
  <1>5. ASSUME NEW x \in S PROVE Upto(at(x), r[x] + 1)
    <2>1. r[x] + 1 \in Nat
      OBVIOUS
    <2> HIDE DEF Upto
    <2>2. \E f : Upto(f, r[x] + 1)
      BY <1>3, <2>1
    <2> QED BY <2>2
  <1> HIDE DEF at
  <1>6. Solves(h, S, V, W)
    <2>1. \A x \in S : h[x] \in V /\ h[x] \in W[x]
      BY <1>5 DEF Solves
    <2> QED BY <2>1 DEF Solves
  <1>7. ASSUME NEW x \in S PROVE h[x] = H[h][x]
    <2>1. ASSUME NEW y \in S, r[y] < r[x] PROVE at(x)[y] = h[y]
      <3>1. /\ r[y] + 1 \in Nat /\ r[y] < r[y] + 1
            /\ Upto(at(x), r[y] + 1) /\ Upto(at(y), r[y] + 1)
        <4>1. /\ Upto(at(x), r[x] + 1) /\ Upto(at(y), r[y] + 1)
              /\ r[x] \in Nat /\ r[y] \in Nat
          BY <1>5
        <4>2. \A z \in S : r[z] < r[y] + 1 => r[z] < r[x] + 1
          BY <2>1
        <4> QED BY <4>1, <4>2
      <3> HIDE DEF Upto
      <3>2. \A z \in S : r[z] < r[y] + 1 => at(x)[z] = at(y)[z]
        BY <3>1, <1>4
      <3>3. at(x)[y] = at(y)[y]
        BY <3>1, <3>2
      <3> QED BY <3>3
    <2>2. Solves(at(x), S, V, W) /\ at(x)[x] = H[at(x)][x]
      BY <1>5
    <2>3. \A y \in S : r[y] < r[x] => at(x)[y] = h[y]
      BY <2>1
    <2> DEFINE f == at(x)
    <2>4. Solves(f, S, V, W) /\ \A y \in S : r[y] < r[x] => f[y] = h[y]
      BY <2>2, <2>3
    <2> HIDE DEF f, h
    <2>5. H[f][x] = H[h][x]
      BY <2>4, <1>6
    <2>6. f[x] = H[f][x]
      BY <2>2 DEF f
    <2>7. h[x] = f[x]
      BY DEF h, f
    <2> QED BY <2>5, <2>6, <2>7
  <1> HIDE DEF h
  <1> QED BY <1>6, <1>7

Rank(P, i) == Cardinality({ k \in P : k <= i })

LEMMA RankUp ==
  ASSUME NEW N \in Nat, NEW P \in SUBSET (1..N)
  PROVE  /\ IsFiniteSet(P) /\ Cardinality(P) \in Nat
         /\ \A i \in Nat : Rank(P, i) \in Nat
         /\ Rank(P, 0) = 0 /\ Rank(P, N) = Cardinality(P)
         /\ \A i \in Nat : i + 1 \in P => Rank(P, i + 1) = Rank(P, i) + 1
         /\ \A i \in Nat : i + 1 \notin P => Rank(P, i + 1) = Rank(P, i)
         /\ \A i, j \in Nat : i <= j => Rank(P, i) <= Rank(P, j)
  <1> DEFINE B(i) == { k \in P : k <= i }
  <1>0. \A k \in P : k \in Nat /\ 0 < k /\ k <= N
    BY P \in SUBSET (1..N)
  <1>1. IsFiniteSet(P)
    <2>1. IsFiniteSet(1..N)
      BY FS_Interval
    <2> QED BY <2>1, FS_Subset
  <1>2. \A i : IsFiniteSet(B(i)) /\ Cardinality(B(i)) \in Nat
    <2> TAKE i
    <2>1. B(i) \in SUBSET P
      OBVIOUS
    <2> HIDE DEF B
    <2> QED BY <1>1, <2>1, FS_Subset, FS_CardinalityType
  <1>3. B(0) = {} /\ B(N) = P
    <2>1. \A k \in P : ~(k <= 0) /\ k <= N
      BY <1>0
    <2> QED BY <2>1
  <1>4. \A i \in Nat : B(i + 1) = IF i + 1 \in P THEN B(i) \cup {i + 1} ELSE B(i)
    <2> TAKE i \in Nat
    <2>1. \A k \in P : k <= i + 1 <=> k <= i \/ k = i + 1
      BY <1>0
    <2> QED BY <2>1
  <1>5. \A i \in Nat : i + 1 \notin B(i)
    OBVIOUS
  <1>6. \A i, j \in Nat : i <= j => B(i) \in SUBSET B(j)
    <2> TAKE i, j \in Nat
    <2> HAVE i <= j
    <2>1. \A k \in P : k <= i => k <= j
      BY <1>0
    <2> QED BY <2>1
  <1>7. \A i : Rank(P, i) = Cardinality(B(i))
    BY DEF Rank
  <1> HIDE DEF B
  <1>8. ASSUME NEW i \in Nat, i + 1 \in P PROVE Cardinality(B(i + 1)) = Cardinality(B(i)) + 1
    <2>1. B(i + 1) = B(i) \cup {i + 1} /\ i + 1 \notin B(i) /\ IsFiniteSet(B(i))
      BY <1>2, <1>4, <1>5, <1>8
    <2>2. Cardinality(B(i) \cup {i + 1}) = Cardinality(B(i)) + 1
      BY <2>1, FS_AddElement
    <2> QED BY <2>1, <2>2
  <1>9. \A i, j \in Nat : i <= j => Cardinality(B(i)) <= Cardinality(B(j))
    BY <1>2, <1>6, FS_Subset
  <1>10. Cardinality(P) \in Nat /\ Cardinality(B(0)) = 0
    BY <1>1, <1>3, FS_EmptySet, FS_CardinalityType
  <1>11. \A i \in Nat : i + 1 \notin P => Rank(P, i + 1) = Rank(P, i)
    BY <1>4, <1>7
  <1>12. \A i \in Nat : i + 1 \in P => Rank(P, i + 1) = Rank(P, i) + 1
    BY <1>7, <1>8
  <1>13. \A i, j \in Nat : i <= j => Rank(P, i) <= Rank(P, j)
    BY <1>7, <1>9
  <1> QED BY <1>1, <1>2, <1>3, <1>7, <1>10, <1>11, <1>12, <1>13

LEMMA MinIs ==
  ASSUME NEW T \in SUBSET Nat, T # {}
  PROVE  Min(T) \in T /\ \A y \in T : Min(T) <= y
  BY LeastNumber DEF Min

LEMMA MaxIs ==
  ASSUME NEW T \in SUBSET Nat, NEW x \in T, \A y \in T : y <= x
  PROVE  Max(T) = x
  <1>1. \A y \in T : y \in Nat
    OBVIOUS
  <1>2. Max(T) \in T /\ \A y \in T : Max(T) >= y
    BY <1>1 DEF Max
  <1> DEFINE m == Max(T)
  <1>3. m \in Nat /\ x \in Nat /\ m >= x /\ m <= x
    BY <1>1, <1>2
  <1> HIDE DEF m
  <1>4. m = x
    BY <1>3
  <1> QED BY <1>4 DEF m

-----------------------------------------------------------------------------
(***************************************************************************)
(* Fractions: every operation gives a fraction, or one of the failures of  *)
(* arithmetic.                                                             *)
(***************************************************************************)
LEMMA ProductIs ==
  /\ \A a, b \in Int : a * b \in Int
  /\ \A a, b \in Int : a # 0 /\ b # 0 => a * b # 0
  OBVIOUS

LEMMA GcdExists ==
  gcd = [p \in Nat \X Nat |-> IF p[2] = 0 THEN p[1] ELSE gcd[<<p[2], p[1] % p[2]>>]]
  <1> DEFINE S == Nat \X Nat
             V == Nat
             body(f, p) == IF p[2] = 0 THEN p[1] ELSE f[<<p[2], p[1] % p[2]>>]
             H == [f \in [S -> V] |-> [p \in S |-> body(f, p)]]
             r == [p \in S |-> p[2]]
             W == [p \in S |-> V]
  <1>1. r \in [S -> Nat] /\ \A p \in S : \E v \in V : v \in W[p]
    OBVIOUS
  <1>2. \A f \in [S -> V], p \in S : H[f][p] = body(f, p)
    <2> HIDE DEF S, body
    <2> QED OBVIOUS
  <1>3. ASSUME NEW p \in S, p[2] # 0
        PROVE  <<p[2], p[1] % p[2]>> \in S /\ r[<<p[2], p[1] % p[2]>>] < r[p]
    <2>1. p[1] \in Nat /\ p[2] \in Nat /\ 0 < p[2]
      BY <1>3
    <2>2. p[1] % p[2] \in Nat /\ p[1] % p[2] < p[2]
      BY <2>1
    <2> QED BY <2>1, <2>2
  <1>4. ASSUME NEW f, Solves(f, S, V, W), NEW p \in S
        PROVE  H[f][p] \in V /\ H[f][p] \in W[p]
    <2>1. f \in [S -> V] /\ W[p] = V
      BY <1>4 DEF Solves
    <2>2. body(f, p) \in V
      <3>1. CASE p[2] = 0
        BY <3>1
      <3>2. CASE p[2] # 0
        <4>1. f[<<p[2], p[1] % p[2]>>] \in Nat /\ p[1] \in Nat
          BY <1>3, <2>1, <3>2
        <4> QED BY <3>2, <4>1, ProductIs
      <3> QED BY <3>1, <3>2
    <2> HIDE DEF S, H, V, W, body
    <2> QED BY <1>2, <2>1, <2>2
  <1>5. ASSUME NEW f, NEW g, Solves(f, S, V, W), Solves(g, S, V, W), NEW p \in S,
               \A q \in S : r[q] < r[p] => f[q] = g[q]
        PROVE  H[f][p] = H[g][p]
    <2>1. body(f, p) = body(g, p)
      BY <1>3, <1>5
    <2>2. f \in [S -> V] /\ g \in [S -> V]
      BY <1>5 DEF Solves
    <2> HIDE DEF S, H, V, W, body
    <2> QED BY <1>2, <2>1, <2>2
  <1> HIDE DEF S, H, r, V, W, body
  <1>6. \A f, p : Solves(f, S, V, W) /\ p \in S => H[f][p] \in V /\ H[f][p] \in W[p]
    BY <1>4
  <1>7. \A f, g, p : /\ Solves(f, S, V, W) /\ Solves(g, S, V, W) /\ p \in S
                     /\ \A q \in S : r[q] < r[p] => f[q] = g[q]
                     => H[f][p] = H[g][p]
    BY <1>5
  <1>8. Recursive(S, r, V, W, H)
    BY <1>1, <1>6, <1>7 DEF Recursive
  <1>9. PICK f : Solves(f, S, V, W) /\ \A p \in S : f[p] = H[f][p]
    BY <1>8, Recursion
  <1>10. \E g : g = [p \in S |-> body(g, p)]
    BY <1>2, <1>9 DEF Solves
  <1> QED BY <1>10 DEF gcd, S, body

LEMMA GcdIs ==
  ASSUME NEW a \in Nat, NEW b \in Nat, b # 0
  PROVE  gcd[<<a, b>>] \in Nat /\ 0 < gcd[<<a, b>>] /\ gcd[<<a, b>>] <= b
  <1> DEFINE S == Nat \X Nat
             r == [p \in S |-> p[2]]
             g(p) == gcd[<<p[1], p[2]>>]
             T == { p \in S : p[2] # 0 => g(p) \in Nat /\ 0 < g(p) /\ g(p) <= p[2] }
  <1>1. ASSUME NEW p \in S, \A q \in S : r[q] < r[p] => q \in T PROVE p \in T
    <2> SUFFICES ASSUME p[2] # 0 PROVE g(p) \in Nat /\ 0 < g(p) /\ g(p) <= p[2]
      OBVIOUS
    <2> DEFINE m == p[1] % p[2]
               q == <<p[2], m>>
    <2>1. p[1] \in Nat /\ p[2] \in Nat /\ 0 < p[2]
      OBVIOUS
    <2>2. m \in Nat /\ m < p[2]
      BY <2>1
    <2>3. q \in S /\ r[q] < r[p] /\ q \in T
      BY <2>1, <2>2, <1>1
    <2>4. g(p) = gcd[q]
      BY <2>1, GcdExists
    <2>5. CASE m = 0
      <3>1. gcd[q] = p[2]
        BY <2>3, <2>5, GcdExists
      <3> QED BY <2>1, <2>4, <3>1
    <2>6. CASE m # 0
      <3>1. gcd[q] \in Nat /\ 0 < gcd[q] /\ gcd[q] <= m
        BY <2>3, <2>6
      <3> QED BY <2>1, <2>2, <2>4, <3>1
    <2> QED BY <2>5, <2>6
  <1>2. r \in [S -> Nat]
    OBVIOUS
  <1> HIDE DEF T, r, S
  <1>3. S \subseteq T
    BY <1>1, <1>2, RankInduction
  <1>4. <<a, b>> \in T
    BY <1>3 DEF S
  <1> QED BY <1>4 DEF T

LEMMA QuotientIs ==
  ASSUME NEW a \in Nat, NEW g \in Nat, 0 < g
  PROVE  a \div g \in Nat /\ (g <= a => 0 < a \div g)
  <1>1. a = g * (a \div g) + (a % g) /\ a \div g \in Int /\ 0 <= a % g /\ a % g < g
    OBVIOUS
  <1> QED BY <1>1

LEMMA QuotientIsInt ==
  ASSUME NEW a \in Int, NEW g \in Nat, 0 < g
  PROVE  a \div g \in Int
  OBVIOUS

LEMMA MagnitudeIs ==
  ASSUME NEW i \in Int PROVE Magnitude(i) \in Nat /\ (i # 0 => 0 < Magnitude(i))
  BY DEF Magnitude

LEMMA FractionIs ==
  ASSUME NEW n \in Int, NEW d \in Int, d # 0
  PROVE  Fraction(n, d) \in Fractions
  <1> DEFINE g == gcd[<<Magnitude(n), Magnitude(d)>>]
             sign == IF d < 0 THEN -1 ELSE 1
  <1>1. Magnitude(n) \in Nat /\ Magnitude(d) \in Nat /\ 0 < Magnitude(d)
    BY MagnitudeIs
  <1>2. g \in Nat /\ 0 < g /\ g <= Magnitude(d)
    BY <1>1, GcdIs
  <1>3. Fraction(n, d) = [n |-> sign * (n \div g), d |-> Magnitude(d) \div g]
    BY DEF Fraction
  <1> HIDE DEF g
  <1>4. n \div g \in Int /\ sign * (n \div g) \in Int
    <2>1. n \div g \in Int
      BY <1>2, QuotientIsInt
    <2> QED BY <2>1
  <1>5. Magnitude(d) \div g \in Nat /\ 0 < Magnitude(d) \div g
    BY <1>1, <1>2, QuotientIs
  <1> QED BY <1>3, <1>4, <1>5 DEF Fractions

LEMMA PowExists ==
  pow = [p \in Int \X Nat |-> IF p[2] = 0 THEN 1 ELSE p[1] * pow[<<p[1], p[2] - 1>>]]
  <1> DEFINE S == Int \X Nat
             V == Int
             body(f, p) == IF p[2] = 0 THEN 1 ELSE p[1] * f[<<p[1], p[2] - 1>>]
             H == [f \in [S -> V] |-> [p \in S |-> body(f, p)]]
             r == [p \in S |-> p[2]]
             W == [p \in S |-> V]
  <1>1. r \in [S -> Nat] /\ \A p \in S : \E v \in V : v \in W[p]
    OBVIOUS
  <1>2. \A f \in [S -> V], p \in S : H[f][p] = body(f, p)
    <2> HIDE DEF S, body
    <2> QED OBVIOUS
  <1>3. ASSUME NEW p \in S, p[2] # 0
        PROVE  <<p[1], p[2] - 1>> \in S /\ r[<<p[1], p[2] - 1>>] < r[p]
    <2>1. p[1] \in Int /\ p[2] \in Nat /\ 0 < p[2]
      BY <1>3
    <2> QED BY <2>1
  <1>4. ASSUME NEW f, Solves(f, S, V, W), NEW p \in S
        PROVE  H[f][p] \in V /\ H[f][p] \in W[p]
    <2>1. f \in [S -> V] /\ W[p] = V
      BY <1>4 DEF Solves
    <2>2. body(f, p) \in V
      <3>1. CASE p[2] = 0
        BY <3>1
      <3>2. CASE p[2] # 0
        <4>1. f[<<p[1], p[2] - 1>>] \in Int /\ p[1] \in Int
          BY <1>3, <2>1, <3>2
        <4> QED BY <3>2, <4>1, ProductIs
      <3> QED BY <3>1, <3>2
    <2> HIDE DEF S, H, V, W, body
    <2> QED BY <1>2, <2>1, <2>2
  <1>5. ASSUME NEW f, NEW g, Solves(f, S, V, W), Solves(g, S, V, W), NEW p \in S,
               \A q \in S : r[q] < r[p] => f[q] = g[q]
        PROVE  H[f][p] = H[g][p]
    <2>1. body(f, p) = body(g, p)
      BY <1>3, <1>5
    <2>2. f \in [S -> V] /\ g \in [S -> V]
      BY <1>5 DEF Solves
    <2> HIDE DEF S, H, V, W, body
    <2> QED BY <1>2, <2>1, <2>2
  <1> HIDE DEF S, H, r, V, W, body
  <1>6. \A f, p : Solves(f, S, V, W) /\ p \in S => H[f][p] \in V /\ H[f][p] \in W[p]
    BY <1>4
  <1>7. \A f, g, p : /\ Solves(f, S, V, W) /\ Solves(g, S, V, W) /\ p \in S
                     /\ \A q \in S : r[q] < r[p] => f[q] = g[q]
                     => H[f][p] = H[g][p]
    BY <1>5
  <1>8. Recursive(S, r, V, W, H)
    BY <1>1, <1>6, <1>7 DEF Recursive
  <1>9. PICK f : Solves(f, S, V, W) /\ \A p \in S : f[p] = H[f][p]
    BY <1>8, Recursion
  <1>10. \E g : g = [p \in S |-> body(g, p)]
    BY <1>2, <1>9 DEF Solves
  <1> QED BY <1>10 DEF pow, S, body

LEMMA PowIs ==
  ASSUME NEW a \in Int, NEW n \in Nat
  PROVE  pow[<<a, n>>] \in Int /\ (a # 0 => pow[<<a, n>>] # 0)
  <1> DEFINE T == { k \in Nat : pow[<<a, k>>] \in Int /\ (a # 0 => pow[<<a, k>>] # 0) }
  <1>1. 0 \in T
    BY PowExists
  <1>2. ASSUME NEW k \in Nat, k \in T PROVE k + 1 \in T
    <2>1. pow[<<a, k + 1>>] = a * pow[<<a, k>>]
      BY PowExists
    <2> QED BY <1>2, <2>1, ProductIs
  <1> HIDE DEF T
  <1>3. n \in T
    BY <1>1, <1>2, CountingUp
  <1> QED BY <1>3 DEF T

Arithmetic == {"ok", "division_by_zero", "invalid_exponent", "result_limit"}
Outcomes == [code : Arithmetic, value : Fractions]

LEMMA IntegerIs ==
  ASSUME NEW i \in Int PROVE Integer(i) \in Fractions
  BY DEF Integer, Fractions

LEMMA ValueIs ==
  ASSUME NEW x \in Fractions
  PROVE  /\ Value(x) \in Outcomes /\ Value(x).code = "ok" /\ Value(x).value = x
         /\ Bounded(x) \in Outcomes
  <1>1. Integer(0) \in Fractions
    BY IntegerIs
  <1> QED BY <1>1 DEF Value, Bounded, Failure, Outcomes, Arithmetic

LEMMA FractionParts ==
  ASSUME NEW x \in Fractions
  PROVE  x.n \in Int /\ x.d \in Nat /\ x.d \in Int /\ x.d # 0
  BY DEF Fractions

LEMMA SumsAre ==
  ASSUME NEW x \in Fractions, NEW y \in Fractions
  PROVE  /\ Plus(x, y) \in Fractions /\ Minus(x, y) \in Fractions /\ Times(x, y) \in Fractions
         /\ y.n # 0 => Over(x, y) \in Fractions
  <1> DEFINE a == x.n
             b == x.d
             c == y.n
             d == y.d
  <1>1. a \in Int /\ b \in Int /\ b # 0 /\ c \in Int /\ d \in Int /\ d # 0
    BY FractionParts
  <1>2. /\ Plus(x, y) = Fraction(a * d + c * b, b * d)
        /\ Minus(x, y) = Fraction(a * d - c * b, b * d)
        /\ Times(x, y) = Fraction(a * c, b * d) /\ Over(x, y) = Fraction(a * d, b * c)
    BY DEF Plus, Minus, Times, Over
  <1> HIDE DEF a, b, c, d
  <1>3. /\ a * d \in Int /\ c * b \in Int /\ b * d \in Int /\ a * c \in Int /\ b * c \in Int
        /\ b * d # 0 /\ (c # 0 => b * c # 0)
    BY <1>1, ProductIs
  <1>4. a * d + c * b \in Int /\ a * d - c * b \in Int
    BY <1>3
  <1>5. c # 0 => Over(x, y) \in Fractions
    BY <1>2, <1>3, FractionIs
  <1>6. Plus(x, y) \in Fractions /\ Minus(x, y) \in Fractions /\ Times(x, y) \in Fractions
    BY <1>2, <1>3, <1>4, FractionIs
  <1> QED BY <1>5, <1>6 DEF c

LEMMA OperateIs ==
  ASSUME NEW kind \in Additive \cup Multiplicative, NEW x \in Fractions, NEW y \in Fractions
  PROVE  Operate(kind, x, y) \in Outcomes
  <1> DEFINE p == Plus(x, y)
             m == Minus(x, y)
             t == Times(x, y)
             o == Over(x, y)
             v == Operate(kind, x, y)
  <1>1. Bounded(p) \in Outcomes /\ Bounded(m) \in Outcomes /\ Bounded(t) \in Outcomes
    BY SumsAre, ValueIs
  <1>2. CASE kind = "PLUS"
    BY <1>1, <1>2 DEF Operate
  <1>3. CASE kind = "MINUS"
    BY <1>1, <1>3 DEF Operate
  <1>4. CASE kind \in {"MULTIPLY", "OF"}
    BY <1>1, <1>4 DEF Operate
  <1>5. CASE kind = "DIVIDE"
    <2>1. y.n # 0 => Bounded(o) \in Outcomes
      BY SumsAre, ValueIs
    <2>2. Failure("division_by_zero") \in Outcomes
      BY IntegerIs DEF Failure, Outcomes, Arithmetic
    <2>3. v = IF y.n = 0 THEN Failure("division_by_zero") ELSE Bounded(o)
      BY <1>5 DEF Operate
    <2> HIDE DEF v, o
    <2>4. v \in Outcomes
      BY <2>1, <2>2, <2>3
    <2> QED BY <2>4 DEF v
  <1> QED BY <1>2, <1>3, <1>4, <1>5 DEF Additive, Multiplicative

LEMMA PowerIs ==
  ASSUME NEW x \in Fractions, NEW y \in Fractions
  PROVE  Power(x, y) \in Outcomes
  <1> DEFINE e == Magnitude(y.n)
             n == pow[<<x.n, e>>]
             d == pow[<<x.d, e>>]
             r == Raised(x, y.n)
  <1>1. x.n \in Int /\ x.d \in Int /\ x.d # 0 /\ y.n \in Int
    BY FractionParts
  <1>2. e \in Nat
    BY <1>1, MagnitudeIs
  <1>3. n \in Int /\ d \in Int /\ d # 0 /\ (x.n # 0 => n # 0)
    BY <1>1, <1>2, PowIs
  <1>4. r = IF y.n < 0 THEN Fraction(d, n) ELSE Fraction(n, d)
    BY DEF Raised
  <1>5. \A c \in Arithmetic : Failure(c) \in Outcomes
    BY IntegerIs DEF Failure, Outcomes
  <1> HIDE DEF e, n, d, r
  <1>6. ~(x.n = 0 /\ y.n < 0) => r \in Fractions
    <2>1. CASE y.n < 0
      <3> SUFFICES ASSUME x.n # 0 PROVE r \in Fractions
        BY <2>1
      <3>1. Fraction(d, n) \in Fractions
        BY <1>3, FractionIs
      <3> QED BY <1>4, <2>1, <3>1
    <2>2. CASE ~(y.n < 0)
      <3>1. Fraction(n, d) \in Fractions
        BY <1>3, FractionIs
      <3> QED BY <1>4, <2>2, <3>1
    <2> QED BY <2>1, <2>2
  <1>7. ~(x.n = 0 /\ y.n < 0) => Bounded(r) \in Outcomes
    BY <1>6, ValueIs
  <1> QED BY <1>5, <1>7 DEF Power, r, Arithmetic

-----------------------------------------------------------------------------
(***************************************************************************)
(* The parentheses that are open, and the operators of a piece.            *)
(***************************************************************************)
LEMMA LexemeIs ==
  ASSUME NEW e \in Seq(Lexemes)
  PROVE  /\ Len(e) \in Nat
         /\ \A k \in 1..Len(e) : e[k].kind \in LexemeKinds /\ e[k].literal \in Nat
         /\ \A k \in 1..Len(e) : e[k].kind # "EOF"
  <1>1. ASSUME NEW k \in 1..Len(e) PROVE e[k].kind \in LexemeKinds /\ e[k].literal \in Nat
    <2>1. e[k] \in Lexemes
      OBVIOUS
    <2> QED BY <2>1 DEF Lexemes
  <1> QED BY <1>1 DEF LexemeKinds, Additive, Multiplicative

\* One lexeme changes the depth by one, if it is a parenthesis.
LEMMA DepthIs ==
  ASSUME NEW e \in Seq(Lexemes)
  PROVE  /\ Depth(e, 0) = 0 /\ \A k \in 0..Len(e) : Depth(e, k) \in Int
         /\ \A k \in 1..Len(e) :
              /\ e[k].kind = "LPAREN" => Depth(e, k) = Depth(e, k - 1) + 1
              /\ e[k].kind = "RPAREN" => Depth(e, k) = Depth(e, k - 1) - 1
              /\ e[k].kind \notin {"LPAREN", "RPAREN"} => Depth(e, k) = Depth(e, k - 1)
  <1> DEFINE N == Len(e)
             P == { m \in 1..N : e[m].kind = "LPAREN" }
             Q == { m \in 1..N : e[m].kind = "RPAREN" }
  <1>1. N \in Nat /\ P \in SUBSET (1..N) /\ Q \in SUBSET (1..N)
    OBVIOUS
  <1>2. ASSUME NEW k \in 0..N PROVE Depth(e, k) = Rank(P, k) - Rank(Q, k)
    <2>1. { m \in 1..k : e[m].kind = "LPAREN" } = { m \in P : m <= k }
      BY <1>1
    <2>2. { m \in 1..k : e[m].kind = "RPAREN" } = { m \in Q : m <= k }
      BY <1>1
    <2> QED BY <2>1, <2>2 DEF Depth, Quantify, Rank
  <1>3. /\ \A k \in Nat : Rank(P, k) \in Nat /\ Rank(Q, k) \in Nat
        /\ Rank(P, 0) = 0 /\ Rank(Q, 0) = 0
        /\ \A k \in Nat : k + 1 \in P => Rank(P, k + 1) = Rank(P, k) + 1
        /\ \A k \in Nat : k + 1 \notin P => Rank(P, k + 1) = Rank(P, k)
        /\ \A k \in Nat : k + 1 \in Q => Rank(Q, k + 1) = Rank(Q, k) + 1
        /\ \A k \in Nat : k + 1 \notin Q => Rank(Q, k + 1) = Rank(Q, k)
    <2> HIDE DEF P, Q, N
    <2> QED BY <1>1, RankUp
  <1>4. \A k \in 0..N : k \in Nat /\ Rank(P, k) \in Nat /\ Rank(Q, k) \in Nat
    <2> TAKE k \in 0..N
    <2> HIDE DEF P, Q, N
    <2>1. k \in Nat
      BY <1>1
    <2> QED BY <1>3, <2>1
  <1>5. ASSUME NEW k \in 1..N
        PROVE  /\ e[k].kind = "LPAREN" => Depth(e, k) = Depth(e, k - 1) + 1
               /\ e[k].kind = "RPAREN" => Depth(e, k) = Depth(e, k - 1) - 1
               /\ e[k].kind \notin {"LPAREN", "RPAREN"} => Depth(e, k) = Depth(e, k - 1)
    <2>1. k - 1 \in 0..N /\ k \in 0..N /\ k - 1 \in Nat /\ (k - 1) + 1 = k
      BY <1>1
    <2>2. (k \in P <=> e[k].kind = "LPAREN") /\ (k \in Q <=> e[k].kind = "RPAREN")
      OBVIOUS
    <2> HIDE DEF P, Q, N
    <2> DEFINE a == Rank(P, k - 1)
               b == Rank(Q, k - 1)
    <2>3. /\ Rank(P, k) = IF k \in P THEN a + 1 ELSE a
          /\ Rank(Q, k) = IF k \in Q THEN b + 1 ELSE b
          /\ a \in Nat /\ b \in Nat
      BY <1>3, <2>1
    <2>4. Depth(e, k) = Rank(P, k) - Rank(Q, k) /\ Depth(e, k - 1) = a - b
      BY <1>2, <2>1
    <2> HIDE DEF a, b
    <2>5. ~(k \in P /\ k \in Q)
      BY <2>2
    <2> QED BY <2>2, <2>3, <2>4, <2>5
  <1>6. Depth(e, 0) = 0
    <2>1. 0 \in 0..N
      BY <1>1
    <2> HIDE DEF P, Q, N
    <2> QED BY <1>2, <1>3, <2>1
  <1>7. \A k \in 0..N : Depth(e, k) \in Int
    <2> HIDE DEF P, Q, N
    <2> QED BY <1>2, <1>4
  <1> QED BY <1>5, <1>6, <1>7

InfixKinds == Additive \cup Multiplicative \cup {"POWER"}

LEMMA InfixesAre ==
  ASSUME NEW e, NEW i \in Int, NEW j \in Int, NEW K
  PROVE  /\ Infixes(e, i, j, K) \subseteq (i + 1)..j
         /\ \A k : k \in Infixes(e, i, j, K) <=>
              /\ k \in Int /\ i + 1 <= k /\ k <= j /\ Depth(e, k - 1) = Depth(e, i - 1)
              /\ e[k].kind \in K /\ e[k - 1].kind \in {"NUMBER", "RPAREN", "PERCENT"}
  BY DEF Infixes

LEMMA FirstInfix ==
  ASSUME NEW e, NEW i \in Nat, NEW j \in Nat, NEW K, Infixes(e, i, j, K) # {}
  PROVE  /\ Min(Infixes(e, i, j, K)) \in Infixes(e, i, j, K)
         /\ \A k \in Infixes(e, i, j, K) : Min(Infixes(e, i, j, K)) <= k
  <1> DEFINE T == Infixes(e, i, j, K)
  <1>1. T \in SUBSET Nat
    BY InfixesAre
  <1> HIDE DEF T
  <1>2. Min(T) \in T /\ \A k \in T : Min(T) <= k
    <2>1. T # {}
      BY DEF T
    <2> QED BY <1>1, <2>1, MinIs
  <1> QED BY <1>2 DEF T

LEMMA LastInfix ==
  ASSUME NEW e, NEW i \in Nat, NEW j \in Nat, NEW K, Infixes(e, i, j, K) # {}
  PROVE  /\ Max(Infixes(e, i, j, K)) \in Infixes(e, i, j, K)
         /\ \A k \in Infixes(e, i, j, K) : k <= Max(Infixes(e, i, j, K))
  <1> DEFINE T == Infixes(e, i, j, K)
             U == { j - k : k \in T }
  <1>1. \A k \in T : k \in Nat /\ k <= j
    BY InfixesAre
  <1>2. T \in SUBSET Nat /\ U \in SUBSET Nat /\ U # {}
    BY <1>1
  <1>3. PICK u \in U : \A x \in U : u <= x
    BY <1>2, LeastNumber
  <1>4. PICK k \in T : u = j - k
    OBVIOUS
  <1>5. \A l \in T : l <= k
    <2> TAKE l \in T
    <2>1. j - k <= j - l
      BY <1>3, <1>4
    <2> QED BY <1>1, <2>1
  <1> HIDE DEF T
  <1>6. Max(T) = k
    BY <1>2, <1>5, MaxIs
  <1> QED BY <1>5, <1>6 DEF T

-----------------------------------------------------------------------------
(***************************************************************************)
(* Mean: what a piece of an expression means, from its shorter pieces.     *)
(***************************************************************************)
Meanings == [grammatical : BOOLEAN, value : Fractions, errors : SUBSET (Arithmetic \ {"ok"})]
Pieces(e) == (1..(Len(e) + 1)) \X (0..Len(e))

LEMMA WrongIs == Wrong \in Meanings /\ ~Wrong.grammatical
  BY IntegerIs DEF Wrong, Meanings

LEMMA KnownIs ==
  ASSUME NEW v \in Outcomes, NEW s \in SUBSET (Arithmetic \ {"ok"})
  PROVE  Known(v, s) \in Meanings /\ Known(v, s).grammatical
  BY DEF Known, Meanings, Outcomes

LEMMA MeaningParts ==
  ASSUME NEW x \in Meanings
  PROVE  /\ x.grammatical \in BOOLEAN /\ x.value \in Fractions
         /\ x.errors \in SUBSET (Arithmetic \ {"ok"})
  BY DEF Meanings

LEMMA CombinedIs ==
  ASSUME NEW v \in Outcomes, NEW x \in Meanings, NEW y \in Meanings
  PROVE  Unary(x, v) \in Meanings /\ Binary(x, y, v) \in Meanings
  <1>1. /\ x.errors \in SUBSET (Arithmetic \ {"ok"})
        /\ x.errors \cup y.errors \in SUBSET (Arithmetic \ {"ok"})
    BY MeaningParts
  <1>2. Known(v, x.errors) \in Meanings /\ Known(v, x.errors \cup y.errors) \in Meanings
    BY <1>1, KnownIs
  <1> QED BY <1>2, WrongIs DEF Unary, Binary

Loose(e, i, j) == IF Infixes(e, i, j, Additive) # {} THEN Infixes(e, i, j, Additive)
                  ELSE Infixes(e, i, j, Multiplicative)
Powers(e, i, j) == Infixes(e, i, j, {"POWER"})

\* No operator binds the piece together but a power, no sign, no power either.
Tight(e, i, j) == ~(i > j) /\ Loose(e, i, j) = {}
Bare(e, i, j) == Tight(e, i, j) /\ e[i].kind \notin Additive
Atom(e, i, j) == Bare(e, i, j) /\ Powers(e, i, j) = {}

LEMMA LooseMeans ==
  ASSUME NEW e, NEW f, NEW i, NEW j, ~(i > j), Loose(e, i, j) # {},
         NEW k, k = Max(Loose(e, i, j))
  PROVE  Understand(e, f, i, j) =
           Binary(f[<<i, k - 1>>], f[<<k + 1, j>>],
                  Operate(e[k].kind, f[<<i, k - 1>>].value, f[<<k + 1, j>>].value))
  BY DEF Understand, Loose

Signed(kind, x) == IF kind = "PLUS" THEN Value(x) ELSE Bounded(Minus(Integer(0), x))

LEMMA SignMeans ==
  ASSUME NEW e, NEW f, NEW i, NEW j, Tight(e, i, j), e[i].kind \in Additive
  PROVE  Understand(e, f, i, j) = Unary(f[<<i + 1, j>>], Signed(e[i].kind, f[<<i + 1, j>>].value))
  BY DEF Understand, Loose, Tight, Additive, Signed

LEMMA PowerMeans ==
  ASSUME NEW e, NEW f, NEW i, NEW j, Bare(e, i, j), Powers(e, i, j) # {},
         NEW k, k = Min(Powers(e, i, j))
  PROVE  Understand(e, f, i, j) =
           IF k = i + 1 \/ e[k - 1].kind = "RPAREN"
           THEN Binary(f[<<i, k - 1>>], f[<<k + 1, j>>],
                       Power(f[<<i, k - 1>>].value, f[<<k + 1, j>>].value))
           ELSE Wrong
  BY DEF Understand, Loose, Tight, Bare, Additive, Powers

Percent(x) == Bounded(Over(x, Integer(100)))

LEMMA PercentMeans ==
  ASSUME NEW e, NEW f, NEW i, NEW j, Atom(e, i, j), e[j].kind = "PERCENT"
  PROVE  Understand(e, f, i, j) = Unary(f[<<i, j - 1>>], Percent(f[<<i, j - 1>>].value))
  BY DEF Understand, Loose, Tight, Bare, Atom, Additive, Powers, Percent

LEMMA PrimaryMeans ==
  ASSUME NEW e, NEW f, NEW i, NEW j, Atom(e, i, j), e[j].kind # "PERCENT"
  PROVE  Understand(e, f, i, j) =
           IF Paired(e, i, j) THEN f[<<i + 1, j - 1>>]
           ELSE IF i = j /\ e[i].kind = "NUMBER" THEN Known(Bounded(Integer(e[i].literal)), {})
           ELSE Wrong
  BY DEF Understand, Loose, Tight, Bare, Atom, Additive, Powers

LEMMA OutsideMeans ==
  ASSUME NEW e, NEW f, NEW i, NEW j, i > j
  PROVE  Understand(e, f, i, j) = Wrong
  BY DEF Understand

LEMMA LooseIs ==
  ASSUME NEW e, NEW i \in Nat, NEW j \in Nat, Loose(e, i, j) # {},
         NEW k, k = Max(Loose(e, i, j))
  PROVE  /\ k \in Loose(e, i, j) /\ \A l \in Loose(e, i, j) : l <= k
         /\ k \in Nat /\ i < k /\ k <= j /\ e[k].kind \in Additive \cup Multiplicative
  <1>1. k \in Loose(e, i, j) /\ \A l \in Loose(e, i, j) : l <= k
    BY LastInfix DEF Loose
  <1>2. \A l \in Loose(e, i, j) : l \in Nat /\ i < l /\ l <= j /\ e[l].kind \in Additive \cup Multiplicative
    BY InfixesAre DEF Loose
  <1> QED BY <1>1, <1>2

LEMMA PowersAre ==
  ASSUME NEW e, NEW i \in Nat, NEW j \in Nat, Powers(e, i, j) # {},
         NEW k, k = Min(Powers(e, i, j))
  PROVE  /\ k \in Powers(e, i, j) /\ \A l \in Powers(e, i, j) : k <= l
         /\ k \in Nat /\ i < k /\ k <= j
  <1>1. k \in Powers(e, i, j) /\ \A l \in Powers(e, i, j) : k <= l
    BY FirstInfix DEF Powers
  <1>2. \A l \in Powers(e, i, j) : l \in Nat /\ i < l /\ l <= j
    BY InfixesAre DEF Powers
  <1> QED BY <1>1, <1>2

LEMMA SignedIs ==
  ASSUME NEW x \in Fractions, NEW kind
  PROVE  Signed(kind, x) \in Outcomes /\ Percent(x) \in Outcomes
  <1>1. Integer(0) \in Fractions /\ Integer(100) \in Fractions /\ Integer(100).n # 0
    BY IntegerIs DEF Integer
  <1>2. Minus(Integer(0), x) \in Fractions /\ Over(x, Integer(100)) \in Fractions
    BY <1>1, SumsAre
  <1> QED BY <1>2, ValueIs DEF Signed, Percent

\* What a piece means is a meaning, and depends on shorter pieces only.
LEMMA Understood ==
  ASSUME NEW e \in Seq(Lexemes), NEW f \in [Pieces(e) -> Meanings], NEW g,
         NEW i \in 1..(Len(e) + 1), NEW j \in 0..Len(e),
         \A k \in 1..(Len(e) + 1), l \in 0..Len(e) : i <= j /\ l - k < j - i => f[<<k, l>>] = g[<<k, l>>]
  PROVE  /\ Understand(e, f, i, j) \in Meanings
         /\ Understand(e, f, i, j) = Understand(e, g, i, j)
  <1> DEFINE N == Len(e)
             u == Understand(e, f, i, j)
             v == Understand(e, g, i, j)
  <1>1. N \in Nat /\ i \in Nat /\ j \in Nat
    OBVIOUS
  <1>2. ASSUME NEW k \in 1..(N + 1), NEW l \in 0..N, i <= j, l - k < j - i
        PROVE  f[<<k, l>>] = g[<<k, l>>] /\ f[<<k, l>>] \in Meanings
    <2>1. <<k, l>> \in Pieces(e)
      BY DEF Pieces
    <2> QED BY <1>2, <2>1
  <1>3. CASE i > j
    BY <1>3, OutsideMeans, WrongIs
  <1>4. CASE ~(i > j) /\ Loose(e, i, j) # {}
    <2> DEFINE k == Max(Loose(e, i, j))
               a == f[<<i, k - 1>>]
               b == f[<<k + 1, j>>]
               o == Operate(e[k].kind, a.value, b.value)
    <2>1. k \in Nat /\ i < k /\ k <= j /\ e[k].kind \in Additive \cup Multiplicative
      BY <1>1, <1>4, LooseIs
    <2>2. /\ k - 1 \in 0..N /\ k + 1 \in 1..(N + 1) /\ i <= j /\ (k - 1) - i < j - i
          /\ j - (k + 1) < j - i
      BY <1>1, <2>1
    <2>3. /\ a = g[<<i, k - 1>>] /\ b = g[<<k + 1, j>>]
          /\ a \in Meanings /\ b \in Meanings
      BY <1>2, <2>2
    <2>4. u = Binary(a, b, o)
      BY <1>4, LooseMeans
    <2>5. v = Binary(a, b, o)
      BY <1>4, <2>3, LooseMeans
    <2>6. o \in Outcomes
      BY <2>1, <2>3, MeaningParts, OperateIs
    <2> HIDE DEF a, b, o, u, v
    <2>7. u \in Meanings
      BY <2>3, <2>4, <2>6, CombinedIs
    <2> QED BY <2>4, <2>5, <2>7 DEF u, v
  <1>5. CASE Tight(e, i, j) /\ e[i].kind \in Additive
    <2> DEFINE a == f[<<i + 1, j>>]
               p == Signed(e[i].kind, a.value)
    <2>1. i <= j /\ i + 1 \in 1..(N + 1) /\ j - (i + 1) < j - i
      BY <1>1, <1>5 DEF Tight
    <2>2. a = g[<<i + 1, j>>] /\ a \in Meanings
      BY <1>2, <2>1
    <2>3. u = Unary(a, p) /\ v = Unary(a, p)
      BY <1>5, <2>2, SignMeans
    <2>4. p \in Outcomes
      BY <2>2, MeaningParts, SignedIs
    <2> HIDE DEF a, p, u, v
    <2>5. Unary(a, p) \in Meanings
      BY <2>2, <2>4, CombinedIs
    <2> QED BY <2>3, <2>5 DEF u, v
  <1>6. CASE Bare(e, i, j) /\ Powers(e, i, j) # {}
    <2> DEFINE k == Min(Powers(e, i, j))
               a == f[<<i, k - 1>>]
               b == f[<<k + 1, j>>]
               o == Power(a.value, b.value)
               joined == k = i + 1 \/ e[k - 1].kind = "RPAREN"
    <2>1. k \in Nat /\ i < k /\ k <= j
      BY <1>1, <1>6, PowersAre
    <2>2. /\ k - 1 \in 0..N /\ k + 1 \in 1..(N + 1) /\ i <= j /\ (k - 1) - i < j - i
          /\ j - (k + 1) < j - i
      BY <1>1, <2>1
    <2>3. /\ a = g[<<i, k - 1>>] /\ b = g[<<k + 1, j>>]
          /\ a \in Meanings /\ b \in Meanings
      BY <1>2, <2>2
    <2>4. u = IF joined THEN Binary(a, b, o) ELSE Wrong
      BY <1>6, PowerMeans
    <2>5. v = IF joined THEN Binary(a, b, o) ELSE Wrong
      BY <1>6, <2>3, PowerMeans
    <2>6. o \in Outcomes
      BY <2>3, MeaningParts, PowerIs
    <2> HIDE DEF a, b, o, u, v, joined
    <2>7. Binary(a, b, o) \in Meanings
      BY <2>3, <2>6, CombinedIs
    <2> QED BY <2>4, <2>5, <2>7, WrongIs DEF u, v
  <1>7. CASE Atom(e, i, j) /\ e[j].kind = "PERCENT"
    <2> DEFINE a == f[<<i, j - 1>>]
               o == Percent(a.value)
    <2>1. i <= j /\ j - 1 \in 0..N /\ (j - 1) - i < j - i
      BY <1>1, <1>7 DEF Atom, Bare, Tight
    <2>2. a = g[<<i, j - 1>>] /\ a \in Meanings
      BY <1>2, <2>1
    <2>3. u = Unary(a, o) /\ v = Unary(a, o)
      BY <1>7, <2>2, PercentMeans
    <2>4. o \in Outcomes
      BY <2>2, MeaningParts, SignedIs
    <2> HIDE DEF a, o, u, v
    <2>5. Unary(a, o) \in Meanings
      BY <2>2, <2>4, CombinedIs
    <2> QED BY <2>3, <2>5 DEF u, v
  <1>8. CASE Atom(e, i, j) /\ e[j].kind # "PERCENT"
    <2> DEFINE a == f[<<i + 1, j - 1>>]
               o == Known(Bounded(Integer(e[i].literal)), {})
               number == i = j /\ e[i].kind = "NUMBER"
    <2>1. Paired(e, i, j) => a = g[<<i + 1, j - 1>>] /\ a \in Meanings
      <3> SUFFICES ASSUME Paired(e, i, j) PROVE a = g[<<i + 1, j - 1>>] /\ a \in Meanings
        OBVIOUS
      <3>1. i < j
        BY DEF Paired
      <3>2. i + 1 \in 1..(N + 1) /\ j - 1 \in 0..N /\ i <= j /\ (j - 1) - (i + 1) < j - i
        BY <1>1, <3>1
      <3> QED BY <1>2, <3>2
    <2>2. number => o \in Meanings
      <3> SUFFICES ASSUME number PROVE o \in Meanings
        OBVIOUS
      <3>1. i \in 1..N
        BY <1>1
      <3>2. e[i].literal \in Int
        BY <3>1, LexemeIs
      <3>3. Bounded(Integer(e[i].literal)) \in Outcomes
        BY <3>2, IntegerIs, ValueIs
      <3> QED BY <3>3, KnownIs
    <2>3. u = IF Paired(e, i, j) THEN a ELSE IF number THEN o ELSE Wrong
      BY <1>8, PrimaryMeans
    <2>4. v = IF Paired(e, i, j) THEN g[<<i + 1, j - 1>>] ELSE IF number THEN o ELSE Wrong
      BY <1>8, PrimaryMeans
    <2> HIDE DEF a, o, number, u, v
    <2> QED BY <2>1, <2>2, <2>3, <2>4, WrongIs DEF u, v
  <1> QED BY <1>3, <1>4, <1>5, <1>6, <1>7, <1>8 DEF Atom, Bare, Tight

Of(e) == CHOOSE of : of = [p \in Pieces(e) |-> Understand(e, of, p[1], p[2])]

LEMMA OfExists ==
  ASSUME NEW e \in Seq(Lexemes)
  PROVE  /\ Of(e) = [p \in Pieces(e) |-> Understand(e, Of(e), p[1], p[2])]
         /\ Of(e) \in [Pieces(e) -> Meanings]
  <1> DEFINE S == Pieces(e)
             N == Len(e)
             V == Meanings
             H == [f \in [S -> V] |-> [p \in S |-> Understand(e, f, p[1], p[2])]]
             r == [p \in S |-> IF p[1] > p[2] THEN 0 ELSE p[2] - p[1] + 1]
             W == [p \in S |-> V]
  <1>0. N \in Nat /\ \A p \in S : p[1] \in 1..(N + 1) /\ p[2] \in 0..N /\ p = <<p[1], p[2]>>
    BY DEF Pieces
  <1>1. r \in [S -> Nat] /\ \A p \in S : \E v \in V : v \in W[p]
    <2>1. \A p \in S : r[p] \in Nat
      BY <1>0
    <2>2. r \in [S -> Nat]
      <3> HIDE DEF S
      <3> QED BY <2>1
    <2>3. \A p \in S : Wrong \in W[p] /\ Wrong \in V
      BY WrongIs
    <2> HIDE DEF V, W, r
    <2> QED BY <2>2, <2>3
  <1>2. \A f \in [S -> V], p \in S : H[f][p] = Understand(e, f, p[1], p[2])
    <2> HIDE DEF S, V
    <2> QED OBVIOUS
  <1>3. ASSUME NEW f \in [S -> V], NEW p \in S PROVE Understand(e, f, p[1], p[2]) \in V
    BY <1>0, Understood
  <1>4. ASSUME NEW f, Solves(f, S, V, W), NEW p \in S
        PROVE  H[f][p] \in V /\ H[f][p] \in W[p]
    <2>1. f \in [S -> V] /\ W[p] = V
      BY <1>4 DEF Solves
    <2> HIDE DEF S, H, V, W
    <2> QED BY <1>2, <1>3, <2>1
  <1>5. ASSUME NEW f, NEW g, Solves(f, S, V, W), Solves(g, S, V, W), NEW p \in S,
               \A q \in S : r[q] < r[p] => f[q] = g[q]
        PROVE  H[f][p] = H[g][p]
    <2>1. f \in [S -> V] /\ g \in [S -> V]
      BY <1>5 DEF Solves
    <2>2. ASSUME NEW k \in 1..(N + 1), NEW l \in 0..N, p[1] <= p[2], l - k < p[2] - p[1]
          PROVE  f[<<k, l>>] = g[<<k, l>>]
      <3>1. <<k, l>> \in S
        BY DEF Pieces
      <3>2. r[<<k, l>>] = (IF k > l THEN 0 ELSE l - k + 1) /\ r[p] = p[2] - p[1] + 1
        BY <1>0, <2>2, <3>1
      <3>3. p[1] \in Int /\ p[2] \in Int /\ k \in Int /\ l \in Int
        BY <1>0
      <3> HIDE DEF r, S
      <3>4. r[<<k, l>>] < r[p]
        BY <2>2, <3>2, <3>3
      <3> QED BY <1>5, <3>1, <3>4
    <2>3. Understand(e, f, p[1], p[2]) = Understand(e, g, p[1], p[2])
      <3>1. /\ f \in [Pieces(e) -> Meanings]
            /\ p[1] \in 1..(Len(e) + 1) /\ p[2] \in 0..Len(e)
        BY <1>0, <2>1
      <3>2. \A k \in 1..(Len(e) + 1), l \in 0..Len(e) :
               p[1] <= p[2] /\ l - k < p[2] - p[1] => f[<<k, l>>] = g[<<k, l>>]
        BY <2>2
      <3> HIDE DEF S, H, V, W, N, r
      <3> QED BY <3>1, <3>2, Understood
    <2> HIDE DEF S, H, V, W
    <2> QED BY <1>2, <2>1, <2>3
  <1> HIDE DEF S, H, r, V, W
  <1>6. \A f, p : Solves(f, S, V, W) /\ p \in S => H[f][p] \in V /\ H[f][p] \in W[p]
    BY <1>4
  <1>7. \A f, g, p : /\ Solves(f, S, V, W) /\ Solves(g, S, V, W) /\ p \in S
                     /\ \A q \in S : r[q] < r[p] => f[q] = g[q]
                     => H[f][p] = H[g][p]
    <2> TAKE f, g, p
    <2> HAVE /\ Solves(f, S, V, W) /\ Solves(g, S, V, W) /\ p \in S
             /\ \A q \in S : r[q] < r[p] => f[q] = g[q]
    <2> QED BY <1>5
  <1>8. Recursive(S, r, V, W, H)
    BY <1>1, <1>6, <1>7 DEF Recursive
  <1>9. PICK f : Solves(f, S, V, W) /\ \A p \in S : f[p] = H[f][p]
    BY <1>8, Recursion
  <1>10. f = [p \in S |-> Understand(e, f, p[1], p[2])] /\ f \in [S -> V]
    BY <1>2, <1>9 DEF Solves
  <1>11. Of(e) = [p \in S |-> Understand(e, Of(e), p[1], p[2])]
    BY <1>10 DEF Of, S
  <1> DEFINE g == Of(e)
             T == { p \in S : f[p] = g[p] }
  <1>12. ASSUME NEW p \in S, \A q \in S : r[q] < r[p] => q \in T PROVE p \in T
    <2>1. ASSUME NEW k \in 1..(N + 1), NEW l \in 0..N, p[1] <= p[2], l - k < p[2] - p[1]
          PROVE  f[<<k, l>>] = g[<<k, l>>]
      <3>1. <<k, l>> \in S
        BY DEF Pieces, S
      <3>2. r[<<k, l>>] = (IF k > l THEN 0 ELSE l - k + 1) /\ r[p] = p[2] - p[1] + 1
        BY <1>0, <2>1, <3>1 DEF r
      <3>3. r[<<k, l>>] < r[p]
        BY <1>0, <2>1, <3>2
      <3> QED BY <1>12, <3>1, <3>3
    <2>2. p[1] \in 1..(N + 1) /\ p[2] \in 0..N
      BY <1>0
    <2>3. f \in [Pieces(e) -> Meanings]
      BY <1>10 DEF S, V
    <2> HIDE DEF g
    <2>4. Understand(e, f, p[1], p[2]) = Understand(e, g, p[1], p[2])
      BY <2>1, <2>2, <2>3, Understood
    <2>5. g[p] = Understand(e, g, p[1], p[2])
      BY <1>11 DEF g
    <2>6. f[p] = Understand(e, f, p[1], p[2])
      BY <1>10
    <2> QED BY <2>4, <2>5, <2>6
  <1> HIDE DEF T
  <1>13. S \subseteq T
    <2>1. r \in [S -> Nat]
      BY <1>1
    <2> QED BY <1>12, <2>1, RankInduction
  <1>14. g = f
    <2>1. \A p \in S : f[p] = g[p]
      BY <1>13 DEF T
    <2> QED BY <1>10, <1>11, <2>1
  <1> QED BY <1>10, <1>11, <1>14 DEF S, V

Mean(e, i, j) == Of(e)[<<i, j>>]

LEMMA MeanIs ==
  ASSUME NEW e \in Seq(Lexemes), NEW i \in 1..(Len(e) + 1), NEW j \in 0..Len(e)
  PROVE  Mean(e, i, j) \in Meanings /\ Mean(e, i, j) = Understand(e, Of(e), i, j)
  <1>1. <<i, j>> \in Pieces(e)
    BY DEF Pieces
  <1> DEFINE p == <<i, j>>
  <1>2. p[1] = i /\ p[2] = j
    OBVIOUS
  <1> HIDE DEF p
  <1>3. p \in Pieces(e)
    BY <1>1 DEF p
  <1>4. Of(e)[p] \in Meanings /\ Of(e)[p] = Understand(e, Of(e), p[1], p[2])
    BY <1>3, OfExists
  <1> QED BY <1>2, <1>4 DEF Mean, p

LEMMA MeaningIs ==
  ASSUME NEW e \in Seq(Lexemes)
  PROVE  Meaning(e) = Mean(e, 1, Len(e))
  BY DEF Meaning, Mean, Of, Pieces

-----------------------------------------------------------------------------
(***************************************************************************)
(* The shape of a piece that means something; its parentheses are paired.  *)
(***************************************************************************)
Grammatical(e, i, j) == Mean(e, i, j).grammatical

LEMMA BinaryIs ==
  ASSUME NEW x \in Meanings, NEW y \in Meanings, NEW v
  PROVE  /\ Binary(x, y, v).grammatical <=> x.grammatical /\ y.grammatical
         /\ Unary(x, v).grammatical <=> x.grammatical
  BY MeaningParts DEF Binary, Unary, Known, Wrong

\* The shapes of a piece that means something.
SumOf(e, i, j, k) ==
  /\ k = Max(Loose(e, i, j)) /\ Loose(e, i, j) # {}
  /\ k \in Nat /\ i < k /\ k <= j
  /\ Grammatical(e, i, k - 1) /\ Grammatical(e, k + 1, j)
SignOf(e, i, j) == Tight(e, i, j) /\ e[i].kind \in Additive /\ Grammatical(e, i + 1, j)
PowerOf(e, i, j, k) ==
  /\ Bare(e, i, j) /\ k = Min(Powers(e, i, j)) /\ Powers(e, i, j) # {}
  /\ k \in Nat /\ i < k /\ k <= j
  /\ k = i + 1 \/ e[k - 1].kind = "RPAREN"
  /\ Grammatical(e, i, k - 1) /\ Grammatical(e, k + 1, j)
PercentOf(e, i, j) == Atom(e, i, j) /\ e[j].kind = "PERCENT" /\ Grammatical(e, i, j - 1)
GroupOf(e, i, j) ==
  Atom(e, i, j) /\ e[j].kind # "PERCENT" /\ Paired(e, i, j) /\ Grammatical(e, i + 1, j - 1)
NumberAt(e, i, j) == Atom(e, i, j) /\ i = j /\ e[i].kind = "NUMBER"

LEMMA ShapeIs ==
  ASSUME NEW e \in Seq(Lexemes), NEW i \in 1..(Len(e) + 1), NEW j \in 0..Len(e),
         Grammatical(e, i, j)
  PROVE  /\ i <= j
         /\ \/ \E k : SumOf(e, i, j, k)
            \/ SignOf(e, i, j)
            \/ \E k : PowerOf(e, i, j, k)
            \/ PercentOf(e, i, j)
            \/ GroupOf(e, i, j)
            \/ NumberAt(e, i, j)
  <1> DEFINE N == Len(e)
             u == Understand(e, Of(e), i, j)
  <1>1. N \in Nat /\ i \in Nat /\ j \in Nat /\ u.grammatical
    BY MeanIs DEF Grammatical
  <1>2. \A k \in 1..(N + 1), l \in 0..N : Of(e)[<<k, l>>] = Mean(e, k, l) /\ Mean(e, k, l) \in Meanings
    BY MeanIs DEF Mean
  <1>3. ~(i > j)
    <2> SUFFICES ASSUME i > j PROVE FALSE
      OBVIOUS
    <2>1. u = Wrong
      BY OutsideMeans
    <2> QED BY <1>1, <2>1, WrongIs
  <1>4. CASE Loose(e, i, j) # {}
    <2> DEFINE k == Max(Loose(e, i, j))
               o == Operate(e[k].kind, Of(e)[<<i, k - 1>>].value, Of(e)[<<k + 1, j>>].value)
    <2>1. k \in Nat /\ i < k /\ k <= j
      BY <1>1, <1>4, LooseIs
    <2>2. k - 1 \in 0..N /\ k + 1 \in 1..(N + 1)
      BY <1>1, <2>1
    <2>3. u = Binary(Of(e)[<<i, k - 1>>], Of(e)[<<k + 1, j>>], o)
      BY <1>3, <1>4, LooseMeans
    <2> HIDE DEF o, u
    <2>4. Mean(e, i, k - 1).grammatical /\ Mean(e, k + 1, j).grammatical
      BY <1>1, <1>2, <2>2, <2>3, BinaryIs
    <2>5. SumOf(e, i, j, k)
      BY <1>4, <2>1, <2>4 DEF SumOf, Grammatical
    <2> QED BY <1>1, <1>3, <2>5
  <1>5. CASE Tight(e, i, j) /\ e[i].kind \in Additive
    <2> DEFINE o == Signed(e[i].kind, Of(e)[<<i + 1, j>>].value)
    <2>1. u = Unary(Of(e)[<<i + 1, j>>], o)
      BY <1>5, SignMeans
    <2>2. i + 1 \in 1..(N + 1)
      BY <1>1, <1>3
    <2> HIDE DEF o, u
    <2>3. Mean(e, i + 1, j).grammatical
      BY <1>1, <1>2, <2>1, <2>2, BinaryIs
    <2> QED BY <1>1, <1>3, <1>5, <2>3 DEF SignOf, Grammatical
  <1>6. CASE Bare(e, i, j) /\ Powers(e, i, j) # {}
    <2> DEFINE k == Min(Powers(e, i, j))
               o == Power(Of(e)[<<i, k - 1>>].value, Of(e)[<<k + 1, j>>].value)
               joined == k = i + 1 \/ e[k - 1].kind = "RPAREN"
    <2>1. k \in Nat /\ i < k /\ k <= j
      BY <1>1, <1>6, PowersAre
    <2>2. k - 1 \in 0..N /\ k + 1 \in 1..(N + 1)
      BY <1>1, <2>1
    <2>3. u = IF joined THEN Binary(Of(e)[<<i, k - 1>>], Of(e)[<<k + 1, j>>], o) ELSE Wrong
      BY <1>6, PowerMeans
    <2>4. joined
      <3> HIDE DEF o, u, joined
      <3> QED BY <1>1, <2>3, WrongIs
    <2>5. Mean(e, i, k - 1).grammatical /\ Mean(e, k + 1, j).grammatical
      <3> HIDE DEF o, u, joined
      <3> QED BY <1>1, <1>2, <2>2, <2>3, <2>4, BinaryIs
    <2>6. PowerOf(e, i, j, k)
      BY <1>6, <2>1, <2>4, <2>5 DEF PowerOf, Grammatical
    <2> QED BY <1>1, <1>3, <2>6
  <1>7. CASE Atom(e, i, j) /\ e[j].kind = "PERCENT"
    <2> DEFINE o == Percent(Of(e)[<<i, j - 1>>].value)
    <2>1. u = Unary(Of(e)[<<i, j - 1>>], o)
      BY <1>7, PercentMeans
    <2>2. j - 1 \in 0..N
      BY <1>1, <1>3
    <2> HIDE DEF o, u
    <2>3. Mean(e, i, j - 1).grammatical
      BY <1>1, <1>2, <2>1, <2>2, BinaryIs
    <2> QED BY <1>1, <1>3, <1>7, <2>3 DEF PercentOf, Grammatical
  <1>8. CASE Atom(e, i, j) /\ e[j].kind # "PERCENT"
    <2> DEFINE o == Known(Bounded(Integer(e[i].literal)), {})
               number == i = j /\ e[i].kind = "NUMBER"
    <2>1. u = IF Paired(e, i, j) THEN Of(e)[<<i + 1, j - 1>>] ELSE IF number THEN o ELSE Wrong
      BY <1>8, PrimaryMeans
    <2>2. CASE Paired(e, i, j)
      <3>1. i < j
        BY <2>2 DEF Paired
      <3>2. i + 1 \in 1..(N + 1) /\ j - 1 \in 0..N
        BY <1>1, <3>1
      <3>3. Grammatical(e, i + 1, j - 1)
        BY <1>1, <1>2, <2>1, <2>2, <3>2 DEF Grammatical
      <3> QED BY <1>1, <1>3, <1>8, <2>2, <3>3 DEF GroupOf
    <2>3. CASE ~Paired(e, i, j)
      <3>1. number
        <4> HIDE DEF number, u, o
        <4> QED BY <1>1, <2>1, <2>3, WrongIs
      <3> QED BY <1>1, <1>3, <1>8, <3>1 DEF NumberAt
    <2> QED BY <2>2, <2>3
  <1> QED BY <1>1, <1>3, <1>4, <1>5, <1>6, <1>7, <1>8 DEF Atom, Bare, Tight

Enders == {"NUMBER", "RPAREN", "PERCENT"}
Balanced(e, i, j) ==
  /\ i <= j /\ e[j].kind \in Enders
  /\ Depth(e, j) = Depth(e, i - 1) /\ \A k \in i..j : Depth(e, k) >= Depth(e, i - 1)

LEMMA LooseAre ==
  ASSUME NEW e, NEW i \in Int, NEW j \in Int, NEW k \in Loose(e, i, j)
  PROVE  /\ k \in Int /\ i + 1 <= k /\ k <= j /\ Depth(e, k - 1) = Depth(e, i - 1)
         /\ e[k].kind \in InfixKinds /\ e[k].kind \in Additive \cup Multiplicative
         /\ e[k - 1].kind \in {"NUMBER", "RPAREN", "PERCENT"}
  <1>1. CASE k \in Infixes(e, i, j, Additive)
    BY <1>1, InfixesAre DEF InfixKinds
  <1>2. CASE k \in Infixes(e, i, j, Multiplicative)
    BY <1>2, InfixesAre DEF InfixKinds
  <1> QED BY <1>1, <1>2 DEF Loose

LEMMA PieceInduction ==
  ASSUME NEW e \in Seq(Lexemes), NEW T,
         \A a \in 1..(Len(e) + 1), b \in 0..Len(e) :
           (\A k \in 1..(Len(e) + 1), l \in 0..Len(e) : a <= b /\ l - k < b - a => <<k, l>> \in T)
           => <<a, b>> \in T
  PROVE  \A a \in 1..(Len(e) + 1), b \in 0..Len(e) : <<a, b>> \in T
  <1> DEFINE N == Len(e)
             S == Pieces(e)
             r == [p \in S |-> IF p[1] > p[2] THEN 0 ELSE p[2] - p[1] + 1]
  <1>0. N \in Nat /\ \A p \in S : p[1] \in 1..(N + 1) /\ p[2] \in 0..N /\ p = <<p[1], p[2]>>
    BY DEF Pieces
  <1>1. r \in [S -> Nat]
    <2>1. \A p \in S : r[p] \in Nat
      BY <1>0
    <2> HIDE DEF S
    <2> QED BY <2>1
  <1>2. ASSUME NEW p \in S, \A q \in S : r[q] < r[p] => q \in T PROVE p \in T
    <2>1. ASSUME NEW k \in 1..(N + 1), NEW l \in 0..N, p[1] <= p[2], l - k < p[2] - p[1]
          PROVE  <<k, l>> \in T
      <3>1. <<k, l>> \in S
        BY DEF Pieces
      <3>2. r[<<k, l>>] = (IF k > l THEN 0 ELSE l - k + 1) /\ r[p] = p[2] - p[1] + 1
        BY <1>0, <2>1, <3>1
      <3>3. r[<<k, l>>] < r[p]
        BY <1>0, <2>1, <3>2
      <3> QED BY <1>2, <3>1, <3>3
    <2>2. <<p[1], p[2]>> \in T
      BY <1>0, <2>1
    <2> QED BY <1>0, <2>2
  <1> HIDE DEF S, r
  <1>3. S \subseteq T
    BY <1>1, <1>2, RankInduction
  <1>4. ASSUME NEW a \in 1..(N + 1), NEW b \in 0..N PROVE <<a, b>> \in T
    <2>1. <<a, b>> \in S
      BY DEF S, Pieces
    <2> QED BY <1>3, <2>1
  <1> QED BY <1>4

LEMMA BalancedStep ==
  ASSUME NEW e \in Seq(Lexemes), NEW a \in 1..(Len(e) + 1), NEW b \in 0..Len(e),
         Grammatical(e, a, b),
         \A k \in 1..(Len(e) + 1), l \in 0..Len(e) :
           a <= b /\ l - k < b - a /\ Grammatical(e, k, l) => Balanced(e, k, l)
  PROVE  Balanced(e, a, b)
  <1> DEFINE N == Len(e)
             D(k) == Depth(e, k)
  <1>0. /\ N \in Nat /\ a \in Nat /\ b \in Nat /\ a <= b /\ 1 <= a /\ b <= N
    BY ShapeIs
  <1>1. /\ a \in 1..(N + 1) /\ b \in 0..N
        /\ \A k \in 0..N : D(k) \in Int
        /\ \A k \in 1..N : e[k].kind \notin {"LPAREN", "RPAREN"} => D(k) = D(k - 1)
    BY DepthIs
  <1>2. a <= b
    BY <1>0
  <1>3. ASSUME NEW k \in 1..(N + 1), NEW l \in 0..N, l - k < b - a, Grammatical(e, k, l)
        PROVE  Balanced(e, k, l)
    BY <1>2, <1>3
  <1>4. ASSUME NEW k \in Nat, a < k, k <= b, D(k - 1) = D(a - 1),
               e[k].kind \in InfixKinds,
               Grammatical(e, a, k - 1), Grammatical(e, k + 1, b)
        PROVE  Balanced(e, a, b)
    <2>1. k - 1 \in 0..N /\ k + 1 \in 1..(N + 1) /\ k \in 1..N
      BY <1>0, <1>1, <1>4
    <2>2. Balanced(e, a, k - 1) /\ Balanced(e, k + 1, b)
      <3>1. /\ a \in 1..(N + 1) /\ b \in 0..N
            /\ (k - 1) - a < b - a /\ b - (k + 1) < b - a
        BY <1>0, <1>1, <1>4
      <3>2. Balanced(e, a, k - 1)
        BY <1>3, <1>4, <2>1, <3>1
      <3>3. Balanced(e, k + 1, b)
        BY <1>3, <1>4, <2>1, <3>1
      <3> QED BY <3>2, <3>3
    <2>3. D(k) = D(k - 1)
      BY <1>1, <1>4, <2>1 DEF InfixKinds, Additive, Multiplicative
    <2>4. (k + 1) - 1 = k
      BY <2>1
    <2>5. ASSUME NEW m \in a..b PROVE D(m) >= D(a - 1)
      <3>1. CASE m <= k - 1
        BY <1>1, <2>1, <2>2, <3>1 DEF Balanced
      <3>2. CASE m = k
        <4>1. D(m) = D(a - 1) /\ D(a - 1) \in Int
          BY <1>0, <1>1, <1>4, <2>3, <3>2
        <4> QED BY <4>1
      <3>3. CASE m >= k + 1
        BY <1>1, <1>4, <2>1, <2>2, <2>3, <2>4, <3>3 DEF Balanced
      <3> QED BY <1>1, <2>1, <3>1, <3>2, <3>3
    <2> QED BY <1>2, <1>4, <2>2, <2>3, <2>4, <2>5 DEF Balanced
  <1>5. CASE \E k : SumOf(e, a, b, k)
    <2>1. PICK k : SumOf(e, a, b, k)
      BY <1>5
    <2>2. k \in Nat /\ a < k /\ k <= b /\ k \in Loose(e, a, b)
          /\ Grammatical(e, a, k - 1) /\ Grammatical(e, k + 1, b)
      BY <1>1, <2>1, LooseIs DEF SumOf
    <2>3. a \in Int /\ b \in Int /\ k \in Loose(e, a, b)
      BY <1>0, <2>2
    <2>4. D(k - 1) = D(a - 1) /\ e[k].kind \in InfixKinds
      BY <2>3, LooseAre
    <2> QED BY <1>4, <2>2, <2>4
  <1>6. CASE \E k : PowerOf(e, a, b, k)
    <2>1. PICK k : PowerOf(e, a, b, k)
      BY <1>6
    <2>2. k \in Nat /\ a < k /\ k <= b /\ k \in Powers(e, a, b)
          /\ Grammatical(e, a, k - 1) /\ Grammatical(e, k + 1, b)
      BY <1>1, <2>1, PowersAre DEF PowerOf
    <2>3. D(k - 1) = D(a - 1) /\ e[k].kind \in InfixKinds
      BY <1>1, <2>2, InfixesAre DEF Powers, InfixKinds
    <2> QED BY <1>4, <2>2, <2>3
  <1>7. CASE SignOf(e, a, b)
    <2>1. a + 1 \in 1..(N + 1) /\ a \in 1..N /\ b - (a + 1) < b - a /\ (a + 1) - 1 = a
      BY <1>0, <1>1, <1>2
    <2>2. Balanced(e, a + 1, b)
      BY <1>1, <1>3, <1>7, <2>1 DEF SignOf
    <2>3. D(a) = D(a - 1)
      BY <1>1, <1>7, <2>1 DEF SignOf, Additive
    <2>4. ASSUME NEW m \in a..b PROVE D(m) >= D(a - 1)
      <3>1. CASE m = a
        <4>1. D(m) = D(a - 1) /\ D(a - 1) \in Int
          BY <1>0, <1>1, <2>3, <3>1
        <4> QED BY <4>1
      <3>2. CASE m # a
        BY <1>1, <2>1, <2>2, <2>3, <3>2 DEF Balanced
      <3> QED BY <3>1, <3>2
    <2> QED BY <1>2, <2>1, <2>2, <2>3, <2>4 DEF Balanced
  <1>8. CASE PercentOf(e, a, b)
    <2>1. b - 1 \in 0..N /\ b \in 1..N /\ (b - 1) - a < b - a
      BY <1>0, <1>1, <1>2
    <2>2. Balanced(e, a, b - 1) /\ e[b].kind = "PERCENT"
      BY <1>1, <1>3, <1>8, <2>1 DEF PercentOf
    <2>3. D(b) = D(b - 1)
      BY <1>1, <2>1, <2>2
    <2>4. ASSUME NEW m \in a..b PROVE D(m) >= D(a - 1)
      <3>1. CASE m = b
        <4>1. D(m) = D(a - 1) /\ D(a - 1) \in Int
          BY <1>0, <1>1, <2>2, <2>3, <3>1 DEF Balanced
        <4> QED BY <4>1
      <3>2. CASE m # b
        BY <1>1, <2>1, <2>2, <3>2 DEF Balanced
      <3> QED BY <3>1, <3>2
    <2> QED BY <1>2, <2>2, <2>3, <2>4 DEF Balanced, Enders
  <1>9. CASE GroupOf(e, a, b)
    <2>1. a < b /\ e[a].kind = "LPAREN" /\ e[b].kind = "RPAREN"
      BY <1>9 DEF GroupOf, Paired
    <2>2. /\ a + 1 \in 1..(N + 1) /\ b - 1 \in 0..N /\ a \in 1..N /\ b \in 1..N
          /\ (b - 1) - (a + 1) < b - a /\ (a + 1) - 1 = a
      BY <1>0, <1>1, <2>1
    <2>3. Balanced(e, a + 1, b - 1)
      BY <1>1, <1>3, <1>9, <2>2 DEF GroupOf
    <2>4. D(a) = D(a - 1) + 1 /\ D(b) = D(b - 1) - 1 /\ D(a - 1) \in Int /\ D(b - 1) \in Int
      BY <1>1, <2>1, <2>2, DepthIs
    <2>5. D(b - 1) = D(a)
      BY <2>2, <2>3 DEF Balanced
    <2>6. D(b) = D(a - 1)
      BY <2>4, <2>5
    <2>7. ASSUME NEW m \in a..b PROVE D(m) >= D(a - 1)
      <3>1. CASE m = b \/ m = a
        BY <2>4, <2>6, <3>1
      <3>2. CASE m # b /\ m # a
        <4>1. m \in (a + 1)..(b - 1) /\ D(m) \in Int
          BY <1>0, <1>1, <2>2, <3>2
        <4>2. D(m) >= D(a)
          BY <2>2, <2>3, <4>1 DEF Balanced
        <4> QED BY <2>4, <4>1, <4>2
      <3> QED BY <3>1, <3>2
    <2> QED BY <1>2, <2>1, <2>6, <2>7 DEF Balanced, Enders
  <1>10. CASE NumberAt(e, a, b)
    <2>1. a = b /\ e[b].kind = "NUMBER" /\ b \in 1..N
      BY <1>0, <1>1, <1>10 DEF NumberAt
    <2>2. D(b) = D(b - 1) /\ D(b - 1) \in Int
      BY <1>0, <1>1, <2>1
    <2> QED BY <1>1, <2>1, <2>2 DEF Balanced, Enders
  <1> QED BY <1>1, <1>5, <1>6, <1>7, <1>8, <1>9, <1>10, ShapeIs

LEMMA BalancedIs ==
  ASSUME NEW e \in Seq(Lexemes), NEW i \in 1..(Len(e) + 1), NEW j \in 0..Len(e),
         Grammatical(e, i, j)
  PROVE  Balanced(e, i, j)
  <1> DEFINE T == { p \in Pieces(e) : Grammatical(e, p[1], p[2]) => Balanced(e, p[1], p[2]) }
  <1>1. ASSUME NEW a \in 1..(Len(e) + 1), NEW b \in 0..Len(e),
               \A k \in 1..(Len(e) + 1), l \in 0..Len(e) : a <= b /\ l - k < b - a => <<k, l>> \in T
        PROVE  <<a, b>> \in T
    <2>1. <<a, b>> \in Pieces(e)
      BY DEF Pieces
    <2>2. Grammatical(e, a, b) => Balanced(e, a, b)
      BY <1>1, BalancedStep
    <2> QED BY <2>1, <2>2
  <1> HIDE DEF T
  <1>2. <<i, j>> \in T
    BY <1>1, PieceInduction
  <1> QED BY <1>2 DEF T

-----------------------------------------------------------------------------
(***************************************************************************)
(* From the parts to the whole: two pieces around an operator, a sign      *)
(* before a piece, a percent sign behind it, or parentheses around it make *)
(* a piece.                                                                *)
(***************************************************************************)
\* The operators of a piece that is cut at one of them are those of both parts.
LEMMA InfixesAcross ==
  ASSUME NEW e \in Seq(Lexemes), NEW i \in 1..Len(e), NEW j \in 1..Len(e), NEW k \in (i + 1)..j,
         e[k].kind \in InfixKinds, Balanced(e, i, k - 1), NEW K, NEW m
  PROVE  m \in Infixes(e, i, j, K) <=>
           \/ m \in Infixes(e, i, k - 1, K)
           \/ m = k /\ e[k].kind \in K
           \/ m \in Infixes(e, k + 1, j, K)
  <1> DEFINE D(x) == Depth(e, x)
  <1>1. /\ i \in Int /\ j \in Int /\ k \in Int /\ k \in 1..Len(e) /\ i < k /\ k <= j
        /\ k - 1 \in Int /\ k + 1 \in Int /\ (k + 1) - 1 = k
    OBVIOUS
  <1>2. D(k) = D(k - 1) /\ e[k].kind \notin {"NUMBER", "RPAREN", "PERCENT"}
    BY <1>1, DepthIs DEF InfixKinds, Additive, Multiplicative
  <1>3. D(k - 1) = D(i - 1) /\ e[k - 1].kind \in {"NUMBER", "RPAREN", "PERCENT"}
    BY DEF Balanced, Enders
  <1>4. m \in Infixes(e, i, j, K) <=>
          /\ m \in Int /\ i + 1 <= m /\ m <= j /\ D(m - 1) = D(i - 1)
          /\ e[m].kind \in K /\ e[m - 1].kind \in {"NUMBER", "RPAREN", "PERCENT"}
    BY <1>1, InfixesAre
  <1>5. m \in Infixes(e, i, k - 1, K) <=>
          /\ m \in Int /\ i + 1 <= m /\ m <= k - 1 /\ D(m - 1) = D(i - 1)
          /\ e[m].kind \in K /\ e[m - 1].kind \in {"NUMBER", "RPAREN", "PERCENT"}
    BY <1>1, InfixesAre
  <1>6. m \in Infixes(e, k + 1, j, K) <=>
          /\ m \in Int /\ (k + 1) + 1 <= m /\ m <= j /\ D(m - 1) = D(k)
          /\ e[m].kind \in K /\ e[m - 1].kind \in {"NUMBER", "RPAREN", "PERCENT"}
    BY <1>1, InfixesAre
  <1>7. m = k + 1 => e[m - 1].kind \notin {"NUMBER", "RPAREN", "PERCENT"}
    BY <1>1, <1>2
  <1>8. CASE m \in Int /\ m < k
    BY <1>1, <1>4, <1>5, <1>6, <1>8
  <1>9. CASE m = k
    BY <1>1, <1>3, <1>4, <1>5, <1>6, <1>9
  <1>10. CASE m \in Int /\ m > k
    BY <1>1, <1>2, <1>3, <1>4, <1>5, <1>6, <1>7, <1>10
  <1>11. CASE m \notin Int
    BY <1>1, <1>4, <1>5, <1>6, <1>11
  <1> QED BY <1>1, <1>8, <1>9, <1>10, <1>11

\* A sign in front, or a percent sign behind, adds none.
LEMMA InfixesSigned ==
  ASSUME NEW e \in Seq(Lexemes), NEW i \in 1..Len(e), NEW j \in 1..Len(e), e[i].kind \in Additive,
         NEW K
  PROVE  Infixes(e, i, j, K) = Infixes(e, i + 1, j, K)
  <1> DEFINE D(x) == Depth(e, x)
  <1>1. i \in Int /\ j \in Int /\ i + 1 \in Int /\ (i + 1) - 1 = i
    OBVIOUS
  <1>2. D(i) = D(i - 1) /\ e[i].kind \notin {"NUMBER", "RPAREN", "PERCENT"}
    BY DepthIs DEF Additive
  <1>3. ASSUME NEW m PROVE m \in Infixes(e, i, j, K) <=> m \in Infixes(e, i + 1, j, K)
    <2>1. m \in Infixes(e, i, j, K) <=>
            /\ m \in Int /\ i + 1 <= m /\ m <= j /\ D(m - 1) = D(i - 1)
            /\ e[m].kind \in K /\ e[m - 1].kind \in {"NUMBER", "RPAREN", "PERCENT"}
      BY <1>1, InfixesAre
    <2>2. m \in Infixes(e, i + 1, j, K) <=>
            /\ m \in Int /\ (i + 1) + 1 <= m /\ m <= j /\ D(m - 1) = D(i)
            /\ e[m].kind \in K /\ e[m - 1].kind \in {"NUMBER", "RPAREN", "PERCENT"}
      BY <1>1, InfixesAre
    <2>3. m = i + 1 => e[m - 1].kind \notin {"NUMBER", "RPAREN", "PERCENT"}
      BY <1>1, <1>2
    <2> QED BY <1>1, <1>2, <2>1, <2>2, <2>3
  <1> QED BY <1>3

LEMMA InfixesShorter ==
  ASSUME NEW e \in Seq(Lexemes), NEW i \in 1..Len(e), NEW j \in 1..Len(e), NEW K, e[j].kind \notin K
  PROVE  Infixes(e, i, j, K) = Infixes(e, i, j - 1, K)
  <1>1. i \in Int /\ j \in Int /\ j - 1 \in Int
    OBVIOUS
  <1>2. ASSUME NEW m PROVE m \in Infixes(e, i, j, K) <=> m \in Infixes(e, i, j - 1, K)
    <2>1. m \in Infixes(e, i, j, K) <=>
            /\ m \in Int /\ i + 1 <= m /\ m <= j /\ Depth(e, m - 1) = Depth(e, i - 1)
            /\ e[m].kind \in K /\ e[m - 1].kind \in {"NUMBER", "RPAREN", "PERCENT"}
      BY <1>1, InfixesAre
    <2>2. m \in Infixes(e, i, j - 1, K) <=>
            /\ m \in Int /\ i + 1 <= m /\ m <= j - 1 /\ Depth(e, m - 1) = Depth(e, i - 1)
            /\ e[m].kind \in K /\ e[m - 1].kind \in {"NUMBER", "RPAREN", "PERCENT"}
      BY <1>1, InfixesAre
    <2> QED BY <1>1, <2>1, <2>2
  <1> QED BY <1>2

\* Between a pair of parentheses there is nothing that is not inside.
LEMMA GroupIsPaired ==
  ASSUME NEW e \in Seq(Lexemes), NEW i \in 1..Len(e), NEW j \in 1..Len(e),
         e[i].kind = "LPAREN", e[j].kind = "RPAREN", i < j, Balanced(e, i + 1, j - 1)
  PROVE  Paired(e, i, j) /\ \A K : Infixes(e, i, j, K) = {}
  <1> DEFINE D(x) == Depth(e, x)
  <1>1. (i + 1) - 1 = i /\ i \in Int /\ j \in Int /\ i - 1 \in 0..Len(e)
    OBVIOUS
  <1>2. D(i) = D(i - 1) + 1 /\ D(i - 1) \in Int /\ D(i) \in Int
    BY <1>1, DepthIs
  <1>3. \A x \in (i + 1)..(j - 1) : D(x) >= D(i)
    BY <1>1 DEF Balanced
  <1>4. ASSUME NEW x \in (i + 1)..j PROVE D(x - 1) # D(i - 1)
    <2>1. CASE x = i + 1
      <3>1. x - 1 = i
        BY <1>1, <2>1
      <3> QED BY <1>2, <3>1
    <2>2. CASE x # i + 1
      <3>1. x - 1 \in (i + 1)..(j - 1) /\ x - 1 \in 0..Len(e)
        BY <1>1, <2>2
      <3>2. D(x - 1) >= D(i) /\ D(x - 1) \in Int
        BY <1>3, <3>1, DepthIs
      <3> QED BY <1>2, <3>2
    <2> QED BY <2>1, <2>2
  <1>5. Paired(e, i, j)
    BY <1>4 DEF Paired
  <1>6. \A K : Infixes(e, i, j, K) = {}
    BY <1>4 DEF Infixes
  <1> QED BY <1>5, <1>6

LEMMA NumberIsAlone ==
  ASSUME NEW e \in Seq(Lexemes), NEW i \in 1..Len(e)
  PROVE  ~Paired(e, i, i) /\ \A K : Infixes(e, i, i, K) = {}
  BY DEF Infixes, Paired

LEMMA MaxOf ==
  ASSUME NEW T \in SUBSET Nat, NEW k \in T, \A m \in T : m <= k
  PROVE  Max(T) = k /\ T # {}
  BY MaxIs

LEMMA MinOf ==
  ASSUME NEW T \in SUBSET Nat, NEW k \in T, \A m \in T : k <= m
  PROVE  Min(T) = k /\ T # {}
  <1>1. Min(T) \in T /\ Min(T) <= k
    BY MinIs
  <1>2. k <= Min(T) /\ Min(T) \in Nat /\ k \in Nat
    BY <1>1
  <1> QED BY <1>1, <1>2

ProductForm(e, i, j) == Grammatical(e, i, j) /\ Infixes(e, i, j, Additive) = {}
UnaryForm(e, i, j) == Grammatical(e, i, j) /\ Loose(e, i, j) = {}
PostfixForm(e, i, j) == UnaryForm(e, i, j) /\ e[i].kind \notin Additive
BaseForm(e, i, j) ==
  PostfixForm(e, i, j) /\ Powers(e, i, j) = {} /\ e[j].kind # "PERCENT"

LEMMA UnaryFormIs ==
  ASSUME NEW e, NEW i, NEW j
  PROVE  UnaryForm(e, i, j) <=> /\ Grammatical(e, i, j) /\ Infixes(e, i, j, Additive) = {}
                                /\ Infixes(e, i, j, Multiplicative) = {}
  BY DEF UnaryForm, Loose

LEMMA JoinedAt ==
  ASSUME NEW e \in Seq(Lexemes), NEW i \in 1..Len(e), NEW j \in 1..Len(e), NEW k \in (i + 1)..j,
         e[k].kind \in InfixKinds, Grammatical(e, i, k - 1), Grammatical(e, k + 1, j)
  PROVE  /\ k \in Nat /\ k - 1 \in 0..Len(e) /\ k + 1 \in 1..(Len(e) + 1) /\ k + 1 <= j
         /\ i <= k - 1
         /\ Balanced(e, i, k - 1) /\ ~(i > j)
         /\ Mean(e, i, k - 1) \in Meanings /\ Mean(e, k + 1, j) \in Meanings
         /\ Mean(e, i, k - 1).grammatical /\ Mean(e, k + 1, j).grammatical
         /\ \A K : Infixes(e, i, k - 1, K) \in SUBSET Nat /\ Infixes(e, i, j, K) \in SUBSET Nat
         /\ \A K : \A m \in Infixes(e, i, k - 1, K) : m < k
  <1>1. /\ k \in Nat /\ k - 1 \in 0..Len(e) /\ k + 1 \in 1..(Len(e) + 1) /\ i \in 1..(Len(e) + 1)
        /\ j \in 0..Len(e) /\ i \in Nat /\ j \in Nat /\ k - 1 \in Nat /\ ~(i > j)
    OBVIOUS
  <1>2. Balanced(e, i, k - 1) /\ Balanced(e, k + 1, j)
    BY <1>1, BalancedIs
  <1>3. k + 1 <= j /\ i <= k - 1
    BY <1>2 DEF Balanced
  <1>4. \A K : \A m \in Infixes(e, i, k - 1, K) : m \in Nat /\ m < k
    BY <1>1, InfixesAre
  <1>5. \A K : \A m \in Infixes(e, i, j, K) : m \in Nat
    BY <1>1, InfixesAre
  <1> QED BY <1>1, <1>2, <1>3, <1>4, <1>5, MeanIs DEF Grammatical

LEMMA SumJoin ==
  ASSUME NEW e \in Seq(Lexemes), NEW i \in 1..Len(e), NEW j \in 1..Len(e), NEW k \in (i + 1)..j,
         e[k].kind \in Additive, Grammatical(e, i, k - 1), ProductForm(e, k + 1, j)
  PROVE  /\ Mean(e, i, j) = Binary(Mean(e, i, k - 1), Mean(e, k + 1, j),
                              Operate(e[k].kind, Mean(e, i, k - 1).value, Mean(e, k + 1, j).value))
         /\ Grammatical(e, i, j)
  <1> DEFINE T == Infixes(e, i, j, Additive)
             v == Operate(e[k].kind, Mean(e, i, k - 1).value, Mean(e, k + 1, j).value)
  <1>1. e[k].kind \in InfixKinds /\ Grammatical(e, k + 1, j) /\ Infixes(e, k + 1, j, Additive) = {}
    BY DEF InfixKinds, ProductForm
  <1>2. /\ k \in Nat /\ Balanced(e, i, k - 1) /\ ~(i > j)
        /\ Mean(e, i, k - 1) \in Meanings /\ Mean(e, k + 1, j) \in Meanings
        /\ Mean(e, i, k - 1).grammatical /\ Mean(e, k + 1, j).grammatical
        /\ \A m \in Infixes(e, i, k - 1, Additive) : m < k
        /\ T \in SUBSET Nat
    BY <1>1, JoinedAt
  <1>3. k \in T /\ \A m \in T : m <= k
    <2>1. k \in T
      BY <1>1, <1>2, InfixesAcross
    <2>2. ASSUME NEW m \in T PROVE m <= k
      <3>1. m \in Infixes(e, i, k - 1, Additive) \/ m = k
        BY <1>1, <1>2, InfixesAcross
      <3> QED BY <1>2, <3>1
    <2> QED BY <2>1, <2>2
  <1> HIDE DEF T, v
  <1>4. Max(T) = k /\ T # {}
    BY <1>2, <1>3, MaxOf
  <1>5. Loose(e, i, j) = T
    BY <1>4 DEF Loose, T
  <1>6. Understand(e, Of(e), i, j) = Binary(Mean(e, i, k - 1), Mean(e, k + 1, j), v)
    <2>1. ~(i > j) /\ Loose(e, i, j) # {} /\ k = Max(Loose(e, i, j))
      BY <1>2, <1>4, <1>5
    <2>2. \A f : Understand(e, f, i, j) =
                   Binary(f[<<i, k - 1>>], f[<<k + 1, j>>],
                          Operate(e[k].kind, f[<<i, k - 1>>].value, f[<<k + 1, j>>].value))
      BY <2>1, LooseMeans
    <2> QED BY <2>2 DEF Mean, v
  <1>7. Mean(e, i, j) = Binary(Mean(e, i, k - 1), Mean(e, k + 1, j), v)
    BY <1>6, MeanIs
  <1> QED BY <1>2, <1>7, BinaryIs DEF Grammatical, v

LEMMA ProductJoin ==
  ASSUME NEW e \in Seq(Lexemes), NEW i \in 1..Len(e), NEW j \in 1..Len(e), NEW k \in (i + 1)..j,
         e[k].kind \in Multiplicative, ProductForm(e, i, k - 1), UnaryForm(e, k + 1, j)
  PROVE  /\ Mean(e, i, j) = Binary(Mean(e, i, k - 1), Mean(e, k + 1, j),
                              Operate(e[k].kind, Mean(e, i, k - 1).value, Mean(e, k + 1, j).value))
         /\ ProductForm(e, i, j)
  <1> DEFINE T == Infixes(e, i, j, Multiplicative)
             v == Operate(e[k].kind, Mean(e, i, k - 1).value, Mean(e, k + 1, j).value)
  <1>1. /\ e[k].kind \in InfixKinds /\ e[k].kind \notin Additive
        /\ Grammatical(e, k + 1, j) /\ Grammatical(e, i, k - 1)
        /\ Infixes(e, k + 1, j, Additive) = {} /\ Infixes(e, k + 1, j, Multiplicative) = {}
        /\ Infixes(e, i, k - 1, Additive) = {}
    BY UnaryFormIs DEF InfixKinds, ProductForm, Additive, Multiplicative
  <1>2. /\ k \in Nat /\ Balanced(e, i, k - 1) /\ ~(i > j)
        /\ Mean(e, i, k - 1) \in Meanings /\ Mean(e, k + 1, j) \in Meanings
        /\ Mean(e, i, k - 1).grammatical /\ Mean(e, k + 1, j).grammatical
        /\ \A m \in Infixes(e, i, k - 1, Multiplicative) : m < k
        /\ T \in SUBSET Nat
    BY <1>1, JoinedAt
  <1>3. k \in T /\ \A m \in T : m <= k
    <2>1. k \in T
      BY <1>1, <1>2, InfixesAcross
    <2>2. ASSUME NEW m \in T PROVE m <= k
      <3>1. m \in Infixes(e, i, k - 1, Multiplicative) \/ m = k
        BY <1>1, <1>2, InfixesAcross
      <3> QED BY <1>2, <3>1
    <2> QED BY <2>1, <2>2
  <1>4. Infixes(e, i, j, Additive) = {}
    <2>1. ASSUME NEW m \in Infixes(e, i, j, Additive) PROVE FALSE
      BY <1>1, <1>2, InfixesAcross
    <2> QED BY <2>1
  <1> HIDE DEF T, v
  <1>5. Max(T) = k /\ T # {}
    BY <1>2, <1>3, MaxOf
  <1>6. Loose(e, i, j) = T
    BY <1>4 DEF Loose, T
  <1>7. Understand(e, Of(e), i, j) = Binary(Mean(e, i, k - 1), Mean(e, k + 1, j), v)
    <2>1. ~(i > j) /\ Loose(e, i, j) # {} /\ k = Max(Loose(e, i, j))
      BY <1>2, <1>5, <1>6
    <2>2. \A f : Understand(e, f, i, j) =
                   Binary(f[<<i, k - 1>>], f[<<k + 1, j>>],
                          Operate(e[k].kind, f[<<i, k - 1>>].value, f[<<k + 1, j>>].value))
      BY <2>1, LooseMeans
    <2> QED BY <2>2 DEF Mean, v
  <1>8. Mean(e, i, j) = Binary(Mean(e, i, k - 1), Mean(e, k + 1, j), v)
    BY <1>7, MeanIs
  <1> QED BY <1>2, <1>4, <1>8, BinaryIs DEF Grammatical, ProductForm, v

LEMMA SignJoin ==
  ASSUME NEW e \in Seq(Lexemes), NEW i \in 1..Len(e), NEW j \in 1..Len(e),
         e[i].kind \in Additive, UnaryForm(e, i + 1, j)
  PROVE  /\ Mean(e, i, j) = Unary(Mean(e, i + 1, j), Signed(e[i].kind, Mean(e, i + 1, j).value))
         /\ UnaryForm(e, i, j)
  <1>0. i + 1 \in 1..(Len(e) + 1)
    OBVIOUS
  <1>1. Mean(e, i + 1, j) \in Meanings /\ Mean(e, i + 1, j).grammatical /\ i + 1 <= j /\ ~(i > j)
    <2>1. i + 1 <= j
      BY <1>0, ShapeIs DEF UnaryForm
    <2> QED BY <1>0, <2>1, MeanIs DEF Grammatical, UnaryForm
  <1>2. Loose(e, i, j) = {}
    BY InfixesSigned DEF Loose, UnaryForm
  <1>3. Tight(e, i, j)
    BY <1>1, <1>2 DEF Tight
  <1>4. Mean(e, i, j) = Unary(Mean(e, i + 1, j), Signed(e[i].kind, Mean(e, i + 1, j).value))
    BY <1>3, SignMeans, MeanIs DEF Mean
  <1> QED BY <1>1, <1>2, <1>4, BinaryIs DEF Grammatical, UnaryForm

\* What a power is raised from is one number, or in parentheses.
LEMMA BaseIs ==
  ASSUME NEW e \in Seq(Lexemes), NEW i \in 1..(Len(e) + 1), NEW j \in 0..Len(e), BaseForm(e, i, j)
  PROVE  \/ i < j /\ e[j].kind = "RPAREN" /\ GroupOf(e, i, j)
         \/ i = j /\ NumberAt(e, i, j)
  <1>1. Grammatical(e, i, j) /\ Loose(e, i, j) = {} /\ e[i].kind \notin Additive
        /\ Powers(e, i, j) = {} /\ e[j].kind # "PERCENT"
    BY DEF BaseForm, PostfixForm, UnaryForm
  <1>2. GroupOf(e, i, j) \/ NumberAt(e, i, j)
    BY <1>1, ShapeIs DEF SumOf, SignOf, PowerOf, PercentOf
  <1> QED BY <1>2 DEF GroupOf, NumberAt, Paired

LEMMA PowerJoin ==
  ASSUME NEW e \in Seq(Lexemes), NEW i \in 1..Len(e), NEW j \in 1..Len(e), NEW k \in (i + 1)..j,
         e[k].kind = "POWER", BaseForm(e, i, k - 1), UnaryForm(e, k + 1, j)
  PROVE  /\ Mean(e, i, j) = Binary(Mean(e, i, k - 1), Mean(e, k + 1, j),
                              Power(Mean(e, i, k - 1).value, Mean(e, k + 1, j).value))
         /\ PostfixForm(e, i, j) /\ Powers(e, i, j) # {}
  <1> DEFINE T == Powers(e, i, j)
             v == Power(Mean(e, i, k - 1).value, Mean(e, k + 1, j).value)
  <1>0. i \in 1..(Len(e) + 1) /\ j \in 0..Len(e)
    OBVIOUS
  <1>1. /\ e[k].kind \in InfixKinds /\ e[k].kind \notin Additive /\ e[k].kind \notin Multiplicative
        /\ Grammatical(e, k + 1, j) /\ Grammatical(e, i, k - 1)
        /\ Infixes(e, k + 1, j, Additive) = {} /\ Infixes(e, k + 1, j, Multiplicative) = {}
        /\ Infixes(e, i, k - 1, Additive) = {} /\ Infixes(e, i, k - 1, Multiplicative) = {}
        /\ Infixes(e, i, k - 1, {"POWER"}) = {} /\ e[i].kind \notin Additive
    BY UnaryFormIs DEF InfixKinds, BaseForm, PostfixForm, Powers, Additive, Multiplicative
  <1>2. /\ k \in Nat /\ Balanced(e, i, k - 1) /\ ~(i > j) /\ k + 1 \in Nat /\ j \in Nat
        /\ Mean(e, i, k - 1) \in Meanings /\ Mean(e, k + 1, j) \in Meanings
        /\ Mean(e, i, k - 1).grammatical /\ Mean(e, k + 1, j).grammatical
        /\ k - 1 \in 0..Len(e)
        /\ Infixes(e, i, j, {"POWER"}) \in SUBSET Nat
    BY <1>1, JoinedAt
  <1>3. k \in T /\ \A m \in T : k <= m
    <2>1. k \in T
      BY <1>1, <1>2, InfixesAcross DEF Powers
    <2>2. ASSUME NEW m \in T PROVE k <= m
      <3>1. m \in Infixes(e, k + 1, j, {"POWER"}) \/ m = k
        BY <1>1, <1>2, InfixesAcross DEF Powers
      <3>2. CASE m \in Infixes(e, k + 1, j, {"POWER"})
        <4>1. m \in Int /\ (k + 1) + 1 <= m
          BY <1>2, <3>2, InfixesAre
        <4> QED BY <1>2, <4>1
      <3> QED BY <1>2, <3>1, <3>2
    <2> QED BY <2>1, <2>2
  <1>4. Infixes(e, i, j, Additive) = {} /\ Infixes(e, i, j, Multiplicative) = {}
    <2>1. ASSUME NEW m \in Infixes(e, i, j, Additive) PROVE FALSE
      BY <1>1, <1>2, InfixesAcross
    <2>2. ASSUME NEW m \in Infixes(e, i, j, Multiplicative) PROVE FALSE
      BY <1>1, <1>2, InfixesAcross
    <2> QED BY <2>1, <2>2
  <1>5. T \in SUBSET Nat
    BY <1>2 DEF Powers
  <1> HIDE DEF T, v
  <1>6. Min(T) = k /\ T # {}
    BY <1>3, <1>5, MinOf
  <1>7. Bare(e, i, j) /\ Loose(e, i, j) = {}
    BY <1>1, <1>2, <1>4 DEF Bare, Tight, Loose
  <1>8. k = i + 1 \/ e[k - 1].kind = "RPAREN"
    <2>1. e[k - 1].kind = "RPAREN" \/ i = k - 1
      BY <1>0, <1>2, BaseIs
    <2> QED BY <1>2, <2>1
  <1>9. Understand(e, Of(e), i, j) = Binary(Mean(e, i, k - 1), Mean(e, k + 1, j), v)
    BY <1>6, <1>7, <1>8, PowerMeans DEF Mean, v, T
  <1>10. Mean(e, i, j) = Binary(Mean(e, i, k - 1), Mean(e, k + 1, j), v)
    BY <1>0, <1>9, MeanIs
  <1> QED BY <1>1, <1>2, <1>6, <1>7, <1>10, BinaryIs DEF Grammatical, PostfixForm, UnaryForm, v, T

LEMMA PercentJoin ==
  ASSUME NEW e \in Seq(Lexemes), NEW i \in 1..Len(e), NEW j \in 1..Len(e), e[j].kind = "PERCENT",
         PostfixForm(e, i, j - 1), Powers(e, i, j - 1) = {}
  PROVE  /\ Mean(e, i, j) = Unary(Mean(e, i, j - 1), Percent(Mean(e, i, j - 1).value))
         /\ PostfixForm(e, i, j) /\ Powers(e, i, j) = {}
  <1>0. j - 1 \in 0..Len(e) /\ i \in 1..(Len(e) + 1) /\ j \in 0..Len(e)
    OBVIOUS
  <1>1. Mean(e, i, j - 1) \in Meanings /\ Mean(e, i, j - 1).grammatical /\ ~(i > j)
    <2>1. i <= j - 1
      BY <1>0, ShapeIs DEF UnaryForm, PostfixForm
    <2> QED BY <1>0, <2>1, MeanIs DEF Grammatical, UnaryForm, PostfixForm
  <1>2. e[j].kind \notin Additive /\ e[j].kind \notin Multiplicative /\ e[j].kind \notin {"POWER"}
    BY DEF Additive, Multiplicative
  <1>3. Loose(e, i, j) = {} /\ Powers(e, i, j) = {}
    BY <1>2, InfixesShorter DEF Loose, Powers, UnaryForm, PostfixForm
  <1>4. Atom(e, i, j)
    BY <1>1, <1>3 DEF Atom, Bare, Tight, PostfixForm
  <1>5. Mean(e, i, j) = Unary(Mean(e, i, j - 1), Percent(Mean(e, i, j - 1).value))
    BY <1>0, <1>4, PercentMeans, MeanIs DEF Mean
  <1> QED BY <1>1, <1>3, <1>5, BinaryIs DEF Grammatical, UnaryForm, PostfixForm

LEMMA GroupJoin ==
  ASSUME NEW e \in Seq(Lexemes), NEW i \in 1..Len(e), NEW j \in 1..Len(e),
         e[i].kind = "LPAREN", e[j].kind = "RPAREN", i < j, Grammatical(e, i + 1, j - 1)
  PROVE  Mean(e, i, j) = Mean(e, i + 1, j - 1) /\ BaseForm(e, i, j)
  <1>0. /\ j - 1 \in 0..Len(e) /\ i + 1 \in 1..(Len(e) + 1) /\ i \in 1..(Len(e) + 1)
        /\ j \in 0..Len(e) /\ ~(i > j)
    OBVIOUS
  <1>1. Paired(e, i, j) /\ \A K : Infixes(e, i, j, K) = {}
    BY <1>0, BalancedIs, GroupIsPaired
  <1>2. Loose(e, i, j) = {} /\ Powers(e, i, j) = {} /\ e[i].kind \notin Additive
    BY <1>1 DEF Loose, Powers, Additive
  <1>3. Atom(e, i, j) /\ e[j].kind # "PERCENT"
    BY <1>0, <1>2 DEF Atom, Bare, Tight
  <1>4. Mean(e, i, j) = Mean(e, i + 1, j - 1)
    BY <1>0, <1>1, <1>3, PrimaryMeans, MeanIs DEF Mean
  <1> QED BY <1>2, <1>3, <1>4 DEF Grammatical, BaseForm, PostfixForm, UnaryForm

LEMMA NumberJoin ==
  ASSUME NEW e \in Seq(Lexemes), NEW i \in 1..Len(e), e[i].kind = "NUMBER"
  PROVE  Mean(e, i, i) = Known(Bounded(Integer(e[i].literal)), {}) /\ BaseForm(e, i, i)
  <1>0. i \in 1..(Len(e) + 1) /\ i \in 0..Len(e) /\ ~(i > i)
    OBVIOUS
  <1>1. ~Paired(e, i, i) /\ \A K : Infixes(e, i, i, K) = {}
    BY NumberIsAlone
  <1>2. Loose(e, i, i) = {} /\ Powers(e, i, i) = {} /\ e[i].kind \notin Additive
    BY <1>1 DEF Loose, Powers, Additive
  <1>3. Atom(e, i, i) /\ e[i].kind # "PERCENT"
    BY <1>0, <1>2 DEF Atom, Bare, Tight
  <1>4. Mean(e, i, i) = Known(Bounded(Integer(e[i].literal)), {})
    BY <1>0, <1>1, <1>3, PrimaryMeans, MeanIs
  <1> QED BY <1>2, <1>3, <1>4 DEF Grammatical, BaseForm, PostfixForm, UnaryForm, Known

-----------------------------------------------------------------------------
(***************************************************************************)
(* The validator as a function of rule, position and depth (Read).         *)
(***************************************************************************)
Lexed(e) == Append(e, EOF)
Kind(e, k) == Lexed(e)[k].kind

LEMMA KindIs ==
  ASSUME NEW e \in Seq(Lexemes)
  PROVE  /\ Len(e) \in Nat /\ Len(Lexed(e)) = Len(e) + 1
         /\ \A k \in 1..Len(e) : Lexed(e)[k] = e[k] /\ Kind(e, k) = e[k].kind
         /\ Kind(e, Len(e) + 1) = "EOF"
         /\ \A k \in 1..(Len(e) + 1) : Kind(e, k) # "EOF" => k \in 1..Len(e)
  <1>1. EOF.kind = "EOF"
    BY DEF EOF, Token
  <1>2. /\ Len(e) \in Nat /\ Len(Lexed(e)) = Len(e) + 1 /\ Lexed(e)[Len(e) + 1] = EOF
        /\ \A k \in 1..Len(e) : Lexed(e)[k] = e[k]
    BY DEF Lexed
  <1>3. \A k \in 1..(Len(e) + 1) : Kind(e, k) # "EOF" => k \in 1..Len(e)
    <2> TAKE k \in 1..(Len(e) + 1)
    <2>1. k = Len(e) + 1 \/ k \in 1..Len(e)
      BY <1>2
    <2> QED BY <1>1, <1>2, <2>1 DEF Kind
  <1> QED BY <1>1, <1>2, <1>3 DEF Kind

Sites(e) == GrammarRules \X (1..Len(Lexed(e))) \X (0..MaxNesting)
ReadCodes == {"ok", "unsupported_expression", "expression_limit"}
Readings(e) == [code : ReadCodes, at : 0..(Len(e) + 1)]
\* Every rule reads something, but the one of the percent signs.
Least(rule, i) == IF rule = "percent" THEN i ELSE i + 1
Reading(e, rule, i, r) ==
  r \in Readings(e) /\ (r.code = "ok" => Least(rule, i) <= r.at /\ 1 <= r.at)
Level(rule) == CASE rule = "additive" -> 4 [] rule = "multiplicative" -> 3 [] rule = "unary" -> 2
                 [] rule = "power" -> 1 [] rule = "percent" -> 0
Ahead(e, rule, i) == 5 * (Len(e) + 1 - i) + Level(rule)

LEMMA ValidateAdditive ==
  ASSUME NEW t, NEW f, NEW i, NEW d, NEW first, first = f[<<"multiplicative", i, d>>]
  PROVE  Validate(t, f, "additive", i, d) =
           IF first.code = "ok" /\ t[first.at].kind \in Additive
           THEN f[<<"additive", first.at + 1, d>>] ELSE first
  BY DEF Validate

LEMMA ValidateMultiplicative ==
  ASSUME NEW t, NEW f, NEW i, NEW d, NEW first, first = f[<<"unary", i, d>>]
  PROVE  Validate(t, f, "multiplicative", i, d) =
           IF first.code = "ok" /\ t[first.at].kind \in Multiplicative
           THEN f[<<"multiplicative", first.at + 1, d>>] ELSE first
  BY DEF Validate

LEMMA ValidateUnary ==
  ASSUME NEW t, NEW f, NEW i, NEW d
  PROVE  Validate(t, f, "unary", i, d) =
           IF t[i].kind \in Additive THEN f[<<"unary", i + 1, d>>]
           ELSE IF f[<<"power", i, d>>].code = "ok" THEN f[<<"percent", f[<<"power", i, d>>].at, d>>]
           ELSE f[<<"power", i, d>>]
  BY DEF Validate

LEMMA ValidatePercent ==
  ASSUME NEW t, NEW f, NEW i, NEW d
  PROVE  Validate(t, f, "percent", i, d) =
           IF t[i].kind = "PERCENT" THEN f[<<"percent", i + 1, d>>] ELSE Reached(i)
  BY DEF Validate

ExponentIn(t, f, at, d) == IF t[at].kind = "POWER" THEN f[<<"unary", at + 1, d>>] ELSE Reached(at)

LEMMA ValidateNumber ==
  ASSUME NEW t, NEW f, NEW i, NEW d, t[i].kind = "NUMBER"
  PROVE  Validate(t, f, "power", i, d) = ExponentIn(t, f, i + 1, d)
  BY DEF Validate, ExponentIn

LEMMA ValidateOther ==
  ASSUME NEW t, NEW f, NEW i, NEW d, t[i].kind \notin {"NUMBER", "LPAREN"}
  PROVE  Validate(t, f, "power", i, d) = Stuck("unsupported_expression")
  BY DEF Validate

LEMMA ValidateTooDeep ==
  ASSUME NEW t, NEW f, NEW i, t[i].kind = "LPAREN"
  PROVE  Validate(t, f, "power", i, MaxNesting) = Stuck("expression_limit")
  BY DEF Validate

LEMMA ValidateGroup ==
  ASSUME NEW t, NEW f, NEW i \in Int, NEW d \in Int, t[i].kind = "LPAREN", d # MaxNesting
  PROVE  Validate(t, f, "power", i, d) =
           IF f[<<"additive", i + 1, d + 1>>].code # "ok" THEN f[<<"additive", i + 1, d + 1>>]
           ELSE IF t[f[<<"additive", i + 1, d + 1>>].at].kind = "RPAREN"
           THEN ExponentIn(t, f, f[<<"additive", i + 1, d + 1>>].at + 1, d)
           ELSE Stuck("unsupported_expression")
  BY DEF Validate, ExponentIn

LEMMA ReachedIs ==
  ASSUME NEW e \in Seq(Lexemes), NEW rule, NEW i \in 1..(Len(e) + 1), NEW at \in 1..(Len(e) + 1),
         Least(rule, i) <= at
  PROVE  Reading(e, rule, i, Reached(at))
  BY DEF Reading, Reached, Readings, ReadCodes

LEMMA StuckIs ==
  ASSUME NEW e \in Seq(Lexemes), NEW rule, NEW i, NEW code \in ReadCodes \ {"ok"}
  PROVE  Reading(e, rule, i, Stuck(code))
  BY DEF Reading, Stuck, Readings, ReadCodes

LEMMA LaterReading ==
  ASSUME NEW e \in Seq(Lexemes), NEW rule, NEW i \in 1..(Len(e) + 1), NEW other,
         NEW k \in 1..(Len(e) + 1),
         NEW r, Reading(e, other, k, r), Least(rule, i) <= Least(other, k)
  PROVE  Reading(e, rule, i, r)
  BY DEF Reading, Readings, Least

LEMMA AheadIs ==
  ASSUME NEW e \in Seq(Lexemes), NEW rule \in GrammarRules, NEW i \in 1..(Len(e) + 1)
  PROVE  /\ Level(rule) \in 0..4 /\ Ahead(e, rule, i) \in Nat
         /\ \A other \in GrammarRules, k \in 1..(Len(e) + 1) :
              k > i \/ (k = i /\ Level(other) < Level(rule)) => Ahead(e, other, k) < Ahead(e, rule, i)
  <1>1. \A q \in GrammarRules : Level(q) \in 0..4
    BY DEF Level, GrammarRules
  <1>2. Len(e) \in Nat
    OBVIOUS
  <1>3. ASSUME NEW other \in GrammarRules, NEW k \in 1..(Len(e) + 1),
               k > i \/ (k = i /\ Level(other) < Level(rule))
        PROVE  Ahead(e, other, k) < Ahead(e, rule, i)
    BY <1>1, <1>2, <1>3 DEF Ahead
  <1> QED BY <1>1, <1>2, <1>3 DEF Ahead

ReadsAll(e, f) ==
  \A rule \in GrammarRules, k \in 1..(Len(e) + 1), d \in 0..MaxNesting :
    Reading(e, rule, k, f[<<rule, k, d>>])

LEMMA Validated ==
  ASSUME NEW e \in Seq(Lexemes), NEW f, ReadsAll(e, f), NEW g,
         NEW rule \in GrammarRules, NEW i \in 1..(Len(e) + 1), NEW d \in 0..MaxNesting,
         \A other \in GrammarRules, k \in 1..(Len(e) + 1), c \in 0..MaxNesting :
           Ahead(e, other, k) < Ahead(e, rule, i) => f[<<other, k, c>>] = g[<<other, k, c>>]
  PROVE  /\ Reading(e, rule, i, Validate(Lexed(e), f, rule, i, d))
         /\ Validate(Lexed(e), f, rule, i, d) = Validate(Lexed(e), g, rule, i, d)
  <1> DEFINE N == Len(e)
             t == Lexed(e)
             u == Validate(t, f, rule, i, d)
             v == Validate(t, g, rule, i, d)
  <1>1. /\ N \in Nat /\ i \in Nat /\ 1 <= i /\ i <= N + 1
        /\ \A k \in 1..(N + 1) : t[k].kind # "EOF" => k \in 1..N
    BY KindIs DEF Kind
  <1>2. {"additive", "multiplicative", "unary", "percent", "power"} = GrammarRules
    BY DEF GrammarRules
  <1>3. ASSUME NEW other \in GrammarRules, NEW k \in 1..(N + 1), NEW c \in 0..MaxNesting,
               k > i \/ (k = i /\ Level(other) < Level(rule))
        PROVE  /\ f[<<other, k, c>>] = g[<<other, k, c>>]
               /\ Reading(e, other, k, f[<<other, k, c>>])
    <2>1. Ahead(e, other, k) < Ahead(e, rule, i)
      BY <1>3, AheadIs
    <2> QED BY <2>1 DEF ReadsAll
  <1>4. \A k \in 1..(N + 1) : t[k].kind \in Additive \cup Multiplicative \cup {"POWER", "PERCENT",
          "NUMBER", "LPAREN", "RPAREN"}
                               => k + 1 \in 1..(N + 1)
    <2>1. "EOF" \notin Additive \cup Multiplicative \cup {"POWER", "PERCENT", "NUMBER", "LPAREN", "RPAREN"}
      BY DEF Additive, Multiplicative
    <2>2. \A k \in 1..N : k + 1 \in 1..(N + 1)
      BY <1>1
    <2> HIDE DEF N, t
    <2> QED BY <1>1, <2>1, <2>2
  <1>5. ASSUME NEW first, NEW next \in GrammarRules, NEW other \in GrammarRules, NEW K,
               K \subseteq Additive \cup Multiplicative, other # "percent",
               first = f[<<other, i, d>>], Level(other) < Level(rule), next = rule,
               u = IF first.code = "ok" /\ t[first.at].kind \in K THEN f[<<next, first.at + 1, d>>]
                   ELSE first,
               v = IF first.code = "ok" /\ t[first.at].kind \in K THEN g[<<next, first.at + 1, d>>]
                   ELSE first,
               rule # "percent"
        PROVE  Reading(e, rule, i, u) /\ u = v
    <2>1. Reading(e, other, i, first)
      BY <1>1, <1>3, <1>5
    <2>2. CASE first.code = "ok" /\ t[first.at].kind \in K
      <3> DEFINE k == first.at + 1
      <3>1. first.at \in 1..(N + 1) /\ i < first.at
        BY <1>1, <1>5, <2>1, <2>2 DEF Reading, Readings, Least
      <3>2. k \in 1..(N + 1) /\ i < k
        BY <1>1, <1>4, <1>5, <2>2, <3>1
      <3>3. f[<<next, k, d>>] = g[<<next, k, d>>] /\ Reading(e, next, k, f[<<next, k, d>>])
        BY <1>1, <1>3, <3>2
      <3>4. Least(rule, i) <= Least(next, k)
        BY <1>1, <1>5, <3>2 DEF Least
      <3>5. Reading(e, rule, i, f[<<next, k, d>>])
        BY <3>2, <3>3, <3>4, LaterReading
      <3> QED BY <1>5, <2>2, <3>3, <3>5
    <2>3. CASE ~(first.code = "ok" /\ t[first.at].kind \in K)
      <3>1. u = first /\ v = first
        BY <1>5, <2>3
      <3>2. Reading(e, rule, i, first)
        BY <1>5, <2>1 DEF Reading, Least
      <3> QED BY <3>1, <3>2
    <2> QED BY <2>2, <2>3
  <1>6. ASSUME NEW k, k \in 2..(N + 1), i < k, rule # "percent",
               NEW x, NEW y, x = ExponentIn(t, f, k, d), y = ExponentIn(t, g, k, d)
        PROVE  Reading(e, rule, i, x) /\ x = y
    <2>1. CASE t[k].kind = "POWER"
      <3>1. k \in 1..(N + 1)
        BY <1>1, <1>6
      <3>2. k + 1 \in 1..(N + 1) /\ i < k + 1
        BY <1>1, <1>4, <1>6, <2>1, <3>1
      <3>3. /\ f[<<"unary", k + 1, d>>] = g[<<"unary", k + 1, d>>]
            /\ Reading(e, "unary", k + 1, f[<<"unary", k + 1, d>>])
        BY <1>1, <1>2, <1>3, <3>2
      <3>4. Least(rule, i) <= Least("unary", k + 1)
        BY <1>1, <1>6, <3>2 DEF Least
      <3>5. Reading(e, rule, i, f[<<"unary", k + 1, d>>])
        BY <3>2, <3>3, <3>4, LaterReading
      <3> QED BY <1>6, <2>1, <3>3, <3>5 DEF ExponentIn
    <2>2. CASE t[k].kind # "POWER"
      <3>1. x = Reached(k) /\ y = Reached(k)
        BY <1>6, <2>2 DEF ExponentIn
      <3>2. Least(rule, i) <= k /\ k \in 1..(N + 1)
        BY <1>1, <1>6 DEF Least
      <3> QED BY <3>1, <3>2, ReachedIs
    <2> QED BY <2>1, <2>2
  <1>7. CASE rule = "additive"
    <2> DEFINE first == f[<<"multiplicative", i, d>>]
    <2>1. "multiplicative" \in GrammarRules /\ Level("multiplicative") < Level(rule)
      BY <1>7 DEF GrammarRules, Level
    <2>2. first = g[<<"multiplicative", i, d>>]
      BY <1>1, <1>3, <2>1
    <2>3. u = IF first.code = "ok" /\ t[first.at].kind \in Additive
              THEN f[<<rule, first.at + 1, d>>] ELSE first
      BY <1>7, ValidateAdditive
    <2>4. v = IF first.code = "ok" /\ t[first.at].kind \in Additive
              THEN g[<<rule, first.at + 1, d>>] ELSE first
      BY <1>7, <2>2, ValidateAdditive
    <2> HIDE DEF u, v, first, t
    <2>5. Reading(e, rule, i, u) /\ u = v
      BY <1>5, <1>7, <2>1, <2>3, <2>4 DEF first
    <2> QED BY <2>5 DEF u, v, t
  <1>8. CASE rule = "multiplicative"
    <2> DEFINE first == f[<<"unary", i, d>>]
    <2>1. "unary" \in GrammarRules /\ Level("unary") < Level(rule)
      BY <1>8 DEF GrammarRules, Level
    <2>2. first = g[<<"unary", i, d>>]
      BY <1>1, <1>3, <2>1
    <2>3. u = IF first.code = "ok" /\ t[first.at].kind \in Multiplicative
              THEN f[<<rule, first.at + 1, d>>] ELSE first
      BY <1>8, ValidateMultiplicative
    <2>4. v = IF first.code = "ok" /\ t[first.at].kind \in Multiplicative
              THEN g[<<rule, first.at + 1, d>>] ELSE first
      BY <1>8, <2>2, ValidateMultiplicative
    <2> HIDE DEF u, v, first, t
    <2>5. Reading(e, rule, i, u) /\ u = v
      BY <1>5, <1>8, <2>1, <2>3, <2>4 DEF first
    <2> QED BY <2>5 DEF u, v, t
  <1>9. CASE rule = "unary"
    <2> DEFINE base == f[<<"power", i, d>>]
    <2>1. /\ "power" \in GrammarRules /\ "unary" \in GrammarRules /\ "percent" \in GrammarRules
          /\ Level("power") < Level(rule)
      BY <1>9 DEF GrammarRules, Level
    <2>2. base = g[<<"power", i, d>>] /\ Reading(e, "power", i, base)
      BY <1>1, <1>3, <2>1
    <2>3. u = IF t[i].kind \in Additive THEN f[<<"unary", i + 1, d>>]
              ELSE IF base.code = "ok" THEN f[<<"percent", base.at, d>>] ELSE base
      BY <1>9, ValidateUnary
    <2>4. v = IF t[i].kind \in Additive THEN g[<<"unary", i + 1, d>>]
              ELSE IF base.code = "ok" THEN g[<<"percent", base.at, d>>] ELSE base
      BY <1>9, <2>2, ValidateUnary
    <2>5. CASE t[i].kind \in Additive
      <3>1. i + 1 \in 1..(N + 1) /\ i < i + 1
        BY <1>1, <1>4, <2>5
      <3>2. /\ f[<<"unary", i + 1, d>>] = g[<<"unary", i + 1, d>>]
            /\ Reading(e, "unary", i + 1, f[<<"unary", i + 1, d>>])
        BY <1>1, <1>3, <2>1, <3>1
      <3>3. Least(rule, i) <= Least("unary", i + 1)
        BY <1>1, <1>9 DEF Least
      <3>4. Reading(e, rule, i, f[<<"unary", i + 1, d>>])
        BY <3>1, <3>2, <3>3, LaterReading
      <3> QED BY <2>3, <2>4, <2>5, <3>2, <3>4
    <2>6. CASE t[i].kind \notin Additive /\ base.code = "ok"
      <3>1. base.at \in 1..(N + 1) /\ i < base.at
        BY <1>1, <2>2, <2>6 DEF Reading, Readings, Least
      <3>2. /\ f[<<"percent", base.at, d>>] = g[<<"percent", base.at, d>>]
            /\ Reading(e, "percent", base.at, f[<<"percent", base.at, d>>])
        BY <1>1, <1>3, <2>1, <3>1
      <3>3. Least(rule, i) <= Least("percent", base.at)
        BY <1>1, <1>9, <3>1 DEF Least
      <3>4. Reading(e, rule, i, f[<<"percent", base.at, d>>])
        BY <3>1, <3>2, <3>3, LaterReading
      <3> QED BY <2>3, <2>4, <2>6, <3>2, <3>4
    <2>7. CASE t[i].kind \notin Additive /\ base.code # "ok"
      <3>1. Reading(e, rule, i, base)
        BY <2>2, <2>7 DEF Reading
      <3> QED BY <2>3, <2>4, <2>7, <3>1
    <2> QED BY <2>5, <2>6, <2>7
  <1>10. CASE rule = "percent"
    <2>1. u = IF t[i].kind = "PERCENT" THEN f[<<"percent", i + 1, d>>] ELSE Reached(i)
      BY <1>10, ValidatePercent
    <2>2. v = IF t[i].kind = "PERCENT" THEN g[<<"percent", i + 1, d>>] ELSE Reached(i)
      BY <1>10, ValidatePercent
    <2>3. CASE t[i].kind = "PERCENT"
      <3>1. i + 1 \in 1..(N + 1) /\ i < i + 1
        BY <1>1, <1>4, <2>3
      <3>2. /\ f[<<"percent", i + 1, d>>] = g[<<"percent", i + 1, d>>]
            /\ Reading(e, "percent", i + 1, f[<<"percent", i + 1, d>>])
        BY <1>1, <1>2, <1>3, <3>1
      <3>3. Least(rule, i) <= Least("percent", i + 1)
        BY <1>1, <1>10 DEF Least
      <3>4. Reading(e, rule, i, f[<<"percent", i + 1, d>>])
        BY <3>1, <3>2, <3>3, LaterReading
      <3> QED BY <2>1, <2>2, <2>3, <3>2, <3>4
    <2>4. CASE t[i].kind # "PERCENT"
      <3>1. Least(rule, i) <= i
        BY <1>1, <1>10 DEF Least
      <3> QED BY <1>1, <2>1, <2>2, <2>4, <3>1, ReachedIs
    <2> QED BY <2>3, <2>4
  <1>11. CASE rule = "power"
    <2> DEFINE inner == f[<<"additive", i + 1, d + 1>>]
               same == inner = g[<<"additive", i + 1, d + 1>>]
    <2>1. CASE t[i].kind = "NUMBER"
      <3>1. i + 1 \in 2..(N + 1) /\ i < i + 1
        BY <1>1, <1>4, <2>1
      <3>2. u = ExponentIn(t, f, i + 1, d) /\ v = ExponentIn(t, g, i + 1, d)
        BY <1>11, <2>1, ValidateNumber
      <3> QED BY <1>6, <1>11, <3>1, <3>2
    <2>2. CASE t[i].kind \notin {"NUMBER", "LPAREN"}
      <3>1. u = Stuck("unsupported_expression") /\ v = Stuck("unsupported_expression")
        BY <1>11, <2>2, ValidateOther
      <3> QED BY <3>1, StuckIs DEF ReadCodes
    <2>3. CASE t[i].kind = "LPAREN" /\ d = MaxNesting
      <3>1. u = Stuck("expression_limit") /\ v = Stuck("expression_limit")
        BY <1>11, <2>3, ValidateTooDeep
      <3> QED BY <3>1, StuckIs DEF ReadCodes
    <2>4. CASE t[i].kind = "LPAREN" /\ d # MaxNesting
      <3>1. i + 1 \in 1..(N + 1) /\ i < i + 1 /\ d + 1 \in 0..MaxNesting
        BY <1>1, <1>4, <2>4, CalculatorAssumption
      <3>2. same /\ Reading(e, "additive", i + 1, inner)
        BY <1>1, <1>2, <1>3, <3>1
      <3>0. i \in Int /\ d \in Int
        BY <1>1
      <3>3. u = IF inner.code # "ok" THEN inner
                ELSE IF t[inner.at].kind = "RPAREN" THEN ExponentIn(t, f, inner.at + 1, d)
                ELSE Stuck("unsupported_expression")
        <4>1. u = Validate(t, f, "power", i, d)
          BY <1>11
        <4> HIDE DEF t, u
        <4> QED BY <2>4, <3>0, <4>1, ValidateGroup
      <3>4. v = IF inner.code # "ok" THEN inner
                ELSE IF t[inner.at].kind = "RPAREN" THEN ExponentIn(t, g, inner.at + 1, d)
                ELSE Stuck("unsupported_expression")
        <4> DEFINE other == g[<<"additive", i + 1, d + 1>>]
        <4>1. v = Validate(t, g, "power", i, d) /\ inner = other
          BY <1>11, <3>2
        <4>2. Validate(t, g, "power", i, d) =
                IF other.code # "ok" THEN other
                ELSE IF t[other.at].kind = "RPAREN" THEN ExponentIn(t, g, other.at + 1, d)
                ELSE Stuck("unsupported_expression")
          <5> HIDE DEF t
          <5> QED BY <2>4, <3>0, ValidateGroup
        <4> HIDE DEF t, v, inner, other
        <4> QED BY <4>1, <4>2
      <3> HIDE DEF u, v, inner, t, same
      <3>5. CASE inner.code # "ok"
        <4>1. Reading(e, rule, i, inner)
          BY <3>2, <3>5 DEF Reading
        <4> QED BY <3>3, <3>4, <3>5, <4>1 DEF u, v, t
      <3>6. CASE inner.code = "ok" /\ t[inner.at].kind = "RPAREN"
        <4>1. inner.at \in 1..(N + 1) /\ i < inner.at
          BY <1>1, <3>1, <3>2, <3>6 DEF Reading, Readings, Least
        <4>2. inner.at + 1 \in 1..(N + 1)
          BY <1>4, <3>6, <4>1
        <4>3. inner.at + 1 \in 2..(N + 1) /\ i < inner.at + 1
          BY <1>1, <4>1, <4>2
        <4>4. u = ExponentIn(t, f, inner.at + 1, d) /\ v = ExponentIn(t, g, inner.at + 1, d)
          BY <3>3, <3>4, <3>6
        <4>5. Reading(e, rule, i, u) /\ u = v
          BY <1>6, <1>11, <4>3, <4>4
        <4> QED BY <4>5 DEF u, v, t
      <3>7. CASE inner.code = "ok" /\ t[inner.at].kind # "RPAREN"
        <4>1. u = Stuck("unsupported_expression") /\ v = Stuck("unsupported_expression")
          BY <3>3, <3>4, <3>7
        <4> QED BY <4>1, StuckIs DEF ReadCodes, u, v, t
      <3> QED BY <3>5, <3>6, <3>7
    <2> QED BY <2>1, <2>2, <2>3, <2>4
  <1> QED BY <1>2, <1>7, <1>8, <1>9, <1>10, <1>11

ReadOf(e) == CHOOSE read : read = [s \in Sites(e) |-> Validate(Lexed(e), read, s[1], s[2], s[3])]

LEMMA SitesAre ==
  ASSUME NEW e \in Seq(Lexemes)
  PROVE  /\ \A s \in Sites(e) : /\ s[1] \in GrammarRules /\ s[2] \in 1..(Len(e) + 1) /\
                                     s[3] \in 0..MaxNesting
                                /\ s = <<s[1], s[2], s[3]>>
         /\ \A rule \in GrammarRules, k \in 1..(Len(e) + 1),
              d \in 0..MaxNesting : <<rule, k, d>> \in Sites(e)
  <1>1. Len(Lexed(e)) = Len(e) + 1
    BY KindIs
  <1> QED BY <1>1 DEF Sites

LEMMA ReadExists ==
  ASSUME NEW e \in Seq(Lexemes)
  PROVE  /\ ReadOf(e) = [s \in Sites(e) |-> Validate(Lexed(e), ReadOf(e), s[1], s[2], s[3])]
         /\ ReadsAll(e, ReadOf(e))
  <1> DEFINE S == Sites(e)
             N == Len(e)
             V == Readings(e)
             B(f, s) == Validate(Lexed(e), f, s[1], s[2], s[3])
             H == [f \in [S -> V] |-> [s \in S |-> B(f, s)]]
             r == [s \in S |-> Ahead(e, s[1], s[2])]
             W == [s \in S |-> { v \in V : Reading(e, s[1], s[2], v) }]
  <1>0. /\ N \in Nat
        /\ \A s \in S : /\ s[1] \in GrammarRules /\ s[2] \in 1..(N + 1) /\ s[3] \in 0..MaxNesting
                        /\ s = <<s[1], s[2], s[3]>>
        /\ \A rule \in GrammarRules, k \in 1..(N + 1), d \in 0..MaxNesting :
             /\ <<rule, k, d>> \in S
             /\ <<rule, k, d>>[1] = rule /\ <<rule, k, d>>[2] = k /\ <<rule, k, d>>[3] = d
    BY SitesAre
  <1>1. r \in [S -> Nat] /\ \A s \in S : \E v \in V : v \in W[s]
    <2>1. \A s \in S : r[s] \in Nat
      <3> HIDE DEF S
      <3> QED BY <1>0, AheadIs
    <2>2. r \in [S -> Nat]
      <3> HIDE DEF S
      <3> QED BY <2>1
    <2> DEFINE v == Stuck("expression_limit")
    <2>3. \A rule, k : Reading(e, rule, k, v)
      BY StuckIs DEF ReadCodes
    <2>4. v \in V
      BY <2>3 DEF Reading
    <2> HIDE DEF v, V, S
    <2>5. \A s \in S : v \in W[s]
      BY <2>3, <2>4
    <2> QED BY <2>2, <2>4, <2>5
  <1>2. \A f \in [S -> V], s \in S : H[f][s] = B(f, s)
    <2> HIDE DEF S, V, B
    <2> QED OBVIOUS
  <1>3. ASSUME NEW f, Solves(f, S, V, W) PROVE ReadsAll(e, f) /\ f \in [S -> V]
    <2>1. \A s \in S : Reading(e, s[1], s[2], f[s])
      <3> HIDE DEF S, V
      <3> QED BY <1>3 DEF Solves
    <2>2. f \in [S -> V]
      BY <1>3 DEF Solves
    <2> HIDE DEF S, W, V
    <2>3. ASSUME NEW rule \in GrammarRules, NEW k \in 1..(N + 1), NEW d \in 0..MaxNesting
          PROVE  Reading(e, rule, k, f[<<rule, k, d>>])
      BY <1>0, <2>1
    <2> QED BY <2>2, <2>3 DEF ReadsAll
  <1>4. ASSUME NEW f, ReadsAll(e, f), NEW g, NEW s \in S, \A q \in S : r[q] < r[s] => f[q] = g[q]
        PROVE  Reading(e, s[1], s[2], B(f, s)) /\ B(f, s) = B(g, s)
    <2>1. ASSUME NEW other \in GrammarRules, NEW k \in 1..(N + 1), NEW c \in 0..MaxNesting,
                 Ahead(e, other, k) < Ahead(e, s[1], s[2])
          PROVE  f[<<other, k, c>>] = g[<<other, k, c>>]
      <3> DEFINE q == <<other, k, c>>
      <3>1. q \in S /\ q[1] = other /\ q[2] = k
        BY <1>0
      <3> HIDE DEF q, S
      <3>2. r[q] < r[s]
        BY <2>1, <3>1
      <3> QED BY <1>4, <3>1, <3>2 DEF q
    <2>2. s[1] \in GrammarRules /\ s[2] \in 1..(N + 1) /\ s[3] \in 0..MaxNesting
      BY <1>0
    <2>3. ReadsAll(e, f)
      BY <1>4
    <2> DEFINE rule == s[1]
               i == s[2]
               d == s[3]
    <2>4. \A other \in GrammarRules, k \in 1..(Len(e) + 1), c \in 0..MaxNesting :
            Ahead(e, other, k) < Ahead(e, rule, i) => f[<<other, k, c>>] = g[<<other, k, c>>]
      BY <2>1
    <2>5. rule \in GrammarRules /\ i \in 1..(Len(e) + 1) /\ d \in 0..MaxNesting
      BY <2>2
    <2> HIDE DEF S, r, H, V, W, rule, i, d
    <2>6. /\ Reading(e, rule, i, Validate(Lexed(e), f, rule, i, d))
          /\ Validate(Lexed(e), f, rule, i, d) = Validate(Lexed(e), g, rule, i, d)
      BY <2>3, <2>4, <2>5, Validated
    <2> QED BY <2>6 DEF rule, i, d
  <1>5. ASSUME NEW f, Solves(f, S, V, W), NEW s \in S
        PROVE  H[f][s] \in V /\ H[f][s] \in W[s]
    <2>1. f \in [S -> V] /\ ReadsAll(e, f)
      BY <1>3, <1>5
    <2>2. Reading(e, s[1], s[2], B(f, s))
      <3> HIDE DEF S, B, r
      <3> QED BY <1>4, <1>5, <2>1
    <2>3. H[f][s] = B(f, s) /\ B(f, s) \in V
      <3>1. B(f, s) \in V
        BY <2>2 DEF Reading
      <3> HIDE DEF S, H, V, W, B
      <3> QED BY <1>2, <2>1, <3>1
    <2> DEFINE x == H[f][s]
    <2>4. x \in V /\ Reading(e, s[1], s[2], x)
      BY <2>2, <2>3
    <2> HIDE DEF S, H, V, B, x
    <2>5. W[s] = { v \in V : Reading(e, s[1], s[2], v) }
      OBVIOUS
    <2>6. x \in V /\ x \in W[s]
      BY <2>4, <2>5
    <2> QED BY <2>6 DEF x
  <1>6. ASSUME NEW f, NEW g, Solves(f, S, V, W), Solves(g, S, V, W), NEW s \in S,
               \A q \in S : r[q] < r[s] => f[q] = g[q]
        PROVE  H[f][s] = H[g][s]
    <2>1. f \in [S -> V] /\ g \in [S -> V] /\ ReadsAll(e, f)
      BY <1>3, <1>6
    <2> HIDE DEF S, H, V, W, B, r
    <2>2. B(f, s) = B(g, s)
      BY <1>4, <1>6, <2>1
    <2> QED BY <1>2, <2>1, <2>2
  <1> HIDE DEF S, H, r, V, W, B
  <1>7. \A f, s : Solves(f, S, V, W) /\ s \in S => H[f][s] \in V /\ H[f][s] \in W[s]
    BY <1>5
  <1>8. \A f, g, s : /\ Solves(f, S, V, W) /\ Solves(g, S, V, W) /\ s \in S
                     /\ \A q \in S : r[q] < r[s] => f[q] = g[q]
                     => H[f][s] = H[g][s]
    <2> TAKE f, g, s
    <2> HAVE /\ Solves(f, S, V, W) /\ Solves(g, S, V, W) /\ s \in S
             /\ \A q \in S : r[q] < r[s] => f[q] = g[q]
    <2> QED BY <1>6
  <1>9. Recursive(S, r, V, W, H)
    BY <1>1, <1>7, <1>8 DEF Recursive
  <1>10. PICK f : Solves(f, S, V, W) /\ \A s \in S : f[s] = H[f][s]
    BY <1>9, Recursion
  <1>11. f = [s \in S |-> B(f, s)] /\ ReadsAll(e, f)
    <2>1. f \in [S -> V] /\ ReadsAll(e, f)
      BY <1>3, <1>10
    <2> QED BY <1>2, <1>10, <2>1
  <1> DEFINE g == ReadOf(e)
             T == { s \in S : f[s] = g[s] }
  <1>12. g = [s \in S |-> B(g, s)]
    BY <1>11 DEF ReadOf, S, B
  <1> HIDE DEF g
  <1>13. ASSUME NEW s \in S, \A q \in S : r[q] < r[s] => q \in T PROVE s \in T
    <2>1. \A q \in S : r[q] < r[s] => f[q] = g[q]
      BY <1>13
    <2>2. B(f, s) = B(g, s)
      BY <1>4, <1>11, <2>1
    <2>3. f[s] = B(f, s) /\ g[s] = B(g, s)
      BY <1>11, <1>12
    <2> QED BY <2>2, <2>3
  <1> HIDE DEF T
  <1>14. S \subseteq T
    <2>1. r \in [S -> Nat]
      BY <1>1
    <2> QED BY <1>13, <2>1, RankInduction
  <1>15. g = f
    <2>1. \A s \in S : f[s] = g[s]
      BY <1>14 DEF T
    <2> QED BY <1>11, <1>12, <2>1
  <1>16. g = [s \in S |-> B(g, s)] /\ ReadsAll(e, g)
    BY <1>11, <1>12, <1>15
  <1> QED BY <1>16 DEF S, B, g

\* What a rule reads from a position.
Read(e, rule, i, d) == ReadOf(e)[<<rule, i, d>>]

LEMMA ReadIs ==
  ASSUME NEW e \in Seq(Lexemes), NEW rule \in GrammarRules, NEW i \in 1..(Len(e) + 1),
         NEW d \in 0..MaxNesting
  PROVE  /\ Reading(e, rule, i, Read(e, rule, i, d))
         /\ Read(e, rule, i, d) = Validate(Lexed(e), ReadOf(e), rule, i, d)
  <1> DEFINE s == <<rule, i, d>>
  <1>1. s \in Sites(e)
    BY SitesAre
  <1>2. s[1] = rule /\ s[2] = i /\ s[3] = d
    OBVIOUS
  <1> HIDE DEF s
  <1>3. ReadOf(e)[s] = Validate(Lexed(e), ReadOf(e), s[1], s[2], s[3])
    BY <1>1, ReadExists
  <1>4. ReadOf(e)[s] = Read(e, rule, i, d)
    BY DEF Read, s
  <1>5. Reading(e, rule, i, Read(e, rule, i, d))
    BY ReadExists DEF ReadsAll, Read
  <1> QED BY <1>2, <1>3, <1>4, <1>5

LEMMA GrammarIs ==
  ASSUME NEW e
  PROVE  Grammar(Lexed(e)) =
           IF Read(e, "additive", 1, 0).code = "ok" /\ Kind(e, Read(e, "additive", 1, 0).at) # "EOF"
           THEN "unsupported_expression" ELSE Read(e, "additive", 1, 0).code
  BY DEF Grammar, Read, ReadOf, Sites, Kind

LEMMA RulesAre == GrammarRules = {"additive", "multiplicative", "unary", "percent", "power"}
  BY DEF GrammarRules

LEMMA ReadAdditive ==
  ASSUME NEW e \in Seq(Lexemes), NEW i \in 1..(Len(e) + 1), NEW d \in 0..MaxNesting,
         NEW first, first = Read(e, "multiplicative", i, d)
  PROVE  Read(e, "additive", i, d) =
           IF first.code = "ok" /\ Kind(e, first.at) \in Additive
           THEN Read(e, "additive", first.at + 1, d) ELSE first
  <1>1. Read(e, "additive", i, d) = Validate(Lexed(e), ReadOf(e), "additive", i, d)
    BY ReadIs, RulesAre
  <1>2. first = ReadOf(e)[<<"multiplicative", i, d>>]
    BY DEF Read
  <1>3. Validate(Lexed(e), ReadOf(e), "additive", i, d) =
           IF first.code = "ok" /\ Lexed(e)[first.at].kind \in Additive
           THEN ReadOf(e)[<<"additive", first.at + 1, d>>] ELSE first
    BY <1>2, ValidateAdditive
  <1> QED BY <1>1, <1>3 DEF Read, Kind

LEMMA ReadMultiplicative ==
  ASSUME NEW e \in Seq(Lexemes), NEW i \in 1..(Len(e) + 1), NEW d \in 0..MaxNesting,
         NEW first, first = Read(e, "unary", i, d)
  PROVE  Read(e, "multiplicative", i, d) =
           IF first.code = "ok" /\ Kind(e, first.at) \in Multiplicative
           THEN Read(e, "multiplicative", first.at + 1, d) ELSE first
  <1>1. Read(e, "multiplicative", i, d) = Validate(Lexed(e), ReadOf(e), "multiplicative", i, d)
    BY ReadIs, RulesAre
  <1>2. first = ReadOf(e)[<<"unary", i, d>>]
    BY DEF Read
  <1>3. Validate(Lexed(e), ReadOf(e), "multiplicative", i, d) =
           IF first.code = "ok" /\ Lexed(e)[first.at].kind \in Multiplicative
           THEN ReadOf(e)[<<"multiplicative", first.at + 1, d>>] ELSE first
    BY <1>2, ValidateMultiplicative
  <1> QED BY <1>1, <1>3 DEF Read, Kind

LEMMA ReadUnary ==
  ASSUME NEW e \in Seq(Lexemes), NEW i \in 1..(Len(e) + 1), NEW d \in 0..MaxNesting
  PROVE  Read(e, "unary", i, d) =
           IF Kind(e, i) \in Additive THEN Read(e, "unary", i + 1, d)
           ELSE IF Read(e, "power", i, d).code = "ok" THEN Read(e, "percent", Read(e, "power", i, d).at, d)
           ELSE Read(e, "power", i, d)
  <1>1. Read(e, "unary", i, d) = Validate(Lexed(e), ReadOf(e), "unary", i, d)
    BY ReadIs, RulesAre
  <1> DEFINE t == Lexed(e)
             f == ReadOf(e)
             base == f[<<"power", i, d>>]
  <1>2. Validate(t, f, "unary", i, d) =
          IF t[i].kind \in Additive THEN f[<<"unary", i + 1, d>>]
          ELSE IF base.code = "ok" THEN f[<<"percent", base.at, d>>] ELSE base
    <2> HIDE DEF t, f
    <2> QED BY ValidateUnary
  <1>3. /\ t[i].kind = Kind(e, i) /\ f[<<"unary", i + 1, d>>] = Read(e, "unary", i + 1, d)
        /\ base = Read(e, "power", i, d)
        /\ f[<<"percent", base.at, d>>] = Read(e, "percent", base.at, d)
    BY DEF Kind, Read
  <1> HIDE DEF t, f, base
  <1> QED BY <1>1, <1>2, <1>3 DEF t, f

LEMMA ReadPercent ==
  ASSUME NEW e \in Seq(Lexemes), NEW i \in 1..(Len(e) + 1), NEW d \in 0..MaxNesting
  PROVE  Read(e, "percent", i, d) =
           IF Kind(e, i) = "PERCENT" THEN Read(e, "percent", i + 1, d) ELSE Reached(i)
  <1>1. Read(e, "percent", i, d) = Validate(Lexed(e), ReadOf(e), "percent", i, d)
    BY ReadIs, RulesAre
  <1> DEFINE t == Lexed(e)
             f == ReadOf(e)
  <1>2. Validate(t, f, "percent", i, d) = IF t[i].kind = "PERCENT" THEN f[<<"percent", i + 1, d>>]
                                          ELSE Reached(i)
    <2> HIDE DEF t, f
    <2> QED BY ValidatePercent
  <1>3. t[i].kind = Kind(e, i) /\ f[<<"percent", i + 1, d>>] = Read(e, "percent", i + 1, d)
    BY DEF Kind, Read
  <1> HIDE DEF t, f
  <1> QED BY <1>1, <1>2, <1>3 DEF t, f

\* What is read after the base of a power.
Exponent(e, at, d) == IF Kind(e, at) = "POWER" THEN Read(e, "unary", at + 1, d) ELSE Reached(at)

LEMMA ReadPower ==
  ASSUME NEW e \in Seq(Lexemes), NEW i \in 1..(Len(e) + 1), NEW d \in 0..MaxNesting
  PROVE  /\ Kind(e, i) = "NUMBER" => Read(e, "power", i, d) = Exponent(e, i + 1, d)
         /\ Kind(e, i) \notin {"NUMBER", "LPAREN"} =>
              Read(e, "power", i, d) = Stuck("unsupported_expression")
         /\ Kind(e, i) = "LPAREN" /\ d = MaxNesting => Read(e, "power", i, d) = Stuck("expression_limit")
         /\ Kind(e, i) = "LPAREN" /\ d # MaxNesting =>
              Read(e, "power", i, d) =
                IF Read(e, "additive", i + 1, d + 1).code # "ok" THEN Read(e, "additive", i + 1, d + 1)
                ELSE IF Kind(e, Read(e, "additive", i + 1, d + 1).at) = "RPAREN"
                THEN Exponent(e, Read(e, "additive", i + 1, d + 1).at + 1, d)
                ELSE Stuck("unsupported_expression")
  <1> DEFINE t == Lexed(e)
             f == ReadOf(e)
             v == Validate(t, f, "power", i, d)
  <1>1. Read(e, "power", i, d) = v
    BY ReadIs, RulesAre
  <1>2. \A k : ExponentIn(t, f, k, d) = Exponent(e, k, d)
    BY DEF ExponentIn, Exponent, Read, Kind
  <1>3. i \in Int /\ d \in Int /\ Kind(e, i) = t[i].kind
    BY DEF Kind
  <1>4. CASE Kind(e, i) = "NUMBER"
    <2>1. v = ExponentIn(t, f, i + 1, d)
      BY <1>3, <1>4, ValidateNumber
    <2> QED BY <1>1, <1>2, <1>4, <2>1
  <1>5. CASE Kind(e, i) \notin {"NUMBER", "LPAREN"}
    BY <1>1, <1>3, <1>5, ValidateOther
  <1>6. CASE Kind(e, i) = "LPAREN" /\ d = MaxNesting
    <2>1. v = Stuck("expression_limit")
      BY <1>3, <1>6, ValidateTooDeep
    <2> QED BY <1>1, <1>6, <2>1
  <1>7. CASE Kind(e, i) = "LPAREN" /\ d # MaxNesting
    <2> DEFINE inner == f[<<"additive", i + 1, d + 1>>]
    <2>1. v = IF inner.code # "ok" THEN inner
              ELSE IF t[inner.at].kind = "RPAREN" THEN ExponentIn(t, f, inner.at + 1, d)
              ELSE Stuck("unsupported_expression")
      <3> HIDE DEF t, f
      <3> QED BY <1>3, <1>7, ValidateGroup
    <2>2. inner = Read(e, "additive", i + 1, d + 1)
      BY DEF Read
    <2>3. t[inner.at].kind = Kind(e, inner.at)
      BY DEF Kind
    <2> HIDE DEF inner, v, t, f
    <2> QED BY <1>1, <1>2, <1>7, <2>1, <2>2, <2>3
  <1> QED BY <1>4, <1>5, <1>6, <1>7

-----------------------------------------------------------------------------
(***************************************************************************)
(* The validator is sound: what a rule reads is a piece of its kind, and   *)
(* what stops at the limit is nested too deep.                             *)
(***************************************************************************)
TooDeep(e) == \E k \in 1..Len(e) : Depth(e, k) > MaxNesting

SumSound(e, i, at) ==
  /\ Grammatical(e, i, at - 1)
  /\ \A a \in 1..Len(e) : a < i - 1 /\ e[i - 1].kind \in Additive /\ Grammatical(e, a, i - 2)
                          => Grammatical(e, a, at - 1)
ProductSound(e, i, at) ==
  /\ ProductForm(e, i, at - 1)
  /\ \A a \in 1..Len(e) : a < i - 1 /\ e[i - 1].kind \in Multiplicative /\ ProductForm(e, a, i - 2)
                          => ProductForm(e, a, at - 1)
UnarySound(e, i, at) == UnaryForm(e, i, at - 1) /\ Kind(e, at) # "PERCENT"
PercentSound(e, i, at) ==
  /\ Kind(e, at) # "PERCENT"
  /\ \A a \in 1..Len(e) :
       a < i /\ PostfixForm(e, a, i - 1) /\ (Kind(e, i) = "PERCENT" => Powers(e, a, i - 1) = {})
       => PostfixForm(e, a, at - 1)
PowerSound(e, i, at) ==
  PostfixForm(e, i, at - 1) /\ (Kind(e, at) = "PERCENT" => Powers(e, i, at - 1) = {})

SoundReading(e, rule, i, r) ==
  r.code = "ok" =>
    /\ rule = "additive" => SumSound(e, i, r.at)
    /\ rule = "multiplicative" => ProductSound(e, i, r.at)
    /\ rule = "unary" => UnarySound(e, i, r.at)
    /\ rule = "percent" => PercentSound(e, i, r.at)
    /\ rule = "power" => PowerSound(e, i, r.at)
Sound(e, rule, i, d) ==
  /\ SoundReading(e, rule, i, Read(e, rule, i, d))
  /\ Read(e, rule, i, d).code = "expression_limit" /\ Depth(e, i - 1) = d => TooDeep(e)

SoundAhead(e, rule, i) ==
  \A other \in GrammarRules, k \in 1..(Len(e) + 1), c \in 0..MaxNesting :
    Ahead(e, other, k) < Ahead(e, rule, i) => Sound(e, other, k, c)

LEMMA SoundLater ==
  ASSUME NEW e \in Seq(Lexemes), NEW rule \in GrammarRules, NEW i \in 1..(Len(e) + 1),
         SoundAhead(e, rule, i),
         NEW other \in GrammarRules, NEW k \in 1..(Len(e) + 1), NEW c \in 0..MaxNesting,
         k > i \/ (k = i /\ Level(other) < Level(rule))
  PROVE  /\ Sound(e, other, k, c)
         /\ Reading(e, other, k, Read(e, other, k, c))
  <1>1. Ahead(e, other, k) < Ahead(e, rule, i)
    BY AheadIs
  <1> QED BY <1>1, ReadIs DEF SoundAhead

\* After a whole piece the parentheses are as before it.
LEMMA Afterwards ==
  ASSUME NEW e \in Seq(Lexemes), NEW i \in 1..(Len(e) + 1), NEW at \in 1..(Len(e) + 1), i < at,
         Grammatical(e, i, at - 1)
  PROVE  /\ i \in 1..Len(e) /\ at - 1 \in 1..Len(e)
         /\ Depth(e, at - 1) = Depth(e, i - 1)
         /\ Kind(e, at) \notin {"EOF", "LPAREN", "RPAREN"} => at \in 1..Len(e) /\
              Depth(e, at) = Depth(e, i - 1)
  <1>1. Len(e) \in Nat /\ at - 1 \in 0..Len(e) /\ at - 1 \in 1..Len(e) /\ i \in 1..Len(e)
    BY KindIs
  <1>2. Depth(e, at - 1) = Depth(e, i - 1)
    BY <1>1, BalancedIs DEF Balanced
  <1>3. ASSUME Kind(e, at) \notin {"EOF", "LPAREN", "RPAREN"}
        PROVE  at \in 1..Len(e) /\ Depth(e, at) = Depth(e, i - 1)
    <2>1. at \in 1..Len(e) /\ e[at].kind = Kind(e, at)
      BY <1>3, KindIs
    <2>2. Depth(e, at) = Depth(e, at - 1)
      BY <1>3, <2>1, DepthIs
    <2> QED BY <1>2, <2>1, <2>2
  <1> QED BY <1>1, <1>2, <1>3

LEMMA KindsApart ==
  /\ \A k \in Additive : k \notin {"EOF", "LPAREN", "RPAREN", "POWER", "PERCENT", "NUMBER"}
  /\ \A k \in Multiplicative : k \notin {"EOF", "LPAREN", "RPAREN", "POWER", "PERCENT", "NUMBER"}
  /\ \A k \in Additive : k \notin Multiplicative
  BY DEF Additive, Multiplicative

LEMMA SoundAdditive ==
  ASSUME NEW e \in Seq(Lexemes), NEW i \in 1..(Len(e) + 1), NEW d \in 0..MaxNesting,
         SoundAhead(e, "additive", i)
  PROVE  Sound(e, "additive", i, d)
  <1> DEFINE N == Len(e)
             first == Read(e, "multiplicative", i, d)
             all == Read(e, "additive", i, d)
             at == first.at
             next == Read(e, "additive", at + 1, d)
  <1>1. /\ N \in Nat /\ 1 <= i /\ i <= N + 1 /\ "additive" \in GrammarRules
        /\ "multiplicative" \in GrammarRules
    BY RulesAre
  <1>2. Level("multiplicative") < Level("additive")
    BY DEF Level
  <1>3. Sound(e, "multiplicative", i, d) /\ Reading(e, "multiplicative", i, first)
    BY <1>1, <1>2, SoundLater
  <1>4. all = IF first.code = "ok" /\ Kind(e, at) \in Additive THEN next ELSE first
    BY ReadAdditive
  <1>5. first.code = "expression_limit" /\ Depth(e, i - 1) = d => TooDeep(e)
    BY <1>3 DEF Sound
  <1>6. CASE first.code # "ok"
    <2>1. all = first
      BY <1>4, <1>6
    <2> HIDE DEF first, all
    <2> QED BY <1>5, <1>6, <2>1 DEF Sound, SoundReading, all
  <1>7. CASE first.code = "ok"
    <2>1. at \in 1..(N + 1) /\ i < at
      BY <1>1, <1>3, <1>7 DEF Reading, Readings, Least
    <2>2. ProductForm(e, i, at - 1)
      BY <1>3, <1>7 DEF Sound, SoundReading, ProductSound
    <2>3. Grammatical(e, i, at - 1)
      BY <2>2 DEF ProductForm
    <2>4. /\ i \in 1..N /\ at - 1 \in 1..N
          /\ Kind(e, at) \notin {"EOF", "LPAREN", "RPAREN"} => at \in 1..N /\ Depth(e, at) = Depth(e, i - 1)
      BY <2>1, <2>3, Afterwards
    <2>5. ASSUME NEW a \in 1..N, a < i - 1, e[i - 1].kind \in Additive, Grammatical(e, a, i - 2)
          PROVE  Grammatical(e, a, at - 1)
      <3> DEFINE j == at - 1
                 k == i - 1
      <3>1. j \in 1..N /\ k \in (a + 1)..j /\ k - 1 = i - 2 /\ k + 1 = i
        BY <1>1, <2>1, <2>4, <2>5
      <3>2. e[k].kind \in Additive /\ Grammatical(e, a, k - 1) /\ ProductForm(e, k + 1, j)
        BY <2>2, <2>5, <3>1
      <3> HIDE DEF j, k
      <3>3. Grammatical(e, a, j)
        BY <3>1, <3>2, SumJoin
      <3> QED BY <3>3 DEF j
    <2>6. CASE Kind(e, at) \notin Additive
      <3>1. all = first
        BY <1>4, <2>6
      <3>2. SumSound(e, i, at)
        BY <2>3, <2>5 DEF SumSound
      <3>3. all.at = at /\ all.code = "ok"
        BY <1>7, <3>1
      <3> HIDE DEF first, all, at
      <3> QED BY <3>2, <3>3 DEF Sound, SoundReading, all
    <2>7. CASE Kind(e, at) \in Additive
      <3>1. all = next
        BY <1>4, <1>7, <2>7
      <3>2. at \in 1..N /\ Depth(e, at) = Depth(e, i - 1) /\ e[at].kind \in Additive
        BY <2>4, <2>7, KindsApart, KindIs
      <3>3. at + 1 \in 1..(N + 1) /\ at + 1 > i /\ (at + 1) - 1 = at /\ (at + 1) - 2 = at - 1
        <4>1. at \in 1..N /\ i < at /\ i \in Int /\ N \in Nat
          BY <1>1, <2>1, <3>2
        <4> HIDE DEF at, N
        <4> QED BY <4>1
      <3>4. Sound(e, "additive", at + 1, d)
        BY <1>1, <3>3, SoundLater
      <3>5. ASSUME next.code = "ok" PROVE SumSound(e, i, next.at)
        <4>1. SumSound(e, at + 1, next.at)
          BY <3>4, <3>5 DEF Sound, SoundReading
        <4>2. ASSUME NEW a \in 1..N, a < at, Grammatical(e, a, at - 1)
              PROVE  Grammatical(e, a, next.at - 1)
          BY <3>2, <3>3, <4>1, <4>2 DEF SumSound
        <4>3. Grammatical(e, i, next.at - 1)
          BY <2>1, <2>3, <2>4, <4>2
        <4>4. ASSUME NEW a \in 1..N, a < i - 1, e[i - 1].kind \in Additive, Grammatical(e, a, i - 2)
              PROVE  Grammatical(e, a, next.at - 1)
          <5>1. Grammatical(e, a, at - 1)
            BY <2>5, <4>4
          <5>2. a < at
            BY <1>1, <2>1, <4>4
          <5> QED BY <4>2, <5>1, <5>2
        <4> QED BY <4>3, <4>4 DEF SumSound
      <3>6. next.code = "expression_limit" /\ Depth(e, i - 1) = d => TooDeep(e)
        BY <3>2, <3>3, <3>4 DEF Sound
      <3> HIDE DEF first, all, at, next
      <3> QED BY <3>1, <3>5, <3>6 DEF Sound, SoundReading, all
    <2> QED BY <2>6, <2>7
  <1> QED BY <1>6, <1>7

LEMMA SoundMultiplicative ==
  ASSUME NEW e \in Seq(Lexemes), NEW i \in 1..(Len(e) + 1), NEW d \in 0..MaxNesting,
         SoundAhead(e, "multiplicative", i)
  PROVE  Sound(e, "multiplicative", i, d)
  <1> DEFINE N == Len(e)
             first == Read(e, "unary", i, d)
             all == Read(e, "multiplicative", i, d)
             at == first.at
             next == Read(e, "multiplicative", at + 1, d)
  <1>1. /\ N \in Nat /\ 1 <= i /\ i <= N + 1 /\ "multiplicative" \in GrammarRules
        /\ "unary" \in GrammarRules
    BY RulesAre
  <1>2. Level("unary") < Level("multiplicative")
    BY DEF Level
  <1>3. Sound(e, "unary", i, d) /\ Reading(e, "unary", i, first)
    BY <1>1, <1>2, SoundLater
  <1>4. all = IF first.code = "ok" /\ Kind(e, at) \in Multiplicative THEN next ELSE first
    BY ReadMultiplicative
  <1>5. first.code = "expression_limit" /\ Depth(e, i - 1) = d => TooDeep(e)
    BY <1>3 DEF Sound
  <1>6. CASE first.code # "ok"
    <2>1. all = first
      BY <1>4, <1>6
    <2> HIDE DEF first, all
    <2> QED BY <1>5, <1>6, <2>1 DEF Sound, SoundReading, all
  <1>7. CASE first.code = "ok"
    <2>1. at \in 1..(N + 1) /\ i < at
      BY <1>1, <1>3, <1>7 DEF Reading, Readings, Least
    <2>2. UnaryForm(e, i, at - 1)
      BY <1>3, <1>7 DEF Sound, SoundReading, UnarySound
    <2>3. ProductForm(e, i, at - 1) /\ Grammatical(e, i, at - 1)
      BY <2>2, UnaryFormIs DEF ProductForm
    <2>4. /\ i \in 1..N /\ at - 1 \in 1..N
          /\ Kind(e, at) \notin {"EOF", "LPAREN", "RPAREN"} => at \in 1..N /\ Depth(e, at) = Depth(e, i - 1)
      BY <2>1, <2>3, Afterwards
    <2>5. ASSUME NEW a \in 1..N, a < i - 1, e[i - 1].kind \in Multiplicative,
                 ProductForm(e, a, i - 2)
          PROVE  ProductForm(e, a, at - 1)
      <3> DEFINE j == at - 1
                 k == i - 1
      <3>1. j \in 1..N /\ k \in (a + 1)..j /\ k - 1 = i - 2 /\ k + 1 = i
        BY <1>1, <2>1, <2>4, <2>5
      <3>2. e[k].kind \in Multiplicative /\ ProductForm(e, a, k - 1) /\ UnaryForm(e, k + 1, j)
        BY <2>2, <2>5, <3>1
      <3> HIDE DEF j, k
      <3>3. ProductForm(e, a, j)
        BY <3>1, <3>2, ProductJoin
      <3> QED BY <3>3 DEF j
    <2>6. CASE Kind(e, at) \notin Multiplicative
      <3>1. all = first
        BY <1>4, <2>6
      <3>2. ProductSound(e, i, at)
        BY <2>3, <2>5 DEF ProductSound
      <3>3. all.at = at /\ all.code = "ok"
        BY <1>7, <3>1
      <3> HIDE DEF first, all, at
      <3> QED BY <3>2, <3>3 DEF Sound, SoundReading, all
    <2>7. CASE Kind(e, at) \in Multiplicative
      <3>1. all = next
        BY <1>4, <1>7, <2>7
      <3>2. at \in 1..N /\ Depth(e, at) = Depth(e, i - 1) /\ e[at].kind \in Multiplicative
        BY <2>4, <2>7, KindsApart, KindIs
      <3>3. at + 1 \in 1..(N + 1) /\ at + 1 > i /\ (at + 1) - 1 = at /\ (at + 1) - 2 = at - 1
        <4>1. at \in 1..N /\ i < at /\ i \in Int /\ N \in Nat
          BY <1>1, <2>1, <3>2
        <4> HIDE DEF at, N
        <4> QED BY <4>1
      <3>4. Sound(e, "multiplicative", at + 1, d)
        BY <1>1, <3>3, SoundLater
      <3>5. ASSUME next.code = "ok" PROVE ProductSound(e, i, next.at)
        <4>1. ProductSound(e, at + 1, next.at)
          BY <3>4, <3>5 DEF Sound, SoundReading
        <4>2. ASSUME NEW a \in 1..N, a < at, ProductForm(e, a, at - 1)
              PROVE  ProductForm(e, a, next.at - 1)
          BY <3>2, <3>3, <4>1, <4>2 DEF ProductSound
        <4>3. ProductForm(e, i, next.at - 1)
          BY <2>1, <2>3, <2>4, <4>2
        <4>4. ASSUME NEW a \in 1..N, a < i - 1, e[i - 1].kind \in Multiplicative,
                     ProductForm(e, a, i - 2)
              PROVE  ProductForm(e, a, next.at - 1)
          <5>1. ProductForm(e, a, at - 1)
            BY <2>5, <4>4
          <5>2. a < at
            BY <1>1, <2>1, <4>4
          <5> QED BY <4>2, <5>1, <5>2
        <4> QED BY <4>3, <4>4 DEF ProductSound
      <3>6. next.code = "expression_limit" /\ Depth(e, i - 1) = d => TooDeep(e)
        BY <3>2, <3>3, <3>4 DEF Sound
      <3> HIDE DEF first, all, at, next
      <3> QED BY <3>1, <3>5, <3>6 DEF Sound, SoundReading, all
    <2> QED BY <2>6, <2>7
  <1> QED BY <1>6, <1>7
LEMMA SoundPercent ==
  ASSUME NEW e \in Seq(Lexemes), NEW i \in 1..(Len(e) + 1), NEW d \in 0..MaxNesting,
         SoundAhead(e, "percent", i)
  PROVE  Sound(e, "percent", i, d)
  <1> DEFINE N == Len(e)
             all == Read(e, "percent", i, d)
             next == Read(e, "percent", i + 1, d)
  <1>1. N \in Nat /\ 1 <= i /\ i <= N + 1 /\ "percent" \in GrammarRules
    BY RulesAre
  <1>2. all = IF Kind(e, i) = "PERCENT" THEN next ELSE Reached(i)
    BY ReadPercent
  <1>3. CASE Kind(e, i) # "PERCENT"
    <2>1. all.code = "ok" /\ all.at = i
      BY <1>2, <1>3 DEF Reached
    <2>2. PercentSound(e, i, i)
      BY <1>3 DEF PercentSound
    <2> HIDE DEF all
    <2> QED BY <2>1, <2>2 DEF Sound, SoundReading, all
  <1>4. CASE Kind(e, i) = "PERCENT"
    <2>1. all = next
      BY <1>2, <1>4
    <2>2. i \in 1..N /\ e[i].kind = "PERCENT"
      BY <1>4, KindIs
    <2>3. i + 1 \in 1..(N + 1) /\ i + 1 > i /\ (i + 1) - 1 = i
      BY <1>1, <2>2
    <2>4. Sound(e, "percent", i + 1, d)
      BY <1>1, <2>3, SoundLater
    <2>5. ASSUME next.code = "ok" PROVE PercentSound(e, i, next.at)
      <3>1. PercentSound(e, i + 1, next.at)
        BY <2>4, <2>5 DEF Sound, SoundReading
      <3>2. ASSUME NEW a \in 1..N, a < i, PostfixForm(e, a, i - 1), Powers(e, a, i - 1) = {}
            PROVE  PostfixForm(e, a, next.at - 1)
        <4>1. PostfixForm(e, a, i) /\ Powers(e, a, i) = {}
          BY <2>2, <3>2, PercentJoin
        <4>2. a < i + 1
          BY <1>1, <3>2
        <4> QED BY <2>3, <3>1, <4>1, <4>2 DEF PercentSound
      <3> QED BY <1>4, <3>1, <3>2 DEF PercentSound
    <2>6. next.code = "expression_limit" /\ Depth(e, i - 1) = d => TooDeep(e)
      <3>1. Depth(e, i) = Depth(e, i - 1)
        BY <2>2, DepthIs
      <3> QED BY <2>3, <2>4, <3>1 DEF Sound
    <2> HIDE DEF all, next
    <2> QED BY <2>1, <2>5, <2>6 DEF Sound, SoundReading, all
  <1> QED BY <1>3, <1>4

LEMMA SoundUnary ==
  ASSUME NEW e \in Seq(Lexemes), NEW i \in 1..(Len(e) + 1), NEW d \in 0..MaxNesting,
         SoundAhead(e, "unary", i)
  PROVE  Sound(e, "unary", i, d)
  <1> DEFINE N == Len(e)
             all == Read(e, "unary", i, d)
             next == Read(e, "unary", i + 1, d)
             base == Read(e, "power", i, d)
             at == base.at
             more == Read(e, "percent", at, d)
  <1>1. /\ N \in Nat /\ 1 <= i /\ i <= N + 1
        /\ "unary" \in GrammarRules /\ "percent" \in GrammarRules /\ "power" \in GrammarRules
    BY RulesAre
  <1>2. all = IF Kind(e, i) \in Additive THEN next ELSE IF base.code = "ok" THEN more ELSE base
    BY ReadUnary
  <1>3. Sound(e, "power", i, d) /\ Reading(e, "power", i, base)
    <2>1. Level("power") < Level("unary")
      BY DEF Level
    <2> QED BY <1>1, <2>1, SoundLater
  <1>4. CASE Kind(e, i) \in Additive
    <2>1. all = next
      BY <1>2, <1>4
    <2>2. i \in 1..N /\ e[i].kind \in Additive
      BY <1>4, KindIs, KindsApart
    <2>3. i + 1 \in 1..(N + 1) /\ i + 1 > i /\ (i + 1) - 1 = i
      BY <1>1, <2>2
    <2>4. Sound(e, "unary", i + 1, d) /\ Reading(e, "unary", i + 1, next)
      BY <1>1, <2>3, SoundLater
    <2>5. ASSUME next.code = "ok" PROVE UnarySound(e, i, next.at)
      <3>1. UnarySound(e, i + 1, next.at)
        BY <2>4, <2>5 DEF Sound, SoundReading
      <3>2. next.at \in 1..(N + 1) /\ i + 1 < next.at
        BY <1>1, <2>3, <2>4, <2>5 DEF Reading, Readings, Least
      <3>3. next.at - 1 \in 1..N
        BY <1>1, <3>2
      <3>4. UnaryForm(e, i, next.at - 1)
        <4> HIDE DEF next
        <4> QED BY <2>2, <3>1, <3>3, SignJoin DEF UnarySound
      <3> QED BY <3>1, <3>4 DEF UnarySound
    <2>6. next.code = "expression_limit" /\ Depth(e, i - 1) = d => TooDeep(e)
      <3>1. e[i].kind \notin {"LPAREN", "RPAREN"}
        BY <2>2, KindsApart
      <3>2. Depth(e, i) = Depth(e, i - 1)
        BY <2>2, <3>1, DepthIs
      <3> QED BY <2>3, <2>4, <3>2 DEF Sound
    <2> HIDE DEF all, next
    <2> QED BY <2>1, <2>5, <2>6 DEF Sound, SoundReading, all
  <1>5. CASE Kind(e, i) \notin Additive /\ base.code # "ok"
    <2>1. all = base
      BY <1>2, <1>5
    <2>2. base.code = "expression_limit" /\ Depth(e, i - 1) = d => TooDeep(e)
      BY <1>3 DEF Sound
    <2> HIDE DEF all, base
    <2> QED BY <1>5, <2>1, <2>2 DEF Sound, SoundReading, all
  <1>6. CASE Kind(e, i) \notin Additive /\ base.code = "ok"
    <2>1. all = more
      BY <1>2, <1>6
    <2>2. at \in 1..(N + 1) /\ i < at
      BY <1>1, <1>3, <1>6 DEF Reading, Readings, Least
    <2>3. PostfixForm(e, i, at - 1) /\ (Kind(e, at) = "PERCENT" => Powers(e, i, at - 1) = {})
      BY <1>3, <1>6 DEF Sound, SoundReading, PowerSound
    <2>4. i \in 1..N /\ Depth(e, at - 1) = Depth(e, i - 1)
      BY <2>2, <2>3, Afterwards DEF PostfixForm, UnaryForm
    <2>5. Sound(e, "percent", at, d)
      BY <1>1, <2>2, SoundLater
    <2>6. ASSUME more.code = "ok" PROVE UnarySound(e, i, more.at)
      <3>1. PercentSound(e, at, more.at)
        BY <2>5, <2>6 DEF Sound, SoundReading
      <3>2. PostfixForm(e, i, more.at - 1)
        BY <2>2, <2>3, <2>4, <3>1 DEF PercentSound
      <3> QED BY <3>1, <3>2 DEF PercentSound, UnarySound, PostfixForm
    <2>7. more.code = "expression_limit" /\ Depth(e, i - 1) = d => TooDeep(e)
      BY <2>4, <2>5 DEF Sound
    <2> HIDE DEF all, more
    <2> QED BY <2>1, <2>6, <2>7 DEF Sound, SoundReading, all
  <1> QED BY <1>4, <1>5, <1>6

LEMMA SoundExponent ==
  ASSUME NEW e \in Seq(Lexemes), NEW i \in 1..Len(e), NEW d \in 0..MaxNesting,
         SoundAhead(e, "power", i), NEW at \in 1..(Len(e) + 1), i < at, BaseForm(e, i, at - 1),
         NEW r, r = Exponent(e, at, d)
  PROVE  /\ r.code = "ok" => PowerSound(e, i, r.at)
         /\ r.code = "expression_limit" /\ Depth(e, i - 1) = d => TooDeep(e)
  <1> DEFINE N == Len(e)
             next == Read(e, "unary", at + 1, d)
  <1>1. N \in Nat /\ "unary" \in GrammarRules /\ "power" \in GrammarRules
    BY RulesAre
  <1>2. PostfixForm(e, i, at - 1) /\ Powers(e, i, at - 1) = {} /\ Grammatical(e, i, at - 1)
    BY DEF BaseForm, PostfixForm, UnaryForm
  <1>3. CASE Kind(e, at) # "POWER"
    <2>1. r.code = "ok" /\ r.at = at
      BY <1>3 DEF Exponent, Reached
    <2> QED BY <1>2, <2>1 DEF PowerSound
  <1>4. CASE Kind(e, at) = "POWER"
    <2>1. r = next
      BY <1>4 DEF Exponent
    <2>2. at \in 1..N /\ Depth(e, at) = Depth(e, i - 1) /\ e[at].kind = "POWER"
      BY <1>2, <1>4, Afterwards, KindIs
    <2>3. at + 1 \in 1..(N + 1) /\ at + 1 > i /\ (at + 1) - 1 = at
      BY <1>1, <2>2
    <2>4. Sound(e, "unary", at + 1, d) /\ Reading(e, "unary", at + 1, next)
      BY <1>1, <2>3, SoundLater
    <2>5. ASSUME next.code = "ok" PROVE PowerSound(e, i, next.at)
      <3>1. UnarySound(e, at + 1, next.at)
        BY <2>4, <2>5 DEF Sound, SoundReading
      <3>2. next.at \in 1..(N + 1) /\ at + 1 < next.at
        BY <1>1, <2>3, <2>4, <2>5 DEF Reading, Readings, Least
      <3>3. next.at - 1 \in 1..N /\ at \in (i + 1)..(next.at - 1)
        BY <1>1, <3>2
      <3>4. PostfixForm(e, i, next.at - 1)
        <4> HIDE DEF next
        <4> QED BY <2>2, <3>1, <3>3, PowerJoin DEF UnarySound
      <3> QED BY <3>1, <3>4 DEF UnarySound, PowerSound
    <2>6. next.code = "expression_limit" /\ Depth(e, i - 1) = d => TooDeep(e)
      BY <2>2, <2>3, <2>4 DEF Sound
    <2> QED BY <2>1, <2>5, <2>6
  <1> QED BY <1>3, <1>4

LEMMA SoundPower ==
  ASSUME NEW e \in Seq(Lexemes), NEW i \in 1..(Len(e) + 1), NEW d \in 0..MaxNesting,
         SoundAhead(e, "power", i)
  PROVE  Sound(e, "power", i, d)
  <1> DEFINE N == Len(e)
             all == Read(e, "power", i, d)
             inner == Read(e, "additive", i + 1, d + 1)
             at == inner.at
  <1>1. N \in Nat /\ 1 <= i /\ i <= N + 1 /\ "additive" \in GrammarRules /\ "power" \in GrammarRules
    BY RulesAre
  <1>2. ASSUME all = Stuck("unsupported_expression") PROVE Sound(e, "power", i, d)
    <2>1. all.code # "ok" /\ all.code # "expression_limit"
      BY <1>2 DEF Stuck
    <2> HIDE DEF all
    <2> QED BY <2>1 DEF Sound, SoundReading, all
  <1>3. ASSUME NEW k \in 1..(N + 1), i \in 1..N, i < k, BaseForm(e, i, k - 1),
               all = Exponent(e, k, d)
        PROVE  Sound(e, "power", i, d)
    <2>1. /\ all.code = "ok" => PowerSound(e, i, all.at)
          /\ all.code = "expression_limit" /\ Depth(e, i - 1) = d => TooDeep(e)
      <3> HIDE DEF all
      <3> QED BY <1>3, SoundExponent
    <2> HIDE DEF all
    <2> QED BY <2>1 DEF Sound, SoundReading, all
  <1>4. CASE Kind(e, i) = "NUMBER"
    <2>1. i \in 1..N /\ e[i].kind = "NUMBER"
      BY <1>4, KindIs
    <2>2. BaseForm(e, i, i)
      BY <2>1, NumberJoin
    <2>3. i + 1 \in 1..(N + 1) /\ i < i + 1 /\ (i + 1) - 1 = i
      BY <1>1, <2>1
    <2>4. all = Exponent(e, i + 1, d)
      BY <1>4, ReadPower
    <2> HIDE DEF all
    <2> QED BY <1>3, <2>1, <2>2, <2>3, <2>4
  <1>5. CASE Kind(e, i) \notin {"NUMBER", "LPAREN"}
    BY <1>2, <1>5, ReadPower
  <1>6. CASE Kind(e, i) = "LPAREN"
    <2>1. i \in 1..N /\ e[i].kind = "LPAREN"
      BY <1>6, KindIs
    <2>2. Depth(e, i) = Depth(e, i - 1) + 1 /\ Depth(e, i - 1) \in Int
      <3>1. i - 1 \in 0..N
        BY <1>1
      <3> QED BY <2>1, <3>1, DepthIs
    <2>3. CASE d = MaxNesting
      <3>1. all = Stuck("expression_limit")
        BY <1>6, <2>3, ReadPower
      <3>2. Depth(e, i - 1) = d => TooDeep(e)
        BY <2>1, <2>2, <2>3, CalculatorAssumption DEF TooDeep
      <3>3. all.code # "ok"
        BY <3>1 DEF Stuck
      <3> HIDE DEF all
      <3> QED BY <3>2, <3>3 DEF Sound, SoundReading, all
    <2>4. CASE d # MaxNesting
      <3>1. i + 1 \in 1..(N + 1) /\ i + 1 > i /\ (i + 1) - 1 = i /\ d + 1 \in 0..MaxNesting
        BY <1>1, <2>1, <2>4, CalculatorAssumption
      <3>2. Sound(e, "additive", i + 1, d + 1) /\ Reading(e, "additive", i + 1, inner)
        BY <1>1, <3>1, SoundLater
      <3>3. all = IF inner.code # "ok" THEN inner
                  ELSE IF Kind(e, at) = "RPAREN" THEN Exponent(e, at + 1, d)
                  ELSE Stuck("unsupported_expression")
        BY <1>6, <2>4, ReadPower
      <3>4. CASE inner.code # "ok"
        <4>1. all = inner
          BY <3>3, <3>4
        <4>2. inner.code = "expression_limit" /\ Depth(e, i - 1) = d => TooDeep(e)
          BY <2>2, <3>1, <3>2 DEF Sound
        <4> HIDE DEF all, inner
        <4> QED BY <3>4, <4>1, <4>2 DEF Sound, SoundReading, all
      <3>5. CASE inner.code = "ok" /\ Kind(e, at) = "RPAREN"
        <4>1. all = Exponent(e, at + 1, d)
          BY <3>3, <3>5
        <4>2. at \in 1..N /\ e[at].kind = "RPAREN" /\ i + 1 < at
          <5>1. at \in 1..(N + 1) /\ i + 1 < at
            BY <1>1, <3>1, <3>2, <3>5 DEF Reading, Readings, Least
          <5> QED BY <3>5, <5>1, KindIs
        <4>3. Grammatical(e, i + 1, at - 1)
          BY <3>2, <3>5 DEF Sound, SoundReading, SumSound
        <4>4. i < at
          BY <1>1, <4>2
        <4> HIDE DEF at
        <4>5. BaseForm(e, i, at)
          BY <2>1, <4>2, <4>3, <4>4, GroupJoin
        <4>6. at + 1 \in 1..(N + 1) /\ i < at + 1 /\ (at + 1) - 1 = at
          BY <1>1, <4>2, <4>4
        <4> HIDE DEF all
        <4> QED BY <1>3, <2>1, <4>1, <4>5, <4>6
      <3>6. CASE inner.code = "ok" /\ Kind(e, at) # "RPAREN"
        BY <1>2, <3>3, <3>6
      <3> QED BY <3>4, <3>5, <3>6
    <2> QED BY <2>3, <2>4
  <1> QED BY <1>4, <1>5, <1>6

\* What the validator reads is a piece of the grammar; at its limit the
\* parentheses are nested too deep.
LEMMA ReadIsSound ==
  ASSUME NEW e \in Seq(Lexemes), NEW rule \in GrammarRules, NEW i \in 1..(Len(e) + 1),
         NEW d \in 0..MaxNesting
  PROVE  Sound(e, rule, i, d)
  <1> DEFINE S == Sites(e)
             N == Len(e)
             r == [s \in S |-> Ahead(e, s[1], s[2])]
             T == { s \in S : Sound(e, s[1], s[2], s[3]) }
  <1>0. /\ N \in Nat
        /\ \A s \in S : /\ s[1] \in GrammarRules /\ s[2] \in 1..(N + 1) /\ s[3] \in 0..MaxNesting
        /\ \A q \in GrammarRules, k \in 1..(N + 1), c \in 0..MaxNesting :
             /\ <<q, k, c>> \in S
             /\ <<q, k, c>>[1] = q /\ <<q, k, c>>[2] = k /\ <<q, k, c>>[3] = c
    BY SitesAre
  <1>1. r \in [S -> Nat]
    <2>1. \A s \in S : r[s] \in Nat
      <3> HIDE DEF S
      <3> QED BY <1>0, AheadIs
    <2> HIDE DEF S
    <2> QED BY <2>1
  <1>2. ASSUME NEW s \in S, \A q \in S : r[q] < r[s] => q \in T PROVE s \in T
    <2>1. s[1] \in GrammarRules /\ s[2] \in 1..(N + 1) /\ s[3] \in 0..MaxNesting
      BY <1>0
    <2>2. ASSUME NEW other \in GrammarRules, NEW k \in 1..(N + 1), NEW c \in 0..MaxNesting,
                 Ahead(e, other, k) < Ahead(e, s[1], s[2])
          PROVE  Sound(e, other, k, c)
      <3> DEFINE q == <<other, k, c>>
      <3>1. q \in S /\ q[1] = other /\ q[2] = k /\ q[3] = c
        BY <1>0
      <3> HIDE DEF q, S
      <3>2. r[q] < r[s]
        BY <2>2, <3>1
      <3>3. q \in T
        BY <1>2, <3>1, <3>2
      <3> QED BY <3>1, <3>3
    <2>3. SoundAhead(e, s[1], s[2])
      BY <2>2 DEF SoundAhead
    <2> HIDE DEF S
    <2>4. Sound(e, s[1], s[2], s[3])
      <3> DEFINE q == s[1]
                 k == s[2]
                 c == s[3]
      <3>1. /\ q \in GrammarRules /\ k \in 1..(Len(e) + 1) /\ c \in 0..MaxNesting
            /\ SoundAhead(e, q, k)
        BY <2>1, <2>3
      <3> HIDE DEF q, k, c
      <3>2. q \in {"additive", "multiplicative", "unary", "percent", "power"}
        BY <3>1, RulesAre
      <3>3. Sound(e, q, k, c)
        BY <3>1, <3>2, SoundAdditive, SoundMultiplicative, SoundUnary, SoundPercent, SoundPower
      <3> QED BY <3>3 DEF q, k, c
    <2> QED BY <2>4
  <1> HIDE DEF S, r, T
  <1>3. S \subseteq T
    <2>1. r \in [S -> Nat]
      BY <1>1
    <2> QED BY <1>2, <2>1, RankInduction
  <1> DEFINE s == <<rule, i, d>>
  <1>4. s \in S /\ s[1] = rule /\ s[2] = i /\ s[3] = d
    BY <1>0
  <1> HIDE DEF s
  <1>5. s \in T
    BY <1>3, <1>4
  <1> QED BY <1>4, <1>5 DEF T

-----------------------------------------------------------------------------
(***************************************************************************)
(* From the whole to the parts: where a piece is cut.                      *)
(***************************************************************************)
\* A piece is cut at the operator that binds least.
LEMMA LooseSplit ==
  ASSUME NEW e \in Seq(Lexemes), NEW i \in 1..Len(e), NEW j \in 1..Len(e), Grammatical(e, i, j),
         Loose(e, i, j) # {}
  PROVE  \E k \in (i + 1)..(j - 1) :
           /\ k \in Loose(e, i, j) /\ \A m \in Loose(e, i, j) : m <= k
           /\ e[k].kind \in InfixKinds
           /\ Grammatical(e, i, k - 1) /\ Grammatical(e, k + 1, j) /\ Balanced(e, i, k - 1)
  <1>0. i \in 1..(Len(e) + 1) /\ j \in 0..Len(e) /\ i \in Nat /\ j \in Nat
    OBVIOUS
  <1>1. PICK k : SumOf(e, i, j, k)
    BY <1>0, ShapeIs DEF SignOf, PowerOf, PercentOf, GroupOf, NumberAt, Atom, Bare, Tight
  <1>2. /\ k \in Loose(e, i, j) /\ \A m \in Loose(e, i, j) : m <= k
        /\ k \in Nat /\ i < k /\ k <= j
    BY <1>0, <1>1, LooseIs DEF SumOf
  <1>3. e[k].kind \in InfixKinds
    BY <1>0, <1>2, LooseAre
  <1>4. k \in (i + 1)..j
    BY <1>2
  <1>5. k + 1 <= j /\ Balanced(e, i, k - 1)
    BY <1>1, <1>3, <1>4, JoinedAt DEF SumOf
  <1>6. k \in (i + 1)..(j - 1)
    BY <1>0, <1>2, <1>5
  <1> QED BY <1>1, <1>2, <1>3, <1>5, <1>6 DEF SumOf

LEMMA SumSplit ==
  ASSUME NEW e \in Seq(Lexemes), NEW i \in 1..Len(e), NEW j \in 1..Len(e), Grammatical(e, i, j),
         Infixes(e, i, j, Additive) # {}
  PROVE  \E k \in (i + 1)..(j - 1) :
           e[k].kind \in Additive /\ Grammatical(e, i, k - 1) /\ ProductForm(e, k + 1, j)
  <1>1. Loose(e, i, j) = Infixes(e, i, j, Additive)
    BY DEF Loose
  <1>2. PICK k \in (i + 1)..(j - 1) :
          /\ k \in Infixes(e, i, j, Additive) /\ \A m \in Infixes(e, i, j, Additive) : m <= k
          /\ e[k].kind \in InfixKinds
          /\ Grammatical(e, i, k - 1) /\ Grammatical(e, k + 1, j) /\ Balanced(e, i, k - 1)
    BY <1>1, LooseSplit
  <1>3. k \in (i + 1)..j /\ k \in Int
    BY <1>2
  <1>4. e[k].kind \in Additive
    BY <1>2, InfixesAre
  <1>5. ASSUME NEW m \in Infixes(e, k + 1, j, Additive) PROVE FALSE
    <2>1. m \in Infixes(e, i, j, Additive)
      BY <1>2, <1>3, <1>5, InfixesAcross
    <2>2. m \in Int /\ (k + 1) + 1 <= m
      BY <1>3, <1>5, InfixesAre
    <2>3. m <= k
      BY <1>2, <2>1
    <2> QED BY <1>3, <2>2, <2>3
  <1> QED BY <1>2, <1>4, <1>5 DEF ProductForm

LEMMA ProductSplit ==
  ASSUME NEW e \in Seq(Lexemes), NEW i \in 1..Len(e), NEW j \in 1..Len(e), ProductForm(e, i, j),
         Infixes(e, i, j, Multiplicative) # {}
  PROVE  \E k \in (i + 1)..(j - 1) :
           e[k].kind \in Multiplicative /\ ProductForm(e, i, k - 1) /\ UnaryForm(e, k + 1, j)
  <1>1. /\ Loose(e, i, j) = Infixes(e, i, j, Multiplicative) /\ Grammatical(e, i, j)
        /\ Infixes(e, i, j, Additive) = {}
    BY DEF Loose, ProductForm
  <1>2. PICK k \in (i + 1)..(j - 1) :
          /\ k \in Infixes(e, i, j, Multiplicative) /\ \A m \in Infixes(e, i, j, Multiplicative) : m <= k
          /\ e[k].kind \in InfixKinds
          /\ Grammatical(e, i, k - 1) /\ Grammatical(e, k + 1, j) /\ Balanced(e, i, k - 1)
    BY <1>1, LooseSplit
  <1>3. k \in (i + 1)..j /\ k \in Int
    BY <1>2
  <1>4. e[k].kind \in Multiplicative
    BY <1>2, InfixesAre
  <1>5. ASSUME NEW m \in Infixes(e, k + 1, j, Multiplicative) PROVE FALSE
    <2>1. m \in Infixes(e, i, j, Multiplicative)
      BY <1>2, <1>3, <1>5, InfixesAcross
    <2>2. m \in Int /\ (k + 1) + 1 <= m
      BY <1>3, <1>5, InfixesAre
    <2>3. m <= k
      BY <1>2, <2>1
    <2> QED BY <1>3, <2>2, <2>3
  <1>6. \A m : m \notin Infixes(e, i, k - 1, Additive) /\ m \notin Infixes(e, k + 1, j, Additive)
    BY <1>1, <1>2, <1>3, InfixesAcross
  <1>7. /\ Infixes(e, i, k - 1, Additive) = {} /\ Infixes(e, k + 1, j, Additive) = {}
        /\ Infixes(e, k + 1, j, Multiplicative) = {}
    BY <1>5, <1>6
  <1> QED BY <1>2, <1>4, <1>7, UnaryFormIs DEF ProductForm

LEMMA SignSplit ==
  ASSUME NEW e \in Seq(Lexemes), NEW i \in 1..Len(e), NEW j \in 1..Len(e), UnaryForm(e, i, j),
         e[i].kind \in Additive
  PROVE  i < j /\ UnaryForm(e, i + 1, j)
  <1>0. i \in 1..(Len(e) + 1) /\ j \in 0..Len(e) /\ i + 1 \in 1..(Len(e) + 1)
    OBVIOUS
  <1>1. Grammatical(e, i, j) /\ Loose(e, i, j) = {}
    BY DEF UnaryForm
  <1>2. e[i].kind # "NUMBER"
    BY KindsApart
  <1>3. SignOf(e, i, j)
    BY <1>0, <1>1, <1>2, ShapeIs DEF SumOf, PowerOf, PercentOf, GroupOf, NumberAt, Atom, Bare
  <1>4. Grammatical(e, i + 1, j)
    BY <1>3 DEF SignOf
  <1>5. i + 1 <= j
    BY <1>0, <1>4, ShapeIs
  <1>6. Loose(e, i + 1, j) = {}
    BY <1>1, InfixesSigned DEF Loose
  <1> QED BY <1>4, <1>5, <1>6 DEF UnaryForm

LEMMA AloneIs ==
  ASSUME NEW e \in Seq(Lexemes), NEW i \in 1..Len(e), Grammatical(e, i, i)
  PROVE  e[i].kind = "NUMBER"
  <1>0. i \in 1..(Len(e) + 1) /\ i \in 0..Len(e) /\ i + 1 \in 1..(Len(e) + 1) /\ i - 1 \in 0..Len(e)
    OBVIOUS
  <1>1. ~Grammatical(e, i + 1, i) /\ ~Grammatical(e, i, i - 1)
    BY <1>0, ShapeIs
  <1>2. \A k : ~SumOf(e, i, i, k) /\ ~PowerOf(e, i, i, k)
    BY DEF SumOf, PowerOf
  <1>3. ~SignOf(e, i, i) /\ ~PercentOf(e, i, i) /\ ~GroupOf(e, i, i)
    BY <1>1 DEF SignOf, PercentOf, GroupOf, Paired
  <1> QED BY <1>0, <1>2, <1>3, ShapeIs DEF NumberAt

LEMMA PowerSplit ==
  ASSUME NEW e \in Seq(Lexemes), NEW i \in 1..Len(e), NEW j \in 1..Len(e), PostfixForm(e, i, j),
         Powers(e, i, j) # {}
  PROVE  \E k \in (i + 1)..(j - 1) :
           e[k].kind = "POWER" /\ BaseForm(e, i, k - 1) /\ UnaryForm(e, k + 1, j)
  <1>0. i \in 1..(Len(e) + 1) /\ j \in 0..Len(e) /\ i \in Nat /\ j \in Nat
    OBVIOUS
  <1>1. Grammatical(e, i, j) /\ Loose(e, i, j) = {} /\ e[i].kind \notin Additive
    BY DEF UnaryForm, PostfixForm
  <1>2. PICK k : PowerOf(e, i, j, k)
    BY <1>0, <1>1, ShapeIs DEF SumOf, SignOf, PercentOf, GroupOf, NumberAt, Atom
  <1>3. /\ k \in Powers(e, i, j) /\ \A m \in Powers(e, i, j) : k <= m
        /\ k \in Nat /\ i < k /\ k <= j
    BY <1>0, <1>2, PowersAre DEF PowerOf
  <1>4. e[k].kind = "POWER" /\ e[k].kind \in InfixKinds
    <2>1. e[k].kind \in {"POWER"}
      BY <1>0, <1>3, InfixesAre DEF Powers
    <2> QED BY <2>1 DEF InfixKinds
  <1>5. k \in (i + 1)..j /\ k \in Int
    BY <1>3
  <1>6. /\ Grammatical(e, i, k - 1) /\ Grammatical(e, k + 1, j)
        /\ (k = i + 1 \/ e[k - 1].kind = "RPAREN")
    BY <1>2 DEF PowerOf
  <1>7. k + 1 <= j /\ Balanced(e, i, k - 1)
    BY <1>4, <1>5, <1>6, JoinedAt
  <1>8. k \in (i + 1)..(j - 1)
    BY <1>0, <1>3, <1>7
  <1>9. \A K, m : m \in Infixes(e, i, k - 1, K) \/ m \in Infixes(e, k + 1, j, K) =>
          m \in Infixes(e, i, j, K)
    BY <1>4, <1>5, <1>7, InfixesAcross
  <1>10. Infixes(e, i, j, Additive) = {} /\ Infixes(e, i, j, Multiplicative) = {}
    BY <1>1 DEF Loose
  <1>11. /\ Infixes(e, i, k - 1, Additive) = {} /\ Infixes(e, i, k - 1, Multiplicative) = {}
         /\ Infixes(e, k + 1, j, Additive) = {} /\ Infixes(e, k + 1, j, Multiplicative) = {}
    BY <1>9, <1>10
  <1>12. Powers(e, i, k - 1) = {}
    <2>1. ASSUME NEW m \in Powers(e, i, k - 1) PROVE FALSE
      <3>1. m \in Powers(e, i, j)
        BY <1>9, <2>1 DEF Powers
      <3>2. m \in Int /\ m <= k - 1
        <4>1. i \in Int /\ k - 1 \in Int
          BY <1>3
        <4> QED BY <2>1, <4>1, InfixesAre DEF Powers
      <3>3. k <= m
        BY <1>3, <3>1
      <3> QED BY <1>3, <3>2, <3>3
    <2> QED BY <2>1
  <1>13. e[k - 1].kind # "PERCENT"
    <2>1. CASE k = i + 1
      <3>1. k - 1 = i
        BY <1>3, <2>1
      <3>2. Grammatical(e, i, i)
        BY <1>6, <3>1
      <3> QED BY <3>1, <3>2, AloneIs
    <2>2. CASE e[k - 1].kind = "RPAREN"
      BY <2>2
    <2> QED BY <1>6, <2>1, <2>2
  <1>14. UnaryForm(e, k + 1, j) /\ UnaryForm(e, i, k - 1)
    BY <1>6, <1>11, UnaryFormIs
  <1> QED BY <1>1, <1>4, <1>8, <1>12, <1>13, <1>14 DEF BaseForm, PostfixForm

LEMMA PercentSplit ==
  ASSUME NEW e \in Seq(Lexemes), NEW i \in 1..Len(e), NEW j \in 1..Len(e), PostfixForm(e, i, j),
         Powers(e, i, j) = {}, e[j].kind = "PERCENT"
  PROVE  i < j /\ PostfixForm(e, i, j - 1) /\ Powers(e, i, j - 1) = {}
  <1>0. i \in 1..(Len(e) + 1) /\ j \in 0..Len(e) /\ j - 1 \in 0..Len(e)
    OBVIOUS
  <1>1. Grammatical(e, i, j) /\ Loose(e, i, j) = {} /\ e[i].kind \notin Additive
    BY DEF UnaryForm, PostfixForm
  <1>2. PercentOf(e, i, j)
    <2>1. Atom(e, i, j) => ~GroupOf(e, i, j) /\ ~NumberAt(e, i, j)
      BY DEF GroupOf, NumberAt
    <2> QED BY <1>0, <1>1, <2>1, ShapeIs DEF SumOf, SignOf, PowerOf, GroupOf, NumberAt
  <1>3. Grammatical(e, i, j - 1)
    BY <1>2 DEF PercentOf
  <1>4. i <= j - 1
    BY <1>0, <1>3, ShapeIs
  <1>5. e[j].kind \notin Additive /\ e[j].kind \notin Multiplicative /\ e[j].kind \notin {"POWER"}
    BY DEF Additive, Multiplicative
  <1>6. Loose(e, i, j - 1) = {} /\ Powers(e, i, j - 1) = {}
    BY <1>1, <1>5, InfixesShorter DEF Loose, Powers
  <1> QED BY <1>1, <1>3, <1>4, <1>6 DEF PostfixForm, UnaryForm

\* What a power is raised from: a number, or a group.
LEMMA BaseSplit ==
  ASSUME NEW e \in Seq(Lexemes), NEW i \in 1..Len(e), NEW j \in 1..Len(e), BaseForm(e, i, j)
  PROVE  \/ i = j /\ e[i].kind = "NUMBER"
         \/ /\ i + 1 <= j - 1 /\ e[i].kind = "LPAREN" /\ e[j].kind = "RPAREN"
            /\ Grammatical(e, i + 1, j - 1) /\ Balanced(e, i + 1, j - 1)
  <1>0. i \in 1..(Len(e) + 1) /\ j \in 0..Len(e) /\ j - 1 \in 0..Len(e) /\ i + 1 \in 1..(Len(e) + 1)
    OBVIOUS
  <1>1. CASE i = j /\ NumberAt(e, i, j)
    BY <1>1 DEF NumberAt
  <1>2. CASE i < j /\ GroupOf(e, i, j)
    <2>1. Grammatical(e, i + 1, j - 1) /\ Paired(e, i, j)
      BY <1>2 DEF GroupOf
    <2>2. i + 1 <= j - 1 /\ Balanced(e, i + 1, j - 1)
      BY <1>0, <2>1, ShapeIs, BalancedIs
    <2> QED BY <2>1, <2>2 DEF Paired
  <1> QED BY <1>0, <1>1, <1>2, BaseIs

-----------------------------------------------------------------------------
(***************************************************************************)
(* The validator is complete: it reads every piece that is not nested too  *)
(* deep to its end.                                                        *)
(***************************************************************************)
\* The parentheses of a piece are not nested too deep for a depth to start from.
Shallow(e, i, j, d) == \A k \in i..j : Depth(e, k) - Depth(e, i - 1) + d <= MaxNesting

LEMMA ShallowAcross ==
  ASSUME NEW e \in Seq(Lexemes), NEW i \in 1..Len(e), NEW j \in 1..Len(e),
         NEW k \in (i + 1)..(j - 1),
         e[k].kind \in InfixKinds, Balanced(e, i, k - 1), NEW d \in 0..MaxNesting
  PROVE  Shallow(e, i, j, d) <=> Shallow(e, i, k - 1, d) /\ Shallow(e, k + 1, j, d)
  <1> DEFINE D(m) == Depth(e, m)
  <1>1. /\ Len(e) \in Nat /\ i \in Int /\ j \in Int /\ k \in Int /\ d \in Int /\ MaxNesting \in Int
        /\ d <= MaxNesting
        /\ i - 1 \in 0..Len(e) /\ k - 1 \in 0..Len(e) /\ k \in 1..Len(e) /\ (k + 1) - 1 = k
        /\ i..j = (i..(k - 1)) \cup {k} \cup ((k + 1)..j)
    BY CalculatorAssumption
  <1>2. \A m \in 0..Len(e) : D(m) \in Int
    BY DepthIs
  <1>3. D(k - 1) = D(i - 1)
    BY DEF Balanced
  <1>4. D(k) = D(k - 1)
    <2>1. e[k].kind \notin {"LPAREN", "RPAREN"}
      BY KindsApart DEF InfixKinds
    <2> QED BY <1>1, <2>1, DepthIs
  <1>5. Shallow(e, k + 1, j, d) <=> \A m \in (k + 1)..j : D(m) - D(i - 1) + d <= MaxNesting
    BY <1>1, <1>3, <1>4 DEF Shallow
  <1>6. D(k) - D(i - 1) + d <= MaxNesting
    BY <1>1, <1>2, <1>3, <1>4
  <1>7. Shallow(e, i, j, d) <=> \A m \in i..j : D(m) - D(i - 1) + d <= MaxNesting
    BY DEF Shallow
  <1>8. Shallow(e, i, k - 1, d) <=> \A m \in i..(k - 1) : D(m) - D(i - 1) + d <= MaxNesting
    BY DEF Shallow
  <1> HIDE DEF D
  <1> DEFINE P(m) == D(m) - D(i - 1) + d <= MaxNesting
  <1>9. /\ P(k) /\ (Shallow(e, i, j, d) <=> \A m \in i..j : P(m))
        /\ (Shallow(e, i, k - 1, d) <=> \A m \in i..(k - 1) : P(m))
        /\ (Shallow(e, k + 1, j, d) <=> \A m \in (k + 1)..j : P(m))
    BY <1>5, <1>6, <1>7, <1>8
  <1> HIDE DEF P
  <1> QED BY <1>1, <1>9

LEMMA ShallowSigned ==
  ASSUME NEW e \in Seq(Lexemes), NEW i \in 1..Len(e), NEW j \in 1..Len(e), i < j,
         e[i].kind \in Additive,
         NEW d \in 0..MaxNesting
  PROVE  Shallow(e, i, j, d) <=> Shallow(e, i + 1, j, d)
  <1>1. /\ i - 1 \in 0..Len(e) /\ (i + 1) - 1 = i /\ i..j = {i} \cup ((i + 1)..j)
        /\ MaxNesting \in Int
        /\ d \in Int /\ d <= MaxNesting
    BY CalculatorAssumption
  <1>2. Depth(e, i) = Depth(e, i - 1) /\ Depth(e, i - 1) \in Int
    BY <1>1, DepthIs, KindsApart
  <1>3. Depth(e, i) - Depth(e, i - 1) + d <= MaxNesting
    BY <1>1, <1>2
  <1> QED BY <1>1, <1>2, <1>3 DEF Shallow

LEMMA ShallowPercent ==
  ASSUME NEW e \in Seq(Lexemes), NEW i \in 1..Len(e), NEW j \in 1..Len(e), i < j,
         e[j].kind = "PERCENT",
         NEW d \in 0..MaxNesting
  PROVE  Shallow(e, i, j, d) <=> Shallow(e, i, j - 1, d)
  <1>1. i..j = (i..(j - 1)) \cup {j} /\ j - 1 \in i..(j - 1)
    OBVIOUS
  <1>2. Depth(e, j) = Depth(e, j - 1)
    BY DepthIs
  <1> QED BY <1>1, <1>2 DEF Shallow

LEMMA ShallowGroup ==
  ASSUME NEW e \in Seq(Lexemes), NEW i \in 1..Len(e), NEW j \in 1..Len(e), i + 1 <= j - 1,
         e[i].kind = "LPAREN", e[j].kind = "RPAREN", Balanced(e, i + 1, j - 1), NEW d \in 0..MaxNesting
  PROVE  Shallow(e, i, j, d) <=> d # MaxNesting /\ Shallow(e, i + 1, j - 1, d + 1)
  <1> DEFINE D(m) == Depth(e, m)
             P(m) == D(m) - D(i - 1) + d <= MaxNesting
  <1>1. /\ Len(e) \in Nat /\ i - 1 \in 0..Len(e) /\ (i + 1) - 1 = i
        /\ i..j = {i, j} \cup ((i + 1)..(j - 1))
        /\ MaxNesting \in Int /\ d \in Int /\ d <= MaxNesting
    BY CalculatorAssumption
  <1>2. \A m \in 0..Len(e) : D(m) \in Int
    BY DepthIs
  <1>3. D(i) = D(i - 1) + 1
    BY <1>1, DepthIs
  <1>4. D(j) = D(j - 1) - 1 /\ D(j - 1) = D(i)
    BY <1>1, DepthIs DEF Balanced
  <1>5. P(j) /\ (P(i) <=> d # MaxNesting)
    <2> DEFINE x == D(i)
               y == D(i - 1)
               z == D(j)
    <2>1. y \in Int /\ x = y + 1 /\ z = y
      BY <1>1, <1>2, <1>3, <1>4
    <2> HIDE DEF x, y, z
    <2>2. MaxNesting \in Int /\ d \in Int /\ d <= MaxNesting
      BY <1>1
    <2>3. x - y + d = d + 1 /\ z - y + d = d
      BY <2>1, <2>2
    <2>4. z - y + d <= MaxNesting /\ (x - y + d <= MaxNesting <=> d # MaxNesting)
      BY <2>2, <2>3
    <2> QED BY <2>4 DEF x, y, z
  <1>6. Shallow(e, i + 1, j - 1, d + 1) <=> \A m \in (i + 1)..(j - 1) : P(m)
    <2>1. Shallow(e, i + 1, j - 1, d + 1) <=>
            \A m \in (i + 1)..(j - 1) : D(m) - D(i) + (d + 1) <= MaxNesting
      BY <1>1 DEF Shallow
    <2>2. ASSUME NEW m \in (i + 1)..(j - 1) PROVE (D(m) - D(i) + (d + 1) <= MaxNesting) <=> P(m)
      <3>1. D(m) \in Int /\ D(i - 1) \in Int
        <4>1. m \in 0..Len(e) /\ i - 1 \in 0..Len(e)
          BY <1>1
        <4> HIDE DEF D
        <4> QED BY <1>2, <4>1
      <3> DEFINE x == D(m)
                 y == D(i - 1)
                 z == D(i)
      <3>2. x \in Int /\ y \in Int /\ z = y + 1
        BY <1>3, <3>1
      <3> HIDE DEF x, y, z
      <3>3. MaxNesting \in Int /\ d \in Int
        BY <1>1
      <3>4. x - z + (d + 1) = x - y + d
        BY <3>2, <3>3
      <3>5. (x - z + (d + 1) <= MaxNesting) <=> (x - y + d <= MaxNesting)
        BY <3>4
      <3> QED BY <3>5 DEF x, y, z
    <2> QED BY <2>1, <2>2
  <1>7. Shallow(e, i, j, d) <=> \A m \in i..j : P(m)
    BY DEF Shallow
  <1> HIDE DEF P
  <1> QED BY <1>1, <1>5, <1>6, <1>7

LEMMA ShallowAlone ==
  ASSUME NEW e \in Seq(Lexemes), NEW i \in 1..Len(e), e[i].kind = "NUMBER", NEW d \in 0..MaxNesting
  PROVE  Shallow(e, i, i, d)
  <1>1. i - 1 \in 0..Len(e) /\ MaxNesting \in Int /\ d \in Int /\ d <= MaxNesting
    BY CalculatorAssumption
  <1>2. Depth(e, i) = Depth(e, i - 1) /\ Depth(e, i - 1) \in Int
    BY <1>1, DepthIs
  <1>3. \A m \in i..i : m = i
    OBVIOUS
  <1> QED BY <1>1, <1>2, <1>3 DEF Shallow

-----------------------------------------------------------------------------
\* A piece is read as a whole, or is nested too deep.
Leads(fits, r, next) == IF fits THEN r = next ELSE r.code = "expression_limit"

AfterSum(e, at, d) ==
  IF Kind(e, at) \in Additive THEN Read(e, "additive", at + 1, d) ELSE Reached(at)
AfterProduct(e, at, d) ==
  IF Kind(e, at) \in Multiplicative THEN Read(e, "multiplicative", at + 1, d) ELSE Reached(at)

ReadsSum(e, i, j, d) ==
  Grammatical(e, i, j) /\ Kind(e, j + 1) \notin Multiplicative \cup {"POWER", "PERCENT"} =>
    Leads(Shallow(e, i, j, d), Read(e, "additive", i, d), AfterSum(e, j + 1, d))
ReadsProduct(e, i, j, d) ==
  ProductForm(e, i, j) /\ Kind(e, j + 1) \notin {"POWER", "PERCENT"} =>
    Leads(Shallow(e, i, j, d), Read(e, "multiplicative", i, d), AfterProduct(e, j + 1, d))
ReadsUnary(e, i, j, d) ==
  UnaryForm(e, i, j) /\ Kind(e, j + 1) \notin {"POWER", "PERCENT"} =>
    Leads(Shallow(e, i, j, d), Read(e, "unary", i, d), Reached(j + 1))
ReadsPercent(e, i, j, d) ==
  PostfixForm(e, i, j) /\ Powers(e, i, j) = {} /\ Kind(e, j + 1) # "POWER" =>
    Leads(Shallow(e, i, j, d), Read(e, "unary", i, d), Read(e, "percent", j + 1, d))
ReadsBase(e, i, j, d) ==
  BaseForm(e, i, j) => Leads(Shallow(e, i, j, d), Read(e, "power", i, d), Exponent(e, j + 1, d))

Complete(e, i, j) ==
  \A d \in 0..MaxNesting : /\ ReadsSum(e, i, j, d) /\ ReadsProduct(e, i, j, d) /\ ReadsUnary(e, i, j, d)
                           /\ ReadsPercent(e, i, j, d) /\ ReadsBase(e, i, j, d)
ShorterAre(e, i, j) ==
  \A k \in 1..(Len(e) + 1), l \in 0..Len(e) : i <= j /\ l - k < j - i => Complete(e, k, l)

LEMMA ShorterIs ==
  ASSUME NEW e \in Seq(Lexemes), NEW i \in 1..Len(e), NEW j \in 1..Len(e), i <= j,
         ShorterAre(e, i, j)
  PROVE  /\ \A k \in (i + 1)..(j - 1) : Complete(e, i, k - 1) /\ Complete(e, k + 1, j)
         /\ Complete(e, i + 1, j) /\ Complete(e, i, j - 1) /\ Complete(e, i + 1, j - 1)
  <1>1. /\ i \in 1..(Len(e) + 1) /\ i + 1 \in 1..(Len(e) + 1) /\ j \in 0..Len(e)
        /\ j - 1 \in 0..Len(e)
        /\ j - (i + 1) < j - i /\ (j - 1) - i < j - i /\ (j - 1) - (i + 1) < j - i
    OBVIOUS
  <1>2. ASSUME NEW k \in (i + 1)..(j - 1)
        PROVE  /\ k - 1 \in 0..Len(e) /\ k + 1 \in 1..(Len(e) + 1) /\ (k - 1) - i < j - i
               /\ j - (k + 1) < j - i
    OBVIOUS
  <1> QED BY <1>1, <1>2 DEF ShorterAre

LEMMA BaseReads ==
  ASSUME NEW e \in Seq(Lexemes), NEW i \in 1..Len(e), NEW j \in 1..Len(e), i <= j,
         ShorterAre(e, i, j),
         NEW d \in 0..MaxNesting
  PROVE  ReadsBase(e, i, j, d)
  <1> SUFFICES ASSUME BaseForm(e, i, j)
               PROVE  Leads(Shallow(e, i, j, d), Read(e, "power", i, d), Exponent(e, j + 1, d))
    BY DEF ReadsBase
  <1>0. i \in 1..(Len(e) + 1) /\ Kind(e, i) = e[i].kind /\ Kind(e, j) = e[j].kind
    BY KindIs
  <1>1. CASE i = j /\ e[i].kind = "NUMBER"
    <2>1. Shallow(e, i, j, d)
      BY <1>1, ShallowAlone
    <2>2. Read(e, "power", i, d) = Exponent(e, i + 1, d)
      BY <1>0, <1>1, ReadPower
    <2> QED BY <1>1, <2>1, <2>2 DEF Leads
  <1>2. CASE /\ i + 1 <= j - 1 /\ e[i].kind = "LPAREN" /\ e[j].kind = "RPAREN"
             /\ Grammatical(e, i + 1, j - 1) /\ Balanced(e, i + 1, j - 1)
    <2> DEFINE inner == Read(e, "additive", i + 1, d + 1)
    <2>1. Shallow(e, i, j, d) <=> d # MaxNesting /\ Shallow(e, i + 1, j - 1, d + 1)
      BY <1>2, ShallowGroup
    <2>2. CASE d = MaxNesting
      <3>1. Read(e, "power", i, d) = Stuck("expression_limit")
        BY <1>0, <1>2, <2>2, ReadPower
      <3> QED BY <2>1, <2>2, <3>1 DEF Leads, Stuck
    <2>3. CASE d # MaxNesting
      <3>1. d + 1 \in 0..MaxNesting /\ (j - 1) + 1 = j
        BY <2>3, CalculatorAssumption
      <3>2. ReadsSum(e, i + 1, j - 1, d + 1)
        BY <3>1, ShorterIs DEF Complete
      <3>3. Kind(e, j) \notin Multiplicative \cup {"POWER", "PERCENT"} /\ Kind(e, j) \notin Additive
        BY <1>0, <1>2, KindsApart
      <3>4. Leads(Shallow(e, i + 1, j - 1, d + 1), inner, AfterSum(e, j, d + 1))
        BY <1>2, <3>1, <3>2, <3>3 DEF ReadsSum
      <3>5. AfterSum(e, j, d + 1) = Reached(j)
        BY <3>3 DEF AfterSum
      <3>6. Read(e, "power", i, d) =
              IF inner.code # "ok" THEN inner
              ELSE IF Kind(e, inner.at) = "RPAREN" THEN Exponent(e, inner.at + 1, d)
              ELSE Stuck("unsupported_expression")
        BY <1>0, <1>2, <2>3, ReadPower
      <3> HIDE DEF inner
      <3>7. CASE Shallow(e, i + 1, j - 1, d + 1)
        <4>1. inner.code = "ok" /\ inner.at = j
          BY <3>4, <3>5, <3>7 DEF Leads, Reached
        <4>2. Read(e, "power", i, d) = Exponent(e, j + 1, d)
          BY <1>0, <1>2, <3>6, <4>1
        <4> QED BY <2>1, <2>3, <3>7, <4>2 DEF Leads
      <3>8. CASE ~Shallow(e, i + 1, j - 1, d + 1)
        <4>1. inner.code = "expression_limit"
          BY <3>4, <3>8 DEF Leads
        <4> QED BY <2>1, <3>6, <3>8, <4>1 DEF Leads
      <3> QED BY <3>7, <3>8
    <2> QED BY <2>2, <2>3
  <1> QED BY <1>1, <1>2, BaseSplit

LEMMA PercentReads ==
  ASSUME NEW e \in Seq(Lexemes), NEW i \in 1..Len(e), NEW j \in 1..Len(e), i <= j,
         ShorterAre(e, i, j),
         NEW d \in 0..MaxNesting, ReadsBase(e, i, j, d)
  PROVE  ReadsPercent(e, i, j, d)
  <1> SUFFICES ASSUME PostfixForm(e, i, j), Powers(e, i, j) = {}, Kind(e, j + 1) # "POWER"
               PROVE  Leads(Shallow(e, i, j, d), Read(e, "unary", i, d), Read(e, "percent", j + 1, d))
    BY DEF ReadsPercent
  <1>0. /\ i \in 1..(Len(e) + 1) /\ j \in 1..(Len(e) + 1) /\ (j - 1) + 1 = j
        /\ Kind(e, i) = e[i].kind /\ Kind(e, j) = e[j].kind
    BY KindIs
  <1>1. CASE e[j].kind = "PERCENT"
    <2>1. i < j /\ PostfixForm(e, i, j - 1) /\ Powers(e, i, j - 1) = {}
      BY <1>1, PercentSplit
    <2>2. ReadsPercent(e, i, j - 1, d)
      BY ShorterIs DEF Complete
    <2>3. Leads(Shallow(e, i, j - 1, d), Read(e, "unary", i, d), Read(e, "percent", j, d))
      BY <1>0, <1>1, <2>1, <2>2 DEF ReadsPercent
    <2>4. Read(e, "percent", j, d) = Read(e, "percent", j + 1, d)
      BY <1>0, <1>1, ReadPercent
    <2>5. Shallow(e, i, j, d) <=> Shallow(e, i, j - 1, d)
      BY <1>1, <2>1, ShallowPercent
    <2> QED BY <2>3, <2>4, <2>5 DEF Leads
  <1>2. CASE e[j].kind # "PERCENT"
    <2> DEFINE base == Read(e, "power", i, d)
    <2>1. BaseForm(e, i, j) /\ e[i].kind \notin Additive
      BY <1>2 DEF BaseForm, PostfixForm
    <2>2. Leads(Shallow(e, i, j, d), base, Reached(j + 1))
      BY <2>1 DEF ReadsBase, Exponent
    <2>3. Read(e, "unary", i, d) = IF base.code = "ok" THEN Read(e, "percent", base.at, d) ELSE base
      BY <1>0, <2>1, ReadUnary
    <2> HIDE DEF base
    <2> QED BY <2>2, <2>3 DEF Leads, Reached
  <1> QED BY <1>1, <1>2

LEMMA UnaryReads ==
  ASSUME NEW e \in Seq(Lexemes), NEW i \in 1..Len(e), NEW j \in 1..Len(e), i <= j,
         ShorterAre(e, i, j),
         NEW d \in 0..MaxNesting, ReadsPercent(e, i, j, d)
  PROVE  ReadsUnary(e, i, j, d)
  <1> SUFFICES ASSUME UnaryForm(e, i, j), Kind(e, j + 1) \notin {"POWER", "PERCENT"}
               PROVE  Leads(Shallow(e, i, j, d), Read(e, "unary", i, d), Reached(j + 1))
    BY DEF ReadsUnary
  <1>0. i \in 1..(Len(e) + 1) /\ j + 1 \in 1..(Len(e) + 1) /\ Kind(e, i) = e[i].kind
    BY KindIs
  <1>1. Read(e, "percent", j + 1, d) = Reached(j + 1)
    BY <1>0, ReadPercent
  <1>2. CASE e[i].kind \in Additive
    <2>1. i < j /\ UnaryForm(e, i + 1, j)
      BY <1>2, SignSplit
    <2>2. ReadsUnary(e, i + 1, j, d)
      BY ShorterIs DEF Complete
    <2>3. Leads(Shallow(e, i + 1, j, d), Read(e, "unary", i + 1, d), Reached(j + 1))
      BY <2>1, <2>2 DEF ReadsUnary
    <2>4. Read(e, "unary", i, d) = Read(e, "unary", i + 1, d)
      BY <1>0, <1>2, ReadUnary
    <2>5. Shallow(e, i, j, d) <=> Shallow(e, i + 1, j, d)
      BY <1>2, <2>1, ShallowSigned
    <2> QED BY <2>3, <2>4, <2>5 DEF Leads
  <1>3. CASE e[i].kind \notin Additive /\ Powers(e, i, j) = {}
    <2>1. PostfixForm(e, i, j)
      BY <1>3 DEF PostfixForm
    <2> QED BY <1>1, <1>3, <2>1 DEF ReadsPercent
  <1>4. CASE e[i].kind \notin Additive /\ Powers(e, i, j) # {}
    <2> DEFINE base == Read(e, "power", i, d)
               next(k) == Read(e, "unary", k + 1, d)
    <2>1. PICK k \in (i + 1)..(j - 1) :
            e[k].kind = "POWER" /\ BaseForm(e, i, k - 1) /\ UnaryForm(e, k + 1, j)
      BY <1>4, PowerSplit DEF PostfixForm
    <2>2. /\ k \in 1..Len(e) /\ Kind(e, k) = "POWER" /\ e[k].kind \in InfixKinds /\ (k - 1) + 1 = k
          /\ i \in 1..(Len(e) + 1)
          /\ k - 1 \in 0..Len(e)
      BY <1>0, <2>1, KindIs DEF InfixKinds
    <2>3. ReadsBase(e, i, k - 1, d) /\ ReadsUnary(e, k + 1, j, d)
      BY ShorterIs DEF Complete
    <2>4. Leads(Shallow(e, i, k - 1, d), base, next(k))
      BY <2>1, <2>2, <2>3 DEF ReadsBase, Exponent
    <2>5. Leads(Shallow(e, k + 1, j, d), next(k), Reached(j + 1))
      BY <2>1, <2>3 DEF ReadsUnary
    <2>6. Balanced(e, i, k - 1)
      BY <2>1, <2>2, BalancedIs DEF BaseForm, PostfixForm, UnaryForm
    <2>7. Shallow(e, i, j, d) <=> Shallow(e, i, k - 1, d) /\ Shallow(e, k + 1, j, d)
      BY <2>2, <2>6, ShallowAcross
    <2>8. Read(e, "unary", i, d) = IF base.code = "ok" THEN Read(e, "percent", base.at, d) ELSE base
      BY <1>0, <1>4, ReadUnary
    <2> HIDE DEF base, next
    <2> QED BY <1>1, <2>4, <2>5, <2>7, <2>8 DEF Leads, Reached
  <1> QED BY <1>2, <1>3, <1>4

LEMMA ProductReads ==
  ASSUME NEW e \in Seq(Lexemes), NEW i \in 1..Len(e), NEW j \in 1..Len(e), i <= j,
         ShorterAre(e, i, j),
         NEW d \in 0..MaxNesting, ReadsUnary(e, i, j, d)
  PROVE  ReadsProduct(e, i, j, d)
  <1> SUFFICES ASSUME ProductForm(e, i, j), Kind(e, j + 1) \notin {"POWER", "PERCENT"}
               PROVE  Leads(Shallow(e, i, j, d), Read(e, "multiplicative", i, d), AfterProduct(e, j + 1, d))
    BY DEF ReadsProduct
  <1>0. i \in 1..(Len(e) + 1) /\ j + 1 \in 1..(Len(e) + 1)
    BY KindIs
  <1>1. CASE Infixes(e, i, j, Multiplicative) = {}
    <2> DEFINE first == Read(e, "unary", i, d)
    <2>1. UnaryForm(e, i, j)
      BY <1>1, UnaryFormIs DEF ProductForm
    <2>2. Leads(Shallow(e, i, j, d), first, Reached(j + 1))
      BY <2>1 DEF ReadsUnary
    <2>3. Read(e, "multiplicative", i, d) =
            IF first.code = "ok" /\ Kind(e, first.at) \in Multiplicative
            THEN Read(e, "multiplicative", first.at + 1, d) ELSE first
      BY <1>0, ReadMultiplicative
    <2> HIDE DEF first
    <2> QED BY <2>2, <2>3 DEF Leads, Reached, AfterProduct
  <1>2. CASE Infixes(e, i, j, Multiplicative) # {}
    <2> DEFINE next(k) == Read(e, "multiplicative", k + 1, d)
    <2>1. PICK k \in (i + 1)..(j - 1) :
            e[k].kind \in Multiplicative /\ ProductForm(e, i, k - 1) /\ UnaryForm(e, k + 1, j)
      BY <1>2, ProductSplit
    <2>2. /\ k \in 1..Len(e) /\ Kind(e, k) \in Multiplicative
          /\ Kind(e, k) \notin {"POWER", "PERCENT"}
          /\ e[k].kind \in InfixKinds /\ (k - 1) + 1 = k /\ i \in 1..(Len(e) + 1)
          /\ k - 1 \in 0..Len(e)
      BY <1>0, <2>1, KindIs, KindsApart DEF InfixKinds
    <2>3. ReadsProduct(e, i, k - 1, d) /\ ReadsProduct(e, k + 1, j, d)
      BY ShorterIs DEF Complete
    <2>4. Leads(Shallow(e, i, k - 1, d), Read(e, "multiplicative", i, d), next(k))
      BY <2>1, <2>2, <2>3 DEF ReadsProduct, AfterProduct
    <2>5. Leads(Shallow(e, k + 1, j, d), next(k), AfterProduct(e, j + 1, d))
      BY <2>1, <2>3, UnaryFormIs DEF ReadsProduct, ProductForm
    <2>6. Balanced(e, i, k - 1)
      BY <2>1, <2>2, BalancedIs DEF ProductForm
    <2>7. Shallow(e, i, j, d) <=> Shallow(e, i, k - 1, d) /\ Shallow(e, k + 1, j, d)
      BY <2>2, <2>6, ShallowAcross
    <2> HIDE DEF next
    <2> QED BY <2>4, <2>5, <2>7 DEF Leads
  <1> QED BY <1>1, <1>2

LEMMA SumReads ==
  ASSUME NEW e \in Seq(Lexemes), NEW i \in 1..Len(e), NEW j \in 1..Len(e), i <= j,
         ShorterAre(e, i, j),
         NEW d \in 0..MaxNesting, ReadsProduct(e, i, j, d)
  PROVE  ReadsSum(e, i, j, d)
  <1> SUFFICES ASSUME Grammatical(e, i, j),
                      Kind(e, j + 1) \notin Multiplicative \cup {"POWER", "PERCENT"}
               PROVE  Leads(Shallow(e, i, j, d), Read(e, "additive", i, d), AfterSum(e, j + 1, d))
    BY DEF ReadsSum
  <1>0. i \in 1..(Len(e) + 1) /\ j + 1 \in 1..(Len(e) + 1)
    BY KindIs
  <1>1. CASE Infixes(e, i, j, Additive) = {}
    <2> DEFINE first == Read(e, "multiplicative", i, d)
    <2>1. ProductForm(e, i, j)
      BY <1>1 DEF ProductForm
    <2>2. Leads(Shallow(e, i, j, d), first, Reached(j + 1))
      BY <2>1 DEF ReadsProduct, AfterProduct
    <2>3. Read(e, "additive", i, d) =
            IF first.code = "ok" /\ Kind(e, first.at) \in Additive
            THEN Read(e, "additive", first.at + 1, d) ELSE first
      BY <1>0, ReadAdditive
    <2> HIDE DEF first
    <2> QED BY <2>2, <2>3 DEF Leads, Reached, AfterSum
  <1>2. CASE Infixes(e, i, j, Additive) # {}
    <2> DEFINE next(k) == Read(e, "additive", k + 1, d)
    <2>1. PICK k \in (i + 1)..(j - 1) :
            e[k].kind \in Additive /\ Grammatical(e, i, k - 1) /\ ProductForm(e, k + 1, j)
      BY <1>2, SumSplit
    <2>2. /\ k \in 1..Len(e) /\ Kind(e, k) \in Additive
          /\ Kind(e, k) \notin Multiplicative \cup {"POWER", "PERCENT"}
          /\ e[k].kind \in InfixKinds /\ (k - 1) + 1 = k /\ i \in 1..(Len(e) + 1)
          /\ k - 1 \in 0..Len(e)
      BY <1>0, <2>1, KindIs, KindsApart DEF InfixKinds
    <2>3. ReadsSum(e, i, k - 1, d) /\ ReadsSum(e, k + 1, j, d)
      BY ShorterIs DEF Complete
    <2>4. Leads(Shallow(e, i, k - 1, d), Read(e, "additive", i, d), next(k))
      BY <2>1, <2>2, <2>3 DEF ReadsSum, AfterSum
    <2>5. Leads(Shallow(e, k + 1, j, d), next(k), AfterSum(e, j + 1, d))
      BY <2>1, <2>3 DEF ReadsSum, ProductForm
    <2>6. Balanced(e, i, k - 1)
      BY <2>1, <2>2, BalancedIs
    <2>7. Shallow(e, i, j, d) <=> Shallow(e, i, k - 1, d) /\ Shallow(e, k + 1, j, d)
      BY <2>2, <2>6, ShallowAcross
    <2> HIDE DEF next
    <2> QED BY <2>4, <2>5, <2>7 DEF Leads
  <1> QED BY <1>1, <1>2

LEMMA NoPieceOutside ==
  ASSUME NEW e \in Seq(Lexemes), NEW i \in 1..(Len(e) + 1), NEW j \in 0..Len(e), ~(i <= j)
  PROVE  /\ ~Grammatical(e, i, j) /\ ~ProductForm(e, i, j) /\ ~UnaryForm(e, i, j)
         /\ ~PostfixForm(e, i, j) /\ ~BaseForm(e, i, j)
  <1>1. ~Grammatical(e, i, j)
    BY ShapeIs
  <1> QED BY <1>1 DEF ProductForm, UnaryForm, PostfixForm, BaseForm

LEMMA CompleteIs ==
  ASSUME NEW e \in Seq(Lexemes), NEW i \in 1..(Len(e) + 1), NEW j \in 0..Len(e)
  PROVE  Complete(e, i, j)
  <1> DEFINE N == Len(e)
             T == { p \in Pieces(e) : Complete(e, p[1], p[2]) }
  <1>1. \A a \in 1..(N + 1), b \in 0..N : <<a, b>> \in T <=> Complete(e, a, b)
    BY DEF Pieces
  <1> HIDE DEF T
  <1>2. ASSUME NEW a \in 1..(N + 1), NEW b \in 0..N,
               \A k \in 1..(N + 1), l \in 0..N : a <= b /\ l - k < b - a => <<k, l>> \in T
        PROVE  <<a, b>> \in T
    <2>1. CASE a <= b
      <3>1. a \in 1..N /\ b \in 1..N
        BY <2>1
      <3>2. ShorterAre(e, a, b)
        BY <1>1, <1>2 DEF ShorterAre
      <3>3. ASSUME NEW d \in 0..MaxNesting
            PROVE  /\ ReadsSum(e, a, b, d) /\ ReadsProduct(e, a, b, d) /\ ReadsUnary(e, a, b, d)
                   /\ ReadsPercent(e, a, b, d) /\ ReadsBase(e, a, b, d)
        <4>1. ReadsBase(e, a, b, d)
          BY <2>1, <3>1, <3>2, BaseReads
        <4>2. ReadsPercent(e, a, b, d)
          BY <2>1, <3>1, <3>2, <4>1, PercentReads
        <4>3. ReadsUnary(e, a, b, d)
          BY <2>1, <3>1, <3>2, <4>2, UnaryReads
        <4>4. ReadsProduct(e, a, b, d)
          BY <2>1, <3>1, <3>2, <4>3, ProductReads
        <4>5. ReadsSum(e, a, b, d)
          BY <2>1, <3>1, <3>2, <4>4, SumReads
        <4> QED BY <4>1, <4>2, <4>3, <4>4, <4>5
      <3> QED BY <1>1, <3>3 DEF Complete
    <2>2. CASE ~(a <= b)
      <3>1. Complete(e, a, b)
        BY <2>2, NoPieceOutside DEF Complete, ReadsSum, ReadsProduct, ReadsUnary, ReadsPercent,
           ReadsBase
      <3> QED BY <1>1, <3>1
    <2> QED BY <2>1, <2>2
  <1>3. <<i, j>> \in T
    BY <1>2, PieceInduction
  <1> QED BY <1>1, <1>3

\* The validator takes what the grammar means, and nothing else, unless the
\* parentheses are nested too deep.
THEOREM GrammarIsExact ==
  ASSUME NEW e \in Seq(Lexemes), e # <<>>
  PROVE  /\ Grammar(Lexed(e)) \in ReadCodes
         /\ Grammar(Lexed(e)) = "ok" => Grammatical(e, 1, Len(e)) /\ Shallow(e, 1, Len(e), 0)
         /\ Grammar(Lexed(e)) = "unsupported_expression" => ~Grammatical(e, 1, Len(e))
         /\ Grammar(Lexed(e)) = "expression_limit" => TooDeep(e)
  <1> DEFINE N == Len(e)
             r == Read(e, "additive", 1, 0)
  <1>1. /\ N \in Nat /\ N # 0 /\ 1 \in 1..(N + 1) /\ N \in 0..N /\ 0 \in 0..MaxNesting /\ 1 - 1 = 0
        /\ "additive" \in GrammarRules
    BY KindIs, RulesAre, CalculatorAssumption
  <1>2. Reading(e, "additive", 1, r)
    BY <1>1, ReadIs
  <1>3. Sound(e, "additive", 1, 0)
    BY <1>1, ReadIsSound
  <1>4. Grammar(Lexed(e)) = IF r.code = "ok" /\ Kind(e, r.at) # "EOF" THEN "unsupported_expression"
                            ELSE r.code
    BY GrammarIs
  <1>5. Kind(e, N + 1) = "EOF" /\ \A k \in 1..N : Kind(e, k) # "EOF"
    BY KindIs, LexemeIs
  <1>6. r.code = "ok" => r.at \in 1..(N + 1) /\ 1 < r.at
    BY <1>1, <1>2 DEF Reading, Readings, Least
  <1>7. Grammatical(e, 1, N) => IF Shallow(e, 1, N, 0) THEN r = Reached(N + 1)
                                ELSE r.code = "expression_limit"
    <2>1. ReadsSum(e, 1, N, 0)
      BY <1>1, CompleteIs DEF Complete
    <2>2. "EOF" \notin Multiplicative \cup {"POWER", "PERCENT"} /\ "EOF" \notin Additive
      BY KindsApart
    <2> QED BY <1>5, <2>1, <2>2 DEF ReadsSum, Leads, AfterSum
  <1>8. r.code \in ReadCodes /\ "unsupported_expression" \in ReadCodes
    BY <1>2 DEF Reading, Readings, ReadCodes
  <1>9. ASSUME Grammar(Lexed(e)) = "ok" PROVE Grammatical(e, 1, N) /\ Shallow(e, 1, N, 0)
    <2>1. r.code = "ok" /\ Kind(e, r.at) = "EOF"
      BY <1>4, <1>9
    <2>2. r.at = N + 1
      BY <1>1, <1>5, <1>6, <2>1
    <2>3. Grammatical(e, 1, r.at - 1)
      BY <1>3, <2>1 DEF Sound, SoundReading, SumSound
    <2>4. r.at - 1 = N
      BY <1>1, <2>2
    <2> HIDE DEF r
    <2> QED BY <1>7, <2>1, <2>3, <2>4
  <1>10. ASSUME Grammar(Lexed(e)) = "unsupported_expression", Grammatical(e, 1, N) PROVE FALSE
    <2> HIDE DEF r
    <2>1. r.code # "expression_limit" => r.code = "ok" /\ r.at = N + 1
      BY <1>7, <1>10 DEF Reached
    <2> QED BY <1>4, <1>5, <1>10, <2>1
  <1>11. ASSUME Grammar(Lexed(e)) = "expression_limit" PROVE TooDeep(e)
    <2>1. r.code = "expression_limit"
      BY <1>4, <1>11
    <2>2. Depth(e, 1 - 1) = 0
      BY <1>1, DepthIs
    <2> QED BY <1>3, <2>1, <2>2 DEF Sound
  <1> HIDE DEF r
  <1> QED BY <1>4, <1>8, <1>9, <1>10, <1>11

-----------------------------------------------------------------------------
(***************************************************************************)
(* The parser as a function of rule, position, depth and left operand      *)
(* (PRead).                                                                *)
(***************************************************************************)
Places(e) == ParserRules \X (1..Len(Lexed(e))) \X (0..MaxNesting) \X Fractions
ParseCodes == Arithmetic \cup ReadCodes
Computings(e) == [code : ParseCodes, value : Fractions, at : 0..(Len(e) + 1)]
\* "sum", "product" and "percent" may find that nothing follows.
Earliest(rule, i) == IF rule \in {"sum", "product", "percent"} THEN i ELSE i + 1
Computing(e, rule, i, r) ==
  r \in Computings(e) /\ (r.code = "ok" => Earliest(rule, i) <= r.at /\ 1 <= r.at)
Step(rule) == CASE rule = "additive" -> 4 [] rule = "multiplicative" -> 3 [] rule = "unary" -> 2
                [] rule = "power" -> 1 [] rule \in {"sum", "product", "percent"} -> 0
Remaining(e, rule, i) == 5 * (Len(e) + 1 - i) + Step(rule)

LEMMA ParserRulesAre ==
  ParserRules = {"additive", "multiplicative", "unary", "percent", "power", "sum", "product"}
  BY DEF ParserRules, GrammarRules

\* What follows a left operand.
Follow(f, other, v, at, d) == IF v.code = "ok" THEN f[<<other, at, d, v.value>>] ELSE Took(v, at)
\* A base, and the exponent it may have.
RaisesTo(t, f, base, d, x) ==
  IF base.code # "ok" \/ t[base.at].kind # "POWER" THEN base
  ELSE IF f[<<"unary", base.at + 1, d, x>>].code # "ok" THEN f[<<"unary", base.at + 1, d, x>>]
  ELSE Took(Power(base.value, f[<<"unary", base.at + 1, d, x>>].value),
    f[<<"unary", base.at + 1, d, x>>].at)

LEMMA ComputeAdditive ==
  ASSUME NEW t, NEW f, NEW i, NEW d, NEW x, NEW first, first = f[<<"multiplicative", i, d, x>>]
  PROVE  Compute(t, f, "additive", i, d, x) = Follow(f, "sum", first, first.at, d)
  BY DEF Compute, Follow

LEMMA ComputeMultiplicative ==
  ASSUME NEW t, NEW f, NEW i, NEW d, NEW x, NEW first, first = f[<<"unary", i, d, x>>]
  PROVE  Compute(t, f, "multiplicative", i, d, x) = Follow(f, "product", first, first.at, d)
  BY DEF Compute, Follow

LEMMA ComputeSum ==
  ASSUME NEW t, NEW f, NEW i \in Int, NEW d, NEW x, NEW k, k = i + 1,
         NEW right, right = f[<<"multiplicative", k, d, x>>]
  PROVE  Compute(t, f, "sum", i, d, x) =
           IF t[i].kind \notin Additive THEN Took(Value(x), i)
           ELSE IF right.code # "ok" THEN right
           ELSE Follow(f, "sum", Operate(t[i].kind, x, right.value), right.at, d)
  BY DEF Compute, Follow

LEMMA ComputeProduct ==
  ASSUME NEW t, NEW f, NEW i \in Int, NEW d, NEW x, NEW k, k = i + 1,
         NEW right, right = f[<<"unary", k, d, x>>]
  PROVE  Compute(t, f, "product", i, d, x) =
           IF t[i].kind \notin Multiplicative THEN Took(Value(x), i)
           ELSE IF right.code # "ok" THEN right
           ELSE Follow(f, "product", Operate(t[i].kind, x, right.value), right.at, d)
  BY DEF Compute, Follow

LEMMA ComputeUnary ==
  ASSUME NEW t, NEW f, NEW i \in Int, NEW d, NEW x, NEW k, k = i + 1,
         NEW operand, operand = f[<<"unary", k, d, x>>], NEW base, base = f[<<"power", i, d, x>>]
  PROVE  Compute(t, f, "unary", i, d, x) =
           IF t[i].kind \notin Additive THEN Follow(f, "percent", base, base.at, d)
           ELSE IF operand.code # "ok" \/ t[i].kind = "PLUS" THEN operand
           ELSE Took(Bounded(Minus(Integer(0), operand.value)), operand.at)
  BY DEF Compute, Follow

LEMMA ComputePercent ==
  ASSUME NEW t, NEW f, NEW i \in Int, NEW d, NEW x, NEW k, k = i + 1
  PROVE  Compute(t, f, "percent", i, d, x) =
           IF t[i].kind = "PERCENT" THEN Follow(f, "percent", Percent(x), k, d) ELSE Took(Value(x), i)
  BY DEF Compute, Follow, Percent

LEMMA ComputeNumber ==
  ASSUME NEW t, NEW f, NEW i \in Int, NEW d, NEW x, t[i].kind = "NUMBER", NEW k, k = i + 1,
         NEW base, base = Took(Bounded(Integer(t[i].literal)), k)
  PROVE  Compute(t, f, "power", i, d, x) = RaisesTo(t, f, base, d, x)
  BY DEF Compute, RaisesTo

LEMMA ComputeOther ==
  ASSUME NEW t, NEW f, NEW i, NEW d, NEW x, t[i].kind \notin {"NUMBER", "LPAREN"}
  PROVE  Compute(t, f, "power", i, d, x) = Took(Failure("unsupported_expression"), 0)
  BY DEF Compute

LEMMA ComputeTooDeep ==
  ASSUME NEW t, NEW f, NEW i, NEW x, t[i].kind = "LPAREN"
  PROVE  Compute(t, f, "power", i, MaxNesting, x) = Took(Failure("expression_limit"), 0)
  BY DEF Compute

LEMMA ComputeGroup ==
  ASSUME NEW t, NEW f, NEW i \in Int, NEW d \in Int, NEW x, t[i].kind = "LPAREN", d # MaxNesting,
         NEW k, k = i + 1, NEW c, c = d + 1, NEW inner, inner = f[<<"additive", k, c, x>>],
         NEW base, base = Took(Value(inner.value), inner.at + 1)
  PROVE  Compute(t, f, "power", i, d, x) =
           IF inner.code # "ok" THEN inner
           ELSE IF t[inner.at].kind = "RPAREN" THEN RaisesTo(t, f, base, d, x)
           ELSE Took(Failure("unsupported_expression"), 0)
  BY DEF Compute, RaisesTo

LEMMA TookParts ==
  ASSUME NEW v, NEW at
  PROVE  Took(v, at).code = v.code /\ Took(v, at).value = v.value /\ Took(v, at).at = at
  BY DEF Took

LEMMA TookSame ==
  ASSUME NEW e, NEW r \in Computings(e)
  PROVE  Took(r, r.at) = r
  BY DEF Took, Computings

LEMMA TookIs ==
  ASSUME NEW e \in Seq(Lexemes), NEW rule, NEW i \in 1..(Len(e) + 1), NEW v \in Outcomes,
         NEW at \in 1..(Len(e) + 1),
         Earliest(rule, i) <= at
  PROVE  Computing(e, rule, i, Took(v, at))
  BY DEF Computing, Took, Computings, ParseCodes, Outcomes

LEMMA StoppedIs ==
  ASSUME NEW e \in Seq(Lexemes), NEW rule, NEW i, NEW code \in ReadCodes \ {"ok"}
  PROVE  Computing(e, rule, i, Took(Failure(code), 0))
  BY IntegerIs DEF Computing, Took, Computings, ParseCodes, Failure, ReadCodes

LEMMA LaterComputing ==
  ASSUME NEW e \in Seq(Lexemes), NEW rule, NEW i \in 1..(Len(e) + 1), NEW other,
         NEW k \in 1..(Len(e) + 1),
         NEW r, Computing(e, other, k, r), Earliest(rule, i) <= Earliest(other, k)
  PROVE  Computing(e, rule, i, r)
  BY DEF Computing, Computings, Earliest

LEMMA LeftIs ==
  ASSUME NEW e \in Seq(Lexemes), NEW rule \in ParserRules, NEW i \in 1..(Len(e) + 1)
  PROVE  /\ Step(rule) \in 0..4 /\ Remaining(e, rule, i) \in Nat
         /\ \A other \in ParserRules, k \in 1..(Len(e) + 1) :
              k > i \/ (k = i /\ Step(other) < Step(rule)) => Remaining(e, other, k) < Remaining(e, rule, i)
  <1>1. \A q \in ParserRules : Step(q) \in 0..4
    BY ParserRulesAre DEF Step
  <1>2. Len(e) \in Nat
    OBVIOUS
  <1>3. ASSUME NEW other \in ParserRules, NEW k \in 1..(Len(e) + 1),
               k > i \/ (k = i /\ Step(other) < Step(rule))
        PROVE  Remaining(e, other, k) < Remaining(e, rule, i)
    BY <1>1, <1>2, <1>3 DEF Remaining
  <1> QED BY <1>1, <1>2, <1>3 DEF Remaining

ComputesAll(e, f) ==
  \A rule \in ParserRules, k \in 1..(Len(e) + 1), d \in 0..MaxNesting, x \in Fractions :
    Computing(e, rule, k, f[<<rule, k, d, x>>])
SameAhead(e, rule, i, f, g) ==
  \A other \in ParserRules, k \in 1..(Len(e) + 1), c \in 0..MaxNesting, y \in Fractions :
    Remaining(e, other, k) < Remaining(e, rule, i) => f[<<other, k, c, y>>] = g[<<other, k, c, y>>]

LEMMA SameLater ==
  ASSUME NEW e \in Seq(Lexemes), NEW f, ComputesAll(e, f), NEW g, NEW rule \in ParserRules,
         NEW i \in 1..(Len(e) + 1),
         SameAhead(e, rule, i, f, g),
         NEW other \in ParserRules, NEW k \in 1..(Len(e) + 1), NEW c \in 0..MaxNesting,
         NEW y \in Fractions,
         k > i \/ (k = i /\ Step(other) < Step(rule))
  PROVE  /\ f[<<other, k, c, y>>] = g[<<other, k, c, y>>]
         /\ Computing(e, other, k, f[<<other, k, c, y>>])
  <1>1. Remaining(e, other, k) < Remaining(e, rule, i)
    BY LeftIs
  <1> QED BY <1>1 DEF SameAhead, ComputesAll

\* What follows a left operand that ends behind the position.
Ends(e, i, v, at) ==
  /\ at \in 0..(Len(e) + 1) /\ v.code \in ParseCodes /\ v.value \in Fractions
  /\ v.code = "ok" => i < at

\* Two functions that compute the same from every place behind.
Agree(e, f, g, rule, i, d) ==
  /\ e \in Seq(Lexemes) /\ ComputesAll(e, f) /\ rule \in ParserRules /\ i \in 1..(Len(e) + 1)
  /\ SameAhead(e, rule, i, f, g) /\ d \in 0..MaxNesting

LEMMA FollowIs ==
  ASSUME NEW e, NEW f, NEW g, NEW rule, NEW i, NEW d, Agree(e, f, g, rule, i, d),
         NEW v, NEW at, Ends(e, i, v, at), NEW other, other \in {"sum", "product", "percent"}
  PROVE  /\ Computing(e, rule, i, Follow(f, other, v, at, d))
         /\ Follow(f, other, v, at, d) = Follow(g, other, v, at, d)
  <1>0. /\ at \in 0..(Len(e) + 1) /\ v.code \in ParseCodes /\ v.value \in Fractions
        /\ v.code = "ok" => i < at
        /\ e \in Seq(Lexemes) /\ ComputesAll(e, f) /\ rule \in ParserRules /\ i \in 1..(Len(e) + 1)
        /\ SameAhead(e, rule, i, f, g) /\ d \in 0..MaxNesting
    BY DEF Ends, Agree
  <1> DEFINE y == v.value
             r == f[<<other, at, d, y>>]
  <1>1. CASE v.code = "ok"
    <2>1. /\ at \in 1..(Len(e) + 1) /\ at > i /\ Earliest(rule, i) <= Earliest(other, at)
          /\ other \in ParserRules
      BY <1>0, <1>1, ParserRulesAre DEF Earliest
    <2>2. r = g[<<other, at, d, y>>] /\ Computing(e, other, at, r)
      BY <1>0, <2>1, SameLater
    <2>3. Computing(e, rule, i, r)
      BY <1>0, <2>1, <2>2, LaterComputing
    <2> QED BY <1>1, <2>2, <2>3 DEF Follow
  <1>2. CASE v.code # "ok"
    <2>1. Computing(e, rule, i, Took(v, at))
      BY <1>0, <1>2 DEF Computing, Took, Computings
    <2> QED BY <1>2, <2>1 DEF Follow
  <1> QED BY <1>1, <1>2

LEMMA ComputingParts ==
  ASSUME NEW e, NEW rule, NEW i, NEW r, Computing(e, rule, i, r)
  PROVE  /\ r \in Computings(e) /\ r.code \in ParseCodes /\ r.value \in Fractions
         /\ r.at \in 0..(Len(e) + 1)
         /\ r.code = "ok" => Earliest(rule, i) <= r.at /\ 1 <= r.at
  BY DEF Computing, Computings

LEMMA OutcomeParts ==
  ASSUME NEW v \in Outcomes
  PROVE  v.code \in Arithmetic /\ v.code \in ParseCodes /\ v.value \in Fractions
  BY DEF Outcomes, ParseCodes

LEMMA RaisesToIs ==
  ASSUME NEW e \in Seq(Lexemes), NEW f, ComputesAll(e, f), NEW g, NEW i \in 1..(Len(e) + 1),
         SameAhead(e, "power", i, f, g), NEW d \in 0..MaxNesting, NEW x \in Fractions,
         NEW base \in Computings(e), base.code = "ok" => i + 1 <= base.at
  PROVE  /\ Computing(e, "power", i, RaisesTo(Lexed(e), f, base, d, x))
         /\ RaisesTo(Lexed(e), f, base, d, x) = RaisesTo(Lexed(e), g, base, d, x)
  <1> DEFINE N == Len(e)
             t == Lexed(e)
             at == base.at
             r == f[<<"unary", at + 1, d, x>>]
             p == Power(base.value, r.value)
  <1>1. N \in Nat /\ at \in 0..(N + 1) /\ base.value \in Fractions /\ base.code \in ParseCodes
    BY KindIs DEF Computings
  <1>2. CASE base.code # "ok" \/ t[at].kind # "POWER"
    <2>1. Computing(e, "power", i, base)
      BY <1>1 DEF Computing, Earliest
    <2>2. RaisesTo(t, f, base, d, x) = base /\ RaisesTo(t, g, base, d, x) = base
      BY <1>2 DEF RaisesTo
    <2> QED BY <2>1, <2>2
  <1>3. CASE base.code = "ok" /\ t[at].kind = "POWER"
    <2>1. at \in 1..(N + 1) /\ i + 1 <= at
      BY <1>1, <1>3
    <2>2. at \in 1..N
      BY <1>3, <2>1, KindIs DEF Kind
    <2>3. at + 1 \in 1..(N + 1) /\ at + 1 > i /\ "unary" \in ParserRules /\ "power" \in ParserRules
      BY <1>1, <2>1, <2>2, ParserRulesAre
    <2>4. r = g[<<"unary", at + 1, d, x>>] /\ Computing(e, "unary", at + 1, r)
      BY <2>3, SameLater
    <2>5. /\ r \in Computings(e) /\ r.value \in Fractions
          /\ (r.code = "ok" => r.at \in 1..(N + 1) /\ i + 1 <= r.at)
      <3>1. r \in Computings(e) /\ r.value \in Fractions /\ r.at \in 0..(N + 1)
            /\ (r.code = "ok" => Earliest("unary", at + 1) <= r.at)
        BY <2>4, ComputingParts
      <3>2. Earliest("unary", at + 1) = at + 2
        BY <2>1 DEF Earliest
      <3> HIDE DEF r
      <3> QED BY <1>1, <2>1, <3>1, <3>2
    <2>6. p \in Outcomes
      <3> HIDE DEF r
      <3> QED BY <1>1, <2>5, PowerIs
    <2>7. RaisesTo(t, f, base, d, x) = IF r.code # "ok" THEN r ELSE Took(p, r.at)
      BY <1>3 DEF RaisesTo
    <2>8. RaisesTo(t, g, base, d, x) = IF r.code # "ok" THEN r ELSE Took(p, r.at)
      BY <1>3, <2>4 DEF RaisesTo
    <2>9. Earliest("power", i) = i + 1
      BY DEF Earliest
    <2> HIDE DEF r, p, t, at
    <2>10. CASE r.code # "ok"
      <3>1. Computing(e, "power", i, r)
        BY <2>5, <2>10 DEF Computing
      <3> QED BY <2>7, <2>8, <2>10, <3>1 DEF t
    <2>11. CASE r.code = "ok"
      <3>1. Computing(e, "power", i, Took(p, r.at))
        BY <2>5, <2>6, <2>9, <2>11, TookIs
      <3> QED BY <2>7, <2>8, <2>11, <3>1 DEF t
    <2> QED BY <2>10, <2>11
  <1> QED BY <1>2, <1>3

\* One more operand on the right.
LEMMA OperandIs ==
  ASSUME NEW e, NEW f, NEW g, NEW rule, NEW i, NEW d, Agree(e, f, g, rule, i, d),
         rule \in {"sum", "product"}, NEW x \in Fractions,
         NEW operand, operand \in {"multiplicative", "unary"},
         Kind(e, i) \in Additive \cup Multiplicative,
         NEW k, k = i + 1, NEW right, right = f[<<operand, k, d, x>>]
  PROVE  /\ right = g[<<operand, k, d, x>>]
         /\ Computing(e, rule, i, right)
         /\ right.code = "ok" =>
              /\ Computing(e, rule, i, Follow(f, rule, Operate(Kind(e, i), x, right.value), right.at, d))
              /\ Follow(f, rule, Operate(Kind(e, i), x, right.value), right.at, d)
                   = Follow(g, rule, Operate(Kind(e, i), x, right.value), right.at, d)
  <1> DEFINE N == Len(e)
             v == Operate(Kind(e, i), x, right.value)
  <1>0. /\ e \in Seq(Lexemes) /\ ComputesAll(e, f) /\ rule \in ParserRules /\ i \in 1..(Len(e) + 1)
        /\ SameAhead(e, rule, i, f, g) /\ d \in 0..MaxNesting
    BY DEF Agree
  <1>1. /\ N \in Nat /\ rule \in ParserRules /\ operand \in ParserRules
        /\ Kind(e, i) \in Additive \cup Multiplicative
    BY <1>0, KindIs, ParserRulesAre
  <1>2. i \in 1..N
    BY <1>0, <1>1, KindIs, KindsApart
  <1>3. k \in 1..(N + 1) /\ k > i
    <2>1. k = i + 1
      OBVIOUS
    <2> QED BY <1>1, <1>2, <2>1
  <1>4. right = g[<<operand, k, d, x>>] /\ Computing(e, operand, k, right)
    <2>1. ASSUME NEW m \in 1..(Len(e) + 1), m > i
          PROVE  /\ f[<<operand, m, d, x>>] = g[<<operand, m, d, x>>]
                 /\ Computing(e, operand, m, f[<<operand, m, d, x>>])
      BY <1>0, <1>1, <2>1, SameLater
    <2> QED BY <1>3, <2>1
  <1>5. Earliest(rule, i) <= Earliest(operand, k) /\ Earliest(operand, k) = i + 2
    <2>1. Earliest(rule, i) = i /\ Earliest(operand, k) = k + 1
      BY DEF Earliest
    <2>2. i \in Int /\ k = i + 1
      BY <1>1, <1>2
    <2>3. k + 1 = i + 2 /\ i <= i + 2
      BY <2>2
    <2> QED BY <2>1, <2>3, Zenon
  <1>6. Computing(e, rule, i, right)
    BY <1>0, <1>3, <1>4, <1>5, LaterComputing
  <1>7. /\ right.value \in Fractions /\ right.at \in 0..(N + 1)
        /\ right.code = "ok" => i + 1 <= right.at
    <2>1. /\ right.value \in Fractions /\ right.at \in 0..(N + 1)
          /\ right.code = "ok" => Earliest(operand, k) <= right.at
      BY <1>4, ComputingParts
    <2> QED BY <1>0, <1>3, <1>5, <2>1
  <1>8. v \in Outcomes
    BY <1>1, <1>7, OperateIs
  <1>9. v.code \in ParseCodes /\ v.value \in Fractions
    BY <1>8, OutcomeParts
  <1>10. rule \in {"sum", "product", "percent"}
    OBVIOUS
  <1> HIDE DEF v
  <1>11. ASSUME right.code = "ok"
         PROVE  /\ Computing(e, rule, i, Follow(f, rule, v, right.at, d))
                /\ Follow(f, rule, v, right.at, d) = Follow(g, rule, v, right.at, d)
    <2> DEFINE at == right.at
    <2>1. Ends(e, i, v, at)
      <3>1. i \in Int /\ right.at \in Int /\ i + 1 <= right.at
        BY <1>1, <1>2, <1>7, <1>11
      <3>2. i < at
        BY <3>1
      <3> QED BY <1>7, <1>9, <3>2 DEF Ends
    <2> HIDE DEF at
    <2>3. /\ Computing(e, rule, i, Follow(f, rule, v, at, d))
          /\ Follow(f, rule, v, at, d) = Follow(g, rule, v, at, d)
      BY <1>10, <2>1, FollowIs
    <2> QED BY <2>3 DEF at
  <1> QED BY <1>4, <1>6, <1>11 DEF v

LEMMA FirstIs ==
  ASSUME NEW e, NEW f, NEW g, NEW rule, NEW i, NEW d, Agree(e, f, g, rule, i, d),
         NEW x \in Fractions,
         NEW operand, operand \in {"multiplicative", "unary", "power"}, Step(operand) < Step(rule),
         NEW rest, rest \in {"sum", "product", "percent"}, NEW first,
         first = f[<<operand, i, d, x>>]
  PROVE  /\ first = g[<<operand, i, d, x>>]
         /\ Computing(e, rule, i, Follow(f, rest, first, first.at, d))
         /\ Follow(f, rest, first, first.at, d) = Follow(g, rest, first, first.at, d)
  <1>0. /\ e \in Seq(Lexemes) /\ ComputesAll(e, f) /\ rule \in ParserRules /\ i \in 1..(Len(e) + 1)
        /\ SameAhead(e, rule, i, f, g) /\ d \in 0..MaxNesting
    BY DEF Agree
  <1>1. operand \in ParserRules
    BY ParserRulesAre
  <1>2. first = g[<<operand, i, d, x>>] /\ Computing(e, operand, i, first)
    BY <1>0, <1>1, SameLater
  <1>3. Earliest(operand, i) = i + 1
    BY DEF Earliest
  <1>4. /\ first.code \in ParseCodes /\ first.value \in Fractions /\ first.at \in 0..(Len(e) + 1)
        /\ first.code = "ok" => i + 1 <= first.at
    <2>1. /\ first.code \in ParseCodes /\ first.value \in Fractions /\ first.at \in 0..(Len(e) + 1)
          /\ first.code = "ok" => Earliest(operand, i) <= first.at
      BY <1>2, ComputingParts
    <2> QED BY <1>3, <2>1
  <1> DEFINE at == first.at
  <1>5. Ends(e, i, first, at)
    <2>1. i \in Int /\ (first.code = "ok" => i < at)
      <3>1. first.at \in Int
        BY <1>0, <1>4, KindIs
      <3> QED BY <1>0, <1>4, <3>1
    <2> QED BY <1>4, <2>1 DEF Ends
  <1> HIDE DEF at
  <1>6. /\ Computing(e, rule, i, Follow(f, rest, first, at, d))
        /\ Follow(f, rest, first, at, d) = Follow(g, rest, first, at, d)
    BY <1>5, FollowIs
  <1> QED BY <1>2, <1>6 DEF at

\* What both make of a place.
Alike(e, f, g, rule, i, d, x) ==
  /\ Computing(e, rule, i, Compute(Lexed(e), f, rule, i, d, x))
  /\ Compute(Lexed(e), f, rule, i, d, x) = Compute(Lexed(e), g, rule, i, d, x)

LEMMA AgreeParts ==
  ASSUME NEW e, NEW f, NEW g, NEW rule, NEW i, NEW d, Agree(e, f, g, rule, i, d)
  PROVE  /\ e \in Seq(Lexemes) /\ ComputesAll(e, f) /\ rule \in ParserRules /\ i \in 1..(Len(e) + 1)
         /\ SameAhead(e, rule, i, f, g) /\ d \in 0..MaxNesting
         /\ i \in Int /\ d \in Int /\ Len(e) \in Nat
  <1>1. Agree(e, f, g, rule, i, d) => i \in Int /\ d \in Int /\ Len(e) \in Nat
    BY KindIs DEF Agree
  <1> QED BY <1>1 DEF Agree

LEMMA AlikeAdditive ==
  ASSUME NEW e, NEW f, NEW g, NEW i, NEW d, Agree(e, f, g, "additive", i, d), NEW x \in Fractions
  PROVE  Alike(e, f, g, "additive", i, d, x)
  <1> DEFINE first == f[<<"multiplicative", i, d, x>>]
             other == g[<<"multiplicative", i, d, x>>]
             t == Lexed(e)
  <1>1. first = f[<<"multiplicative", i, d, x>>] /\ other = g[<<"multiplicative", i, d, x>>]
    OBVIOUS
  <1>2. Step("multiplicative") < Step("additive")
    BY DEF Step
  <1> HIDE DEF first, other, t
  <1>3. Compute(t, f, "additive", i, d, x) = Follow(f, "sum", first, first.at, d)
    BY <1>1, ComputeAdditive
  <1>4. Compute(t, g, "additive", i, d, x) = Follow(g, "sum", other, other.at, d)
    BY <1>1, ComputeAdditive
  <1>5. /\ first = g[<<"multiplicative", i, d, x>>]
        /\ Computing(e, "additive", i, Follow(f, "sum", first, first.at, d))
        /\ Follow(f, "sum", first, first.at, d) = Follow(g, "sum", first, first.at, d)
    BY <1>1, <1>2, FirstIs
  <1> QED BY <1>1, <1>3, <1>4, <1>5 DEF Alike, t

LEMMA AlikeMultiplicative ==
  ASSUME NEW e, NEW f, NEW g, NEW i, NEW d, Agree(e, f, g, "multiplicative", i, d),
         NEW x \in Fractions
  PROVE  Alike(e, f, g, "multiplicative", i, d, x)
  <1> DEFINE first == f[<<"unary", i, d, x>>]
             other == g[<<"unary", i, d, x>>]
             t == Lexed(e)
  <1>1. first = f[<<"unary", i, d, x>>] /\ other = g[<<"unary", i, d, x>>]
    OBVIOUS
  <1>2. Step("unary") < Step("multiplicative")
    BY DEF Step
  <1> HIDE DEF first, other, t
  <1>3. Compute(t, f, "multiplicative", i, d, x) = Follow(f, "product", first, first.at, d)
    BY <1>1, ComputeMultiplicative
  <1>4. Compute(t, g, "multiplicative", i, d, x) = Follow(g, "product", other, other.at, d)
    BY <1>1, ComputeMultiplicative
  <1>5. /\ first = g[<<"unary", i, d, x>>]
        /\ Computing(e, "multiplicative", i, Follow(f, "product", first, first.at, d))
        /\ Follow(f, "product", first, first.at, d) = Follow(g, "product", first, first.at, d)
    BY <1>1, <1>2, FirstIs
  <1> QED BY <1>1, <1>3, <1>4, <1>5 DEF Alike, t

\* A sum or a product goes on, or ends.
LEMMA AlikeRest ==
  ASSUME NEW e, NEW f, NEW g, NEW rule, NEW i, NEW d, Agree(e, f, g, rule, i, d),
         rule \in {"sum", "product"}, NEW x \in Fractions,
         NEW operand, operand \in {"multiplicative", "unary"}, NEW K,
         K \subseteq Additive \cup Multiplicative,
         NEW k, k = i + 1, NEW right, right = f[<<operand, k, d, x>>], NEW other,
         other = g[<<operand, k, d, x>>],
         Compute(Lexed(e), f, rule, i, d, x) =
           IF Lexed(e)[i].kind \notin K THEN Took(Value(x), i)
           ELSE IF right.code # "ok" THEN right
           ELSE Follow(f, rule, Operate(Lexed(e)[i].kind, x, right.value), right.at, d),
         Compute(Lexed(e), g, rule, i, d, x) =
           IF Lexed(e)[i].kind \notin K THEN Took(Value(x), i)
           ELSE IF other.code # "ok" THEN other
           ELSE Follow(g, rule, Operate(Lexed(e)[i].kind, x, other.value), other.at, d)
  PROVE  Alike(e, f, g, rule, i, d, x)
  <1>0. e \in Seq(Lexemes) /\ i \in 1..(Len(e) + 1) /\ i \in Int
    BY AgreeParts
  <1>1. Lexed(e)[i].kind = Kind(e, i)
    BY DEF Kind
  <1>2. CASE Kind(e, i) \notin K
    <2>1. Computing(e, rule, i, Took(Value(x), i))
      <3>1. Value(x) \in Outcomes
        BY ValueIs
      <3>2. Earliest(rule, i) <= i
        BY <1>0 DEF Earliest
      <3> QED BY <1>0, <3>1, <3>2, TookIs
    <2> QED BY <1>1, <1>2, <2>1 DEF Alike
  <1>3. CASE Kind(e, i) \in K
    <2>1. Kind(e, i) \in Additive \cup Multiplicative
      BY <1>3
    <2>2. /\ right = other
          /\ Computing(e, rule, i, right)
          /\ right.code = "ok" =>
               /\ Computing(e, rule, i, Follow(f, rule, Operate(Kind(e, i), x, right.value), right.at, d))
               /\ Follow(f, rule, Operate(Kind(e, i), x, right.value), right.at, d)
                    = Follow(g, rule, Operate(Kind(e, i), x, right.value), right.at, d)
      BY <2>1, OperandIs
    <2> QED BY <1>1, <1>3, <2>2 DEF Alike
  <1> QED BY <1>2, <1>3

LEMMA AlikeSum ==
  ASSUME NEW e, NEW f, NEW g, NEW i, NEW d, Agree(e, f, g, "sum", i, d), NEW x \in Fractions
  PROVE  Alike(e, f, g, "sum", i, d, x)
  <1> DEFINE t == Lexed(e)
             k == i + 1
             right == f[<<"multiplicative", k, d, x>>]
             other == g[<<"multiplicative", k, d, x>>]
  <1>1. /\ k = i + 1 /\ right = f[<<"multiplicative", k, d, x>>]
        /\ other = g[<<"multiplicative", k, d, x>>]
    OBVIOUS
  <1> HIDE DEF t, right, other, k
  <1>p. ASSUME NEW h, NEW r, r = h[<<"multiplicative", k, d, x>>]
        PROVE  Compute(t, h, "sum", i, d, x) =
                 IF t[i].kind \notin Additive THEN Took(Value(x), i)
                 ELSE IF r.code # "ok" THEN r
                 ELSE Follow(h, "sum", Operate(t[i].kind, x, r.value), r.at, d)
    BY <1>1, <1>p DEF Compute, Follow
  <1>2. Compute(t, f, "sum", i, d, x) =
           IF t[i].kind \notin Additive THEN Took(Value(x), i)
           ELSE IF right.code # "ok" THEN right
           ELSE Follow(f, "sum", Operate(t[i].kind, x, right.value), right.at, d)
    BY <1>1, <1>p
  <1>3. Compute(t, g, "sum", i, d, x) =
           IF t[i].kind \notin Additive THEN Took(Value(x), i)
           ELSE IF other.code # "ok" THEN other
           ELSE Follow(g, "sum", Operate(t[i].kind, x, other.value), other.at, d)
    BY <1>1, <1>p
  <1>4. Additive \subseteq Additive \cup Multiplicative
    OBVIOUS
  <1> QED BY <1>1, <1>2, <1>3, <1>4, AlikeRest DEF t

LEMMA AlikeProduct ==
  ASSUME NEW e, NEW f, NEW g, NEW i, NEW d, Agree(e, f, g, "product", i, d), NEW x \in Fractions
  PROVE  Alike(e, f, g, "product", i, d, x)
  <1> DEFINE t == Lexed(e)
             k == i + 1
             right == f[<<"unary", k, d, x>>]
             other == g[<<"unary", k, d, x>>]
  <1>1. k = i + 1 /\ right = f[<<"unary", k, d, x>>] /\ other = g[<<"unary", k, d, x>>]
    OBVIOUS
  <1> HIDE DEF t, right, other, k
  <1>p. ASSUME NEW h, NEW r, r = h[<<"unary", k, d, x>>]
        PROVE  Compute(t, h, "product", i, d, x) =
                 IF t[i].kind \notin Multiplicative THEN Took(Value(x), i)
                 ELSE IF r.code # "ok" THEN r
                 ELSE Follow(h, "product", Operate(t[i].kind, x, r.value), r.at, d)
    BY <1>1, <1>p DEF Compute, Follow
  <1>2. Compute(t, f, "product", i, d, x) =
           IF t[i].kind \notin Multiplicative THEN Took(Value(x), i)
           ELSE IF right.code # "ok" THEN right
           ELSE Follow(f, "product", Operate(t[i].kind, x, right.value), right.at, d)
    BY <1>1, <1>p
  <1>3. Compute(t, g, "product", i, d, x) =
           IF t[i].kind \notin Multiplicative THEN Took(Value(x), i)
           ELSE IF other.code # "ok" THEN other
           ELSE Follow(g, "product", Operate(t[i].kind, x, other.value), other.at, d)
    BY <1>1, <1>p
  <1>4. Multiplicative \subseteq Additive \cup Multiplicative
    OBVIOUS
  <1> QED BY <1>1, <1>2, <1>3, <1>4, AlikeRest DEF t

LEMMA AlikeUnary ==
  ASSUME NEW e, NEW f, NEW g, NEW i, NEW d, Agree(e, f, g, "unary", i, d), NEW x \in Fractions
  PROVE  Alike(e, f, g, "unary", i, d, x)
  <1>0. /\ e \in Seq(Lexemes) /\ ComputesAll(e, f) /\ i \in 1..(Len(e) + 1)
        /\ "unary" \in ParserRules
        /\ SameAhead(e, "unary", i, f, g) /\ d \in 0..MaxNesting /\ i \in Int /\ Len(e) \in Nat
    BY AgreeParts
  <1> DEFINE k == i + 1
             base == f[<<"power", i, d, x>>]
             stem == g[<<"power", i, d, x>>]
             operand == f[<<"unary", k, d, x>>]
             other == g[<<"unary", k, d, x>>]
             v == Bounded(Minus(Integer(0), operand.value))
             t == Lexed(e)
  <1>a. /\ k = i + 1 /\ operand = f[<<"unary", k, d, x>>] /\ other = g[<<"unary", k, d, x>>]
        /\ base = f[<<"power", i, d, x>>] /\ stem = g[<<"power", i, d, x>>]
    OBVIOUS
  <1>1. Compute(t, f, "unary", i, d, x) =
           IF t[i].kind \notin Additive THEN Follow(f, "percent", base, base.at, d)
           ELSE IF operand.code # "ok" \/ t[i].kind = "PLUS" THEN operand ELSE Took(v, operand.at)
    <2> HIDE DEF k, base, operand, t
    <2> QED BY <1>0, <1>a, ComputeUnary, SMTT(30)
  <1>2. Compute(t, g, "unary", i, d, x) =
           IF t[i].kind \notin Additive THEN Follow(g, "percent", stem, stem.at, d)
           ELSE IF other.code # "ok" \/ t[i].kind = "PLUS" THEN other
           ELSE Took(Bounded(Minus(Integer(0), other.value)), other.at)
    <2> HIDE DEF k, stem, other, t
    <2> QED BY <1>0, <1>a, ComputeUnary, SMTT(30)
  <1>3. t[i].kind = Kind(e, i)
    BY DEF Kind
  <1>4. CASE Kind(e, i) \notin Additive
    <2>1. Step("power") < Step("unary")
      BY DEF Step
    <2>2. /\ base = g[<<"power", i, d, x>>]
          /\ Computing(e, "unary", i, Follow(f, "percent", base, base.at, d))
          /\ Follow(f, "percent", base, base.at, d) = Follow(g, "percent", base, base.at, d)
      <3> HIDE DEF t, base
      <3> QED BY <1>a, <2>1, FirstIs
    <2> HIDE DEF base, stem, operand, other, t, v
    <2> QED BY <1>1, <1>2, <1>3, <1>4, <1>a, <2>2 DEF Alike, t
  <1>5. CASE Kind(e, i) \in Additive
    <2>1. i \in 1..Len(e)
      BY <1>0, <1>5, KindIs, KindsApart
    <2>2. k \in 1..(Len(e) + 1) /\ k > i /\ Earliest("unary", i) <= Earliest("unary", k)
      BY <1>0, <2>1 DEF Earliest
    <2>3. operand = other /\ Computing(e, "unary", k, operand)
      <3> HIDE DEF k
      <3>1. /\ f[<<"unary", k, d, x>>] = g[<<"unary", k, d, x>>]
            /\ Computing(e, "unary", k, f[<<"unary", k, d, x>>])
        BY <1>0, <2>2, SameLater
      <3> QED BY <3>1
    <2>4. Computing(e, "unary", i, operand)
      <3> HIDE DEF operand, k
      <3> QED BY <1>0, <2>2, <2>3, LaterComputing
    <2>5. v \in Outcomes
      <3>1. operand.value \in Fractions
        BY <2>3, ComputingParts
      <3>2. Integer(0) \in Fractions
        BY IntegerIs
      <3> HIDE DEF operand
      <3> QED BY <3>1, <3>2, SumsAre, ValueIs
    <2>6. operand.code = "ok" => Computing(e, "unary", i, Took(v, operand.at))
      <3> HIDE DEF operand, v
      <3>1. /\ operand.at \in 0..(Len(e) + 1)
            /\ (operand.code = "ok" => Earliest("unary", i) <= operand.at /\ 1 <= operand.at)
        BY <2>4, ComputingParts
      <3> DEFINE at == operand.at
      <3>2. operand.code = "ok" => at \in 1..(Len(e) + 1) /\ Earliest("unary", i) <= at
        BY <1>0, <3>1
      <3> HIDE DEF at
      <3>3. operand.code = "ok" => Computing(e, "unary", i, Took(v, at))
        BY <1>0, <2>5, <3>2, TookIs
      <3> QED BY <3>3 DEF at
    <2>7. Took(Bounded(Minus(Integer(0), other.value)), other.at) = Took(v, operand.at)
      BY <2>3
    <2> HIDE DEF base, operand, other, t, v
    <2> QED BY <1>1, <1>2, <1>3, <1>5, <2>3, <2>4, <2>6, <2>7 DEF Alike, t
  <1> QED BY <1>4, <1>5

LEMMA AlikePercent ==
  ASSUME NEW e, NEW f, NEW g, NEW i, NEW d, Agree(e, f, g, "percent", i, d), NEW x \in Fractions
  PROVE  Alike(e, f, g, "percent", i, d, x)
  <1>0. /\ e \in Seq(Lexemes) /\ i \in 1..(Len(e) + 1) /\ i \in Int /\ Len(e) \in Nat
    BY AgreeParts
  <1> DEFINE t == Lexed(e)
             v == Percent(x)
             k == i + 1
  <1>a. k = i + 1
    OBVIOUS
  <1>1. Compute(t, f, "percent", i, d, x) =
           IF t[i].kind = "PERCENT" THEN Follow(f, "percent", v, k, d) ELSE Took(Value(x), i)
    <2> HIDE DEF k, t
    <2> QED BY <1>0, <1>a, ComputePercent
  <1>2. Compute(t, g, "percent", i, d, x) =
           IF t[i].kind = "PERCENT" THEN Follow(g, "percent", v, k, d) ELSE Took(Value(x), i)
    <2> HIDE DEF k, t
    <2> QED BY <1>0, <1>a, ComputePercent
  <1>3. t[i].kind = Kind(e, i)
    BY DEF Kind
  <1>4. v \in Outcomes /\ Value(x) \in Outcomes
    BY SignedIs, ValueIs
  <1>5. Computing(e, "percent", i, Took(Value(x), i))
    <2>1. Earliest("percent", i) <= i
      BY <1>0 DEF Earliest
    <2> QED BY <1>0, <1>4, <2>1, TookIs
  <1>6. ASSUME Kind(e, i) = "PERCENT"
        PROVE  /\ Computing(e, "percent", i, Follow(f, "percent", v, k, d))
               /\ Follow(f, "percent", v, k, d) = Follow(g, "percent", v, k, d)
    <2>1. i \in 1..Len(e)
      BY <1>0, <1>6, KindIs
    <2>2. k \in 0..(Len(e) + 1) /\ i < k
      BY <1>0, <2>1
    <2>3. v.code \in ParseCodes /\ v.value \in Fractions
      <3> HIDE DEF v
      <3> QED BY <1>4, OutcomeParts
    <2> HIDE DEF v, k
    <2>4. Ends(e, i, v, k)
      BY <2>2, <2>3 DEF Ends
    <2> QED BY <2>4, FollowIs
  <1> HIDE DEF t, v, k
  <1> QED BY <1>1, <1>2, <1>3, <1>5, <1>6 DEF Alike, t

LEMMA ReadCodesKnown ==
  ParseCodes = Arithmetic \cup ReadCodes /\ "unsupported_expression" \in ReadCodes \ {"ok"}
  /\ "expression_limit" \in ReadCodes \ {"ok"} /\ "ok" \in ParseCodes
  BY DEF ParseCodes, ReadCodes

\* A base that ends behind the position.
LEMMA BaseComputing ==
  ASSUME NEW e \in Seq(Lexemes), NEW i \in 1..(Len(e) + 1), NEW v \in Outcomes,
         NEW at \in 1..(Len(e) + 1), i < at
  PROVE  /\ Took(v, at) \in Computings(e)
         /\ Took(v, at).code = "ok" => i + 1 <= Took(v, at).at
  <1>1. v.code \in ParseCodes /\ v.value \in Fractions
    BY OutcomeParts
  <1>2. at \in 0..(Len(e) + 1) /\ i + 1 <= at
    BY KindIs
  <1> QED BY <1>1, <1>2 DEF Took, Computings

LEMMA AlikePower ==
  ASSUME NEW e, NEW f, NEW g, NEW i, NEW d, Agree(e, f, g, "power", i, d), NEW x \in Fractions
  PROVE  Alike(e, f, g, "power", i, d, x)
  <1>0. /\ e \in Seq(Lexemes) /\ ComputesAll(e, f) /\ i \in 1..(Len(e) + 1)
        /\ "power" \in ParserRules
        /\ SameAhead(e, "power", i, f, g) /\ d \in 0..MaxNesting /\ i \in Int /\ Len(e) \in Nat
        /\ d \in Int
    BY AgreeParts
  <1> DEFINE t == Lexed(e)
             k == i + 1
             c == d + 1
             N == Len(e)
  <1>1. t[i].kind = Kind(e, i)
    BY DEF Kind
  <1>2. CASE Kind(e, i) = "NUMBER"
    <2>1. i \in 1..N /\ t[i] = e[i]
      BY <1>0, <1>2, KindIs
    <2> DEFINE v == Bounded(Integer(t[i].literal))
               base == Took(v, k)
    <2>2. v \in Outcomes
      <3>1. t[i].literal \in Nat
        <4>1. e[i] \in Lexemes
          BY <1>0, <2>1
        <4>2. e[i].literal \in Nat
          BY <4>1 DEF Lexemes
        <4> QED BY <2>1, <4>2
      <3>2. Integer(t[i].literal) \in Fractions
        BY <3>1, IntegerIs
      <3> QED BY <3>2, ValueIs
    <2>3. k \in 1..(N + 1) /\ i < k /\ k = i + 1
      BY <1>0, <2>1
    <2>4. base \in Computings(e) /\ (base.code = "ok" => i + 1 <= base.at)
      <3> HIDE DEF k, v
      <3> QED BY <1>0, <2>2, <2>3, BaseComputing
    <2>5. base = Took(Bounded(Integer(t[i].literal)), k)
      OBVIOUS
    <2> HIDE DEF base, v, t, k
    <2>6. Compute(t, f, "power", i, d, x) = RaisesTo(t, f, base, d, x)
      BY <1>0, <1>1, <1>2, <2>3, <2>5, ComputeNumber
    <2>7. Compute(t, g, "power", i, d, x) = RaisesTo(t, g, base, d, x)
      BY <1>0, <1>1, <1>2, <2>3, <2>5, ComputeNumber
    <2>8. /\ Computing(e, "power", i, RaisesTo(t, f, base, d, x))
          /\ RaisesTo(t, f, base, d, x) = RaisesTo(t, g, base, d, x)
      BY <1>0, <2>4, RaisesToIs DEF t
    <2> QED BY <2>6, <2>7, <2>8 DEF Alike, t
  <1>3. CASE Kind(e, i) \notin {"NUMBER", "LPAREN"}
    <2> HIDE DEF t
    <2>1. Compute(t, f, "power", i, d, x) = Took(Failure("unsupported_expression"), 0)
      BY <1>1, <1>3, ComputeOther
    <2>2. Compute(t, g, "power", i, d, x) = Took(Failure("unsupported_expression"), 0)
      BY <1>1, <1>3, ComputeOther
    <2>3. Computing(e, "power", i, Took(Failure("unsupported_expression"), 0))
      BY <1>0, StoppedIs, ReadCodesKnown
    <2> QED BY <2>1, <2>2, <2>3 DEF Alike, t
  <1>4. CASE Kind(e, i) = "LPAREN" /\ d = MaxNesting
    <2> HIDE DEF t
    <2>1. Compute(t, f, "power", i, d, x) = Took(Failure("expression_limit"), 0)
      BY <1>1, <1>4, ComputeTooDeep
    <2>2. Compute(t, g, "power", i, d, x) = Took(Failure("expression_limit"), 0)
      BY <1>1, <1>4, ComputeTooDeep
    <2>3. Computing(e, "power", i, Took(Failure("expression_limit"), 0))
      BY <1>0, StoppedIs, ReadCodesKnown
    <2> QED BY <2>1, <2>2, <2>3 DEF Alike, t
  <1>5. CASE Kind(e, i) = "LPAREN" /\ d # MaxNesting
    <2> DEFINE inner == f[<<"additive", k, c, x>>]
               other == g[<<"additive", k, c, x>>]
               v == Value(inner.value)
               at == inner.at + 1
               base == Took(v, at)
    <2>0. k = i + 1 /\ c = d + 1
      OBVIOUS
    <2>1. /\ i \in 1..N /\ k \in 1..(N + 1) /\ k > i /\ c \in 0..MaxNesting
          /\ "additive" \in ParserRules
      <3>1. i \in 1..N
        BY <1>0, <1>5, KindIs
      <3>2. c \in 0..MaxNesting
        BY <1>0, <1>5, CalculatorAssumption
      <3> QED BY <1>0, <3>1, <3>2, ParserRulesAre
    <2> HIDE DEF k, c
    <2>2. inner = other /\ Computing(e, "additive", k, inner)
      BY <1>0, <2>1, SameLater
    <2>3. /\ inner = f[<<"additive", k, c, x>>] /\ other = g[<<"additive", k, c, x>>]
          /\ base = Took(Value(inner.value), inner.at + 1)
      OBVIOUS
    <2> HIDE DEF inner, other
    <2>4. Computing(e, "power", i, inner)
      <3>1. Earliest("power", i) <= Earliest("additive", k)
        BY <1>0, <2>0, <2>1 DEF Earliest
      <3> QED BY <1>0, <2>1, <2>2, <3>1, LaterComputing
    <2> HIDE DEF base, t, at, v
    <2>5. Compute(t, f, "power", i, d, x) =
           IF inner.code # "ok" THEN inner
           ELSE IF t[inner.at].kind = "RPAREN" THEN RaisesTo(t, f, base, d, x)
           ELSE Took(Failure("unsupported_expression"), 0)
      BY <1>0, <1>1, <1>5, <2>0, <2>3, ComputeGroup
    <2>6. Compute(t, g, "power", i, d, x) =
           IF other.code # "ok" THEN other
           ELSE IF t[other.at].kind = "RPAREN" THEN RaisesTo(t, g, base, d, x)
           ELSE Took(Failure("unsupported_expression"), 0)
      <3>1. base = Took(Value(other.value), other.at + 1)
        BY <2>2, <2>3
      <3> QED BY <1>0, <1>1, <1>5, <2>0, <2>3, <3>1, ComputeGroup
    <2>7. Computing(e, "power", i, Took(Failure("unsupported_expression"), 0))
      BY <1>0, StoppedIs, ReadCodesKnown
    <2>8. ASSUME inner.code = "ok", t[inner.at].kind = "RPAREN"
          PROVE  /\ Computing(e, "power", i, RaisesTo(t, f, base, d, x))
                 /\ RaisesTo(t, f, base, d, x) = RaisesTo(t, g, base, d, x)
      <3>1. /\ inner.value \in Fractions /\ inner.at \in 0..(N + 1)
            /\ Earliest("power", i) <= inner.at /\ 1 <= inner.at
        BY <2>4, <2>8, ComputingParts
      <3>2. inner.at \in 1..N
        <4>1. Kind(e, inner.at) = "RPAREN" /\ inner.at \in 1..(N + 1)
          BY <1>0, <2>8, <3>1 DEF Kind, t
        <4> DEFINE l == inner.at
        <4>2. Kind(e, l) = "RPAREN" /\ l \in 1..(N + 1)
          BY <4>1
        <4> HIDE DEF l
        <4>3. l \in 1..N
          BY <1>0, <4>2, KindIs
        <4> QED BY <4>3 DEF l
      <3>3. at \in 1..(N + 1) /\ i < at
        <4>1. Earliest("power", i) = i + 1
          BY DEF Earliest
        <4> QED BY <1>0, <3>1, <3>2, <4>1 DEF at
      <3>4. v \in Outcomes
        BY <3>1, ValueIs DEF v
      <3>5. base \in Computings(e) /\ (base.code = "ok" => i + 1 <= base.at)
        BY <1>0, <3>3, <3>4, BaseComputing DEF base
      <3> QED BY <1>0, <3>5, RaisesToIs DEF t
    <2> QED BY <2>2, <2>4, <2>5, <2>6, <2>7, <2>8 DEF Alike, t
  <1> QED BY <1>2, <1>3, <1>4, <1>5

\* Two functions that agree behind a place compute the same of it.
LEMMA Computed ==
  ASSUME NEW e, NEW f, NEW g, NEW rule, NEW i, NEW d, Agree(e, f, g, rule, i, d),
         NEW x \in Fractions
  PROVE  Alike(e, f, g, rule, i, d, x)
  <1>1. rule \in ParserRules
    BY AgreeParts
  <1>2. CASE rule = "additive"
    BY <1>2, AlikeAdditive
  <1>3. CASE rule = "multiplicative"
    BY <1>3, AlikeMultiplicative
  <1>4. CASE rule = "unary"
    BY <1>4, AlikeUnary
  <1>5. CASE rule = "percent"
    BY <1>5, AlikePercent
  <1>6. CASE rule = "power"
    BY <1>6, AlikePower
  <1>7. CASE rule = "sum"
    BY <1>7, AlikeSum
  <1>8. CASE rule = "product"
    BY <1>8, AlikeProduct
  <1> QED BY <1>1, <1>2, <1>3, <1>4, <1>5, <1>6, <1>7, <1>8, ParserRulesAre

ParseOf(e) ==
  CHOOSE read : read = [s \in Places(e) |-> Compute(Lexed(e), read, s[1], s[2], s[3], s[4])]

LEMMA PlacesAre ==
  ASSUME NEW e \in Seq(Lexemes)
  PROVE  /\ \A s \in Places(e) : /\ s[1] \in ParserRules /\ s[2] \in 1..(Len(e) + 1) /\
                                      s[3] \in 0..MaxNesting
                                 /\ s[4] \in Fractions /\ s = <<s[1], s[2], s[3], s[4]>>
         /\ \A rule \in ParserRules, k \in 1..(Len(e) + 1), d \in 0..MaxNesting, y \in Fractions :
              <<rule, k, d, y>> \in Places(e)
  <1>1. Len(Lexed(e)) = Len(e) + 1
    BY KindIs
  <1> QED BY <1>1 DEF Places

LEMMA ParseExists ==
  ASSUME NEW e \in Seq(Lexemes)
  PROVE  /\ ParseOf(e) = [s \in Places(e) |-> Compute(Lexed(e), ParseOf(e), s[1], s[2], s[3], s[4])]
         /\ ComputesAll(e, ParseOf(e))
  <1> DEFINE S == Places(e)
             N == Len(e)
             V == Computings(e)
             B(f, s) == Compute(Lexed(e), f, s[1], s[2], s[3], s[4])
             H == [f \in [S -> V] |-> [s \in S |-> B(f, s)]]
             r == [s \in S |-> Remaining(e, s[1], s[2])]
             W == [s \in S |-> { v \in V : Computing(e, s[1], s[2], v) }]
  <1>0. /\ N \in Nat
        /\ \A s \in S : /\ s[1] \in ParserRules /\ s[2] \in 1..(N + 1) /\ s[3] \in 0..MaxNesting /\
                             s[4] \in Fractions
                        /\ s = <<s[1], s[2], s[3], s[4]>>
        /\ \A rule \in ParserRules, k \in 1..(N + 1), d \in 0..MaxNesting, y \in Fractions :
             /\ <<rule, k, d, y>> \in S
             /\ <<rule, k, d, y>>[1] = rule /\ <<rule, k, d, y>>[2] = k /\ <<rule, k, d, y>>[3] = d
    BY PlacesAre
  <1>1. r \in [S -> Nat] /\ \A s \in S : \E v \in V : v \in W[s]
    <2>1. \A s \in S : r[s] \in Nat
      <3> HIDE DEF S
      <3> QED BY <1>0, LeftIs
    <2>2. r \in [S -> Nat]
      <3> HIDE DEF S
      <3> QED BY <2>1
    <2> DEFINE v == Took(Failure("expression_limit"), 0)
    <2>3. \A rule, k : Computing(e, rule, k, v)
      BY StoppedIs, ReadCodesKnown
    <2>4. v \in V
      BY <2>3 DEF Computing
    <2> HIDE DEF v, V, S
    <2>5. \A s \in S : v \in W[s]
      BY <2>3, <2>4
    <2> QED BY <2>2, <2>4, <2>5
  <1>2. \A f \in [S -> V], s \in S : H[f][s] = B(f, s)
    <2> HIDE DEF S, V, B
    <2> QED OBVIOUS
  <1>3. ASSUME NEW f, Solves(f, S, V, W) PROVE ComputesAll(e, f) /\ f \in [S -> V]
    <2>1. \A s \in S : Computing(e, s[1], s[2], f[s])
      <3> HIDE DEF S, V
      <3> QED BY <1>3 DEF Solves
    <2>2. f \in [S -> V]
      BY <1>3 DEF Solves
    <2> HIDE DEF S, W, V
    <2>3. ASSUME NEW rule \in ParserRules, NEW k \in 1..(N + 1), NEW d \in 0..MaxNesting,
                 NEW y \in Fractions
          PROVE  Computing(e, rule, k, f[<<rule, k, d, y>>])
      BY <1>0, <2>1
    <2> QED BY <2>2, <2>3 DEF ComputesAll
  <1>4. ASSUME NEW f, ComputesAll(e, f), NEW g, NEW s \in S, \A q \in S : r[q] < r[s] => f[q] = g[q]
        PROVE  Computing(e, s[1], s[2], B(f, s)) /\ B(f, s) = B(g, s)
    <2>1. ASSUME NEW other \in ParserRules, NEW k \in 1..(N + 1), NEW c \in 0..MaxNesting,
                 NEW y \in Fractions,
                 Remaining(e, other, k) < Remaining(e, s[1], s[2])
          PROVE  f[<<other, k, c, y>>] = g[<<other, k, c, y>>]
      <3> DEFINE q == <<other, k, c, y>>
      <3>1. q \in S /\ q[1] = other /\ q[2] = k
        BY <1>0
      <3> HIDE DEF q, S
      <3>2. r[q] < r[s]
        BY <2>1, <3>1
      <3> QED BY <1>4, <3>1, <3>2 DEF q
    <2>2. /\ s[1] \in ParserRules /\ s[2] \in 1..(N + 1) /\ s[3] \in 0..MaxNesting
          /\ s[4] \in Fractions
      BY <1>0
    <2>3. ComputesAll(e, f)
      BY <1>4
    <2> DEFINE rule == s[1]
               i == s[2]
               d == s[3]
               x == s[4]
    <2>4. SameAhead(e, rule, i, f, g)
      <3> HIDE DEF S, r, H, V, W
      <3> QED BY <2>1 DEF SameAhead
    <2>5. rule \in ParserRules /\ i \in 1..(Len(e) + 1) /\ d \in 0..MaxNesting /\ x \in Fractions
      BY <2>2
    <2> HIDE DEF S, r, H, V, W, rule, i, d, x
    <2>6. Agree(e, f, g, rule, i, d)
      BY <2>3, <2>4, <2>5 DEF Agree
    <2>7. Alike(e, f, g, rule, i, d, x)
      BY <2>5, <2>6, Computed
    <2>8. /\ Computing(e, rule, i, Compute(Lexed(e), f, rule, i, d, x))
          /\ Compute(Lexed(e), f, rule, i, d, x) = Compute(Lexed(e), g, rule, i, d, x)
      BY <2>7 DEF Alike
    <2> QED BY <2>8 DEF rule, i, d, x
  <1>5. ASSUME NEW f, Solves(f, S, V, W), NEW s \in S
        PROVE  H[f][s] \in V /\ H[f][s] \in W[s]
    <2>1. f \in [S -> V] /\ ComputesAll(e, f)
      BY <1>3, <1>5
    <2>2. Computing(e, s[1], s[2], B(f, s))
      <3> HIDE DEF S, B, r
      <3> QED BY <1>4, <1>5, <2>1
    <2>3. H[f][s] = B(f, s) /\ B(f, s) \in V
      <3>1. B(f, s) \in V
        BY <2>2 DEF Computing
      <3> HIDE DEF S, H, V, W, B
      <3> QED BY <1>2, <2>1, <3>1
    <2> DEFINE x == H[f][s]
    <2>4. x \in V /\ Computing(e, s[1], s[2], x)
      BY <2>2, <2>3
    <2> HIDE DEF S, H, V, B, x
    <2>5. W[s] = { v \in V : Computing(e, s[1], s[2], v) }
      OBVIOUS
    <2>6. x \in V /\ x \in W[s]
      BY <2>4, <2>5
    <2> QED BY <2>6 DEF x
  <1>6. ASSUME NEW f, NEW g, Solves(f, S, V, W), Solves(g, S, V, W), NEW s \in S,
               \A q \in S : r[q] < r[s] => f[q] = g[q]
        PROVE  H[f][s] = H[g][s]
    <2>1. f \in [S -> V] /\ g \in [S -> V] /\ ComputesAll(e, f)
      BY <1>3, <1>6
    <2> HIDE DEF S, H, V, W, B, r
    <2>2. B(f, s) = B(g, s)
      BY <1>4, <1>6, <2>1
    <2> QED BY <1>2, <2>1, <2>2
  <1> HIDE DEF S, H, r, V, W, B
  <1>7. \A f, s : Solves(f, S, V, W) /\ s \in S => H[f][s] \in V /\ H[f][s] \in W[s]
    BY <1>5
  <1>8. \A f, g, s : /\ Solves(f, S, V, W) /\ Solves(g, S, V, W) /\ s \in S
                     /\ \A q \in S : r[q] < r[s] => f[q] = g[q]
                     => H[f][s] = H[g][s]
    <2> TAKE f, g, s
    <2> HAVE /\ Solves(f, S, V, W) /\ Solves(g, S, V, W) /\ s \in S
             /\ \A q \in S : r[q] < r[s] => f[q] = g[q]
    <2> QED BY <1>6
  <1>9. Recursive(S, r, V, W, H)
    BY <1>1, <1>7, <1>8 DEF Recursive
  <1>10. PICK f : Solves(f, S, V, W) /\ \A s \in S : f[s] = H[f][s]
    BY <1>9, Recursion
  <1>11. f = [s \in S |-> B(f, s)] /\ ComputesAll(e, f)
    <2>1. f \in [S -> V] /\ ComputesAll(e, f)
      BY <1>3, <1>10
    <2> QED BY <1>2, <1>10, <2>1
  <1> DEFINE g == ParseOf(e)
             T == { s \in S : f[s] = g[s] }
  <1>12. g = [s \in S |-> B(g, s)]
    BY <1>11 DEF ParseOf, S, B
  <1> HIDE DEF g
  <1>13. ASSUME NEW s \in S, \A q \in S : r[q] < r[s] => q \in T PROVE s \in T
    <2>1. \A q \in S : r[q] < r[s] => f[q] = g[q]
      BY <1>13
    <2>2. B(f, s) = B(g, s)
      BY <1>4, <1>11, <2>1
    <2>3. f[s] = B(f, s) /\ g[s] = B(g, s)
      BY <1>11, <1>12
    <2> QED BY <2>2, <2>3
  <1> HIDE DEF T
  <1>14. S \subseteq T
    <2>1. r \in [S -> Nat]
      BY <1>1
    <2> QED BY <1>13, <2>1, RankInduction
  <1>15. g = f
    <2>1. \A s \in S : f[s] = g[s]
      BY <1>14 DEF T
    <2> QED BY <1>11, <1>12, <2>1
  <1>16. g = [s \in S |-> B(g, s)] /\ ComputesAll(e, g)
    BY <1>11, <1>12, <1>15
  <1> QED BY <1>16 DEF S, B, g

\* What a rule computes from a position, at a depth, after a left operand.
PRead(e, rule, i, d, x) == ParseOf(e)[<<rule, i, d, x>>]

LEMMA PReadIs ==
  ASSUME NEW e \in Seq(Lexemes), NEW rule \in ParserRules, NEW i \in 1..(Len(e) + 1),
         NEW d \in 0..MaxNesting,
         NEW x \in Fractions
  PROVE  /\ Computing(e, rule, i, PRead(e, rule, i, d, x))
         /\ PRead(e, rule, i, d, x) = Compute(Lexed(e), ParseOf(e), rule, i, d, x)
  <1> DEFINE s == <<rule, i, d, x>>
  <1>1. s \in Places(e)
    BY PlacesAre
  <1>2. s[1] = rule /\ s[2] = i /\ s[3] = d /\ s[4] = x
    OBVIOUS
  <1> HIDE DEF s
  <1>3. ParseOf(e)[s] = Compute(Lexed(e), ParseOf(e), s[1], s[2], s[3], s[4])
    BY <1>1, ParseExists
  <1>4. ParseOf(e)[s] = PRead(e, rule, i, d, x)
    BY DEF PRead, s
  <1>5. Computing(e, rule, i, PRead(e, rule, i, d, x))
    BY ParseExists DEF ComputesAll, PRead
  <1> QED BY <1>2, <1>3, <1>4, <1>5

LEMMA ParseIs ==
  ASSUME NEW e, NEW whole, whole = PRead(e, "additive", 1, 0, Integer(0))
  PROVE  Parse(Lexed(e)) =
           IF whole.code # "ok" THEN Failure(whole.code)
           ELSE IF Kind(e, whole.at) # "EOF" THEN Failure("unsupported_expression")
           ELSE Value(whole.value)
  BY DEF Parse, PRead, ParseOf, Places, Kind

\* What the parser makes of what follows a left operand.
Goes(e, other, v, at, d) == IF v.code = "ok" THEN PRead(e, other, at, d, v.value) ELSE Took(v, at)
\* What it makes of a base, and of the exponent it may have.
Raises(e, base, d, x) ==
  IF base.code # "ok" \/ Kind(e, base.at) # "POWER" THEN base
  ELSE IF PRead(e, "unary", base.at + 1, d, x).code # "ok" THEN PRead(e, "unary", base.at + 1, d, x)
  ELSE Took(Power(base.value, PRead(e, "unary", base.at + 1, d, x).value),
    PRead(e, "unary", base.at + 1, d, x).at)

Place(e, i, d, x) ==
  e \in Seq(Lexemes) /\ i \in 1..(Len(e) + 1) /\ d \in 0..MaxNesting /\ x \in Fractions

LEMMA PlaceParts ==
  ASSUME NEW e, NEW i, NEW d, NEW x, Place(e, i, d, x), NEW rule, rule \in ParserRules
  PROVE  /\ PRead(e, rule, i, d, x) = Compute(Lexed(e), ParseOf(e), rule, i, d, x)
         /\ Computing(e, rule, i, PRead(e, rule, i, d, x))
         /\ i \in Int /\ d \in Int
  <1>1. i \in Int /\ d \in Int
    BY DEF Place
  <1> QED BY <1>1, PReadIs DEF Place

LEMMA PAdditive ==
  ASSUME NEW e, NEW i, NEW d, NEW x, Place(e, i, d, x), NEW first,
         first = PRead(e, "multiplicative", i, d, x)
  PROVE  PRead(e, "additive", i, d, x) = Goes(e, "sum", first, first.at, d)
  <1> DEFINE f == ParseOf(e)
             t == Lexed(e)
  <1>1. first = f[<<"multiplicative", i, d, x>>]
    BY DEF PRead
  <1> HIDE DEF f, t
  <1>2. Compute(t, f, "additive", i, d, x) = Follow(f, "sum", first, first.at, d)
    BY <1>1, ComputeAdditive
  <1>3. PRead(e, "additive", i, d, x) = Compute(t, f, "additive", i, d, x)
    BY PlaceParts, ParserRulesAre DEF t, f
  <1>4. Follow(f, "sum", first, first.at, d) = Goes(e, "sum", first, first.at, d)
    BY DEF Follow, Goes, PRead, f
  <1> QED BY <1>2, <1>3, <1>4

LEMMA PMultiplicative ==
  ASSUME NEW e, NEW i, NEW d, NEW x, Place(e, i, d, x), NEW first,
         first = PRead(e, "unary", i, d, x)
  PROVE  PRead(e, "multiplicative", i, d, x) = Goes(e, "product", first, first.at, d)
  <1> DEFINE f == ParseOf(e)
             t == Lexed(e)
  <1>1. first = f[<<"unary", i, d, x>>]
    BY DEF PRead
  <1> HIDE DEF f, t
  <1>2. Compute(t, f, "multiplicative", i, d, x) = Follow(f, "product", first, first.at, d)
    BY <1>1, ComputeMultiplicative
  <1>3. PRead(e, "multiplicative", i, d, x) = Compute(t, f, "multiplicative", i, d, x)
    BY PlaceParts, ParserRulesAre DEF t, f
  <1>4. Follow(f, "product", first, first.at, d) = Goes(e, "product", first, first.at, d)
    BY DEF Follow, Goes, PRead, f
  <1> QED BY <1>2, <1>3, <1>4

LEMMA PSum ==
  ASSUME NEW e, NEW i, NEW d, NEW x, Place(e, i, d, x), NEW k, k = i + 1,
         NEW right, right = PRead(e, "multiplicative", k, d, x)
  PROVE  PRead(e, "sum", i, d, x) =
           IF Kind(e, i) \notin Additive THEN Took(Value(x), i)
           ELSE IF right.code # "ok" THEN right
           ELSE Goes(e, "sum", Operate(Kind(e, i), x, right.value), right.at, d)
  <1> DEFINE f == ParseOf(e)
             t == Lexed(e)
             v == Operate(Kind(e, i), x, right.value)
  <1>1. right = f[<<"multiplicative", k, d, x>>] /\ t[i].kind = Kind(e, i)
    BY DEF PRead, Kind
  <1>3. PRead(e, "sum", i, d, x) = Compute(t, f, "sum", i, d, x) /\ i \in Int
    BY PlaceParts, ParserRulesAre
  <1> HIDE DEF f, t
  <1>2. Compute(t, f, "sum", i, d, x) =
           IF t[i].kind \notin Additive THEN Took(Value(x), i)
           ELSE IF right.code # "ok" THEN right
           ELSE Follow(f, "sum", Operate(t[i].kind, x, right.value), right.at, d)
    BY <1>1, <1>3, ComputeSum
  <1> HIDE DEF v
  <1>4. Follow(f, "sum", v, right.at, d) = Goes(e, "sum", v, right.at, d)
    BY DEF Follow, Goes, PRead, f
  <1> QED BY <1>1, <1>2, <1>3, <1>4 DEF v

LEMMA PProduct ==
  ASSUME NEW e, NEW i, NEW d, NEW x, Place(e, i, d, x), NEW k, k = i + 1,
         NEW right, right = PRead(e, "unary", k, d, x)
  PROVE  PRead(e, "product", i, d, x) =
           IF Kind(e, i) \notin Multiplicative THEN Took(Value(x), i)
           ELSE IF right.code # "ok" THEN right
           ELSE Goes(e, "product", Operate(Kind(e, i), x, right.value), right.at, d)
  <1> DEFINE f == ParseOf(e)
             t == Lexed(e)
             v == Operate(Kind(e, i), x, right.value)
  <1>1. right = f[<<"unary", k, d, x>>] /\ t[i].kind = Kind(e, i)
    BY DEF PRead, Kind
  <1>3. PRead(e, "product", i, d, x) = Compute(t, f, "product", i, d, x) /\ i \in Int
    BY PlaceParts, ParserRulesAre
  <1> HIDE DEF f, t
  <1>2. Compute(t, f, "product", i, d, x) =
           IF t[i].kind \notin Multiplicative THEN Took(Value(x), i)
           ELSE IF right.code # "ok" THEN right
           ELSE Follow(f, "product", Operate(t[i].kind, x, right.value), right.at, d)
    BY <1>1, <1>3, ComputeProduct
  <1> HIDE DEF v
  <1>4. Follow(f, "product", v, right.at, d) = Goes(e, "product", v, right.at, d)
    BY DEF Follow, Goes, PRead, f
  <1> QED BY <1>1, <1>2, <1>3, <1>4 DEF v

LEMMA PUnary ==
  ASSUME NEW e, NEW i, NEW d, NEW x, Place(e, i, d, x), NEW k, k = i + 1,
         NEW operand, operand = PRead(e, "unary", k, d, x), NEW base,
         base = PRead(e, "power", i, d, x)
  PROVE  PRead(e, "unary", i, d, x) =
           IF Kind(e, i) \notin Additive THEN Goes(e, "percent", base, base.at, d)
           ELSE IF operand.code # "ok" \/ Kind(e, i) = "PLUS" THEN operand
           ELSE Took(Bounded(Minus(Integer(0), operand.value)), operand.at)
  <1> DEFINE f == ParseOf(e)
             t == Lexed(e)
  <1>1. /\ operand = f[<<"unary", k, d, x>>] /\ base = f[<<"power", i, d, x>>]
        /\ t[i].kind = Kind(e, i)
    BY DEF PRead, Kind
  <1>3. PRead(e, "unary", i, d, x) = Compute(t, f, "unary", i, d, x) /\ i \in Int
    BY PlaceParts, ParserRulesAre
  <1> HIDE DEF f, t
  <1>2. Compute(t, f, "unary", i, d, x) =
           IF t[i].kind \notin Additive THEN Follow(f, "percent", base, base.at, d)
           ELSE IF operand.code # "ok" \/ t[i].kind = "PLUS" THEN operand
           ELSE Took(Bounded(Minus(Integer(0), operand.value)), operand.at)
    BY <1>1, <1>3, ComputeUnary
  <1>4. Follow(f, "percent", base, base.at, d) = Goes(e, "percent", base, base.at, d)
    BY DEF Follow, Goes, PRead, f
  <1> QED BY <1>1, <1>2, <1>3, <1>4

LEMMA PPercent ==
  ASSUME NEW e, NEW i, NEW d, NEW x, Place(e, i, d, x), NEW k, k = i + 1
  PROVE  PRead(e, "percent", i, d, x) =
           IF Kind(e, i) = "PERCENT" THEN Goes(e, "percent", Percent(x), k, d) ELSE Took(Value(x), i)
  <1> DEFINE f == ParseOf(e)
             t == Lexed(e)
             v == Percent(x)
  <1>1. t[i].kind = Kind(e, i)
    BY DEF Kind
  <1>3. PRead(e, "percent", i, d, x) = Compute(t, f, "percent", i, d, x) /\ i \in Int
    BY PlaceParts, ParserRulesAre
  <1> HIDE DEF f, t, v
  <1>2. Compute(t, f, "percent", i, d, x) =
           IF t[i].kind = "PERCENT" THEN Follow(f, "percent", v, k, d) ELSE Took(Value(x), i)
    BY <1>3, ComputePercent DEF v
  <1>4. Follow(f, "percent", v, k, d) = Goes(e, "percent", v, k, d)
    BY DEF Follow, Goes, PRead, f
  <1> QED BY <1>1, <1>2, <1>3, <1>4 DEF v

LEMMA RaisesAre ==
  ASSUME NEW e, NEW base, NEW d, NEW x
  PROVE  RaisesTo(Lexed(e), ParseOf(e), base, d, x) = Raises(e, base, d, x)
  BY DEF RaisesTo, Raises, PRead, Kind

LEMMA PNumber ==
  ASSUME NEW e, NEW i, NEW d, NEW x, Place(e, i, d, x), Kind(e, i) = "NUMBER", NEW k, k = i + 1,
         NEW base, base = Took(Bounded(Integer(Lexed(e)[i].literal)), k)
  PROVE  PRead(e, "power", i, d, x) = Raises(e, base, d, x)
  <1> DEFINE f == ParseOf(e)
             t == Lexed(e)
  <1>1. t[i].kind = "NUMBER" /\ base = Took(Bounded(Integer(t[i].literal)), k)
    BY DEF Kind
  <1>3. PRead(e, "power", i, d, x) = Compute(t, f, "power", i, d, x) /\ i \in Int
    BY PlaceParts, ParserRulesAre
  <1>4. RaisesTo(t, f, base, d, x) = Raises(e, base, d, x)
    BY RaisesAre
  <1> HIDE DEF f, t
  <1>2. Compute(t, f, "power", i, d, x) = RaisesTo(t, f, base, d, x)
    BY <1>1, <1>3, ComputeNumber
  <1> QED BY <1>2, <1>3, <1>4

LEMMA PGroup ==
  ASSUME NEW e, NEW i, NEW d, NEW x, Place(e, i, d, x), Kind(e, i) = "LPAREN", d # MaxNesting,
         NEW k, k = i + 1, NEW c, c = d + 1, NEW inner, inner = PRead(e, "additive", k, c, x),
         NEW base, base = Took(Value(inner.value), inner.at + 1)
  PROVE  PRead(e, "power", i, d, x) =
           IF inner.code # "ok" THEN inner
           ELSE IF Kind(e, inner.at) = "RPAREN" THEN Raises(e, base, d, x)
           ELSE Took(Failure("unsupported_expression"), 0)
  <1> DEFINE f == ParseOf(e)
             t == Lexed(e)
  <1>1. /\ t[i].kind = "LPAREN" /\ t[inner.at].kind = Kind(e, inner.at)
        /\ inner = f[<<"additive", k, c, x>>]
    BY DEF Kind, PRead
  <1>3. PRead(e, "power", i, d, x) = Compute(t, f, "power", i, d, x) /\ i \in Int /\ d \in Int
    BY PlaceParts, ParserRulesAre
  <1>4. RaisesTo(t, f, base, d, x) = Raises(e, base, d, x)
    BY RaisesAre
  <1> HIDE DEF f, t
  <1>2. Compute(t, f, "power", i, d, x) =
           IF inner.code # "ok" THEN inner
           ELSE IF t[inner.at].kind = "RPAREN" THEN RaisesTo(t, f, base, d, x)
           ELSE Took(Failure("unsupported_expression"), 0)
    BY <1>1, <1>3, ComputeGroup
  <1> QED BY <1>1, <1>2, <1>3, <1>4

-----------------------------------------------------------------------------
(***************************************************************************)
(* The parser computes the value that a piece means from the left to the   *)
(* right, or stops at one of its failures.                                 *)
(***************************************************************************)
\* What is made of a piece that means m: the value is carried on, or one of
\* its failures is reported.
Bears(m, r, next) == IF m.errors = {} THEN r = next ELSE r.code \in m.errors

\* A piece is joined from parts.
JoinOf(m, l, r, v) ==
  l \in Meanings /\ r \in Meanings /\ l.grammatical /\ r.grammatical /\ v \in Outcomes /\
    m = Binary(l, r, v)
ChangeOf(m, l, v) == l \in Meanings /\ l.grammatical /\ v \in Outcomes /\ m = Unary(l, v)

LEMMA JoinParts ==
  ASSUME NEW m, NEW l, NEW r, NEW v, JoinOf(m, l, r, v)
  PROVE  /\ m.value = v.value /\ l.errors \subseteq m.errors /\ r.errors \subseteq m.errors
         /\ v.code # "ok" => v.code \in m.errors
         /\ m.errors = {} <=> l.errors = {} /\ r.errors = {} /\ v.code = "ok"
         /\ "ok" \notin l.errors /\ "ok" \notin r.errors /\ "ok" \notin m.errors
  <1>1. m = Known(v, l.errors \cup r.errors)
    BY DEF JoinOf, Binary
  <1>2. m.value = v.value /\ m.errors = (l.errors \cup r.errors) \cup ({v.code} \ {"ok"})
    BY <1>1 DEF Known
  <1>3. "ok" \notin l.errors /\ "ok" \notin r.errors
    BY MeaningParts DEF JoinOf
  <1> QED BY <1>2, <1>3

LEMMA ChangeParts ==
  ASSUME NEW m, NEW l, NEW v, ChangeOf(m, l, v)
  PROVE  /\ m.value = v.value /\ l.errors \subseteq m.errors
         /\ v.code # "ok" => v.code \in m.errors
         /\ m.errors = {} <=> l.errors = {} /\ v.code = "ok"
         /\ "ok" \notin l.errors /\ "ok" \notin m.errors
  <1>1. m = Known(v, l.errors)
    BY DEF ChangeOf, Unary
  <1>2. m.value = v.value /\ m.errors = l.errors \cup ({v.code} \ {"ok"})
    BY <1>1 DEF Known
  <1>3. "ok" \notin l.errors
    BY MeaningParts DEF ChangeOf
  <1> QED BY <1>2, <1>3

LEMMA TookValue ==
  ASSUME NEW v, NEW x, NEW at
  PROVE  /\ Took(Value(x), at).code = "ok" /\ Took(Value(x), at).value = x
         /\ Took(Value(x), at).at = at
         /\ v.code = "ok" => Took(v, at) = Took(Value(v.value), at)
         /\ Took(v, at).code = v.code
  BY DEF Took, Value

\* A rule goes on after its first operand.
LEMMA CarriedOn ==
  ASSUME NEW e, NEW other, NEW m, "ok" \notin m.errors, NEW first, NEW at, NEW d,
         Bears(m, first, Took(Value(m.value), at))
  PROVE  Bears(m, Goes(e, other, first, first.at, d), PRead(e, other, at, d, m.value))
  <1> DEFINE y == m.value
  <1>1. /\ Took(Value(y), at).code = "ok" /\ Took(Value(y), at).value = y
        /\ Took(Value(y), at).at = at
        /\ Took(first, first.at).code = first.code
    BY TookValue
  <1> HIDE DEF y
  <1>2. CASE m.errors = {}
    <2>1. first.code = "ok" /\ first.value = y /\ first.at = at
      BY <1>1, <1>2 DEF Bears, y
    <2>2. Goes(e, other, first, first.at, d) = PRead(e, other, at, d, y)
      BY <2>1 DEF Goes
    <2> QED BY <1>2, <2>2 DEF Bears, y
  <1>3. CASE m.errors # {}
    <2>1. first.code \in m.errors /\ first.code # "ok"
      BY <1>3 DEF Bears
    <2>2. Goes(e, other, first, first.at, d).code = first.code
      BY <1>1, <2>1 DEF Goes
    <2> QED BY <1>3, <2>1, <2>2 DEF Bears
  <1> QED BY <1>2, <1>3

\* What is made of two parts, of which the second is read after the first.
LEMMA JoinGoes ==
  ASSUME NEW e, NEW other, NEW m, NEW l, NEW r, NEW v, JoinOf(m, l, r, v), NEW d, NEW at,
         NEW right, Bears(r, right, Took(Value(r.value), at)), NEW w,
         right.value = r.value => w = v,
         NEW all, NEW next, Bears(l, all, next),
         next = IF right.code # "ok" THEN right ELSE Goes(e, other, w, right.at, d)
  PROVE  Bears(m, all, PRead(e, other, at, d, m.value))
  <1> DEFINE y == r.value
  <1>1. /\ Took(Value(y), at).code = "ok" /\ Took(Value(y), at).value = y
        /\ Took(Value(y), at).at = at
        /\ Took(v, at).code = v.code
    BY TookValue
  <1>2. /\ m.value = v.value /\ l.errors \subseteq m.errors /\ r.errors \subseteq m.errors
        /\ v.code # "ok" => v.code \in m.errors
        /\ m.errors = {} <=> l.errors = {} /\ r.errors = {} /\ v.code = "ok"
        /\ "ok" \notin l.errors /\ "ok" \notin r.errors /\ "ok" \notin m.errors
    BY JoinParts
  <1> HIDE DEF y
  <1>3. CASE l.errors # {}
    <2>1. all.code \in m.errors
      BY <1>2, <1>3 DEF Bears
    <2> QED BY <2>1 DEF Bears
  <1>4. CASE l.errors = {} /\ r.errors # {}
    <2>1. all = next /\ right.code \in r.errors /\ right.code # "ok"
      BY <1>2, <1>4 DEF Bears
    <2>2. all.code \in m.errors
      BY <1>2, <2>1
    <2> QED BY <2>2 DEF Bears
  <1>5. CASE l.errors = {} /\ r.errors = {}
    <2>1. right.code = "ok" /\ right.value = y /\ right.at = at /\ all = next
      BY <1>1, <1>5 DEF Bears, y
    <2>2. w = v
      BY <2>1 DEF y
    <2>3. all = Goes(e, other, v, at, d)
      BY <2>1, <2>2
    <2>4. CASE v.code = "ok"
      <3>1. all = PRead(e, other, at, d, m.value) /\ m.errors = {}
        BY <1>2, <1>5, <2>3, <2>4 DEF Goes
      <3> QED BY <3>1 DEF Bears
    <2>5. CASE v.code # "ok"
      <3>1. all.code \in m.errors
        BY <1>1, <1>2, <2>3, <2>5 DEF Goes
      <3> QED BY <3>1 DEF Bears
    <2> QED BY <2>4, <2>5
  <1> QED BY <1>3, <1>4, <1>5

\* A power: nothing goes on.
LEMMA JoinStops ==
  ASSUME NEW m, NEW l, NEW r, NEW v, JoinOf(m, l, r, v), NEW at,
         NEW right, Bears(r, right, Took(Value(r.value), at)), NEW w,
         right.value = r.value => w = v,
         NEW all, NEW next, Bears(l, all, next),
         next = IF right.code # "ok" THEN right ELSE Took(w, right.at)
  PROVE  Bears(m, all, Took(Value(m.value), at))
  <1> DEFINE y == r.value
             z == v.value
  <1>1. /\ Took(Value(y), at).code = "ok" /\ Took(Value(y), at).value = y
        /\ Took(Value(y), at).at = at
        /\ Took(v, at).code = v.code
        /\ v.code = "ok" => Took(v, at) = Took(Value(z), at)
    BY TookValue
  <1>2. /\ m.value = z /\ l.errors \subseteq m.errors /\ r.errors \subseteq m.errors
        /\ v.code # "ok" => v.code \in m.errors
        /\ m.errors = {} <=> l.errors = {} /\ r.errors = {} /\ v.code = "ok"
        /\ "ok" \notin l.errors /\ "ok" \notin r.errors /\ "ok" \notin m.errors
    BY JoinParts
  <1> HIDE DEF y, z
  <1>3. CASE l.errors # {}
    <2>1. all.code \in m.errors
      BY <1>2, <1>3 DEF Bears
    <2> QED BY <2>1 DEF Bears
  <1>4. CASE l.errors = {} /\ r.errors # {}
    <2>1. all = next /\ right.code \in r.errors /\ right.code # "ok"
      BY <1>2, <1>4 DEF Bears
    <2>2. all.code \in m.errors
      BY <1>2, <2>1
    <2> QED BY <2>2 DEF Bears
  <1>5. CASE l.errors = {} /\ r.errors = {}
    <2>1. right.code = "ok" /\ right.value = y /\ right.at = at /\ all = next
      BY <1>1, <1>5 DEF Bears, y
    <2>2. w = v
      BY <2>1 DEF y
    <2>3. all = Took(v, at)
      BY <2>1, <2>2
    <2>4. CASE v.code = "ok"
      <3>1. all = Took(Value(m.value), at) /\ m.errors = {}
        BY <1>1, <1>2, <1>5, <2>3, <2>4
      <3> QED BY <3>1 DEF Bears
    <2>5. CASE v.code # "ok"
      <3>1. all.code \in m.errors
        BY <1>1, <1>2, <2>3, <2>5
      <3> QED BY <3>1 DEF Bears
    <2> QED BY <2>4, <2>5
  <1> QED BY <1>3, <1>4, <1>5

\* A sign before a part.
LEMMA SignBears ==
  ASSUME NEW m, NEW l, NEW v, ChangeOf(m, l, v), NEW at, NEW operand,
         Bears(l, operand, Took(Value(l.value), at)),
         NEW w, operand.value = l.value => w = v, NEW all, NEW plus, plus => v = Value(l.value),
         all = IF operand.code # "ok" \/ plus THEN operand ELSE Took(w, operand.at)
  PROVE  Bears(m, all, Took(Value(m.value), at))
  <1> DEFINE y == l.value
             z == v.value
  <1>1. /\ Took(Value(y), at).code = "ok" /\ Took(Value(y), at).value = y
        /\ Took(Value(y), at).at = at
        /\ Took(v, at).code = v.code
        /\ v.code = "ok" => Took(v, at) = Took(Value(z), at)
        /\ plus => v.code = "ok" /\ z = y
    BY TookValue DEF Value
  <1>2. /\ m.value = z /\ l.errors \subseteq m.errors
        /\ v.code # "ok" => v.code \in m.errors
        /\ m.errors = {} <=> l.errors = {} /\ v.code = "ok"
        /\ "ok" \notin l.errors /\ "ok" \notin m.errors
    BY ChangeParts
  <1> HIDE DEF y, z
  <1>3. CASE l.errors # {}
    <2>1. operand.code \in l.errors /\ operand.code # "ok"
      BY <1>2, <1>3 DEF Bears
    <2>2. all.code \in m.errors
      BY <1>2, <2>1
    <2> QED BY <2>2 DEF Bears
  <1>4. CASE l.errors = {}
    <2>1. /\ operand.code = "ok" /\ operand.value = y /\ operand.at = at
          /\ operand = Took(Value(y), at)
      BY <1>1, <1>4 DEF Bears, y
    <2>2. w = v
      BY <2>1 DEF y
    <2>3. CASE plus
      <3>1. m.errors = {} /\ all = Took(Value(m.value), at)
        BY <1>1, <1>2, <1>4, <2>1, <2>3
      <3> QED BY <3>1 DEF Bears
    <2>4. CASE ~plus /\ v.code = "ok"
      <3>1. m.errors = {} /\ all = Took(Value(m.value), at)
        BY <1>1, <1>2, <1>4, <2>1, <2>2, <2>4
      <3> QED BY <3>1 DEF Bears
    <2>5. CASE ~plus /\ v.code # "ok"
      <3>1. all.code \in m.errors
        BY <1>1, <1>2, <2>1, <2>2, <2>5
      <3> QED BY <3>1 DEF Bears
    <2> QED BY <2>3, <2>4, <2>5
  <1> QED BY <1>3, <1>4

\* A percent sign behind one.
LEMMA PercentBears ==
  ASSUME NEW e, NEW m, NEW l, NEW v, ChangeOf(m, l, v), NEW at, NEW d, NEW all, NEW next,
         Bears(l, all, next),
         next = Goes(e, "percent", v, at, d)
  PROVE  Bears(m, all, PRead(e, "percent", at, d, m.value))
  <1> DEFINE z == v.value
  <1>1. Took(v, at).code = v.code
    BY TookValue
  <1>2. /\ m.value = z /\ l.errors \subseteq m.errors
        /\ v.code # "ok" => v.code \in m.errors
        /\ m.errors = {} <=> l.errors = {} /\ v.code = "ok"
    BY ChangeParts
  <1>3. CASE l.errors # {}
    <2>1. all.code \in m.errors
      BY <1>2, <1>3 DEF Bears
    <2> QED BY <2>1 DEF Bears
  <1>4. CASE l.errors = {} /\ v.code = "ok"
    <2>1. all = PRead(e, "percent", at, d, m.value) /\ m.errors = {}
      BY <1>2, <1>4 DEF Bears, Goes
    <2> QED BY <2>1 DEF Bears
  <1>5. CASE l.errors = {} /\ v.code # "ok"
    <2>1. all.code \in m.errors
      BY <1>1, <1>2, <1>5 DEF Bears, Goes
    <2> QED BY <2>1 DEF Bears
  <1> QED BY <1>3, <1>4, <1>5

ComputesSum(e, i, j, d, x) ==
  Shallow(e, i, j, d) /\ Grammatical(e, i, j) /\
    Kind(e, j + 1) \notin Multiplicative \cup {"POWER", "PERCENT"} =>
    Bears(Mean(e, i, j), PRead(e, "additive", i, d, x), PRead(e, "sum", j + 1, d, Mean(e, i, j).value))
ComputesProduct(e, i, j, d, x) ==
  Shallow(e, i, j, d) /\ ProductForm(e, i, j) /\ Kind(e, j + 1) \notin {"POWER", "PERCENT"} =>
    Bears(Mean(e, i, j), PRead(e, "multiplicative", i, d, x),
      PRead(e, "product", j + 1, d, Mean(e, i, j).value))
ComputesUnary(e, i, j, d, x) ==
  Shallow(e, i, j, d) /\ UnaryForm(e, i, j) /\ Kind(e, j + 1) \notin {"POWER", "PERCENT"} =>
    Bears(Mean(e, i, j), PRead(e, "unary", i, d, x), Took(Value(Mean(e, i, j).value), j + 1))
ComputesPercent(e, i, j, d, x) ==
  Shallow(e, i, j, d) /\ PostfixForm(e, i, j) /\ Powers(e, i, j) = {} /\ Kind(e, j + 1) # "POWER" =>
    Bears(Mean(e, i, j), PRead(e, "unary", i, d, x), PRead(e, "percent", j + 1, d, Mean(e, i, j).value))
ComputesBase(e, i, j, d, x) ==
  Shallow(e, i, j, d) /\ BaseForm(e, i, j) =>
    Bears(Mean(e, i, j), PRead(e, "power", i, d, x),
      Raises(e, Took(Value(Mean(e, i, j).value), j + 1), d, x))

Faithful(e, i, j) ==
  \A d \in 0..MaxNesting, x \in Fractions :
    /\ ComputesSum(e, i, j, d, x) /\ ComputesProduct(e, i, j, d, x) /\ ComputesUnary(e, i, j, d, x)
    /\ ComputesPercent(e, i, j, d, x) /\ ComputesBase(e, i, j, d, x)
ShorterFaithful(e, i, j) ==
  \A k \in 1..(Len(e) + 1), l \in 0..Len(e) : i <= j /\ l - k < j - i => Faithful(e, k, l)

LEMMA ShorterFaithfulIs ==
  ASSUME NEW e \in Seq(Lexemes), NEW i \in 1..Len(e), NEW j \in 1..Len(e), i <= j,
         ShorterFaithful(e, i, j)
  PROVE  /\ \A k \in (i + 1)..(j - 1) : Faithful(e, i, k - 1) /\ Faithful(e, k + 1, j)
         /\ Faithful(e, i + 1, j) /\ Faithful(e, i, j - 1) /\ Faithful(e, i + 1, j - 1)
  <1>1. /\ i \in 1..(Len(e) + 1) /\ i + 1 \in 1..(Len(e) + 1) /\ j \in 0..Len(e)
        /\ j - 1 \in 0..Len(e)
        /\ j - (i + 1) < j - i /\ (j - 1) - i < j - i /\ (j - 1) - (i + 1) < j - i
    OBVIOUS
  <1>2. ASSUME NEW k \in (i + 1)..(j - 1)
        PROVE  /\ k - 1 \in 0..Len(e) /\ k + 1 \in 1..(Len(e) + 1) /\ (k - 1) - i < j - i
               /\ j - (k + 1) < j - i
    OBVIOUS
  <1> QED BY <1>1, <1>2 DEF ShorterFaithful

\* A rule that goes on stops where there is no operator of its own.
LEMMA RestStops ==
  ASSUME NEW e, NEW i, NEW d, NEW x, Place(e, i, d, x)
  PROVE  /\ Kind(e, i) \notin Additive => PRead(e, "sum", i, d, x) = Took(Value(x), i)
         /\ Kind(e, i) \notin Multiplicative => PRead(e, "product", i, d, x) = Took(Value(x), i)
         /\ Kind(e, i) # "PERCENT" => PRead(e, "percent", i, d, x) = Took(Value(x), i)
  <1> DEFINE k == i + 1
             a == PRead(e, "multiplicative", k, d, x)
             b == PRead(e, "unary", k, d, x)
  <1>1. k = i + 1 /\ a = PRead(e, "multiplicative", k, d, x) /\ b = PRead(e, "unary", k, d, x)
    OBVIOUS
  <1> HIDE DEF k, a, b
  <1>2. Kind(e, i) \notin Additive => PRead(e, "sum", i, d, x) = Took(Value(x), i)
    BY <1>1, PSum
  <1>3. Kind(e, i) \notin Multiplicative => PRead(e, "product", i, d, x) = Took(Value(x), i)
    BY <1>1, PProduct
  <1>4. Kind(e, i) # "PERCENT" => PRead(e, "percent", i, d, x) = Took(Value(x), i)
    BY <1>1, PPercent
  <1> QED BY <1>2, <1>3, <1>4

\* A piece and its parts mean meanings.
LEMMA PieceIs ==
  ASSUME NEW e \in Seq(Lexemes), NEW i \in 1..(Len(e) + 1), NEW j \in 0..Len(e),
         Grammatical(e, i, j)
  PROVE  /\ Mean(e, i, j) \in Meanings /\ Mean(e, i, j).grammatical
         /\ Mean(e, i, j).value \in Fractions
         /\ "ok" \notin Mean(e, i, j).errors
  <1>1. Mean(e, i, j) \in Meanings
    BY MeanIs
  <1> DEFINE m == Mean(e, i, j)
  <1> HIDE DEF m
  <1>2. m \in Meanings /\ m.grammatical
    BY <1>1 DEF m, Grammatical
  <1> QED BY <1>2, MeaningParts DEF m

LEMMA SumComputes ==
  ASSUME NEW e \in Seq(Lexemes), NEW i \in 1..Len(e), NEW j \in 1..Len(e), i <= j,
         ShorterFaithful(e, i, j),
         NEW d \in 0..MaxNesting, NEW x \in Fractions, ComputesProduct(e, i, j, d, x)
  PROVE  ComputesSum(e, i, j, d, x)
  <1> SUFFICES ASSUME Shallow(e, i, j, d), Grammatical(e, i, j),
                      Kind(e, j + 1) \notin Multiplicative \cup {"POWER", "PERCENT"}
               PROVE  Bears(Mean(e, i, j), PRead(e, "additive", i, d, x),
                        PRead(e, "sum", j + 1, d, Mean(e, i, j).value))
    BY DEF ComputesSum
  <1> DEFINE m == Mean(e, i, j)
             y == m.value
             all == PRead(e, "additive", i, d, x)
  <1>0. i \in 1..(Len(e) + 1) /\ j + 1 \in 1..(Len(e) + 1) /\ j \in 0..Len(e) /\ Place(e, i, d, x)
    BY KindIs DEF Place
  <1>1. CASE Infixes(e, i, j, Additive) = {}
    <2> DEFINE first == PRead(e, "multiplicative", i, d, x)
    <2>1. ProductForm(e, i, j)
      BY <1>1 DEF ProductForm
    <2>2. Bears(m, first, PRead(e, "product", j + 1, d, y))
      BY <2>1 DEF ComputesProduct
    <2>3. y \in Fractions /\ "ok" \notin m.errors
      BY <1>0, PieceIs
    <2>4. PRead(e, "product", j + 1, d, y) = Took(Value(y), j + 1)
      <3>1. Place(e, j + 1, d, y)
        BY <1>0, <2>3 DEF Place
      <3> HIDE DEF y
      <3> QED BY <3>1, RestStops
    <2>5. all = Goes(e, "sum", first, first.at, d)
      <3> HIDE DEF all
      <3>1. first = PRead(e, "multiplicative", i, d, x)
        OBVIOUS
      <3> HIDE DEF first
      <3> QED BY <1>0, <3>1, PAdditive DEF all
    <2> DEFINE at == j + 1
    <2> HIDE DEF first, all, m, at
    <2>6. Bears(m, Goes(e, "sum", first, first.at, d), PRead(e, "sum", at, d, m.value))
      BY <2>2, <2>3, <2>4, CarriedOn DEF at
    <2> QED BY <2>5, <2>6 DEF m, all, at
  <1>2. CASE Infixes(e, i, j, Additive) # {}
    <2>1. PICK k \in (i + 1)..(j - 1) :
            e[k].kind \in Additive /\ Grammatical(e, i, k - 1) /\ ProductForm(e, k + 1, j)
      BY <1>2, SumSplit
    <2>2. /\ k \in 1..Len(e) /\ Kind(e, k) \in Additive
          /\ Kind(e, k) \notin Multiplicative \cup {"POWER", "PERCENT"}
          /\ Kind(e, k) = e[k].kind /\ k \in (i + 1)..j /\ k \in 1..(Len(e) + 1)
          /\ k + 1 \in 1..(Len(e) + 1)
          /\ e[k].kind \in InfixKinds /\ (k - 1) + 1 = k /\ k - 1 \in 0..Len(e)
          /\ Grammatical(e, k + 1, j)
      BY <1>0, <2>1, KindIs, KindsApart DEF InfixKinds, ProductForm
    <2> DEFINE l == Mean(e, i, k - 1)
               r == Mean(e, k + 1, j)
               v == Operate(e[k].kind, l.value, r.value)
               right == PRead(e, "multiplicative", k + 1, d, l.value)
               w == Operate(e[k].kind, l.value, right.value)
               next == PRead(e, "sum", k, d, l.value)
               at == j + 1
    <2>3. /\ l \in Meanings /\ l.grammatical /\ l.value \in Fractions
          /\ r \in Meanings /\ r.grammatical /\ r.value \in Fractions
      BY <1>0, <2>1, <2>2, PieceIs
    <2>4. v \in Outcomes
      <3> HIDE DEF l, r
      <3> QED BY <2>2, <2>3, OperateIs
    <2>5. JoinOf(m, l, r, v)
      <3>1. m = Binary(l, r, v)
        BY <2>1, <2>2, SumJoin
      <3> HIDE DEF m, l, r, v
      <3> QED BY <2>3, <2>4, <3>1 DEF JoinOf
    <2>6. Balanced(e, i, k - 1)
      BY <1>0, <2>1, <2>2, BalancedIs
    <2>7. Shallow(e, i, k - 1, d) /\ Shallow(e, k + 1, j, d)
      BY <2>2, <2>6, ShallowAcross
    <2>8. Bears(l, all, next)
      <3>1. ComputesSum(e, i, k - 1, d, x)
        BY ShorterFaithfulIs DEF Faithful
      <3> QED BY <2>1, <2>2, <2>7, <3>1 DEF ComputesSum
    <2>9. Bears(r, right, Took(Value(r.value), at))
      <3>1. ComputesProduct(e, k + 1, j, d, l.value)
        BY <2>3, ShorterFaithfulIs DEF Faithful
      <3>2. PRead(e, "product", j + 1, d, r.value) = Took(Value(r.value), j + 1)
        <4>1. Place(e, j + 1, d, r.value)
          BY <1>0, <2>3 DEF Place
        <4> HIDE DEF r
        <4> QED BY <4>1, RestStops
      <3>3. Bears(r, right, PRead(e, "product", j + 1, d, r.value))
        BY <2>1, <2>7, <3>1 DEF ComputesProduct
      <3> QED BY <3>2, <3>3
    <2>10. next = IF right.code # "ok" THEN right ELSE Goes(e, "sum", w, right.at, d)
      <3> DEFINE c == k + 1
                 z == l.value
      <3>1. /\ c = k + 1 /\ right = PRead(e, "multiplicative", c, d, z)
            /\ w = Operate(Kind(e, k), z, right.value)
            /\ next = PRead(e, "sum", k, d, z) /\ z \in Fractions
        BY <2>2, <2>3
      <3> HIDE DEF c, z, right, w, next
      <3>2. Place(e, k, d, z)
        BY <2>2, <3>1 DEF Place
      <3>3. PRead(e, "sum", k, d, z) =
              IF Kind(e, k) \notin Additive THEN Took(Value(z), k)
              ELSE IF right.code # "ok" THEN right
              ELSE Goes(e, "sum", Operate(Kind(e, k), z, right.value), right.at, d)
        BY <3>1, <3>2, PSum
      <3> QED BY <2>2, <3>1, <3>3
    <2>11. right.value = r.value => w = v
      OBVIOUS
    <2> HIDE DEF m, l, r, v, right, w, next, all, at
    <2>12. Bears(m, all, PRead(e, "sum", at, d, m.value))
      BY <2>5, <2>8, <2>9, <2>10, <2>11, JoinGoes
    <2> QED BY <2>12 DEF m, all, at
  <1> QED BY <1>1, <1>2

LEMMA ProductComputes ==
  ASSUME NEW e \in Seq(Lexemes), NEW i \in 1..Len(e), NEW j \in 1..Len(e), i <= j,
         ShorterFaithful(e, i, j),
         NEW d \in 0..MaxNesting, NEW x \in Fractions, ComputesUnary(e, i, j, d, x)
  PROVE  ComputesProduct(e, i, j, d, x)
  <1> SUFFICES ASSUME Shallow(e, i, j, d), ProductForm(e, i, j),
                      Kind(e, j + 1) \notin {"POWER", "PERCENT"}
               PROVE  Bears(Mean(e, i, j), PRead(e, "multiplicative", i, d, x),
                            PRead(e, "product", j + 1, d, Mean(e, i, j).value))
    BY DEF ComputesProduct
  <1> DEFINE m == Mean(e, i, j)
             y == m.value
             all == PRead(e, "multiplicative", i, d, x)
  <1>0. i \in 1..(Len(e) + 1) /\ j + 1 \in 1..(Len(e) + 1) /\ j \in 0..Len(e) /\ Place(e, i, d, x)
    BY KindIs DEF Place
  <1>1. CASE Infixes(e, i, j, Multiplicative) = {}
    <2> DEFINE first == PRead(e, "unary", i, d, x)
               at == j + 1
    <2>1. UnaryForm(e, i, j)
      BY <1>1, UnaryFormIs DEF ProductForm
    <2>2. Bears(m, first, Took(Value(y), at))
      BY <2>1 DEF ComputesUnary
    <2>3. "ok" \notin m.errors
      BY <1>0, PieceIs DEF ProductForm
    <2>4. all = Goes(e, "product", first, first.at, d)
      <3> HIDE DEF all
      <3>1. first = PRead(e, "unary", i, d, x)
        OBVIOUS
      <3> HIDE DEF first
      <3> QED BY <1>0, <3>1, PMultiplicative DEF all
    <2> HIDE DEF first, all, m, at
    <2>5. Bears(m, Goes(e, "product", first, first.at, d), PRead(e, "product", at, d, m.value))
      BY <2>2, <2>3, CarriedOn
    <2> QED BY <2>4, <2>5 DEF m, all, at
  <1>2. CASE Infixes(e, i, j, Multiplicative) # {}
    <2>1. PICK k \in (i + 1)..(j - 1) :
            e[k].kind \in Multiplicative /\ ProductForm(e, i, k - 1) /\ UnaryForm(e, k + 1, j)
      BY <1>2, ProductSplit
    <2>2. /\ k \in 1..Len(e) /\ Kind(e, k) \in Multiplicative
          /\ Kind(e, k) \notin {"POWER", "PERCENT"}
          /\ Kind(e, k) = e[k].kind /\ k \in (i + 1)..j /\ k \in 1..(Len(e) + 1)
          /\ k + 1 \in 1..(Len(e) + 1)
          /\ e[k].kind \in InfixKinds /\ (k - 1) + 1 = k /\ k - 1 \in 0..Len(e)
          /\ Grammatical(e, i, k - 1) /\ Grammatical(e, k + 1, j)
      BY <1>0, <2>1, KindIs, KindsApart DEF InfixKinds, ProductForm, UnaryForm
    <2> DEFINE l == Mean(e, i, k - 1)
               r == Mean(e, k + 1, j)
               v == Operate(e[k].kind, l.value, r.value)
               right == PRead(e, "unary", k + 1, d, l.value)
               w == Operate(e[k].kind, l.value, right.value)
               next == PRead(e, "product", k, d, l.value)
               at == j + 1
    <2>3. /\ l \in Meanings /\ l.grammatical /\ l.value \in Fractions
          /\ r \in Meanings /\ r.grammatical /\ r.value \in Fractions
      BY <1>0, <2>2, PieceIs
    <2>4. v \in Outcomes
      <3> HIDE DEF l, r
      <3> QED BY <2>2, <2>3, OperateIs
    <2>5. JoinOf(m, l, r, v)
      <3>1. m = Binary(l, r, v)
        BY <2>1, <2>2, ProductJoin
      <3> HIDE DEF m, l, r, v
      <3> QED BY <2>3, <2>4, <3>1 DEF JoinOf
    <2>6. Balanced(e, i, k - 1)
      BY <1>0, <2>2, BalancedIs
    <2>7. Shallow(e, i, k - 1, d) /\ Shallow(e, k + 1, j, d)
      BY <2>2, <2>6, ShallowAcross
    <2>8. Bears(l, all, next)
      <3>1. ComputesProduct(e, i, k - 1, d, x)
        BY ShorterFaithfulIs DEF Faithful
      <3> QED BY <2>1, <2>2, <2>7, <3>1 DEF ComputesProduct
    <2>9. Bears(r, right, Took(Value(r.value), at))
      <3>1. ComputesUnary(e, k + 1, j, d, l.value)
        BY <2>3, ShorterFaithfulIs DEF Faithful
      <3> QED BY <2>1, <2>7, <3>1 DEF ComputesUnary
    <2>10. next = IF right.code # "ok" THEN right ELSE Goes(e, "product", w, right.at, d)
      <3> DEFINE c == k + 1
                 z == l.value
      <3>1. /\ c = k + 1 /\ right = PRead(e, "unary", c, d, z)
            /\ w = Operate(Kind(e, k), z, right.value)
            /\ next = PRead(e, "product", k, d, z) /\ z \in Fractions
        BY <2>2, <2>3
      <3> HIDE DEF c, z, right, w, next
      <3>2. Place(e, k, d, z)
        BY <2>2, <3>1 DEF Place
      <3>3. PRead(e, "product", k, d, z) =
              IF Kind(e, k) \notin Multiplicative THEN Took(Value(z), k)
              ELSE IF right.code # "ok" THEN right
              ELSE Goes(e, "product", Operate(Kind(e, k), z, right.value), right.at, d)
        BY <3>1, <3>2, PProduct
      <3> QED BY <2>2, <3>1, <3>3
    <2>11. right.value = r.value => w = v
      OBVIOUS
    <2> HIDE DEF m, l, r, v, right, w, next, all, at
    <2>12. Bears(m, all, PRead(e, "product", at, d, m.value))
      BY <2>5, <2>8, <2>9, <2>10, <2>11, JoinGoes
    <2> QED BY <2>12 DEF m, all, at
  <1> QED BY <1>1, <1>2

LEMMA SignComputes ==
  ASSUME NEW e \in Seq(Lexemes), NEW i \in 1..Len(e), NEW j \in 1..Len(e), i <= j,
         ShorterFaithful(e, i, j),
         NEW d \in 0..MaxNesting, NEW x \in Fractions, Shallow(e, i, j, d), UnaryForm(e, i, j),
         Kind(e, j + 1) \notin {"POWER", "PERCENT"}, e[i].kind \in Additive
  PROVE  Bears(Mean(e, i, j), PRead(e, "unary", i, d, x), Took(Value(Mean(e, i, j).value), j + 1))
  <1>0. /\ i \in 1..(Len(e) + 1) /\ j \in 0..Len(e) /\ i + 1 \in 1..(Len(e) + 1)
        /\ Kind(e, i) = e[i].kind /\ Place(e, i, d, x)
    BY KindIs DEF Place
  <1>1. i < j /\ UnaryForm(e, i + 1, j)
    BY SignSplit
  <1> DEFINE m == Mean(e, i, j)
             l == Mean(e, i + 1, j)
             v == Signed(e[i].kind, l.value)
             operand == PRead(e, "unary", i + 1, d, x)
             w == Bounded(Minus(Integer(0), operand.value))
             base == PRead(e, "power", i, d, x)
             all == PRead(e, "unary", i, d, x)
             plus == e[i].kind = "PLUS"
             at == j + 1
  <1>2. l \in Meanings /\ l.grammatical /\ l.value \in Fractions
    BY <1>0, <1>1, PieceIs DEF UnaryForm
  <1>3. ChangeOf(m, l, v)
    <2>1. m = Unary(l, v)
      BY <1>1, SignJoin
    <2>2. v \in Outcomes
      <3> HIDE DEF l
      <3> QED BY <1>2, SignedIs
    <2> HIDE DEF m, l, v
    <2> QED BY <1>2, <2>1, <2>2 DEF ChangeOf
  <1>4. Shallow(e, i + 1, j, d)
    BY <1>1, ShallowSigned
  <1>5. Bears(l, operand, Took(Value(l.value), at))
    <2>1. ComputesUnary(e, i + 1, j, d, x)
      BY ShorterFaithfulIs DEF Faithful
    <2> QED BY <1>1, <1>4, <2>1 DEF ComputesUnary
  <1>6. all = IF operand.code # "ok" \/ plus THEN operand ELSE Took(w, operand.at)
    <2> DEFINE c == i + 1
    <2>1. c = i + 1 /\ operand = PRead(e, "unary", c, d, x) /\ base = PRead(e, "power", i, d, x)
      OBVIOUS
    <2> HIDE DEF c, operand, base, all
    <2>2. PRead(e, "unary", i, d, x) =
           IF Kind(e, i) \notin Additive THEN Goes(e, "percent", base, base.at, d)
           ELSE IF operand.code # "ok" \/ Kind(e, i) = "PLUS" THEN operand
           ELSE Took(Bounded(Minus(Integer(0), operand.value)), operand.at)
      BY <1>0, <2>1, PUnary
    <2> QED BY <1>0, <2>2 DEF all
  <1>7. ASSUME ~plus, operand.value = l.value PROVE w = v
    BY <1>7 DEF Signed
  <1>8. plus => v = Value(l.value)
    BY DEF Signed
  <1> DEFINE u == IF plus THEN v ELSE w
  <1>9. all = IF operand.code # "ok" \/ plus THEN operand ELSE Took(u, operand.at)
    <2> HIDE DEF all, operand, v, w, plus
    <2> QED BY <1>6
  <1>10. operand.value = l.value => u = v
    <2> HIDE DEF operand, v, w, plus, l
    <2> QED BY <1>7
  <1> HIDE DEF m, l, v, operand, w, all, plus, at, u
  <1>11. Bears(m, all, Took(Value(m.value), at))
    BY <1>3, <1>5, <1>8, <1>9, <1>10, SignBears
  <1> QED BY <1>11 DEF m, all, at

LEMMA PowerComputes ==
  ASSUME NEW e \in Seq(Lexemes), NEW i \in 1..Len(e), NEW j \in 1..Len(e), i <= j,
         ShorterFaithful(e, i, j),
         NEW d \in 0..MaxNesting, NEW x \in Fractions, Shallow(e, i, j, d), PostfixForm(e, i, j),
         Powers(e, i, j) # {},
         Kind(e, j + 1) \notin {"POWER", "PERCENT"}
  PROVE  Bears(Mean(e, i, j), PRead(e, "power", i, d, x), Took(Value(Mean(e, i, j).value), j + 1))
  <1>0. i \in 1..(Len(e) + 1) /\ j \in 0..Len(e)
    BY KindIs
  <1>1. PICK k \in (i + 1)..(j - 1) :
          e[k].kind = "POWER" /\ BaseForm(e, i, k - 1) /\ UnaryForm(e, k + 1, j)
    BY PowerSplit
  <1>2. /\ k \in 1..Len(e) /\ Kind(e, k) = "POWER" /\ k \in (i + 1)..j /\ k + 1 \in 1..(Len(e) + 1)
        /\ e[k].kind \in InfixKinds /\ (k - 1) + 1 = k /\ k - 1 \in 0..Len(e)
        /\ Grammatical(e, i, k - 1) /\ Grammatical(e, k + 1, j)
    BY <1>0, <1>1, KindIs DEF InfixKinds, BaseForm, PostfixForm, UnaryForm
  <1> DEFINE m == Mean(e, i, j)
             l == Mean(e, i, k - 1)
             r == Mean(e, k + 1, j)
             v == Power(l.value, r.value)
             right == PRead(e, "unary", k + 1, d, x)
             w == Power(l.value, right.value)
             all == PRead(e, "power", i, d, x)
             next == Raises(e, Took(Value(l.value), k), d, x)
             at == j + 1
  <1>3. /\ l \in Meanings /\ l.grammatical /\ l.value \in Fractions
        /\ r \in Meanings /\ r.grammatical /\ r.value \in Fractions
    BY <1>0, <1>2, PieceIs
  <1>4. JoinOf(m, l, r, v)
    <2>1. m = Binary(l, r, v)
      BY <1>1, <1>2, PowerJoin
    <2>2. v \in Outcomes
      <3> HIDE DEF l, r
      <3> QED BY <1>3, PowerIs
    <2> HIDE DEF m, l, r, v
    <2> QED BY <1>3, <2>1, <2>2 DEF JoinOf
  <1>5. Shallow(e, i, k - 1, d) /\ Shallow(e, k + 1, j, d)
    <2>1. Balanced(e, i, k - 1)
      BY <1>0, <1>2, BalancedIs
    <2> QED BY <1>2, <2>1, ShallowAcross
  <1>6. Bears(l, all, next)
    <2>1. ComputesBase(e, i, k - 1, d, x)
      BY ShorterFaithfulIs DEF Faithful
    <2> QED BY <1>1, <1>2, <1>5, <2>1 DEF ComputesBase
  <1>7. Bears(r, right, Took(Value(r.value), at))
    <2>1. ComputesUnary(e, k + 1, j, d, x)
      BY ShorterFaithfulIs DEF Faithful
    <2> QED BY <1>1, <1>5, <2>1 DEF ComputesUnary
  <1>8. next = IF right.code # "ok" THEN right ELSE Took(w, right.at)
    <2> DEFINE b == Took(Value(l.value), k)
    <2>1. b.code = "ok" /\ b.value = l.value /\ b.at = k
      BY TookValue
    <2> HIDE DEF b, l
    <2>2. Raises(e, b, d, x) = IF right.code # "ok" THEN right ELSE Took(w, right.at)
      BY <1>2, <2>1 DEF Raises
    <2> QED BY <2>2 DEF b
  <1>9. right.value = r.value => w = v
    OBVIOUS
  <1> HIDE DEF m, l, r, v, right, w, next, all, at
  <1>10. Bears(m, all, Took(Value(m.value), at))
    BY <1>4, <1>6, <1>7, <1>8, <1>9, JoinStops
  <1> QED BY <1>10 DEF m, all, at

LEMMA UnaryComputes ==
  ASSUME NEW e \in Seq(Lexemes), NEW i \in 1..Len(e), NEW j \in 1..Len(e), i <= j,
         ShorterFaithful(e, i, j),
         NEW d \in 0..MaxNesting, NEW x \in Fractions, ComputesPercent(e, i, j, d, x)
  PROVE  ComputesUnary(e, i, j, d, x)
  <1> SUFFICES ASSUME Shallow(e, i, j, d), UnaryForm(e, i, j),
                      Kind(e, j + 1) \notin {"POWER", "PERCENT"}
               PROVE  Bears(Mean(e, i, j), PRead(e, "unary", i, d, x),
                        Took(Value(Mean(e, i, j).value), j + 1))
    BY DEF ComputesUnary
  <1> DEFINE m == Mean(e, i, j)
             y == m.value
             all == PRead(e, "unary", i, d, x)
             at == j + 1
  <1>0. /\ i \in 1..(Len(e) + 1) /\ at \in 1..(Len(e) + 1) /\ j \in 0..Len(e) /\ Place(e, i, d, x)
        /\ Kind(e, i) = e[i].kind
    BY KindIs DEF Place
  <1>1. y \in Fractions /\ "ok" \notin m.errors
    BY <1>0, PieceIs DEF UnaryForm
  <1>2. PRead(e, "percent", at, d, y) = Took(Value(y), at)
    <2>1. Place(e, at, d, y)
      BY <1>0, <1>1 DEF Place
    <2> HIDE DEF y
    <2> QED BY <2>1, RestStops
  <1>3. CASE e[i].kind \in Additive
    BY <1>3, SignComputes
  <1>4. CASE e[i].kind \notin Additive /\ Powers(e, i, j) = {}
    <2>1. PostfixForm(e, i, j)
      BY <1>4 DEF PostfixForm
    <2> QED BY <1>2, <1>4, <2>1 DEF ComputesPercent
  <1>5. CASE e[i].kind \notin Additive /\ Powers(e, i, j) # {}
    <2> DEFINE base == PRead(e, "power", i, d, x)
               c == i + 1
               operand == PRead(e, "unary", c, d, x)
    <2>1. Bears(m, base, Took(Value(y), at))
      BY <1>5, PowerComputes DEF PostfixForm
    <2>2. all = Goes(e, "percent", base, base.at, d)
      <3>1. c = i + 1 /\ operand = PRead(e, "unary", c, d, x) /\ base = PRead(e, "power", i, d, x)
        OBVIOUS
      <3> HIDE DEF c, operand, base, all
      <3>2. PRead(e, "unary", i, d, x) =
             IF Kind(e, i) \notin Additive THEN Goes(e, "percent", base, base.at, d)
             ELSE IF operand.code # "ok" \/ Kind(e, i) = "PLUS" THEN operand
             ELSE Took(Bounded(Minus(Integer(0), operand.value)), operand.at)
        BY <1>0, <3>1, PUnary
      <3> QED BY <1>0, <1>5, <3>2 DEF all
    <2> HIDE DEF base, all, m, at
    <2>3. Bears(m, Goes(e, "percent", base, base.at, d), PRead(e, "percent", at, d, m.value))
      BY <1>1, <2>1, CarriedOn
    <2> QED BY <1>2, <2>2, <2>3 DEF m, all, at
  <1> QED BY <1>3, <1>4, <1>5

LEMMA PercentComputes ==
  ASSUME NEW e \in Seq(Lexemes), NEW i \in 1..Len(e), NEW j \in 1..Len(e), i <= j,
         ShorterFaithful(e, i, j),
         NEW d \in 0..MaxNesting, NEW x \in Fractions, ComputesBase(e, i, j, d, x)
  PROVE  ComputesPercent(e, i, j, d, x)
  <1> SUFFICES ASSUME Shallow(e, i, j, d), PostfixForm(e, i, j), Powers(e, i, j) = {},
                      Kind(e, j + 1) # "POWER"
               PROVE  Bears(Mean(e, i, j), PRead(e, "unary", i, d, x),
                        PRead(e, "percent", j + 1, d, Mean(e, i, j).value))
    BY DEF ComputesPercent
  <1> DEFINE m == Mean(e, i, j)
             all == PRead(e, "unary", i, d, x)
             at == j + 1
  <1>0. /\ i \in 1..(Len(e) + 1) /\ j \in 1..(Len(e) + 1) /\ (j - 1) + 1 = j /\ j \in 0..Len(e)
        /\ j - 1 \in 0..Len(e)
        /\ Kind(e, i) = e[i].kind /\ Kind(e, j) = e[j].kind /\ Place(e, i, d, x)
    BY KindIs DEF Place
  <1>1. CASE e[j].kind = "PERCENT"
    <2> DEFINE l == Mean(e, i, j - 1)
               z == l.value
               v == Percent(z)
               next == PRead(e, "percent", j, d, z)
    <2>1. i < j /\ PostfixForm(e, i, j - 1) /\ Powers(e, i, j - 1) = {}
      BY <1>1, PercentSplit
    <2>2. l \in Meanings /\ l.grammatical /\ z \in Fractions
      BY <1>0, <2>1, PieceIs DEF PostfixForm, UnaryForm
    <2>3. ChangeOf(m, l, v)
      <3>1. m = Unary(l, v)
        BY <1>1, <2>1, PercentJoin
      <3>2. v \in Outcomes
        <4> HIDE DEF z
        <4> QED BY <2>2, SignedIs
      <3> HIDE DEF m, l, v
      <3> QED BY <2>2, <3>1, <3>2 DEF ChangeOf
    <2>4. Bears(l, all, next)
      <3>1. ComputesPercent(e, i, j - 1, d, x)
        BY ShorterFaithfulIs DEF Faithful
      <3>2. Shallow(e, i, j - 1, d)
        BY <1>1, <2>1, ShallowPercent
      <3> QED BY <1>0, <1>1, <2>1, <3>1, <3>2 DEF ComputesPercent
    <2>5. next = Goes(e, "percent", v, at, d)
      <3>1. Place(e, j, d, z)
        BY <1>0, <2>2 DEF Place
      <3>2. at = j + 1
        OBVIOUS
      <3> HIDE DEF z, at
      <3> QED BY <1>0, <1>1, <3>1, <3>2, PPercent
    <2> HIDE DEF m, l, z, v, next, all, at
    <2>6. Bears(m, all, PRead(e, "percent", at, d, m.value))
      BY <2>3, <2>4, <2>5, PercentBears
    <2> QED BY <2>6 DEF m, all, at
  <1>2. CASE e[j].kind # "PERCENT"
    <2> DEFINE base == PRead(e, "power", i, d, x)
               c == i + 1
               operand == PRead(e, "unary", c, d, x)
               b == Took(Value(m.value), at)
    <2>1. BaseForm(e, i, j) /\ e[i].kind \notin Additive
      BY <1>2 DEF BaseForm, PostfixForm
    <2>2. Bears(m, base, Raises(e, b, d, x))
      BY <2>1 DEF ComputesBase
    <2>3. Raises(e, b, d, x) = b
      <3>1. b.at = at
        BY TookValue
      <3> HIDE DEF b
      <3> QED BY <3>1 DEF Raises
    <2>4. all = Goes(e, "percent", base, base.at, d)
      <3>1. c = i + 1 /\ operand = PRead(e, "unary", c, d, x) /\ base = PRead(e, "power", i, d, x)
        OBVIOUS
      <3> HIDE DEF c, operand, base, all
      <3>2. PRead(e, "unary", i, d, x) =
             IF Kind(e, i) \notin Additive THEN Goes(e, "percent", base, base.at, d)
             ELSE IF operand.code # "ok" \/ Kind(e, i) = "PLUS" THEN operand
             ELSE Took(Bounded(Minus(Integer(0), operand.value)), operand.at)
        BY <1>0, <3>1, PUnary
      <3> QED BY <1>0, <2>1, <3>2 DEF all
    <2>5. "ok" \notin m.errors
      BY <1>0, PieceIs DEF PostfixForm, UnaryForm
    <2> HIDE DEF base, all, m, at
    <2>6. Bears(m, Goes(e, "percent", base, base.at, d), PRead(e, "percent", at, d, m.value))
      BY <2>2, <2>3, <2>5, CarriedOn
    <2> QED BY <2>4, <2>6 DEF m, all, at
  <1> QED BY <1>1, <1>2

LEMMA NumberComputes ==
  ASSUME NEW e \in Seq(Lexemes), NEW i \in 1..Len(e), e[i].kind = "NUMBER",
         NEW d \in 0..MaxNesting, NEW x \in Fractions
  PROVE  Bears(Mean(e, i, i), PRead(e, "power", i, d, x),
           Raises(e, Took(Value(Mean(e, i, i).value), i + 1), d, x))
  <1> DEFINE m == Mean(e, i, i)
             v == Bounded(Integer(e[i].literal))
             k == i + 1
             base == Took(v, k)
             all == PRead(e, "power", i, d, x)
  <1>0. Place(e, i, d, x) /\ Kind(e, i) = "NUMBER" /\ Lexed(e)[i] = e[i]
    BY KindIs DEF Place
  <1>1. m = Known(v, {})
    BY NumberJoin
  <1>2. m.value = v.value /\ m.errors = {v.code} \ {"ok"}
    <2> HIDE DEF m, v
    <2> QED BY <1>1 DEF Known
  <1>3. all = Raises(e, base, d, x)
    <2>1. k = i + 1 /\ base = Took(Bounded(Integer(Lexed(e)[i].literal)), k)
      BY <1>0
    <2> HIDE DEF k, base, all
    <2> QED BY <1>0, <2>1, PNumber DEF all
  <1>4. base.code = v.code /\ (v.code = "ok" => base = Took(Value(v.value), k))
    <2> HIDE DEF v, k
    <2> QED BY TookValue
  <1>5. CASE v.code = "ok"
    <2>1. m.errors = {} /\ base = Took(Value(m.value), k)
      <3> HIDE DEF m, v, base, k
      <3> QED BY <1>2, <1>4, <1>5
    <2> HIDE DEF m, v, base, all
    <2> QED BY <1>3, <2>1 DEF Bears, m, all
  <1>6. CASE v.code # "ok"
    <2>1. Raises(e, base, d, x) = base
      <3> HIDE DEF base, v
      <3> QED BY <1>4, <1>6 DEF Raises
    <2> HIDE DEF m, v, base, all
    <2>2. m.errors # {} /\ all.code \in m.errors
      BY <1>2, <1>3, <1>4, <1>6, <2>1
    <2> QED BY <2>2 DEF Bears, m, all
  <1> QED BY <1>5, <1>6

LEMMA GroupComputes ==
  ASSUME NEW e \in Seq(Lexemes), NEW i \in 1..Len(e), NEW j \in 1..Len(e), i + 1 <= j - 1,
         ShorterFaithful(e, i, j),
         NEW d \in 0..MaxNesting, NEW x \in Fractions, Shallow(e, i, j, d), e[i].kind = "LPAREN",
         e[j].kind = "RPAREN",
         Grammatical(e, i + 1, j - 1), Balanced(e, i + 1, j - 1)
  PROVE  Bears(Mean(e, i, j), PRead(e, "power", i, d, x),
           Raises(e, Took(Value(Mean(e, i, j).value), j + 1), d, x))
  <1> DEFINE m == Mean(e, i, j)
             y == m.value
             k == i + 1
             c == d + 1
             at == j + 1
             inner == PRead(e, "additive", k, c, x)
             base == Took(Value(inner.value), inner.at + 1)
             all == PRead(e, "power", i, d, x)
  <1>0. /\ Place(e, i, d, x) /\ Kind(e, i) = "LPAREN" /\ Kind(e, j) = "RPAREN" /\ (j - 1) + 1 = j
        /\ k \in 1..(Len(e) + 1) /\ j - 1 \in 0..Len(e) /\ j \in 1..(Len(e) + 1) /\ i < j /\ i <= j
    BY KindIs DEF Place
  <1>1. m = Mean(e, k, j - 1)
    BY <1>0, GroupJoin
  <1>2. y \in Fractions /\ "ok" \notin m.errors
    <2>1. Mean(e, k, j - 1).value \in Fractions /\ "ok" \notin Mean(e, k, j - 1).errors
      BY <1>0, PieceIs
    <2> QED BY <1>1, <2>1
  <1>3. d # MaxNesting /\ Shallow(e, k, j - 1, c)
    BY ShallowGroup
  <1>4. c \in 0..MaxNesting
    BY <1>3, CalculatorAssumption
  <1>5. Bears(m, inner, PRead(e, "sum", j, c, y))
    <2>1. ComputesSum(e, k, j - 1, c, x)
      BY <1>0, <1>4, ShorterFaithfulIs DEF Faithful
    <2>2. Kind(e, (j - 1) + 1) \notin Multiplicative \cup {"POWER", "PERCENT"}
      BY <1>0, KindsApart
    <2>3. Bears(Mean(e, k, j - 1), inner, PRead(e, "sum", (j - 1) + 1, c, Mean(e, k, j - 1).value))
      BY <1>3, <2>1, <2>2 DEF ComputesSum
    <2> HIDE DEF m, inner
    <2> QED BY <1>0, <1>1, <2>3
  <1>6. PRead(e, "sum", j, c, y) = Took(Value(y), j)
    <2>1. Place(e, j, c, y) /\ Kind(e, j) \notin Additive
      BY <1>0, <1>2, <1>4, KindsApart DEF Place
    <2> HIDE DEF y, c
    <2> QED BY <2>1, RestStops
  <1>7. all =
           IF inner.code # "ok" THEN inner
           ELSE IF Kind(e, inner.at) = "RPAREN" THEN Raises(e, base, d, x)
           ELSE Took(Failure("unsupported_expression"), 0)
    <2>1. /\ k = i + 1 /\ c = d + 1 /\ inner = PRead(e, "additive", k, c, x)
          /\ base = Took(Value(inner.value), inner.at + 1)
      OBVIOUS
    <2> HIDE DEF k, c, inner, base, all
    <2> QED BY <1>0, <1>3, <2>1, PGroup DEF all
  <1>8. Took(Value(y), j).code = "ok" /\ Took(Value(y), j).value = y /\ Took(Value(y), j).at = j
    BY TookValue
  <1>9. CASE m.errors = {}
    <2>1. inner = Took(Value(y), j)
      BY <1>5, <1>6, <1>9 DEF Bears
    <2>2. inner.code = "ok" /\ inner.value = y /\ inner.at = j
      <3> HIDE DEF inner, y
      <3> QED BY <1>8, <2>1
    <2>3. base = Took(Value(y), at)
      BY <2>2
    <2> HIDE DEF inner, y, base, all, m, at
    <2>4. all = Raises(e, base, d, x)
      BY <1>0, <1>7, <2>2
    <2> QED BY <1>9, <2>3, <2>4 DEF Bears, y, all, m, at
  <1>10. CASE m.errors # {}
    <2>1. inner.code \in m.errors /\ inner.code # "ok"
      BY <1>2, <1>5, <1>10 DEF Bears
    <2> HIDE DEF inner, base, all, m, at
    <2>2. all.code \in m.errors
      BY <1>7, <2>1
    <2> QED BY <1>10, <2>2 DEF Bears, all, m
  <1> QED BY <1>9, <1>10

LEMMA BaseComputes ==
  ASSUME NEW e \in Seq(Lexemes), NEW i \in 1..Len(e), NEW j \in 1..Len(e), i <= j,
         ShorterFaithful(e, i, j),
         NEW d \in 0..MaxNesting, NEW x \in Fractions
  PROVE  ComputesBase(e, i, j, d, x)
  BY BaseSplit, NumberComputes, GroupComputes DEF ComputesBase

LEMMA FaithfulIs ==
  ASSUME NEW e \in Seq(Lexemes), NEW i \in 1..(Len(e) + 1), NEW j \in 0..Len(e)
  PROVE  Faithful(e, i, j)
  <1> DEFINE N == Len(e)
             T == { p \in Pieces(e) : Faithful(e, p[1], p[2]) }
  <1>1. \A a \in 1..(N + 1), b \in 0..N : <<a, b>> \in T <=> Faithful(e, a, b)
    BY DEF Pieces
  <1> HIDE DEF T
  <1>2. ASSUME NEW a \in 1..(N + 1), NEW b \in 0..N,
               \A k \in 1..(N + 1), l \in 0..N : a <= b /\ l - k < b - a => <<k, l>> \in T
        PROVE  <<a, b>> \in T
    <2>1. CASE a <= b
      <3>1. a \in 1..N /\ b \in 1..N
        BY <2>1
      <3>2. ShorterFaithful(e, a, b)
        BY <1>1, <1>2 DEF ShorterFaithful
      <3>3. ASSUME NEW d \in 0..MaxNesting, NEW x \in Fractions
            PROVE  /\ ComputesSum(e, a, b, d, x) /\ ComputesProduct(e, a, b, d, x)
                   /\ ComputesUnary(e, a, b, d, x)
                   /\ ComputesPercent(e, a, b, d, x) /\ ComputesBase(e, a, b, d, x)
        <4>1. ComputesBase(e, a, b, d, x)
          BY <2>1, <3>1, <3>2, BaseComputes
        <4>2. ComputesPercent(e, a, b, d, x)
          BY <2>1, <3>1, <3>2, <4>1, PercentComputes
        <4>3. ComputesUnary(e, a, b, d, x)
          BY <2>1, <3>1, <3>2, <4>2, UnaryComputes
        <4>4. ComputesProduct(e, a, b, d, x)
          BY <2>1, <3>1, <3>2, <4>3, ProductComputes
        <4>5. ComputesSum(e, a, b, d, x)
          BY <2>1, <3>1, <3>2, <4>4, SumComputes
        <4> QED BY <4>1, <4>2, <4>3, <4>4, <4>5
      <3> QED BY <1>1, <3>3 DEF Faithful
    <2>2. CASE ~(a <= b)
      <3>1. Faithful(e, a, b)
        BY <2>2, NoPieceOutside
        DEF Faithful, ComputesSum, ComputesProduct, ComputesUnary, ComputesPercent, ComputesBase
      <3> QED BY <1>1, <3>1
    <2> QED BY <2>1, <2>2
  <1>3. <<i, j>> \in T
    BY <1>2, PieceInduction
  <1> QED BY <1>1, <1>3

\* The parser computes what an expression means, or reports a failure of one
\* of its parts.
THEOREM ParseIsFaithful ==
  ASSUME NEW e \in Seq(Lexemes), e # <<>>, Grammatical(e, 1, Len(e)), Shallow(e, 1, Len(e), 0)
  PROVE  IF Mean(e, 1, Len(e)).errors = {} THEN Parse(Lexed(e)) = Value(Mean(e, 1, Len(e)).value)
         ELSE Parse(Lexed(e)).code \in Mean(e, 1, Len(e)).errors
  <1> DEFINE N == Len(e)
             m == Mean(e, 1, N)
             y == m.value
             x == Integer(0)
             whole == PRead(e, "additive", 1, 0, x)
             at == N + 1
  <1>1. /\ N \in Nat /\ N # 0 /\ 1 \in 1..(N + 1) /\ N \in 0..N /\ 0 \in 0..MaxNesting
        /\ at \in 1..(N + 1) /\ x \in Fractions /\ Kind(e, at) = "EOF"
    BY KindIs, IntegerIs, CalculatorAssumption
  <1>2. y \in Fractions /\ "ok" \notin m.errors
    BY <1>1, PieceIs
  <1>3. "EOF" \notin Multiplicative \cup {"POWER", "PERCENT"} /\ "EOF" \notin Additive
    BY KindsApart
  <1>4. Bears(m, whole, PRead(e, "sum", at, 0, y))
    <2>1. ComputesSum(e, 1, N, 0, x)
      BY <1>1, FaithfulIs DEF Faithful
    <2> QED BY <1>1, <1>3, <2>1 DEF ComputesSum
  <1>5. PRead(e, "sum", at, 0, y) = Took(Value(y), at)
    <2>1. Place(e, at, 0, y)
      BY <1>1, <1>2 DEF Place
    <2> HIDE DEF y, at
    <2> QED BY <1>1, <1>3, <2>1, RestStops
  <1>6. Took(Value(y), at).code = "ok" /\ Took(Value(y), at).value = y /\ Took(Value(y), at).at = at
    BY TookValue
  <1>7. Parse(Lexed(e)) =
           IF whole.code # "ok" THEN Failure(whole.code)
           ELSE IF Kind(e, whole.at) # "EOF" THEN Failure("unsupported_expression")
           ELSE Value(whole.value)
    <2>1. whole = PRead(e, "additive", 1, 0, Integer(0))
      OBVIOUS
    <2> HIDE DEF whole
    <2> QED BY <2>1, ParseIs
  <1> HIDE DEF m, y, whole, at, x
  <1>8. CASE m.errors = {}
    <2>1. whole.code = "ok" /\ whole.value = y /\ whole.at = at
      BY <1>4, <1>5, <1>6, <1>8 DEF Bears
    <2>2. Parse(Lexed(e)) = Value(y)
      BY <1>1, <1>7, <2>1
    <2> QED BY <1>8, <2>2 DEF m, y
  <1>9. CASE m.errors # {}
    <2>1. whole.code \in m.errors /\ whole.code # "ok"
      BY <1>2, <1>4, <1>9 DEF Bears
    <2>2. Parse(Lexed(e)).code = whole.code
      BY <1>7, <2>1 DEF Failure
    <2> QED BY <1>9, <2>1, <2>2 DEF m
  <1> QED BY <1>8, <1>9

-----------------------------------------------------------------------------
(***************************************************************************)
(* What is told of an expression.                                          *)
(***************************************************************************)
\* What ToldTheTruth says of an outcome, the record of the arguments apart.
Truthful(e, v) ==
  /\ v.code = "ok" =>
       Meaning(e).grammatical /\ Meaning(e).errors = {} /\ v.value = Meaning(e).value
  /\ v.code \in {"division_by_zero", "invalid_exponent", "result_limit"} =>
       Meaning(e).grammatical /\ v.code \in Meaning(e).errors
  /\ v.code = "unsupported_expression" =>
       "BAD" \in { e[i].kind : i \in DOMAIN e } \/ ~Meaning(e).grammatical
  /\ v.code = "expression_limit" =>
       \/ "HUGE" \in { e[i].kind : i \in DOMAIN e } \/ Len(e) > MaxTokens
       \/ \E k \in DOMAIN e : Depth(e, k) > MaxNesting

LEMMA LexingIsTrue ==
  ASSUME NEW e \in Seq(Lexemes), Tokenize(e) # "ok"
  PROVE  Truthful(e, Failure(Tokenize(e)))
  <1> DEFINE bad == { i \in DOMAIN e : e[i].kind \in {"BAD", "HUGE"} }
             kinds == { e[i].kind : i \in DOMAIN e }
             c == Tokenize(e)
             first == Min(bad)
  <1>1. c = IF bad # {} THEN IF e[first].kind = "BAD" THEN "unsupported_expression" ELSE "expression_limit"
            ELSE IF Len(e) > MaxTokens THEN "expression_limit" ELSE "ok"
    BY DEF Tokenize
  <1>2. bad # {} => first \in DOMAIN e /\ e[first].kind \in {"BAD", "HUGE"} /\ e[first].kind \in kinds
    <2> SUFFICES ASSUME bad # {} PROVE first \in bad
      OBVIOUS
    <2>1. bad \in SUBSET Nat
      OBVIOUS
    <2> HIDE DEF bad
    <2> QED BY <2>1, MinIs
  <1> HIDE DEF bad, kinds, c, first
  <1>3. \/ c = "unsupported_expression" /\ "BAD" \in kinds
        \/ c = "expression_limit" /\ ("HUGE" \in kinds \/ Len(e) > MaxTokens)
    <2>1. c # "ok"
      BY DEF c
    <2> QED BY <1>1, <1>2, <2>1
  <1>4. Failure(c).code = c
    BY DEF Failure
  <1>5. Truthful(e, Failure(c))
    BY <1>3, <1>4 DEF Truthful, kinds
  <1> QED BY <1>5 DEF c

LEMMA ReadingIsTrue ==
  ASSUME NEW e \in Seq(Lexemes), e # <<>>, Grammar(Lexed(e)) # "ok"
  PROVE  Truthful(e, Failure(Grammar(Lexed(e))))
  <1> DEFINE c == Grammar(Lexed(e))
  <1>1. /\ c \in ReadCodes /\ c # "ok"
        /\ c = "unsupported_expression" => ~Meaning(e).grammatical
        /\ c = "expression_limit" => \E k \in DOMAIN e : Depth(e, k) > MaxNesting
    BY GrammarIsExact, MeaningIs DEF Grammatical, TooDeep
  <1> HIDE DEF c
  <1>2. Failure(c).code = c
    BY DEF Failure
  <1>3. Truthful(e, Failure(c))
    BY <1>1, <1>2 DEF Truthful, ReadCodes
  <1> QED BY <1>3 DEF c

LEMMA ComputingIsTrue ==
  ASSUME NEW e \in Seq(Lexemes), e # <<>>, Grammar(Lexed(e)) = "ok"
  PROVE  Truthful(e, Parse(Lexed(e)))
  <1> DEFINE v == Parse(Lexed(e))
             m == Meaning(e)
  <1>1. /\ m = Mean(e, 1, Len(e)) /\ 1 \in 1..(Len(e) + 1) /\ Len(e) \in 0..Len(e)
    BY MeaningIs
  <1>2. Grammatical(e, 1, Len(e)) /\ Shallow(e, 1, Len(e), 0)
    BY GrammarIsExact
  <1>3. IF m.errors = {} THEN v = Value(m.value) ELSE v.code \in m.errors
    BY <1>1, <1>2, ParseIsFaithful
  <1>4. m.grammatical /\ m.errors \in SUBSET (Arithmetic \ {"ok"})
    <2>1. m \in Meanings /\ m.grammatical
      BY <1>1, <1>2, PieceIs
    <2> HIDE DEF m
    <2> QED BY <2>1, MeaningParts
  <1> HIDE DEF v, m
  <1>5. \/ v.code = "ok" /\ m.errors = {} /\ v.value = m.value
        \/ v.code \in m.errors /\ v.code \in {"division_by_zero", "invalid_exponent", "result_limit"}
    BY <1>3, <1>4 DEF Value, Arithmetic
  <1>6. Truthful(e, v)
    BY <1>4, <1>5 DEF Truthful, m
  <1> QED BY <1>6 DEF v

\* evaluate_expression tells the truth of every expression: the value is the
\* one it means, and the code of a failure is a reason that it has.
THEOREM EvaluationIsTrue ==
  ASSUME NEW e \in Seq(Lexemes)
  PROVE  Truthful(e, EvaluateExpression(e))
  <1>1. EvaluateExpression(e) =
          IF e = <<>> THEN Failure("invalid_arguments")
          ELSE IF Tokenize(e) # "ok" THEN Failure(Tokenize(e))
          ELSE IF Grammar(Lexed(e)) # "ok" THEN Failure(Grammar(Lexed(e)))
          ELSE Parse(Lexed(e))
    BY DEF EvaluateExpression, Lexed
  <1>2. Truthful(e, Failure("invalid_arguments"))
    BY DEF Truthful, Failure
  <1> QED BY <1>1, <1>2, LexingIsTrue, ReadingIsTrue, ComputingIsTrue
=============================================================================
