------------------------------- MODULE Iteration -------------------------------
(***************************************************************************)
(* Induction over the naturals with sets in the place of predicates, and    *)
(* what it says of a sequence of values that is computed one from the next. *)
(* The proofs about loops of the code cite these lemmas.  Then sums and        *)
(* products.                                                                *)
(***************************************************************************)
EXTENDS Sums, TLAPS, WellFoundedInduction

\* A nonempty set of naturals has a least element.
LEMMA LeastNatural ==
  ASSUME NEW T \in SUBSET Nat, T # {}
  PROVE  \E x \in T : \A y \in T : x <= y
<1>1. \E x \in T : \A y \in T : ~(<<y, x>> \in OpToRel(<, Nat))
  <2>1. IsWellFoundedOn(OpToRel(<, Nat), Nat)
    BY NatLessThanWellFounded
  <2> QED BY <2>1, WFMin
<1>2. \A x, y \in Nat : (y < x) => <<y, x>> \in OpToRel(<, Nat)
  BY DEF OpToRel
<1>3. PICK x \in T : \A y \in T : ~(<<y, x>> \in OpToRel(<, Nat))
  BY <1>1, Zenon
<1>4. \A y \in T : ~(y < x)
  BY <1>2, <1>3, Zenon
<1> QED BY <1>4

\* A bounded set of naturals that is not empty has a greatest element.
LEMMA GreatestNatural ==
  ASSUME NEW n \in Nat, NEW T \in SUBSET (0 .. n), T # {}
  PROVE  \E x \in T : \A y \in T : y <= x
<1> DEFINE U == {z \in 0 .. n : n - z \in T}
<1>1. U \in SUBSET Nat /\ U # {}
  <2>1. PICK x \in T : TRUE
    OBVIOUS
  <2>2. n - x \in 0 .. n /\ n - (n - x) = x
    OBVIOUS
  <2>3. n - x \in U
    BY <2>2
  <2>4. U \in SUBSET Nat
    OBVIOUS
  <2> HIDE DEF U
  <2> QED BY <2>3, <2>4
<1>2. PICK z \in U : \A w \in U : z <= w
  BY <1>1, LeastNatural
<1>3. n - z \in T /\ z \in 0 .. n
  OBVIOUS
<1>4. ASSUME NEW y \in T PROVE y <= n - z
  <2>1. n - y \in 0 .. n /\ n - (n - y) = y
    OBVIOUS
  <2>2. z <= n - y
    BY <1>2, <2>1
  <2> QED BY <1>3, <2>1, <2>2
<1> QED BY <1>3, <1>4

\* A set that holds 0 and the successor of each of its elements below n holds
\* every natural up to n.
LEMMA SetInduction ==
  ASSUME NEW n \in Nat, NEW T, 0 \in T, \A d \in 0 .. n - 1 : d \in T => d + 1 \in T
  PROVE  0 .. n \subseteq T
<1> DEFINE Missing == {d \in 0 .. n : d \notin T}
<1>1. Missing = {}
  <2> SUFFICES ASSUME Missing # {}
               PROVE  FALSE
    OBVIOUS
  <2>1. Missing \in SUBSET Nat
    OBVIOUS
  <2>2. PICK d \in Missing : \A e \in Missing : d <= e
    BY <2>1, LeastNatural
  <2>3. d \in 0 .. n /\ d # 0
    OBVIOUS
  <2>4. d - 1 \in 0 .. n - 1 /\ d - 1 \notin Missing
    BY <2>2, <2>3
  <2>5. d - 1 + 1 \in T
    BY <2>4
  <2> QED BY <2>3, <2>5
<1> QED BY <1>1

\* The steps of an iteration over S, and the values it computes.  The provers
\* match these names, which they could not do with the sets of functions.
StepFcns(n, S) == [1 .. n -> [S -> S]]

IsIteration(f, n, S, x, G) ==
  /\ f \in [0 .. n -> S]
  /\ f[0] = x
  /\ \A d \in 1 .. n : f[d] = G[d][f[d - 1]]

\* The values f[0], ..., f[n], each computed from the one before it by the
\* step G[d], exist and stay in S.
LEMMA IterationExists ==
  ASSUME NEW S, NEW n \in Nat, NEW x \in S, NEW G \in StepFcns(n, S)
  PROVE  \E f : IsIteration(f, n, S, x, G)
<1> DEFINE Good(m, f) == f[0] = x /\ \A d \in 1 .. m : f[d] = G[d][f[d - 1]]
           T == {m \in 0 .. n : \E f \in [0 .. m -> S] : Good(m, f)}
<1>1. 0 \in T
  <2> DEFINE f0 == [d \in 0 .. 0 |-> x]
  <2>1. f0 \in [0 .. 0 -> S] /\ Good(0, f0) /\ 0 \in 0 .. n
    OBVIOUS
  <2> HIDE DEF Good, f0
  <2> QED BY <2>1
<1>2. ASSUME NEW m \in 0 .. n - 1, m \in T
      PROVE  m + 1 \in T
  <2>1. PICK f \in [0 .. m -> S] : Good(m, f)
    BY <1>2
  <2> DEFINE g == [d \in 0 .. m + 1 |-> IF d = m + 1 THEN G[m + 1][f[m]] ELSE f[d]]
  <2>2. m \in 0 .. m /\ m + 1 \in 1 .. n /\ m + 1 \in 0 .. n
    OBVIOUS
  <2>3. f[m] \in S /\ G[m + 1] \in [S -> S]
    BY <2>1, <2>2 DEF StepFcns
  <2>4. g \in [0 .. m + 1 -> S]
    BY <2>1, <2>3
  <2>5. g[0] = x
    BY <2>1, <2>2
  <2>6. ASSUME NEW d \in 1 .. m + 1
        PROVE  g[d] = G[d][g[d - 1]]
    <3>1. CASE d = m + 1
      BY <3>1
    <3>2. CASE d # m + 1
      <4>1. d \in 1 .. m /\ d - 1 \in 0 .. m /\ d - 1 # m + 1
        BY <3>2
      <4>2. f[d] = G[d][f[d - 1]]
        BY <2>1, <4>1
      <4>3. g[d] = f[d] /\ g[d - 1] = f[d - 1]
        BY <4>1, <3>2
      <4> QED BY <4>2, <4>3
    <3> QED BY <3>1, <3>2
  <2>7. Good(m + 1, g)
    BY <2>5, <2>6
  <2> QED BY <2>2, <2>4, <2>7
<1>3. 0 .. n \subseteq T
  <2> HIDE DEF T
  <2> QED BY <1>1, <1>2, SetInduction
<1>4. n \in T
  BY <1>3
<1>5. PICK f \in [0 .. n -> S] : Good(n, f)
  BY <1>4
<1>6. IsIteration(f, n, S, x, G)
  BY <1>5 DEF IsIteration
<1> QED BY <1>6

-----------------------------------------------------------------------------
(* Sums. *)

Partials(p, m, f) == p \in [0 .. m -> Int] /\ p[0] = 0 /\ \A s \in 1 .. m : p[s] = p[s - 1] + f[s]

\* A sum has partial sums.
LEMMA SumPartials ==
  ASSUME NEW m \in Nat, NEW f, \A s \in 1 .. m : f[s] \in Int
  PROVE  \E p : Partials(p, m, f) /\ Total(m, f) = p[m]
<1> DEFINE G == [s \in 1 .. m |-> [x \in Int |-> x + f[s]]]
           Eq(p) == p = [s \in 0 .. m |-> IF s = 0 THEN 0 ELSE p[s - 1] + f[s]]
           a == CHOOSE p : Eq(p)
<1>1. G \in StepFcns(m, Int)
  BY DEF StepFcns
<1>2. PICK p : IsIteration(p, m, Int, 0, G)
  <2> HIDE DEF G
  <2> QED BY <1>1, IterationExists
<1>3. p \in [0 .. m -> Int] /\ p[0] = 0 /\ \A s \in 1 .. m : p[s] = G[s][p[s - 1]]
  BY <1>2 DEF IsIteration
<1>4. \A s \in 1 .. m : p[s] = p[s - 1] + f[s]
  <2> TAKE s \in 1 .. m
  <2>1. s - 1 \in 0 .. m
    OBVIOUS
  <2>2. p[s - 1] \in Int
    BY <1>3, <2>1
  <2>3. G[s][p[s - 1]] = p[s - 1] + f[s]
    BY <2>2
  <2> HIDE DEF G
  <2> QED BY <1>3, <2>3
<1>5. Eq(p)
  <2>1. p = [s \in 0 .. m |-> p[s]]
    BY <1>3
  <2>2. \A s \in 0 .. m : p[s] = IF s = 0 THEN 0 ELSE p[s - 1] + f[s]
    BY <1>3, <1>4
  <2> QED BY <2>1, <2>2
<1>6. Eq(a)
  <2> HIDE DEF Eq
  <2> QED BY <1>5
<1>7. Total(m, f) = a[m]
  BY DEF Total
<1> HIDE DEF a
<1>8. DOMAIN a = 0 .. m /\ a[0] = 0 /\ \A s \in 1 .. m : a[s] = a[s - 1] + f[s]
  BY <1>6
<1>9. 0 .. m \subseteq {s \in 0 .. m : a[s] \in Int}
  <2> DEFINE T == {s \in 0 .. m : a[s] \in Int}
  <2>1. 0 \in T
    BY <1>8
  <2>2. ASSUME NEW s \in 0 .. m - 1, s \in T PROVE s + 1 \in T
    <3>1. s + 1 \in 1 .. m /\ s + 1 \in 0 .. m /\ (s + 1) - 1 = s /\ a[s] \in Int
      BY <2>2
    <3>2. a[s + 1] = a[s] + f[s + 1] /\ f[s + 1] \in Int
      BY <1>8, <3>1
    <3> QED BY <3>1, <3>2
  <2> HIDE DEF T
  <2>3. 0 .. m \subseteq T
    BY <2>1, <2>2, SetInduction
  <2> QED BY <2>3 DEF T
<1>10. a \in [0 .. m -> Int]
  <2>1. a = [s \in 0 .. m |-> a[s]]
    BY <1>6
  <2> QED BY <1>9, <2>1
<1> QED BY <1>7, <1>8, <1>10 DEF Partials

\* Adding to one term.
LEMMA SumShifted ==
  ASSUME NEW m \in Nat, NEW f, NEW g, \A s \in 1 .. m : f[s] \in Int, NEW q \in 1 .. m, NEW x \in Int,
         g[q] = f[q] + x, \A s \in 1 .. m : s # q => g[s] = f[s]
  PROVE  Total(m, g) = Total(m, f) + x
<1>1. \A s \in 1 .. m : g[s] \in Int
  OBVIOUS
<1>2. PICK p : Partials(p, m, f) /\ Total(m, f) = p[m]
  BY SumPartials
<1>3. PICK u : Partials(u, m, g) /\ Total(m, g) = u[m]
  BY <1>1, SumPartials
<1> DEFINE T == {s \in 0 .. m : u[s] = p[s] + (IF s < q THEN 0 ELSE x)}
<1>4. 0 \in T
  BY <1>2, <1>3 DEF Partials
<1>5. ASSUME NEW s \in 0 .. m - 1, s \in T PROVE s + 1 \in T
  <2>1. s + 1 \in 1 .. m /\ s + 1 \in 0 .. m /\ (s + 1) - 1 = s /\ s \in 0 .. m
    OBVIOUS
  <2>2. p[s + 1] = p[s] + f[s + 1] /\ u[s + 1] = u[s] + g[s + 1] /\ p[s] \in Int /\ u[s] \in Int
    BY <1>2, <1>3, <2>1 DEF Partials
  <2>3. u[s] = p[s] + (IF s < q THEN 0 ELSE x)
    BY <1>5
  <2>4. f[s + 1] \in Int /\ g[s + 1] = f[s + 1] + (IF s + 1 = q THEN x ELSE 0)
    BY <2>1
  <2>5. u[s + 1] = p[s + 1] + (IF s + 1 < q THEN 0 ELSE x)
    BY <2>2, <2>3, <2>4
  <2> QED BY <2>1, <2>5
<1>6. 0 .. m \subseteq T
  <2> HIDE DEF T
  <2> QED BY <1>4, <1>5, SetInduction
<1>7. u[m] = p[m] + x
  BY <1>6
<1> QED BY <1>2, <1>3, <1>7

LEMMA SumSame ==
  ASSUME NEW m \in Nat, NEW f, NEW g, \A s \in 1 .. m : f[s] \in Int, \A s \in 1 .. m : g[s] = f[s]
  PROVE  Total(m, g) = Total(m, f) /\ Total(m, f) \in Int
<1>1. PICK p : Partials(p, m, f) /\ Total(m, f) = p[m]
  BY SumPartials
<1>2. Total(m, f) \in Int
  BY <1>1 DEF Partials
<1>3. CASE m = 0
  <2>1. \A s \in 1 .. m : g[s] \in Int
    OBVIOUS
  <2>2. PICK u : Partials(u, m, g) /\ Total(m, g) = u[m]
    BY <2>1, SumPartials
  <2> QED BY <1>1, <1>2, <1>3, <2>2 DEF Partials
<1>4. CASE m # 0
  <2>1. 1 \in 1 .. m /\ g[1] = f[1] + 0
    BY <1>4
  <2>2. Total(m, g) = Total(m, f) + 0
    BY <2>1, SumShifted
  <2> QED BY <1>2, <2>2
<1> QED BY <1>3, <1>4

\* A sum of naturals is not below any of them, and zero only if they all are.
LEMMA SumNatural ==
  ASSUME NEW m \in Nat, NEW f, \A s \in 1 .. m : f[s] \in Nat
  PROVE  /\ Total(m, f) \in Nat
         /\ \A s \in 1 .. m : f[s] <= Total(m, f)
<1>1. PICK p : Partials(p, m, f) /\ Total(m, f) = p[m]
  BY SumPartials
<1> DEFINE P(s) == p[s] \in Nat /\ \A v \in 1 .. m : v <= s => f[v] <= p[s]
           T == {s \in 0 .. m : P(s)}
<1>2. P(0)
  BY <1>1 DEF Partials
<1>3. ASSUME NEW s \in 0 .. m - 1, P(s) PROVE P(s + 1)
  <2>1. s + 1 \in 1 .. m /\ s + 1 \in 0 .. m /\ (s + 1) - 1 = s /\ s \in 0 .. m
    OBVIOUS
  <2>2. p[s + 1] = p[s] + f[s + 1] /\ p[s] \in Nat /\ f[s + 1] \in Nat
    BY <1>1, <1>3, <2>1 DEF Partials
  <2>3. ASSUME NEW v \in 1 .. m, v <= s + 1 PROVE f[v] <= p[s + 1]
    <3>1. CASE v = s + 1
      BY <2>2, <3>1
    <3>2. CASE v # s + 1
      <4>1. v <= s /\ f[v] \in Nat
        BY <2>1, <2>3, <3>2
      <4>2. f[v] <= p[s]
        BY <1>3, <4>1
      <4> QED BY <2>2, <4>1, <4>2
    <3> QED BY <3>1, <3>2
  <2>4. p[s + 1] \in Nat
    BY <2>2
  <2> QED BY <2>3, <2>4
<1>4. 0 .. m \subseteq T
  <2> HIDE DEF P
  <2>1. 0 \in T
    BY <1>2
  <2>2. ASSUME NEW s \in 0 .. m - 1, s \in T PROVE s + 1 \in T
    <3>1. P(s) /\ s + 1 \in 0 .. m
      BY <2>2
    <3>2. P(s + 1)
      BY <1>3, <3>1
    <3> QED BY <3>1, <3>2
  <2> HIDE DEF T
  <2> QED BY <2>1, <2>2, SetInduction
<1>5. P(m)
  <2> HIDE DEF P
  <2> QED BY <1>4
<1>6. \A v \in 1 .. m : f[v] <= p[m]
  BY <1>5
<1> QED BY <1>1, <1>5, <1>6

LEMMA SumZero ==
  ASSUME NEW m \in Nat, NEW f, \A s \in 1 .. m : f[s] = 0
  PROVE  Total(m, f) = 0
<1>1. PICK p : Partials(p, m, f) /\ Total(m, f) = p[m]
  BY SumPartials
<1> DEFINE T == {s \in 0 .. m : p[s] = 0}
<1>2. 0 \in T
  BY <1>1 DEF Partials
<1>3. ASSUME NEW s \in 0 .. m - 1, s \in T PROVE s + 1 \in T
  <2>1. s + 1 \in 1 .. m /\ s + 1 \in 0 .. m /\ (s + 1) - 1 = s
    OBVIOUS
  <2>2. p[s + 1] = p[s] + f[s + 1] /\ p[s] = 0 /\ f[s + 1] = 0
    BY <1>1, <1>3, <2>1 DEF Partials
  <2> QED BY <2>1, <2>2
<1>4. 0 .. m \subseteq T
  <2> HIDE DEF T
  <2> QED BY <1>2, <1>3, SetInduction
<1> QED BY <1>1, <1>4

\* Sums are compared term by term.
LEMMA TotalMonotone ==
  ASSUME NEW m \in Nat, NEW f, NEW g, \A s \in 1 .. m : f[s] \in Int /\ g[s] \in Int /\ f[s] <= g[s]
  PROVE  Total(m, f) <= Total(m, g) /\ Total(m, f) \in Int /\ Total(m, g) \in Int
<1>1. PICK p : Partials(p, m, f) /\ Total(m, f) = p[m]
  BY SumPartials
<1>2. PICK u : Partials(u, m, g) /\ Total(m, g) = u[m]
  BY SumPartials
<1> DEFINE T == {s \in 0 .. m : p[s] <= u[s]}
<1>3. 0 \in T
  BY <1>1, <1>2 DEF Partials
<1>4. ASSUME NEW s \in 0 .. m - 1, s \in T PROVE s + 1 \in T
  <2>1. s + 1 \in 1 .. m /\ s + 1 \in 0 .. m /\ (s + 1) - 1 = s /\ s \in 0 .. m
    OBVIOUS
  <2>2. p[s + 1] = p[s] + f[s + 1] /\ u[s + 1] = u[s] + g[s + 1] /\ p[s] \in Int /\ u[s] \in Int
    BY <1>1, <1>2, <2>1 DEF Partials
  <2>3. p[s] <= u[s] /\ f[s + 1] <= g[s + 1] /\ f[s + 1] \in Int /\ g[s + 1] \in Int
    BY <1>4, <2>1
  <2> QED BY <2>1, <2>2, <2>3
<1>5. 0 .. m \subseteq T
  <2> HIDE DEF T
  <2> QED BY <1>3, <1>4, SetInduction
<1>6. p[m] <= u[m] /\ p[m] \in Int /\ u[m] \in Int
  BY <1>1, <1>2, <1>5 DEF Partials
<1> QED BY <1>1, <1>2, <1>6

\* And subtracted term by term.
LEMMA TotalDifference ==
  ASSUME NEW m \in Nat, NEW f, NEW g, NEW h,
         \A s \in 1 .. m : f[s] \in Int /\ g[s] \in Int /\ h[s] = f[s] - g[s]
  PROVE  Total(m, h) = Total(m, f) - Total(m, g)
<1>0. \A s \in 1 .. m : h[s] \in Int
  OBVIOUS
<1>1. PICK p : Partials(p, m, f) /\ Total(m, f) = p[m]
  BY SumPartials
<1>2. PICK u : Partials(u, m, g) /\ Total(m, g) = u[m]
  BY SumPartials
<1>3. PICK w : Partials(w, m, h) /\ Total(m, h) = w[m]
  BY <1>0, SumPartials
<1> DEFINE T == {s \in 0 .. m : w[s] = p[s] - u[s]}
<1>4. 0 \in T
  BY <1>1, <1>2, <1>3 DEF Partials
<1>5. ASSUME NEW s \in 0 .. m - 1, s \in T PROVE s + 1 \in T
  <2>1. s + 1 \in 1 .. m /\ s + 1 \in 0 .. m /\ (s + 1) - 1 = s /\ s \in 0 .. m
    OBVIOUS
  <2>2. /\ p[s + 1] = p[s] + f[s + 1] /\ u[s + 1] = u[s] + g[s + 1] /\ w[s + 1] = w[s] + h[s + 1]
        /\ p[s] \in Int /\ u[s] \in Int
    BY <1>1, <1>2, <1>3, <2>1 DEF Partials
  <2>3. w[s] = p[s] - u[s] /\ f[s + 1] \in Int /\ g[s + 1] \in Int /\ h[s + 1] = f[s + 1] - g[s + 1]
    BY <1>5, <2>1
  <2> QED BY <2>1, <2>2, <2>3
<1>6. 0 .. m \subseteq T
  <2> HIDE DEF T
  <2> QED BY <1>4, <1>5, SetInduction
<1>7. w[m] = p[m] - u[m]
  BY <1>6
<1> QED BY <1>1, <1>2, <1>3, <1>7
-----------------------------------------------------------------------------
(* Products. *)

Factors(p, m, f) == p \in [0 .. m -> Nat] /\ p[0] = 1 /\ \A s \in 1 .. m : p[s] = p[s - 1] * f[s]

\* A product has partial products.
LEMMA ProductFactors ==
  ASSUME NEW m \in Nat, NEW f, \A s \in 1 .. m : f[s] \in Nat
  PROVE  \E p : Factors(p, m, f) /\ ProductOf(m, f) = p[m]
<1> DEFINE G == [s \in 1 .. m |-> [x \in Nat |-> x * f[s]]]
           Eq(p) == p = [s \in 0 .. m |-> IF s = 0 THEN 1 ELSE p[s - 1] * f[s]]
           a == CHOOSE p : Eq(p)
<1>1. G \in StepFcns(m, Nat)
  <2>1. ASSUME NEW s \in 1 .. m, NEW x \in Nat PROVE x * f[s] \in Nat
    BY <2>1
  <2> QED BY <2>1 DEF StepFcns
<1>2. PICK p : IsIteration(p, m, Nat, 1, G)
  <2> HIDE DEF G
  <2> QED BY <1>1, IterationExists
<1>3. p \in [0 .. m -> Nat] /\ p[0] = 1 /\ \A s \in 1 .. m : p[s] = G[s][p[s - 1]]
  BY <1>2 DEF IsIteration
<1>4. \A s \in 1 .. m : p[s] = p[s - 1] * f[s]
  <2> TAKE s \in 1 .. m
  <2>1. s - 1 \in 0 .. m
    OBVIOUS
  <2>2. p[s - 1] \in Nat
    BY <1>3, <2>1
  <2>3. G[s][p[s - 1]] = p[s - 1] * f[s]
    BY <2>2
  <2> HIDE DEF G
  <2> QED BY <1>3, <2>3
<1>5. Eq(p)
  <2>1. p = [s \in 0 .. m |-> p[s]]
    BY <1>3
  <2>2. \A s \in 0 .. m : p[s] = IF s = 0 THEN 1 ELSE p[s - 1] * f[s]
    BY <1>3, <1>4
  <2> QED BY <2>1, <2>2
<1>6. Eq(a)
  <2> HIDE DEF Eq
  <2> QED BY <1>5
<1>7. ProductOf(m, f) = a[m]
  BY DEF ProductOf
<1> HIDE DEF a
<1>8. DOMAIN a = 0 .. m /\ a[0] = 1 /\ \A s \in 1 .. m : a[s] = a[s - 1] * f[s]
  BY <1>6
<1>9. 0 .. m \subseteq {s \in 0 .. m : a[s] \in Nat}
  <2> DEFINE T == {s \in 0 .. m : a[s] \in Nat}
  <2>1. 0 \in T
    BY <1>8
  <2>2. ASSUME NEW s \in 0 .. m - 1, s \in T PROVE s + 1 \in T
    <3>1. s + 1 \in 1 .. m /\ s + 1 \in 0 .. m /\ (s + 1) - 1 = s /\ a[s] \in Nat
      BY <2>2
    <3>2. a[s + 1] = a[s] * f[s + 1] /\ f[s + 1] \in Nat
      BY <1>8, <3>1
    <3>3. \A y, z \in Nat : y * z \in Nat
      OBVIOUS
    <3> QED BY <3>1, <3>2, <3>3
  <2> HIDE DEF T
  <2>3. 0 .. m \subseteq T
    BY <2>1, <2>2, SetInduction
  <2> QED BY <2>3 DEF T
<1>10. a \in [0 .. m -> Nat]
  <2>1. a = [s \in 0 .. m |-> a[s]]
    BY <1>6
  <2> QED BY <1>9, <2>1
<1> QED BY <1>7, <1>8, <1>10 DEF Factors

\* A product of factors that are not zero is a multiple of the last one, and not zero.
LEMMA ProductPositive ==
  ASSUME NEW m \in Nat, NEW f, \A s \in 1 .. m : f[s] \in Nat \ {0}
  PROVE  /\ ProductOf(m, f) \in Nat \ {0}
         /\ m # 0 => \E x \in Nat \ {0} : ProductOf(m, f) = x * f[m]
<1>1. PICK p : Factors(p, m, f) /\ ProductOf(m, f) = p[m]
  BY ProductFactors
<1> DEFINE T == {s \in 0 .. m : p[s] # 0}
<1>2. 0 \in T
  BY <1>1 DEF Factors
<1>3. ASSUME NEW s \in 0 .. m - 1, s \in T PROVE s + 1 \in T
  <2>1. s + 1 \in 1 .. m /\ s + 1 \in 0 .. m /\ (s + 1) - 1 = s /\ s \in 0 .. m
    OBVIOUS
  <2>2. p[s + 1] = p[s] * f[s + 1] /\ p[s] \in Nat /\ f[s + 1] \in Nat /\ f[s + 1] # 0 /\ p[s] # 0
    BY <1>1, <1>3, <2>1 DEF Factors
  <2>3. \A y, z \in Nat : y # 0 /\ z # 0 => y * z # 0
    OBVIOUS
  <2> QED BY <2>1, <2>2, <2>3
<1>4. 0 .. m \subseteq T
  <2> HIDE DEF T
  <2> QED BY <1>2, <1>3, SetInduction
<1>5. ASSUME m # 0 PROVE p[m - 1] \in Nat \ {0} /\ p[m] = p[m - 1] * f[m]
  <2>1. m - 1 \in 0 .. m /\ m \in 1 .. m
    BY <1>5
  <2> QED BY <1>1, <1>4, <2>1 DEF Factors
<1>6. p[m] \in Nat \ {0}
  BY <1>1, <1>4 DEF Factors
<1> QED BY <1>1, <1>5, <1>6

\* Products of none, of one and of two.
LEMMA SmallProducts ==
  ASSUME NEW f
  PROVE  /\ ProductOf(0, f) = 1
         /\ f[1] \in Nat => ProductOf(1, f) = f[1]
         /\ f[1] \in Nat /\ f[2] \in Nat => ProductOf(2, f) = f[1] * f[2]
<1>1. ProductOf(0, f) = 1
  <2>1. PICK p : Factors(p, 0, f) /\ ProductOf(0, f) = p[0]
    BY ProductFactors
  <2> QED BY <2>1 DEF Factors
<1>2. ASSUME f[1] \in Nat PROVE ProductOf(1, f) = f[1]
  <2>1. PICK p : Factors(p, 1, f) /\ ProductOf(1, f) = p[1]
    BY <1>2, ProductFactors
  <2> QED BY <1>2, <2>1 DEF Factors
<1>3. ASSUME f[1] \in Nat, f[2] \in Nat PROVE ProductOf(2, f) = f[1] * f[2]
  <2>1. PICK p : Factors(p, 2, f) /\ ProductOf(2, f) = p[2]
    <3>1. \A s \in 1 .. 2 : f[s] \in Nat
      BY <1>3
    <3> QED BY <3>1, ProductFactors
  <2>2. p[0] = 1 /\ p[1] = p[0] * f[1] /\ p[2] = p[1] * f[2]
    BY <2>1 DEF Factors
  <2>3. p[1] = f[1]
    BY <1>3, <2>2
  <2> QED BY <2>1, <2>2, <2>3
<1> QED BY <1>1, <1>2, <1>3
=============================================================================
