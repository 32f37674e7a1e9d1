------------------------------ MODULE Induction ------------------------------
(***************************************************************************)
(* Induction on the natural numbers for a set of them, functions defined   *)
(* step by step, for every set of values, and sums.                        *)
(***************************************************************************)
EXTENDS Integers, FiniteSetTheorems, WellFoundedInduction, TLAPS

\* Every nonempty set of natural numbers has a least member.
LEMMA LeastNatural ==
  ASSUME NEW T, T \subseteq Nat, T # {}
  PROVE  \E x \in T : \A y \in T : x <= y
  <1>1. PICK n \in T : TRUE
    OBVIOUS
  <1> DEFINE C == {0 .. k : k \in {j \in T : j <= n}}
             R == StrictSubsetOrdering(0 .. n)
  <1>2. n \in Nat
    BY <1>1
  <1>3. IsFiniteSet(0 .. n)
    BY <1>2, FS_Interval
  <1>4. IsWellFoundedOn(R, SUBSET (0 .. n))
    BY <1>3, FS_StrictSubsetOrderingWellFounded, FS_FiniteSubsetsOfFinite
  <1>5. C \subseteq SUBSET (0 .. n)
    BY <1>2
  <1>6. (0 .. n) \in C
    BY <1>2
  <1>7. PICK X \in C : \A Y \in C : ~(<<Y, X>> \in R)
    <2> HIDE DEF C, R
    <2> QED BY <1>4, <1>5, <1>6, WFMin
  <1>8. PICK x \in T : x <= n /\ X = 0 .. x
    BY <1>7
  <1>9. ASSUME NEW y \in T, ~(x <= y)
        PROVE  FALSE
    <2>1. x \in Nat /\ y \in Nat /\ y < x
      BY <1>8, <1>9
    <2>2. 0 .. y \in C
      BY <2>1, <1>8, <1>2
    <2>3. 0 .. y \subseteq X /\ X # 0 .. y
      <3>1. x \in X /\ x \notin 0 .. y
        BY <2>1, <1>8
      <3> QED BY <3>1, <2>1, <1>8
    <2>4. <<0 .. y, X>> \in R
      BY <2>2, <2>3, <1>5, <1>7 DEF StrictSubsetOrdering
    <2> QED BY <2>2, <2>4, <1>7
  <1> QED BY <1>8, <1>9

\* A set that holds 0 and with n also n + 1 holds every natural number.
LEMMA SetInduction ==
  ASSUME NEW S, 0 \in S, \A n \in Nat : n \in S => n + 1 \in S
  PROVE  \A n \in Nat : n \in S
  <1>1. SUFFICES ASSUME NEW m \in Nat, m \notin S PROVE FALSE
    OBVIOUS
  <1> DEFINE T == {n \in Nat : n \notin S}
  <1>2. PICK x \in T : \A y \in T : x <= y
    <2>1. T \subseteq Nat /\ T # {}
      BY <1>1
    <2> HIDE DEF T
    <2> QED BY <2>1, LeastNatural
  <1>3. x \in Nat /\ x # 0 /\ x \notin S
    BY <1>2
  <1>4. x - 1 \in Nat /\ x - 1 \in S
    BY <1>2, <1>3
  <1> QED BY <1>3, <1>4

\* One function on 0 .. n, step by step.
Iterates(f, x0, F, n) == f[0] = x0 /\ \A i \in 1 .. n : f[i] = F[i][f[i - 1]]

\* A function on 0 .. n exists that starts with x0 and takes the steps F.
LEMMA FiniteRecursion ==
  ASSUME NEW X, NEW x0 \in X, NEW F \in [Nat -> [X -> X]], NEW n \in Nat
  PROVE  \E f \in [0 .. n -> X] : Iterates(f, x0, F, n)
  <1> DEFINE S == {k \in Nat : \E f \in [0 .. k -> X] : Iterates(f, x0, F, k)}
  <1>1. 0 \in S
    <2>1. [i \in 0 .. 0 |-> x0] \in [0 .. 0 -> X] /\ Iterates([i \in 0 .. 0 |-> x0], x0, F, 0)
      BY DEF Iterates
    <2> QED BY <2>1
  <1>2. ASSUME NEW k \in Nat, k \in S
        PROVE  k + 1 \in S
    <2>1. PICK f \in [0 .. k -> X] : Iterates(f, x0, F, k)
      BY <1>2
    <2> DEFINE g == [i \in 0 .. k + 1 |-> IF i = k + 1 THEN F[k + 1][f[k]] ELSE f[i]]
    <2>2. F[k + 1][f[k]] \in X
      BY <2>1
    <2>3. g \in [0 .. k + 1 -> X]
      BY <2>1, <2>2
    <2>4. g[0] = x0
      BY <2>1 DEF Iterates
    <2>5. ASSUME NEW i \in 1 .. k + 1
          PROVE  g[i] = F[i][g[i - 1]]
      <3>1. CASE i = k + 1
        BY <3>1
      <3>2. CASE i \in 1 .. k
        <4>1. i - 1 \in 0 .. k /\ i \in 0 .. k /\ f[i] = F[i][f[i - 1]]
          BY <3>2, <2>1 DEF Iterates
        <4> QED BY <4>1
      <3> QED BY <3>1, <3>2
    <2> HIDE DEF g
    <2> QED BY <2>3, <2>4, <2>5 DEF Iterates
  <1> HIDE DEF S
  <1>3. n \in S
    BY <1>1, <1>2, SetInduction
  <1> QED BY <1>3 DEF S

\* Two such functions agree as far as both go.
LEMMA RecursionUnique ==
  ASSUME NEW n \in Nat, NEW m \in Nat, NEW x0, NEW F, NEW f, NEW g, n <= m,
         Iterates(f, x0, F, n), Iterates(g, x0, F, m)
  PROVE  \A i \in 0 .. n : f[i] = g[i]
  <1> DEFINE S == {k \in Nat : k <= n => f[k] = g[k]}
  <1>1. 0 \in S
    BY DEF Iterates
  <1>2. ASSUME NEW k \in Nat, k \in S
        PROVE  k + 1 \in S
    <2>1. CASE k + 1 <= n
      <3>1. k + 1 \in 1 .. n /\ k + 1 \in 1 .. m /\ k <= n /\ (k + 1) - 1 = k
        BY <2>1
      <3>2. f[k + 1] = F[k + 1][f[k]] /\ g[k + 1] = F[k + 1][g[k]]
        BY <3>1 DEF Iterates
      <3> QED BY <3>1, <3>2, <1>2
    <2> QED BY <2>1
  <1> HIDE DEF S
  <1>3. \A k \in Nat : k \in S
    BY <1>1, <1>2, SetInduction
  <1> QED BY <1>3 DEF S

\* What a loop starts with and every step keeps, it ends with.
LEMMA LoopKeeps ==
  ASSUME NEW X, NEW n \in Nat, NEW f, f[0] \in X, \A i \in 1 .. n : f[i - 1] \in X => f[i] \in X
  PROVE  \A i \in 0 .. n : f[i] \in X
  <1> DEFINE T == {i \in Nat : i <= n => f[i] \in X}
  <1>1. 0 \in T
    OBVIOUS
  <1>2. ASSUME NEW i \in Nat, i \in T PROVE i + 1 \in T
    <2>1. i + 1 <= n => i + 1 \in 1 .. n /\ (i + 1) - 1 = i /\ i <= n
      OBVIOUS
    <2> QED
      BY <1>2, <2>1
  <1> HIDE DEF T
  <1>3. \A i \in Nat : i \in T
    BY <1>1, <1>2, SetInduction
  <1> QED
    BY <1>3 DEF T

\* One function on Nat, step by step.
Recurs(f, x0, F) == f[0] = x0 /\ \A n \in Nat : f[n + 1] = F[n + 1][f[n]]

\* The same for all natural numbers: some function takes every step of F.
LEMMA Recursion ==
  ASSUME NEW X, NEW x0 \in X, NEW F \in [Nat -> [X -> X]]
  PROVE  \E f \in [Nat -> X] : Recurs(f, x0, F)
  <1> DEFINE h(n) == CHOOSE f \in [0 .. n -> X] : Iterates(f, x0, F, n)
             f == [n \in Nat |-> h(n)[n]]
  <1>1. ASSUME NEW n \in Nat
        PROVE  h(n) \in [0 .. n -> X] /\ Iterates(h(n), x0, F, n)
    BY FiniteRecursion
  <1> HIDE DEF h
  <1>2. f \in [Nat -> X]
    <2>1. ASSUME NEW n \in Nat PROVE h(n)[n] \in X
      <3>1. n \in 0 .. n
        OBVIOUS
      <3> QED BY <1>1, <3>1
    <2> QED BY <2>1
  <1>3. f[0] = x0
    BY <1>1 DEF Iterates
  <1>4. ASSUME NEW n \in Nat
        PROVE  f[n + 1] = F[n + 1][f[n]]
    <2>1. n + 1 \in Nat /\ n <= n + 1 /\ n + 1 \in 1 .. n + 1 /\ (n + 1) - 1 = n /\ n \in 0 .. n
      OBVIOUS
    <2>2. h(n + 1)[n + 1] = F[n + 1][h(n + 1)[n]]
      BY <2>1, <1>1 DEF Iterates
    <2>3. h(n)[n] = h(n + 1)[n]
      BY <2>1, <1>1, RecursionUnique
    <2> QED BY <2>1, <2>2, <2>3
  <1> HIDE DEF f
  <1> QED BY <1>2, <1>3, <1>4 DEF Recurs

\* A function that takes the same step G at every number.
LEMMA Iteration ==
  ASSUME NEW X, NEW x0 \in X, NEW G \in [X -> X]
  PROVE  \E g \in [Nat -> X] :
            /\ g = [n \in Nat |-> IF n = 0 THEN x0 ELSE G[g[n - 1]]]
            /\ g[0] = x0 /\ \A n \in Nat : g[n + 1] = G[g[n]]
  <1> DEFINE F == [n \in Nat |-> G]
  <1>1. F \in [Nat -> [X -> X]]
    OBVIOUS
  <1>2. PICK g \in [Nat -> X] : Recurs(g, x0, F)
    BY <1>1, Recursion
  <1>3. g[0] = x0 /\ \A n \in Nat : g[n + 1] = G[g[n]]
    BY <1>2 DEF Recurs
  <1>4. ASSUME NEW n \in Nat
        PROVE  g[n] = IF n = 0 THEN x0 ELSE G[g[n - 1]]
    <2>1. n # 0 => n - 1 \in Nat /\ (n - 1) + 1 = n
      OBVIOUS
    <2> QED
      BY <1>3, <2>1
  <1> QED
    BY <1>2, <1>3, <1>4

\* A growing chain of subsets of a finite set stands still once it has made as
\* many steps as the set has members.
LEMMA Saturation ==
  ASSUME NEW D, IsFiniteSet(D), NEW N \in Nat, Cardinality(D) <= N, NEW f, f[0] # {},
         \A n \in Nat : /\ f[n] \subseteq D /\ f[n] \subseteq f[n + 1]
                        /\ f[n + 1] = f[n] => f[(n + 1) + 1] = f[n + 1]
  PROVE  N - 1 \in Nat /\ f[N] = f[N - 1]
  <1>1. ASSUME NEW n \in Nat
        PROVE  /\ IsFiniteSet(f[n]) /\ Cardinality(f[n]) \in Nat
               /\ Cardinality(f[n]) <= Cardinality(D)
               /\ Cardinality(f[n]) = Cardinality(D) => f[n] = D
    BY FS_Subset, FS_CardinalityType
  <1>2. Cardinality(D) \in Nat
    BY FS_CardinalityType
  <1> DEFINE T == {n \in Nat : f[n + 1] = f[n] \/ Cardinality(f[n]) > n}
  <1>3. 0 \in T
    <2>1. Cardinality(f[0]) # 0
      BY <1>1, FS_EmptySet
    <2> QED
      BY <2>1, <1>1
  <1>4. ASSUME NEW n \in Nat, n \in T PROVE n + 1 \in T
    <2>1. CASE f[n + 1] = f[n]
      BY <2>1
    <2>2. CASE f[n + 1] # f[n]
      <3>1. f[n] \in SUBSET f[n + 1] /\ n + 1 \in Nat
        OBVIOUS
      <3>2. Cardinality(f[n]) <= Cardinality(f[n + 1]) /\ Cardinality(f[n]) # Cardinality(f[n + 1])
        BY <3>1, <2>2, <1>1, FS_Subset
      <3>3. Cardinality(f[n + 1]) > n + 1
        <4>1. Cardinality(f[n]) \in Nat /\ Cardinality(f[n + 1]) \in Nat
          BY <1>1, <3>1
        <4>2. Cardinality(f[n]) > n
          BY <1>4, <2>2
        <4> QED
          BY <4>1, <4>2, <3>2
      <3> QED
        BY <3>1, <3>3
    <2> QED
      BY <2>1, <2>2
  <1> HIDE DEF T
  <1>5. \A n \in Nat : n \in T
    BY <1>3, <1>4, SetInduction
  <1>6. N # 0
    <2>1. Cardinality(f[0]) # 0
      BY <1>1, FS_EmptySet
    <2> QED
      BY <2>1, <1>1, <1>2
  <1>7. N - 1 \in Nat /\ (N - 1) + 1 = N
    BY <1>6
  <1>8. CASE Cardinality(f[N - 1]) > N - 1
    <2>1. Cardinality(f[N - 1]) = Cardinality(D)
      BY <1>8, <1>1, <1>2, <1>7
    <2>2. f[N - 1] = D /\ f[N] \subseteq D /\ f[N - 1] \subseteq f[N]
      BY <2>1, <1>1, <1>7
    <2> QED
      BY <2>2, <1>7
  <1> QED
    BY <1>5, <1>7, <1>8 DEF T

\* The least closed set: f adds to a set of members of D what the edges E lead
\* to, as often as D has members.
LEMMA LeastClosure ==
  ASSUME NEW D, IsFiniteSet(D), NEW N \in Nat, Cardinality(D) <= N, NEW E \in [D -> SUBSET D],
         NEW f, f[0] \subseteq D,
         \A n \in Nat : f[n] \subseteq D => f[n + 1] = f[n] \cup UNION {E[a] : a \in f[n]}
  PROVE  /\ f[0] \subseteq f[N] /\ f[N] \subseteq D
         /\ \A a \in f[N] : E[a] \subseteq f[N]
         /\ \A S : f[0] \subseteq S /\ (\A a \in S \cap D : E[a] \subseteq S) => f[N] \subseteq S
  <1> DEFINE Step(S) == S \cup UNION {E[a] : a \in S}
             T == {n \in Nat : f[n] \subseteq D /\ f[0] \subseteq f[n]}
  <1>1. 0 \in T
    OBVIOUS
  <1>2. ASSUME NEW n \in Nat, n \in T PROVE n + 1 \in T
    <2>1. f[n] \subseteq D /\ f[0] \subseteq f[n] /\ f[n + 1] = Step(f[n])
      BY <1>2
    <2>2. Step(f[n]) \subseteq D /\ f[n] \subseteq Step(f[n])
      BY <2>1
    <2> QED
      BY <2>1, <2>2
  <1> HIDE DEF T
  <1>3. \A n \in Nat : n \in T
    BY <1>1, <1>2, SetInduction
  <1>4. \A n \in Nat : f[n] \subseteq D /\ f[0] \subseteq f[n] /\ f[n + 1] = Step(f[n])
    BY <1>3 DEF T
  <1> HIDE DEF Step
  <1>5. \A n \in Nat : /\ f[n] \subseteq D /\ f[n] \subseteq f[n + 1]
                       /\ f[n + 1] = f[n] => f[(n + 1) + 1] = f[n + 1]
    <2> SUFFICES ASSUME NEW n \in Nat
                 PROVE  /\ f[n] \subseteq f[n + 1]
                        /\ f[n + 1] = f[n] => f[(n + 1) + 1] = f[n + 1]
      BY <1>4
    <2>1. n + 1 \in Nat /\ f[n + 1] = Step(f[n]) /\ f[(n + 1) + 1] = Step(f[n + 1])
      BY <1>4
    <2>2. f[n] \subseteq Step(f[n])
      BY DEF Step
    <2> QED
      BY <2>1, <2>2
  <1>6. f[N + 1] = f[N]
    <2>1. CASE f[0] = {}
      <3> DEFINE U == {n \in Nat : f[n] = {}}
      <3>1. 0 \in U
        BY <2>1
      <3>2. ASSUME NEW n \in Nat, n \in U PROVE n + 1 \in U
        <4>1. f[n] = {} /\ f[n + 1] = Step(f[n])
          BY <3>2, <1>4
        <4>2. Step({}) = {}
          BY DEF Step
        <4> QED
          BY <4>1, <4>2
      <3> HIDE DEF U
      <3>3. \A n \in Nat : n \in U
        BY <3>1, <3>2, SetInduction
      <3>4. f[N] = {} /\ f[N + 1] = {}
        BY <3>3 DEF U
      <3> QED
        BY <3>4
    <2>2. CASE f[0] # {}
      <3>1. N - 1 \in Nat /\ f[N] = f[N - 1] /\ (N - 1) + 1 = N
        BY <2>2, <1>5, Saturation
      <3> QED
        BY <3>1, <1>5
    <2> QED
      BY <2>1, <2>2
  <1>7. \A a \in f[N] : E[a] \subseteq f[N]
    BY <1>4, <1>6 DEF Step
  <1>8. ASSUME NEW S, f[0] \subseteq S, \A a \in S \cap D : E[a] \subseteq S
        PROVE  f[N] \subseteq S
    <2> DEFINE V == {n \in Nat : f[n] \subseteq S}
    <2>1. 0 \in V
      BY <1>8
    <2>2. ASSUME NEW n \in Nat, n \in V PROVE n + 1 \in V
      <3>1. f[n] \subseteq S \cap D /\ f[n + 1] = Step(f[n])
        BY <2>2, <1>4
      <3> QED
        BY <3>1, <1>8 DEF Step
    <2> HIDE DEF V
    <2>3. N \in V
      BY <2>1, <2>2, SetInduction
    <2> QED
      BY <2>3 DEF V
  <1> QED
    BY <1>4, <1>7, <1>8

-----------------------------------------------------------------------------
(* Sums of numbers.                                                        *)

\* f[i] is the sum of the first i of the n weights v.
Totals(f, v, n) ==
    /\ f \in [0 .. n -> Nat]
    /\ f[0] = 0
    /\ \A i \in 1 .. n : f[i] = f[i - 1] + v[i]

\* Sums exist.
LEMMA TotalsExist ==
    ASSUME NEW n \in Nat, NEW v \in [1 .. n -> Nat]
    PROVE  \E f : Totals(f, v, n)
<1> DEFINE F == [i \in Nat |-> [x \in Nat |-> IF i \in 1 .. n THEN x + v[i] ELSE x]]
<1>1. F \in [Nat -> [Nat -> Nat]]
  OBVIOUS
<1>2. PICK f \in [0 .. n -> Nat] : Iterates(f, 0, F, n)
  <2> HIDE DEF F
  <2> QED
    BY <1>1, FiniteRecursion
<1>3. ASSUME NEW i \in 1 .. n
      PROVE  f[i] = f[i - 1] + v[i]
  <2>1. i \in Nat /\ i - 1 \in 0 .. n /\ f[i - 1] \in Nat
    BY <1>2
  <2>2. f[i] = F[i][f[i - 1]]
    BY <1>2 DEF Iterates
  <2> QED
    BY <2>1, <2>2
<1> QED
  BY <1>2, <1>3 DEF Totals, Iterates

\* A sum follows its weights.
LEMMA TotalsLess ==
    ASSUME NEW n \in Nat, NEW f, NEW g, NEW v \in [1 .. n -> Nat], NEW w \in [1 .. n -> Nat],
           Totals(f, v, n), Totals(g, w, n), \A i \in 1 .. n : v[i] <= w[i]
    PROVE  f[n] <= g[n]
<1> DEFINE S == {k \in Nat : k <= n => f[k] <= g[k]}
<1>1. 0 \in S
  BY DEF Totals
<1>2. ASSUME NEW k \in Nat, k \in S
      PROVE  k + 1 \in S
  <2>1. CASE k + 1 <= n
    <3>1. k + 1 \in 1 .. n /\ (k + 1) - 1 = k /\ k \in 0 .. n
      BY <2>1
    <3>2. f[k + 1] = f[k] + v[k + 1] /\ g[k + 1] = g[k] + w[k + 1]
      BY <3>1 DEF Totals
    <3>3. f[k] \in Nat /\ g[k] \in Nat /\ v[k + 1] \in Nat /\ w[k + 1] \in Nat
      BY <3>1 DEF Totals
    <3> QED
      BY <3>1, <3>2, <3>3, <1>2
  <2> QED
    BY <2>1
<1> HIDE DEF S
<1>3. n \in S
  BY <1>1, <1>2, SetInduction
<1> QED
  BY <1>3 DEF S

\* One weight more.
LEMMA TotalsMore ==
    ASSUME NEW n \in Nat, NEW f, NEW g, NEW v \in [1 .. n -> Nat], NEW w \in [1 .. n + 1 -> Nat],
           Totals(f, v, n), Totals(g, w, n + 1), \A i \in 1 .. n : v[i] = w[i]
    PROVE  g[n + 1] = f[n] + w[n + 1]
<1> DEFINE h == [i \in 0 .. n |-> g[i]]
           u == [i \in 1 .. n |-> w[i]]
<1>1. Totals(h, v, n)
  <2>1. h \in [0 .. n -> Nat] /\ h[0] = 0
    BY DEF Totals
  <2>2. ASSUME NEW i \in 1 .. n
        PROVE  h[i] = h[i - 1] + v[i]
    <3>1. i \in 1 .. n + 1 /\ i \in 0 .. n /\ i - 1 \in 0 .. n
      OBVIOUS
    <3>2. g[i] = g[i - 1] + w[i]
      BY <3>1 DEF Totals
    <3> QED
      BY <3>1, <3>2
  <2> HIDE DEF h
  <2> QED
    BY <2>1, <2>2 DEF Totals
<1>2. h[n] <= f[n] /\ f[n] <= h[n]
  <2>1. \A i \in 1 .. n : v[i] <= v[i]
    OBVIOUS
  <2> HIDE DEF h
  <2> QED
    BY <2>1, <1>1, TotalsLess
<1>3. h[n] = g[n] /\ f[n] \in Nat /\ g[n] \in Nat
  BY DEF Totals
<1>4. g[n + 1] = g[n] + w[n + 1]
  <2>1. n + 1 \in 1 .. n + 1 /\ (n + 1) - 1 = n
    OBVIOUS
  <2> QED
    BY <2>1 DEF Totals
<1> QED
  BY <1>2, <1>3, <1>4

\* One weight changed.
LEMMA TotalsChanged ==
    ASSUME NEW n \in Nat, NEW f, NEW g, NEW v, NEW w,
           \A i \in 1 .. n : v[i] \in Nat /\ w[i] \in Nat,
           Totals(f, v, n), Totals(g, w, n),
           NEW c \in 1 .. n, \A i \in (1 .. n) \ {c} : v[i] = w[i]
    PROVE  g[n] + v[c] = f[n] + w[c]
<1> DEFINE S == {k \in Nat : k <= n => IF k < c THEN g[k] = f[k] ELSE g[k] + v[c] = f[k] + w[c]}
<1>1. 0 \in S
  BY DEF Totals
<1>2. ASSUME NEW k \in Nat, k \in S
      PROVE  k + 1 \in S
  <2>1. CASE k + 1 <= n
    <3>1. k + 1 \in 1 .. n /\ (k + 1) - 1 = k /\ k \in 0 .. n
      BY <2>1
    <3>2. f[k + 1] = f[k] + v[k + 1] /\ g[k + 1] = g[k] + w[k + 1]
      BY <3>1 DEF Totals
    <3>3. /\ f[k] \in Nat /\ g[k] \in Nat /\ v[k + 1] \in Nat /\ w[k + 1] \in Nat
          /\ v[c] \in Nat /\ w[c] \in Nat
      BY <3>1 DEF Totals
    <3>4. k <= n => IF k < c THEN g[k] = f[k] ELSE g[k] + v[c] = f[k] + w[c]
      BY <1>2
    <3>5. CASE k + 1 = c
      <4>1. g[k] = f[k] /\ ~(k + 1 < c)
        BY <3>1, <3>4, <3>5
      <4>2. g[k + 1] + v[c] = f[k + 1] + w[c]
        BY <3>2, <3>3, <3>5, <4>1
      <4> QED
        BY <4>1, <4>2
    <3>6. CASE k + 1 < c
      <4>1. v[k + 1] = w[k + 1] /\ g[k] = f[k]
        BY <3>1, <3>4, <3>6
      <4> QED
        BY <3>2, <3>3, <3>6, <4>1
    <3>7. CASE k + 1 > c
      <4>1. v[k + 1] = w[k + 1] /\ g[k] + v[c] = f[k] + w[c] /\ ~(k + 1 < c)
        BY <3>1, <3>4, <3>7
      <4>2. g[k + 1] + v[c] = f[k + 1] + w[c]
        BY <3>2, <3>3, <4>1
      <4> QED
        BY <4>1, <4>2
    <3> QED
      BY <3>5, <3>6, <3>7
  <2> QED
    BY <2>1
<1> HIDE DEF S
<1>3. n \in S
  BY <1>1, <1>2, SetInduction
<1> QED
  BY <1>3 DEF S
=============================================================================
