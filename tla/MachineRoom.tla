---------------------------- MODULE MachineRoom ----------------------------
(***************************************************************************)
(* Proofs about the room of the machine: what the handlers allocate is     *)
(* what they reserved, whatever atoms and let groups they build            *)
(* (RoomKeptOtherwise), for every program whose expressions are scoped.    *)
(*                                                                         *)
(* The sizes that the code computes before a reservation are sums over the *)
(* expression; what is built afterwards is a list of objects.  So the      *)
(* lemmas follow the expression down to its atoms and compare, for each    *)
(* part, the words of its objects with the size computed for it.           *)
(***************************************************************************)
EXTENDS MachineProofs

-----------------------------------------------------------------------------
(* Sums.                                                                   *)

\* Total is the last of the partial sums.
LEMMA TotalOf ==
  ASSUME NEW n \in Nat, NEW s \in [1 .. n -> Nat]
  PROVE  \E f : Totals(f, s, n) /\ Total(s) = f[n] /\ Total(s) \in Nat
  <1> DEFINE Is(f) == f = [i \in 0 .. n |-> IF i = 0 THEN 0 ELSE f[i - 1] + s[i]]
             F == CHOOSE f : Is(f)
  <1>1. Len(s) = n
    <2>1. s = [i \in 1 .. n |-> s[i]]
      OBVIOUS
    <2> QED BY <2>1, ListOf
  <1>2. Total(s) = F[n]
    BY <1>1 DEF Total
  <1>3. PICK g : Totals(g, s, n)
    BY TotalsExist
  <1>4. Is(g)
    <2>1. g = [i \in 0 .. n |-> g[i]]
      BY <1>3 DEF Totals
    <2>2. ASSUME NEW i \in 0 .. n PROVE g[i] = IF i = 0 THEN 0 ELSE g[i - 1] + s[i]
      <3>1. i # 0 => i \in 1 .. n
        OBVIOUS
      <3> QED BY <1>3, <3>1 DEF Totals
    <2> QED BY <2>1, <2>2
  <1>5. Is(F)
    BY <1>4
  <1> HIDE DEF F
  <1>6. F[0] = 0 /\ DOMAIN F = 0 .. n /\ F = [i \in 0 .. n |-> F[i]]
    BY <1>5
  <1>7. \A i \in 1 .. n : F[i] = F[i - 1] + s[i]
    BY <1>5
  <1>8. \A i \in 0 .. n : F[i] \in Nat
    <2>1. \A i \in 1 .. n : F[i - 1] \in Nat => F[i] \in Nat
      BY <1>7
    <2>2. F[0] \in Nat
      BY <1>6
    <2> QED BY <2>1, <2>2, LoopKeeps
  <1>9. Totals(F, s, n) /\ F[n] \in Nat
    BY <1>6, <1>7, <1>8 DEF Totals
  <1> QED BY <1>2, <1>9

\* Larger numbers have a larger sum.
LEMMA TotalLess ==
  ASSUME NEW n \in Nat, NEW s \in [1 .. n -> Nat], NEW t \in [1 .. n -> Nat], \A i \in 1 .. n : s[i] <= t[i]
  PROVE  Total(s) <= Total(t)
  <1>1. PICK f : Totals(f, s, n) /\ Total(s) = f[n]
    BY TotalOf
  <1>2. PICK g : Totals(g, t, n) /\ Total(t) = g[n]
    BY TotalOf
  <1>3. f[n] <= g[n]
    BY <1>1, <1>2, TotalsLess
  <1> QED BY <1>1, <1>2, <1>3

LEMMA TotalMore ==
  ASSUME NEW n \in Nat, NEW s \in [1 .. n -> Nat], NEW t \in [1 .. n + 1 -> Nat],
         \A i \in 1 .. n : s[i] = t[i]
  PROVE  Total(t) = Total(s) + t[n + 1]
  <1>1. PICK f : Totals(f, s, n) /\ Total(s) = f[n]
    BY TotalOf
  <1>2. n + 1 \in Nat
    OBVIOUS
  <1>3. PICK g : Totals(g, t, n + 1) /\ Total(t) = g[n + 1]
    BY <1>2, TotalOf
  <1> QED BY <1>1, <1>3, TotalsMore

\* The sum over a list and another behind it.
LEMMA TotalJoined ==
  ASSUME NEW n \in Nat, NEW k \in Nat, NEW s \in [1 .. n -> Nat], NEW t \in [1 .. k -> Nat],
         NEW u \in [1 .. n + k -> Nat],
         \A i \in 1 .. n : u[i] = s[i], \A i \in 1 .. k : u[n + i] = t[i]
  PROVE  Total(u) = Total(s) + Total(t)
  <1>1. PICK f : Totals(f, s, n) /\ Total(s) = f[n]
    BY TotalOf
  <1>2. PICK g : Totals(g, t, k) /\ Total(t) = g[k]
    BY TotalOf
  <1>3. PICK h : Totals(h, u, n + k) /\ Total(u) = h[n + k]
    <2>1. n + k \in Nat
      OBVIOUS
    <2> QED BY <2>1, TotalOf
  <1> DEFINE S == {i \in Nat : i <= n => h[i] = f[i]}
             T == {i \in Nat : i <= k => h[n + i] = f[n] + g[i]}
  <1>4. 0 \in S
    BY <1>1, <1>3 DEF Totals
  <1>5. ASSUME NEW i \in Nat, i \in S PROVE i + 1 \in S
    <2>1. CASE i + 1 <= n
      <3>1. i + 1 \in 1 .. n /\ i + 1 \in 1 .. n + k /\ (i + 1) - 1 = i /\ i <= n
        BY <2>1
      <3>2. f[i + 1] = f[i] + s[i + 1] /\ h[i + 1] = h[i] + u[i + 1]
        BY <1>1, <1>3, <3>1 DEF Totals
      <3> QED BY <1>5, <3>1, <3>2
    <2> QED BY <2>1
  <1>6. n \in S
    <2> HIDE DEF S
    <2> QED BY <1>4, <1>5, SetInduction
  <1>7. 0 \in T
    <2>1. h[n] = f[n] /\ g[0] = 0 /\ f[n] \in Nat
      BY <1>1, <1>2, <1>6 DEF Totals
    <2> QED BY <2>1
  <1>8. ASSUME NEW i \in Nat, i \in T PROVE i + 1 \in T
    <2>1. CASE i + 1 <= k
      <3>1. /\ i + 1 \in 1 .. k /\ n + (i + 1) \in 1 .. n + k /\ (i + 1) - 1 = i /\ i <= k
            /\ (n + (i + 1)) - 1 = n + i /\ i \in 0 .. k
        BY <2>1
      <3>2. g[i + 1] = g[i] + t[i + 1] /\ h[n + (i + 1)] = h[n + i] + u[n + (i + 1)]
        BY <1>2, <1>3, <3>1 DEF Totals
      <3>3. u[n + (i + 1)] = t[i + 1] /\ t[i + 1] \in Nat /\ g[i] \in Nat /\ f[n] \in Nat
        BY <1>1, <1>2, <3>1 DEF Totals
      <3>4. h[n + i] = f[n] + g[i]
        BY <1>8, <3>1
      <3> QED BY <3>2, <3>3, <3>4
    <2> QED BY <2>1
  <1>9. k \in T
    <2> HIDE DEF T
    <2> QED BY <1>7, <1>8, SetInduction
  <1> QED BY <1>1, <1>2, <1>3, <1>9

-----------------------------------------------------------------------------
(* The words of a list of objects.                                         *)

Weights(s) == [i \in 1 .. Len(s) |-> Words(s[i])]
Size(s) == Total(Weights(s))
Sized(s) == IsList(s) /\ \A i \in 1 .. Len(s) : Words(s[i]) \in Nat

LEMMA SizeOf ==
  ASSUME NEW s, Sized(s)
  PROVE  Len(s) \in Nat /\ Weights(s) \in [1 .. Len(s) -> Nat] /\ Size(s) \in Nat
  <1>1. Len(s) \in Nat /\ Weights(s) \in [1 .. Len(s) -> Nat]
    BY ListFacts DEF Sized, Weights
  <1> QED BY <1>1, TotalOf DEF Size

LEMMA SizeEmpty == Sized(<<>>) /\ Size(<<>>) = 0
  <1>1. Sized(<<>>) /\ Len(<<>>) = 0
    BY EmptyList DEF Sized
  <1>2. Weights(<<>>) \in [1 .. 0 -> Nat]
    BY <1>1, SizeOf
  <1>3. PICK f : Totals(f, Weights(<<>>), 0) /\ Size(<<>>) = f[0]
    BY <1>2, TotalOf DEF Size
  <1> QED BY <1>1, <1>3 DEF Totals

LEMMA SizeConcat ==
  ASSUME NEW s, Sized(s), NEW t, Sized(t)
  PROVE  Sized(s \o t) /\ Size(s \o t) = Size(s) + Size(t)
  <1>1. /\ Len(s) \in Nat /\ Weights(s) \in [1 .. Len(s) -> Nat]
        /\ Len(t) \in Nat /\ Weights(t) \in [1 .. Len(t) -> Nat]
    BY SizeOf
  <1> DEFINE u == s \o t
  <1>2. /\ IsList(u) /\ Len(u) = Len(s) + Len(t)
        /\ \A i \in 1 .. Len(s) : u[i] = s[i]
        /\ \A i \in 1 .. Len(t) : u[Len(s) + i] = t[i]
        /\ \A i \in Len(s) + 1 .. Len(s) + Len(t) : u[i] = t[i - Len(s)]
    BY ListConcat DEF Sized
  <1> HIDE DEF u
  <1>3. ASSUME NEW i \in 1 .. Len(u) PROVE Words(u[i]) \in Nat
    <2>1. CASE i \in 1 .. Len(s)
      BY <2>1, <1>2 DEF Sized
    <2>2. CASE i \notin 1 .. Len(s)
      <3>1. i \in Len(s) + 1 .. Len(s) + Len(t) /\ i - Len(s) \in 1 .. Len(t)
        BY <1>1, <1>2, <2>2
      <3> QED BY <1>2, <3>1 DEF Sized
    <2> QED BY <2>1, <2>2
  <1>4. Sized(u)
    BY <1>2, <1>3 DEF Sized
  <1>5. Weights(u) \in [1 .. Len(s) + Len(t) -> Nat]
    BY <1>2, <1>4, SizeOf
  <1>6. \A i \in 1 .. Len(s) : Weights(u)[i] = Weights(s)[i]
    BY <1>1, <1>2 DEF Weights
  <1>7. \A i \in 1 .. Len(t) : Weights(u)[Len(s) + i] = Weights(t)[i]
    BY <1>1, <1>2 DEF Weights
  <1>8. Size(u) = Size(s) + Size(t)
    <2> DEFINE n == Len(s)
               k == Len(t)
               x == Weights(s)
               y == Weights(t)
               z == Weights(u)
    <2>1. /\ n \in Nat /\ k \in Nat /\ x \in [1 .. n -> Nat] /\ y \in [1 .. k -> Nat]
          /\ z \in [1 .. n + k -> Nat]
          /\ \A i \in 1 .. n : z[i] = x[i]
          /\ \A i \in 1 .. k : z[n + i] = y[i]
      BY <1>1, <1>5, <1>6, <1>7
    <2> HIDE DEF n, k, x, y, z
    <2>2. Total(z) = Total(x) + Total(y)
      BY <2>1, TotalJoined
    <2> QED BY <2>2 DEF Size, x, y, z
  <1> QED BY <1>4, <1>8 DEF u

LEMMA SizeOne ==
  ASSUME NEW o, Words(o) \in Nat
  PROVE  Sized(<<o>>) /\ Size(<<o>>) = Words(o)
  <1> DEFINE s == <<o>>
  <1>1. IsList(s) /\ Len(s) = 1 /\ s[1] = o
    BY OneList
  <1> HIDE DEF s
  <1>2. Sized(s)
    BY <1>1 DEF Sized
  <1>3. Weights(s) \in [1 .. 1 -> Nat] /\ Weights(s)[1] = Words(o)
    BY <1>1, <1>2, SizeOf DEF Weights
  <1>4. PICK f : Totals(f, Weights(s), 1) /\ Size(s) = f[1]
    BY <1>3, TotalOf DEF Size
  <1>5. f[0] = 0 /\ f[1] = f[1 - 1] + Weights(s)[1]
    BY <1>4 DEF Totals
  <1>6. Size(s) = Words(o)
    BY <1>3, <1>4, <1>5
  <1> QED BY <1>2, <1>6 DEF s

\* The objects from the (k + 1)-th on; what was allocated since v.
Behind(k, m) == [i \in 1 .. Len(m) - k |-> m[k + i]]

LEMMA BehindSize ==
  ASSUME NEW v, NEW m, IsList(v.mem), IsList(m), Len(v.mem) <= Len(m)
  PROVE  LET s == Behind(Len(v.mem), m)
         IN  /\ IsList(s) /\ Len(s) = Len(m) - Len(v.mem) /\ WordsSince(v, m) = Size(s)
             /\ \A i \in 1 .. Len(s) : s[i] = m[Len(v.mem) + i]
  <1> DEFINE k == Len(v.mem)
             n == Len(m) - k
             s == Behind(k, m)
  <1>1. n \in Nat
    BY ListFacts
  <1>2. s = [i \in 1 .. n |-> m[k + i]]
    BY DEF Behind
  <1>3. s = [i \in 1 .. n |-> s[i]] /\ \A i \in 1 .. n : s[i] = m[k + i]
    BY <1>2
  <1>w. WordsSince(v, m) = Total([i \in 1 .. n |-> Words(m[k + i])])
    BY DEF WordsSince
  <1> HIDE DEF s, n, k
  <1>4. IsList(s) /\ Len(s) = n
    BY <1>1, <1>3, ListOf
  <1>5. Weights(s) = [i \in 1 .. n |-> Words(m[k + i])]
    BY <1>3, <1>4 DEF Weights
  <1> QED BY <1>3, <1>4, <1>5, <1>w DEF Size, s, n, k

\* What is appended is what was allocated.
LEMMA SinceConcat ==
  ASSUME NEW v, NEW h, IsList(v.mem), IsList(h), Len(v.mem) <= Len(h), Sized(Behind(Len(v.mem), h)),
         NEW s, Sized(s)
  PROVE  /\ Sized(Behind(Len(v.mem), h \o s))
         /\ WordsSince(v, h \o s) = WordsSince(v, h) + Size(s)
         /\ Len(v.mem) <= Len(h \o s) /\ IsList(h \o s)
  <1> DEFINE k == Len(v.mem)
             m == h \o s
             x == Behind(k, h)
             y == Behind(k, m)
  <1>1. k \in Nat /\ Len(h) \in Nat /\ Len(s) \in Nat /\ IsList(s)
    BY ListFacts, SizeOf DEF Sized
  <1>2. /\ IsList(m) /\ Len(m) = Len(h) + Len(s)
        /\ \A i \in 1 .. Len(h) : m[i] = h[i]
        /\ \A i \in 1 .. Len(s) : m[Len(h) + i] = s[i]
    BY <1>1, ListConcat
  <1>k. k = Len(v.mem)
    OBVIOUS
  <1> HIDE DEF m, k
  <1>3. IsList(x) /\ Len(x) = Len(h) - k /\ WordsSince(v, h) = Size(x) /\ \A i \in 1 .. Len(x) : x[i] = h[k + i]
    BY <1>k, BehindSize
  <1>4. IsList(y) /\ Len(y) = Len(m) - k /\ WordsSince(v, m) = Size(y) /\ \A i \in 1 .. Len(y) : y[i] = m[k + i]
    <2>1. Len(v.mem) <= Len(m)
      BY <1>1, <1>2, <1>k
    <2>2. LET t == Behind(Len(v.mem), m)
          IN  /\ IsList(t) /\ Len(t) = Len(m) - Len(v.mem) /\ WordsSince(v, m) = Size(t)
              /\ \A i \in 1 .. Len(t) : t[i] = m[Len(v.mem) + i]
      BY <1>2, <2>1, BehindSize
    <2> QED BY <1>k, <2>2
  <1>s. Sized(x)
    BY <1>k
  <1> HIDE DEF x, y
  <1>5. /\ IsList(x \o s) /\ Len(x \o s) = Len(x) + Len(s)
        /\ \A i \in 1 .. Len(x) : (x \o s)[i] = x[i]
        /\ \A i \in Len(x) + 1 .. Len(x) + Len(s) : (x \o s)[i] = s[i - Len(x)]
    BY <1>1, <1>3, ListConcat
  <1> DEFINE z == x \o s
  <1> HIDE DEF z
  <1>6. y = z
    <2>1. Len(y) = Len(z) /\ IsList(z)
      BY <1>1, <1>2, <1>3, <1>4, <1>5, <1>k DEF z
    <2>2. ASSUME NEW i \in 1 .. Len(y) PROVE y[i] = z[i]
      <3>1. CASE i \in 1 .. Len(x)
        <4>1. k + i \in 1 .. Len(h)
          BY <1>1, <1>3, <1>k, <3>1
        <4> QED BY <1>2, <1>3, <1>4, <1>5, <2>2, <3>1, <4>1 DEF z
      <3>2. CASE i \notin 1 .. Len(x)
        <4>1. /\ i \in Len(x) + 1 .. Len(x) + Len(s) /\ i - Len(x) \in 1 .. Len(s)
              /\ Len(h) + (i - Len(x)) = k + i
          BY <1>1, <1>2, <1>3, <1>4, <1>k, <2>2, <3>2
        <4> QED BY <1>2, <1>4, <1>5, <2>2, <4>1 DEF z
      <3> QED BY <3>1, <3>2
    <2>3. y = [i \in 1 .. Len(y) |-> y[i]] /\ z = [i \in 1 .. Len(z) |-> z[i]]
      BY <1>4, <2>1, ListFacts
    <2> QED BY <2>1, <2>2, <2>3
  <1>7. Sized(z) /\ Size(z) = Size(x) + Size(s)
    BY <1>s, SizeConcat DEF z
  <1>8. Len(v.mem) <= Len(m)
    BY <1>1, <1>2, <1>k
  <1> QED BY <1>2, <1>3, <1>4, <1>6, <1>7, <1>8, <1>k DEF m, k, x, y

\* Nothing was allocated in the heap itself.
LEMMA SinceItself ==
  ASSUME NEW v, IsList(v.mem)
  PROVE  Sized(Behind(Len(v.mem), v.mem)) /\ WordsSince(v, v.mem) = 0
  <1> DEFINE s == Behind(Len(v.mem), v.mem)
  <1>1. Len(v.mem) \in Nat
    BY ListFacts
  <1>2. IsList(s) /\ Len(s) = Len(v.mem) - Len(v.mem) /\ WordsSince(v, v.mem) = Size(s)
    <2>1. Len(v.mem) <= Len(v.mem)
      BY <1>1
    <2> HIDE DEF s
    <2>2. LET t == Behind(Len(v.mem), v.mem)
          IN  IsList(t) /\ Len(t) = Len(v.mem) - Len(v.mem) /\ WordsSince(v, v.mem) = Size(t)
      BY <2>1, BehindSize
    <2> QED BY <2>2 DEF s
  <1> HIDE DEF s
  <1>3. Len(s) = 0 /\ s = [i \in 1 .. Len(s) |-> s[i]]
    BY <1>1, <1>2, ListFacts
  <1>4. s = <<>>
    BY <1>3
  <1> QED BY <1>2, <1>4, SizeEmpty DEF s

LEMMA SinceMade ==
  ASSUME NEW v, IsList(v.mem), NEW s, Sized(s)
  PROVE  WordsSince(v, v.mem \o s) = Size(s) /\ Size(s) \in Nat
  <1>1. Len(v.mem) \in Nat /\ Size(s) \in Nat
    BY ListFacts, SizeOf
  <1>2. WordsSince(v, v.mem \o s) = WordsSince(v, v.mem) + Size(s)
    BY <1>1, SinceItself, SinceConcat
  <1> QED BY <1>1, <1>2, SinceItself

LEMMA ListAppended ==
  ASSUME NEW m, IsList(m), NEW o
  PROVE  Append(m, o) = m \o <<o>>
  <1> DEFINE s == <<o>>
             x == Append(m, o)
             y == m \o s
  <1>1. IsList(s) /\ Len(s) = 1 /\ s[1] = o /\ Len(m) \in Nat
    BY OneList, ListFacts
  <1>2. /\ IsList(x) /\ Len(x) = Len(m) + 1 /\ \A i \in 1 .. Len(m) : x[i] = m[i]
        /\ x[Len(m) + 1] = o
    BY ListAppend
  <1> HIDE DEF s, x
  <1>3. /\ IsList(y) /\ Len(y) = Len(m) + Len(s)
        /\ \A i \in 1 .. Len(m) : y[i] = m[i]
        /\ \A i \in 1 .. Len(s) : y[Len(m) + i] = s[i]
    <2>1. \A t : IsList(t) => /\ IsList(m \o t) /\ Len(m \o t) = Len(m) + Len(t)
                              /\ \A i \in 1 .. Len(m) : (m \o t)[i] = m[i]
                              /\ \A i \in 1 .. Len(t) : (m \o t)[Len(m) + i] = t[i]
      BY ListConcat
    <2> QED BY <1>1, <2>1
  <1> HIDE DEF y
  <1>4. Len(y) = Len(m) + 1 /\ y[Len(m) + 1] = o
    BY <1>1, <1>3
  <1>5. ASSUME NEW i \in 1 .. Len(m) + 1 PROVE x[i] = y[i]
    <2>1. i \in 1 .. Len(m) \/ i = Len(m) + 1
      BY <1>1
    <2> QED BY <1>2, <1>3, <1>4, <2>1
  <1>6. x = [i \in 1 .. Len(m) + 1 |-> x[i]] /\ y = [i \in 1 .. Len(m) + 1 |-> y[i]]
    BY <1>2, <1>3, <1>4, ListFacts
  <1> QED BY <1>5, <1>6 DEF s, x, y

LEMMA SinceOne ==
  ASSUME NEW v, IsList(v.mem), NEW o, Words(o) \in Nat
  PROVE  WordsSince(v, Append(v.mem, o)) = Words(o)
  <1>1. Sized(<<o>>) /\ Size(<<o>>) = Words(o)
    BY SizeOne
  <1>2. WordsSince(v, v.mem \o <<o>>) = Size(<<o>>)
    BY <1>1, SinceMade
  <1>3. Append(v.mem, o) = v.mem \o <<o>>
    BY ListAppended
  <1> QED BY <1>1, <1>2, <1>3

-----------------------------------------------------------------------------
(* Atoms.                                                                  *)

\* The size of an atom, by the depth to which constructors nest.
LEMMA SizeSteps ==
  ASSUME NEW e
  PROVE  \E f : /\ \A d \in 0 .. MaxNest : f[d] = [a \in Parts(e) |-> PartSize(a, d, f[d - 1])]
                /\ AtomSize(e) = f[MaxNest][e]
  <1> DEFINE Step(i, x) == [a \in Parts(e) |-> PartSize(a, i, x)]
             x0 == Step(0, <<>>)
             Is(f, d) == f = [i \in 0 .. d |-> Step(i, f[i - 1])]
             F == CHOOSE f : Is(f, MaxNest)
             S == {k \in Nat : \E f : Is(f, k)}
  <1>0. AtomSize(e) = F[MaxNest][e]
    BY DEF AtomSize
  <1>s. \A i, x : Step(i, x) = [a \in Parts(e) |-> PartSize(a, i, x)]
    OBVIOUS
  <1>y. \A x : Step(0, x) = x0
    <2>1. \A a, x : PartSize(a, 0, x) = PartSize(a, 0, <<>>)
      <3>1. \A a : ~ Built(a, 0)
        BY DEF Built
      <3> QED BY <3>1 DEF PartSize
    <2> QED BY <2>1
  <1> HIDE DEF Step, x0
  <1>1. 0 \in S
    <2> DEFINE h == [i \in 0 .. 0 |-> x0]
    <2>2. h = [i \in 0 .. 0 |-> h[i]] /\ h[0] = x0 /\ \A i \in 0 .. 0 : i = 0
      OBVIOUS
    <2> HIDE DEF h
    <2>3. \A i \in 0 .. 0 : h[i] = Step(i, h[i - 1])
      BY <2>2, <1>y
    <2>1. Is(h, 0)
      BY <2>2, <2>3
    <2> QED BY <2>1
  <1>2. ASSUME NEW k \in Nat, k \in S PROVE k + 1 \in S
    <2>1. PICK f : Is(f, k)
      BY <1>2
    <2> DEFINE g == [i \in 0 .. k + 1 |-> IF i = k + 1 THEN Step(k + 1, f[k]) ELSE f[i]]
    <2>2. \A i \in 0 .. k : g[i] = f[i] /\ f[i] = Step(i, f[i - 1])
      BY <2>1
    <2>3. g[k + 1] = Step(k + 1, g[k])
      BY <2>2
    <2>4. g = [i \in 0 .. k + 1 |-> g[i]]
      OBVIOUS
    <2> HIDE DEF g
    <2>5. ASSUME NEW i \in 0 .. k + 1 PROVE g[i] = Step(i, g[i - 1])
      <3>1. CASE i = k + 1
        <4>1. i - 1 = k
          BY <3>1
        <4> QED BY <2>3, <3>1, <4>1
      <3>2. CASE i \in 0 .. k /\ i # 0
        <4>1. i - 1 \in 0 .. k
          BY <3>2
        <4> QED BY <2>2, <3>2, <4>1
      <3>3. CASE i = 0
        <4>1. 0 \in 0 .. k
          OBVIOUS
        <4>2. g[0] = Step(0, f[0 - 1])
          BY <2>2, <4>1
        <4> QED BY <1>y, <3>3, <4>2
      <3> QED BY <3>1, <3>2, <3>3
    <2>6. Is(g, k + 1)
      BY <2>4, <2>5
    <2> QED BY <2>6
  <1>3. MaxNest \in S
    <2> HIDE DEF S
    <2> QED BY <1>1, <1>2, SetInduction, MaxNestAssumption
  <1>4. Is(F, MaxNest)
    BY <1>3
  <1> HIDE DEF F
  <1>5. \A d \in 0 .. MaxNest : F[d] = Step(d, F[d - 1])
    BY <1>4
  <1> QED BY <1>0, <1>5, <1>s

\* The words of a thing.
LEMMA ThingWords ==
  ASSUME NEW c, NEW p
  PROVE  /\ \A k \in {"INT", "CHAR"} : Words(Thing(k, c, p)) = 2
         /\ \A k \in {"FUN", "THUNK", "BLACKHOLE", "IND", "STR"} : Words(Thing(k, c, p)) = 3
         /\ Words(Thing("CON", c, p)) = 2 + Len(p)
         /\ \A k \in {"PAP", "ENV"} : Words(Thing(k, c, p)) = 1 + Len(p)
  BY DEF Words, Thing

\* An atom without fields has no more words than its size ...
LEMMA SimpleRoom ==
  ASSUME NEW v, NEW m, NEW env, NEW a, NEW n, NEW d, NEW below, ~ Built(a, d)
  PROVE  LET r == Simple(v, m, env, a, n)
         IN  Sized(r.objs) /\ PartSize(a, d, below) \in Nat /\ Size(r.objs) <= PartSize(a, d, below)
  <1> DEFINE r == Simple(v, m, env, a, n)
             old(p) == [objs |-> <<>>, p |-> p]
             new(kind, c, ptr) == [objs |-> <<Thing(kind, c, ptr)>>, p |-> <<v.space, Len(m) + n + 1>>]
             Room(k) == Sized(r.objs) /\ Size(r.objs) \in Nat /\ Size(r.objs) <= k
             Small == {"VAR", "GLOBAL", "PRIM"}
             Boxes == {"INT", "CHAR"}
             Bare == a.k = "CON" /\ a.args = <<>>
  <1>1. ASSUME NEW p, r = old(p), NEW k \in Nat PROVE Room(k)
    <2>1. r.objs = <<>>
      BY <1>1
    <2> QED BY <2>1, SizeEmpty
  <1>2. ASSUME NEW kind, NEW c, NEW ptr, r = new(kind, c, ptr), NEW k \in Nat,
               Words(Thing(kind, c, ptr)) = k
        PROVE  Room(k)
    <2>1. r.objs = <<Thing(kind, c, ptr)>>
      BY <1>2
    <2>2. Sized(<<Thing(kind, c, ptr)>>) /\ Size(<<Thing(kind, c, ptr)>>) = k
      BY <1>2, SizeOne
    <2> QED BY <2>1, <2>2
  <1>3. CASE a.k \in Small
    <2>1. \E p : r = old(p)
      BY <1>3 DEF Simple
    <2>2. PartSize(a, d, below) = 0
      BY <1>3 DEF PartSize
    <2> HIDE DEF r
    <2>3. Room(0)
      BY <1>1, <2>1
    <2> QED BY <2>2, <2>3 DEF r
  <1>4. CASE a.k \in Boxes
    <2>1. (\E p : r = old(p)) \/ r = new(a.k, a.n, <<>>)
      BY <1>4 DEF Simple
    <2>2. PartSize(a, d, below) = 2
      BY <1>4 DEF PartSize
    <2>3. Words(Thing(a.k, a.n, <<>>)) = 2
      BY <1>4, ThingWords
    <2> HIDE DEF r
    <2>4. Room(2)
      BY <1>1, <1>2, <2>1, <2>3
    <2> QED BY <2>2, <2>4 DEF r
  <1>5. CASE Bare
    <2>1. r = old(ConObject(a.c))
      BY <1>5 DEF Simple
    <2>2. PartSize(a, d, below) = 0
      BY <1>5 DEF PartSize
    <2> HIDE DEF r
    <2>3. Room(0)
      BY <1>1, <2>1
    <2> QED BY <2>2, <2>3 DEF r
  <1>6. CASE a.k \notin Small /\ a.k \notin Boxes /\ ~ Bare
    <2>1. \/ r = new("STR", a.s, <<>>) \/ r = new("FUN", a, <<env>>) \/ r = new("THUNK", a, <<env>>)
      BY <1>6 DEF Simple
    <2>2. PartSize(a, d, below) = 3
      BY <1>6 DEF PartSize
    <2>3. /\ Words(Thing("STR", a.s, <<>>)) = 3 /\ Words(Thing("FUN", a, <<env>>)) = 3
          /\ Words(Thing("THUNK", a, <<env>>)) = 3
      BY ThingWords
    <2> HIDE DEF r
    <2>4. Room(3)
      BY <1>2, <2>1, <2>3
    <2> QED BY <2>2, <2>4 DEF r
  <1> QED BY <1>3, <1>4, <1>5, <1>6

\* ... and so has a constructor, if its fields have.
LEMMA FieldsRoom ==
  ASSUME NEW a, IsList(a.args), NEW make, NEW n \in Nat, NEW c \in [1 .. Len(a.args) -> Nat],
         \A i \in 1 .. Len(a.args) : \A k \in Nat :
            LET h == make[a.args[i]][k] IN Sized(h.objs) /\ Size(h.objs) <= c[i]
  PROVE  LET r == FieldsOf(a, n, Len(a.args), make)
         IN  /\ Sized(r.objs) /\ IsList(r.ptr) /\ Len(r.ptr) = Len(a.args)
             /\ Size(r.objs) <= Total(c)
  <1> DEFINE L == Len(a.args)
  <1>0. L \in Nat
    BY ListFacts
  <1>f. ASSUME NEW i \in 1 .. L, NEW k \in Nat
        PROVE  Sized(make[a.args[i]][k].objs) /\ Size(make[a.args[i]][k].objs) <= c[i]
    OBVIOUS
  <1>c. c \in [1 .. L -> Nat]
    OBVIOUS
  <1>l. L = Len(a.args)
    OBVIOUS
  <1> HIDE DEF L
  <1>1. PICK f : FieldLoop(a, n, L, make, f)
    BY <1>0, FieldsSteps
  <1>2. PICK t : Totals(t, c, L) /\ Total(c) = t[L]
    BY <1>0, <1>c, TotalOf
  <1> DEFINE OK(i, r) == /\ Sized(r.objs) /\ IsList(r.ptr) /\ Len(r.ptr) = i
                         /\ Size(r.objs) <= t[i]
  <1>3. OK(0, f[0])
    <2>1. f[0].objs = <<>> /\ f[0].ptr = <<>>
      BY <1>1 DEF FieldLoop, NoFields
    <2>2. t[0] = 0
      BY <1>2 DEF Totals
    <2> QED BY <2>1, <2>2, EmptyList, SizeEmpty
  <1>4. ASSUME NEW i \in 1 .. L, OK(i - 1, f[i - 1]) PROVE OK(i, f[i])
    <2> DEFINE r == f[i - 1]
               h == make[a.args[i]][n + Len(r.objs)]
    <2>1. /\ Sized(r.objs) /\ IsList(r.ptr) /\ Len(r.ptr) = i - 1 /\ Size(r.objs) <= t[i - 1]
          /\ Len(r.objs) \in Nat /\ Size(r.objs) \in Nat
      BY <1>4, SizeOf
    <2>2. f[i].objs = r.objs \o h.objs /\ f[i].ptr = Append(r.ptr, h.p)
      <3>1. f[i] = NextField(a, n, make, i, r)
        BY <1>1 DEF FieldLoop
      <3> HIDE DEF r
      <3>2. f[i] = [objs |-> r.objs \o h.objs, ptr |-> Append(r.ptr, h.p)]
        BY <3>1 DEF NextField
      <3> DEFINE x == r.objs \o h.objs
                 y == Append(r.ptr, h.p)
      <3>3. f[i] = [objs |-> x, ptr |-> y]
        BY <3>2
      <3> HIDE DEF x, y
      <3>4. f[i].objs = x /\ f[i].ptr = y
        BY <3>3
      <3> QED BY <3>4 DEF x, y
    <2>3. Sized(h.objs) /\ Size(h.objs) <= c[i] /\ Size(h.objs) \in Nat
      <3>1. n + Len(r.objs) \in Nat
        BY <2>1
      <3> QED BY <1>f, <3>1, SizeOf
    <2> HIDE DEF r, h
    <2>4. Sized(f[i].objs) /\ Size(f[i].objs) = Size(r.objs) + Size(h.objs)
      BY <2>1, <2>2, <2>3, SizeConcat
    <2>5. t[i] = t[i - 1] + c[i] /\ t[i - 1] \in Nat /\ c[i] \in Nat
      <3>1. i - 1 \in 0 .. L
        BY <1>0
      <3> QED BY <1>c, <1>2, <3>1 DEF Totals
    <2>6. IsList(f[i].ptr) /\ Len(f[i].ptr) = (i - 1) + 1
      BY <2>1, <2>2, ListAppend
    <2>7. Size(f[i].objs) <= t[i]
      BY <2>1, <2>3, <2>4, <2>5
    <2>8. Len(f[i].ptr) = i
      BY <1>0, <2>6
    <2> QED BY <2>4, <2>6, <2>7, <2>8
  <1> DEFINE T == {i \in Nat : i <= L => OK(i, f[i])}
  <1>m. \A i \in 1 .. L : OK(i - 1, f[i - 1]) => OK(i, f[i])
    BY <1>4
  <1>o. OK(L, f[L]) => /\ Sized(f[L].objs) /\ IsList(f[L].ptr) /\ Len(f[L].ptr) = L
                       /\ Size(f[L].objs) <= t[L]
    OBVIOUS
  <1> HIDE DEF OK
  <1>5. 0 \in T
    BY <1>3
  <1>6. ASSUME NEW i \in Nat, i \in T PROVE i + 1 \in T
    <2>1. i + 1 <= L => i + 1 \in 1 .. L /\ (i + 1) - 1 = i /\ i <= L
      BY <1>0
    <2> QED BY <2>1, <1>m, <1>6
  <1>7. \A i \in Nat : i \in T
    <2> HIDE DEF T
    <2> QED BY <1>5, <1>6, SetInduction
  <1>8. OK(L, f[L])
    BY <1>0, <1>7
  <1>9. FieldsOf(a, n, L, make) = f[L]
    BY <1>1 DEF FieldLoop
  <1> QED BY <1>2, <1>8, <1>9, <1>l, <1>o

LEMMA ConstructedRoom ==
  ASSUME NEW v, NEW m, NEW a, IsList(a.args), NEW make, NEW n \in Nat, NEW c \in [1 .. Len(a.args) -> Nat],
         \A i \in 1 .. Len(a.args) : \A k \in Nat :
            LET h == make[a.args[i]][k] IN Sized(h.objs) /\ Size(h.objs) <= c[i]
  PROVE  LET r == Constructed(v, m, a, n, make)
         IN  Sized(r.objs) /\ Size(r.objs) <= 2 + Len(a.args) + Total(c)
  <1> DEFINE f == FieldsOf(a, n + 1, Len(a.args), make)
             r == Constructed(v, m, a, n, make)
             o == Thing("CON", a.c, f.ptr)
  <1>1. r.objs = <<o>> \o f.objs
    BY DEF Constructed
  <1>2. /\ Sized(f.objs) /\ IsList(f.ptr) /\ Len(f.ptr) = Len(a.args)
        /\ Size(f.objs) <= Total(c)
    <2>1. n + 1 \in Nat
      OBVIOUS
    <2> QED BY <2>1, FieldsRoom
  <1>3. Len(a.args) \in Nat /\ Total(c) \in Nat
    <2>1. Len(a.args) \in Nat
      BY ListFacts
    <2> QED BY <2>1, TotalOf
  <1>4. Words(o) = 2 + Len(a.args)
    BY <1>2, ThingWords
  <1> HIDE DEF f, r, o
  <1>5. Words(o) \in Nat
    BY <1>3, <1>4
  <1>6. Sized(<<o>>) /\ Size(<<o>>) = Words(o)
    BY <1>5, SizeOne
  <1>7. Sized(<<o>> \o f.objs) /\ Size(<<o>> \o f.objs) = Size(<<o>>) + Size(f.objs)
    BY <1>2, <1>6, SizeConcat
  <1>8. Size(f.objs) \in Nat
    BY <1>2, SizeOf
  <1>9. Sized(r.objs) /\ Size(r.objs) = Words(o) + Size(f.objs)
    BY <1>1, <1>6, <1>7
  <1>10. Size(r.objs) <= 2 + Len(a.args) + Total(c)
    BY <1>2, <1>3, <1>4, <1>8, <1>9
  <1> QED BY <1>9, <1>10 DEF r

\* mem is m and objects of n words or fewer behind it.
Took(mem, m, n) == \E objs : mem = m \o objs /\ Sized(objs) /\ Size(objs) <= n

\* atom_size() is no less than what atom() takes, however deep constructors nest.
LEMMA AtomRoom ==
  ASSUME NEW pg \in Program, NEW v, NEW m, NEW e, NEW env, NEW s, <<e, s>> \in Code[pg]
  PROVE  AtomSize(e) \in Nat /\ Took(Atom(v, m, e, env).mem, m, AtomSize(e))
  <1>0. MaxNest \in Nat
    BY MaxNestAssumption
  <1>1. PICK f : /\ f[0] = AtomLevel(v, m, e, env, 0, <<>>)
                 /\ \A i \in 1 .. MaxNest : f[i] = AtomLevel(v, m, e, env, i, f[i - 1])
                 /\ Atom(v, m, e, env) = [mem |-> m \o f[MaxNest][e][0].objs, p |-> f[MaxNest][e][0].p]
    BY AtomSteps
  <1>2. PICK g : /\ \A d \in 0 .. MaxNest : g[d] = [a \in Parts(e) |-> PartSize(a, d, g[d - 1])]
                 /\ AtomSize(e) = g[MaxNest][e]
    BY SizeSteps
  <1>3. /\ \A a \in Parts(e) : <<a, s>> \in Code[pg]
        /\ \E W : /\ W[0] = {e} /\ \A d \in 0 .. MaxNest : W[d] \subseteq Parts(e)
                  /\ \A d \in 0 .. MaxNest - 1 : \A a \in W[d] : Arguments(a) \subseteq W[d + 1]
    BY AtomLevels
  <1>4. PICK W : /\ W[0] = {e} /\ \A d \in 0 .. MaxNest : W[d] \subseteq Parts(e)
                 /\ \A d \in 0 .. MaxNest - 1 : \A a \in W[d] : Arguments(a) \subseteq W[d + 1]
    BY <1>3
  <1> DEFINE OK(h, k) == Sized(h.objs) /\ k \in Nat /\ Size(h.objs) <= k
             T == {d \in Nat : d <= MaxNest =>
                      \A a \in W[MaxNest - d] : g[d][a] \in Nat /\ \A k \in Nat : OK(f[d][a][k], g[d][a])}
  <1>5. ASSUME NEW d \in 0 .. MaxNest, NEW below, f[d] = AtomLevel(v, m, e, env, d, below),
               NEW a \in W[MaxNest - d],
               d > 0 => \A b \in Arguments(a) : /\ g[d - 1][b] \in Nat
                                                /\ \A j \in Nat : OK(below[b][j], g[d - 1][b])
        PROVE  g[d][a] \in Nat /\ \A k \in Nat : OK(f[d][a][k], g[d][a])
    <2>1. MaxNest - d \in 0 .. MaxNest
      BY <1>0
    <2>2. a \in Parts(e)
      BY <1>4, <2>1
    <2>3. \A k \in Nat : f[d][a][k] = IF Built(a, d) THEN Constructed(v, m, a, k, below) ELSE Simple(v, m, env, a, k)
      BY <1>5, <2>2 DEF AtomLevel
    <2>4. g[d][a] = PartSize(a, d, g[d - 1])
      BY <1>2, <2>2
    <2>5. CASE ~ Built(a, d)
      <3>1. /\ PartSize(a, d, g[d - 1]) \in Nat
            /\ \A k : /\ Sized(Simple(v, m, env, a, k).objs)
                      /\ Size(Simple(v, m, env, a, k).objs) <= PartSize(a, d, g[d - 1])
        BY <2>5, SimpleRoom
      <3> QED BY <2>3, <2>4, <2>5, <3>1
    <2>6. CASE Built(a, d)
      <3>1. Scoped(pg, a, s)
        BY <1>3, <2>2, CodeFacts
      <3>2. a.k = "CON" /\ d > 0 /\ IsList(a.args) /\ a.args # <<>>
        BY <2>6, <3>1 DEF Built, Scoped
      <3> DEFINE c == [i \in DOMAIN a.args |-> g[d - 1][a.args[i]]]
                 n == Len(a.args)
      <3>3. n \in Nat /\ DOMAIN a.args = 1 .. n /\ \A i \in 1 .. n : a.args[i] \in Arguments(a)
        BY <3>2, ListFacts DEF Arguments, ToSet
      <3>4. c \in [1 .. n -> Nat] /\ \A i \in 1 .. n : c[i] = g[d - 1][a.args[i]]
        BY <1>5, <3>2, <3>3
      <3>5. g[d][a] = 2 + n + Total(c)
        <4>1. a.k \notin {"VAR", "GLOBAL", "PRIM"} /\ a.k \notin {"INT", "CHAR"}
              /\ ~ (a.k = "CON" /\ a.args = <<>>)
          BY <3>2
        <4> HIDE DEF c, n
        <4>2. PartSize(a, d, g[d - 1]) = 2 + Len(a.args) + Total([i \in DOMAIN a.args |-> g[d - 1][a.args[i]]])
          BY <2>6, <4>1 DEF PartSize
        <4> QED BY <2>4, <4>2 DEF c, n
      <3>6. Total(c) \in Nat
        <4> HIDE DEF c, n
        <4> QED BY <3>3, <3>4, TotalOf
      <3>7. ASSUME NEW i \in 1 .. n, NEW k \in Nat
            PROVE  LET h == below[a.args[i]][k] IN Sized(h.objs) /\ Size(h.objs) <= c[i]
        BY <1>5, <3>2, <3>3, <3>4
      <3> HIDE DEF c
      <3>8. ASSUME NEW k \in Nat
            PROVE  LET r == Constructed(v, m, a, k, below)
                   IN  Sized(r.objs) /\ Size(r.objs) <= 2 + n + Total(c)
        BY <3>2, <3>4, <3>7, ConstructedRoom
      <3>9. g[d][a] \in Nat
        BY <3>3, <3>5, <3>6
      <3> HIDE DEF n
      <3> QED BY <2>3, <2>6, <3>5, <3>8, <3>9
    <2> QED BY <2>5, <2>6
  <1> HIDE DEF OK
  <1>6. 0 \in T
    <2>1. ASSUME NEW a \in W[MaxNest - 0] PROVE g[0][a] \in Nat /\ \A k \in Nat : OK(f[0][a][k], g[0][a])
      <3>1. 0 \in 0 .. MaxNest /\ ~ (0 > 0)
        BY <1>0
      <3> QED BY <3>1, <2>1, <1>1, <1>5
    <2> QED BY <2>1
  <1>7. ASSUME NEW d \in Nat, d \in T PROVE d + 1 \in T
    <2>1. ASSUME d + 1 <= MaxNest, NEW a \in W[MaxNest - (d + 1)]
          PROVE  g[d + 1][a] \in Nat /\ \A k \in Nat : OK(f[d + 1][a][k], g[d + 1][a])
      <3>1. /\ d + 1 \in 0 .. MaxNest /\ d + 1 \in 1 .. MaxNest /\ (d + 1) - 1 = d /\ d <= MaxNest
            /\ MaxNest - (d + 1) \in 0 .. MaxNest - 1 /\ (MaxNest - (d + 1)) + 1 = MaxNest - d
        BY <1>0, <2>1
      <3>2. f[d + 1] = AtomLevel(v, m, e, env, d + 1, f[d])
        BY <1>1, <3>1
      <3>3. Arguments(a) \subseteq W[MaxNest - d]
        BY <1>4, <2>1, <3>1
      <3>4. \A b \in W[MaxNest - d] : g[d][b] \in Nat /\ \A j \in Nat : OK(f[d][b][j], g[d][b])
        BY <1>7, <3>1
      <3>5. \A b \in Arguments(a) : g[(d + 1) - 1][b] \in Nat /\ \A j \in Nat : OK(f[d][b][j], g[(d + 1) - 1][b])
        BY <3>1, <3>3, <3>4
      <3> QED BY <3>1, <3>2, <3>5, <2>1, <1>5
    <2> QED BY <2>1
  <1>8. \A d \in Nat : d \in T
    <2> HIDE DEF T
    <2> QED BY <1>6, <1>7, SetInduction
  <1>9. g[MaxNest][e] \in Nat /\ OK(f[MaxNest][e][0], g[MaxNest][e])
    <2>1. MaxNest - MaxNest = 0 /\ e \in W[0]
      BY <1>0, <1>4
    <2> QED BY <1>0, <1>8, <2>1
  <1> DEFINE objs == f[MaxNest][e][0].objs
             r == Atom(v, m, e, env)
  <1>10. r.mem = m \o objs
    BY <1>1
  <1>11. Sized(objs) /\ Size(objs) <= AtomSize(e) /\ AtomSize(e) \in Nat
    BY <1>2, <1>9 DEF OK
  <1> HIDE DEF objs, r
  <1>12. Took(r.mem, m, AtomSize(e))
    BY <1>10, <1>11 DEF Took
  <1> QED BY <1>11, <1>12 DEF r

-----------------------------------------------------------------------------
(* Let groups.                                                             *)

\* Heaps whose objects have the same words take the same room.
LEMMA SinceAlike ==
  ASSUME NEW v, IsList(v.mem), NEW h, IsList(h), NEW g, IsList(g), Len(g) = Len(h),
         Len(v.mem) <= Len(h), \A i \in 1 .. Len(h) : Words(g[i]) = Words(h[i]),
         Sized(Behind(Len(v.mem), h))
  PROVE  Sized(Behind(Len(v.mem), g)) /\ WordsSince(v, g) = WordsSince(v, h)
  <1> DEFINE k == Len(v.mem)
             x == Behind(k, h)
             y == Behind(k, g)
  <1>1. k \in Nat /\ Len(h) \in Nat
    BY ListFacts
  <1>2. IsList(x) /\ Len(x) = Len(h) - k /\ WordsSince(v, h) = Size(x) /\ \A i \in 1 .. Len(x) : x[i] = h[k + i]
    BY BehindSize
  <1>3. IsList(y) /\ Len(y) = Len(g) - k /\ WordsSince(v, g) = Size(y) /\ \A i \in 1 .. Len(y) : y[i] = g[k + i]
    BY BehindSize
  <1>4. Sized(x) /\ k <= Len(h)
    OBVIOUS
  <1> HIDE DEF k, x, y
  <1>5. \A i \in 1 .. Len(x) : Words(y[i]) = Words(x[i])
    <2>1. ASSUME NEW i \in 1 .. Len(x) PROVE Words(y[i]) = Words(x[i])
      <3>1. k + i \in 1 .. Len(h) /\ i \in 1 .. Len(y)
        BY <1>1, <1>2, <1>3, <1>4
      <3> QED BY <1>2, <1>3, <3>1
    <2> QED BY <2>1
  <1>6. Len(y) = Len(x)
    BY <1>2, <1>3
  <1>7. Sized(y)
    BY <1>3, <1>4, <1>5, <1>6 DEF Sized
  <1>8. Weights(y) = Weights(x)
    BY <1>5, <1>6 DEF Weights
  <1> QED BY <1>2, <1>3, <1>7, <1>8 DEF Size, k, x, y

\* bind_size() is no less than what bind_atom() takes.
LEMMA BindRoom ==
  ASSUME NEW pg \in Program, NEW v, NEW h, IsList(h), NEW e, NEW s, <<e, s>> \in Code[pg], NEW p
  PROVE  BindSize(e) \in Nat /\ Took(BindAtom(v, h, e, p).mem, h, BindSize(e))
  <1>1. CASE ReadsOwnFrame(e)
    <2> DEFINE o == Thing("THUNK", e, <<p>>)
    <2>1. BindAtom(v, h, e, p).mem = Append(h, o) /\ BindSize(e) = 3
      BY <1>1 DEF BindAtom, BindSize
    <2>2. Words(o) = 3
      BY ThingWords
    <2> HIDE DEF o
    <2>3. Append(h, o) = h \o <<o>>
      BY ListAppended
    <2>4. Sized(<<o>>) /\ Size(<<o>>) = 3
      BY <2>2, SizeOne
    <2>5. BindSize(e) \in Nat
      BY <2>1
    <2> DEFINE objs == <<o>>
    <2>6. BindAtom(v, h, e, p).mem = h \o objs
      BY <2>1, <2>3
    <2>7. Sized(objs) /\ Size(objs) <= BindSize(e)
      BY <2>1, <2>4
    <2> HIDE DEF objs
    <2> QED BY <2>5, <2>6, <2>7 DEF Took
  <1>2. CASE ~ ReadsOwnFrame(e)
    <2>1. BindAtom(v, h, e, p) = Atom(v, h, e, p) /\ BindSize(e) = AtomSize(e)
      BY <1>2 DEF BindAtom, BindSize
    <2>2. AtomSize(e) \in Nat /\ Took(Atom(v, h, e, p).mem, h, AtomSize(e))
      BY AtomRoom
    <2> QED BY <2>1, <2>2
  <1> QED BY <1>1, <1>2

\* One more binder: its objects, and a slot of the frame that is filled.
LEMMA BinderRoom ==
  ASSUME NEW pg \in Program, NEW v, MachineOK(pg, v), NEW binds, NEW n \in Nat, NEW i \in 1 .. n,
         NEW h, GroupOK(pg, v, n, i - 1, h), NEW s, <<binds[i], s>> \in Code[pg],
         GroupOK(pg, v, n, i, NextBinder(v, binds, i, h)),
         Sized(Behind(Len(v.mem), h)), Len(v.mem) <= Len(h)
  PROVE  LET g == NextBinder(v, binds, i, h)
         IN  /\ Sized(Behind(Len(v.mem), g)) /\ Len(v.mem) <= Len(g) /\ WordsSince(v, g) \in Nat
             /\ WordsSince(v, g) <= WordsSince(v, h) + BindSize(binds[i])
             /\ BindSize(binds[i]) \in Nat
  <1> DEFINE b == BindAtom(v, h, binds[i], NewPtr(v, v.mem))
             f == Len(v.mem) + 1
             u == b.mem
             o == [u[f] EXCEPT !.ptr[1 + i] = b.p]
             g == NextBinder(v, binds, i, h)
  <1>1. IsList(h) /\ f \in DOMAIN h /\ Words(h[f]) = 2 + n
    <2>1. IsList(h) /\ f \in DOMAIN h /\ h[f] = Thing("ENV", <<>>, h[f].ptr) /\ Len(h[f].ptr) = 1 + n
      BY DEF GroupOK, HeapOK
    <2>2. Words(h[f]) = 1 + Len(h[f].ptr)
      <3> DEFINE q == h[f].ptr
      <3>1. h[f] = Thing("ENV", <<>>, q)
        BY <2>1
      <3> HIDE DEF q
      <3>2. Words(Thing("ENV", <<>>, q)) = 1 + Len(q)
        BY ThingWords
      <3> QED BY <3>1, <3>2 DEF q
    <2> QED BY <2>1, <2>2
  <1>2. IsList(g) /\ f \in DOMAIN g /\ Words(g[f]) = 2 + n
    <2> HIDE DEF g
    <2>1. IsList(g) /\ f \in DOMAIN g /\ g[f] = Thing("ENV", <<>>, g[f].ptr) /\ Len(g[f].ptr) = 1 + n
      BY DEF GroupOK, HeapOK, g
    <2>2. Words(g[f]) = 1 + Len(g[f].ptr)
      <3> DEFINE q == g[f].ptr
      <3>1. g[f] = Thing("ENV", <<>>, q)
        BY <2>1
      <3> HIDE DEF q
      <3>2. Words(Thing("ENV", <<>>, q)) = 1 + Len(q)
        BY ThingWords
      <3> QED BY <3>1, <3>2 DEF q
    <2> QED BY <2>1, <2>2
  <1>3. IsList(v.mem)
    BY DEF MachineOK, Shape
  <1>4. BindSize(binds[i]) \in Nat
    BY <1>1, BindRoom
  <1>5. PICK objs : u = h \o objs /\ Sized(objs) /\ Size(objs) <= BindSize(binds[i])
    <2> DEFINE p == NewPtr(v, v.mem)
    <2>1. u = BindAtom(v, h, binds[i], p).mem
      OBVIOUS
    <2> HIDE DEF p, u
    <2>2. Took(BindAtom(v, h, binds[i], p).mem, h, BindSize(binds[i]))
      BY <1>1, BindRoom
    <2> QED BY <2>1, <2>2 DEF Took
  <1>6. g = [u EXCEPT ![f] = o]
    BY DEF NextBinder
  <1>7. /\ Sized(Behind(Len(v.mem), u)) /\ WordsSince(v, u) = WordsSince(v, h) + Size(objs)
        /\ Len(v.mem) <= Len(u) /\ IsList(u)
    <2> HIDE DEF u
    <2>1. LET w == h \o objs
          IN  /\ Sized(Behind(Len(v.mem), w)) /\ WordsSince(v, w) = WordsSince(v, h) + Size(objs)
              /\ Len(v.mem) <= Len(w) /\ IsList(w)
      BY <1>1, <1>3, <1>5, SinceConcat
    <2> QED BY <1>5, <2>1
  <1>8. f \in DOMAIN u /\ u[f] = h[f]
    <2>1. DOMAIN h = 1 .. Len(h) /\ Len(h) \in Nat /\ Len(objs) \in Nat
      BY <1>1, <1>5, ListFacts, SizeOf
    <2>2. DOMAIN (h \o objs) = 1 .. Len(h) + Len(objs) /\ \A j \in 1 .. Len(h) : (h \o objs)[j] = h[j]
      BY <1>1, <1>5, ListConcat DEF Sized
    <2> HIDE DEF u, f
    <2> QED BY <1>1, <1>5, <2>1, <2>2
  <1> HIDE DEF u, o, f, g
  <1>9. Len(g) = Len(u) /\ \A j \in DOMAIN u : j # f => g[j] = u[j]
    BY <1>6, <1>7, <1>8, ListExcept
  <1>10. \A j \in 1 .. Len(u) : Words(g[j]) = Words(u[j])
    <2>1. DOMAIN u = 1 .. Len(u)
      BY <1>7, ListFacts
    <2> QED BY <1>1, <1>2, <1>8, <1>9, <2>1
  <1>11. Sized(Behind(Len(v.mem), g)) /\ WordsSince(v, g) = WordsSince(v, u)
    BY <1>2, <1>3, <1>7, <1>9, <1>10, SinceAlike
  <1>12. WordsSince(v, h) \in Nat /\ Size(objs) \in Nat
    <2>1. WordsSince(v, h) = Size(Behind(Len(v.mem), h))
      BY <1>1, <1>3, BehindSize
    <2> QED BY <1>5, <2>1, SizeOf
  <1>13. WordsSince(v, g) \in Nat /\ WordsSince(v, g) <= WordsSince(v, h) + BindSize(binds[i])
    BY <1>4, <1>5, <1>7, <1>11, <1>12
  <1>14. Len(v.mem) <= Len(g)
    BY <1>7, <1>9
  <1> QED BY <1>4, <1>11, <1>13, <1>14 DEF g

\* The room that EVAL reserves for a let is no less than what its group takes.
LEMMA GroupRoom ==
  ASSUME NEW pg \in Program, NEW v, MachineOK(pg, v), NEW s \in Seq(Nat),
         EnvFits(v.space, v.mem, v.env, s), NEW binds, IsList(binds),
         \A i \in DOMAIN binds : <<binds[i], <<Len(binds)>> \o s>> \in Code[pg]
  PROVE  /\ GroupSize(binds) \in Nat
         /\ WordsSince(v, Group(v, binds, Len(binds))) \in Nat
         /\ WordsSince(v, Group(v, binds, Len(binds))) <= GroupSize(binds)
  <1> DEFINE n == Len(binds)
             c == [i \in DOMAIN binds |-> BindSize(binds[i])]
  <1>1. n \in Nat /\ DOMAIN binds = 1 .. n
    BY ListFacts
  <1>2. PICK g : GroupLoop(v, binds, n, g)
    BY <1>1, GroupSteps
  <1>3. /\ g[0] = Append(v.mem, GroupFrame(v, binds))
        /\ \A i \in 1 .. n : g[i] = NextBinder(v, binds, i, g[i - 1])
        /\ Group(v, binds, n) = g[n]
    BY <1>2 DEF GroupLoop
  <1>4. GroupOK(pg, v, n, 0, g[0])
    BY <1>3, GroupStarts
  <1>5. \A i \in 1 .. n : <<binds[i], <<n>> \o s>> \in Code[pg]
    BY <1>1
  <1>6. IsList(v.mem) /\ Len(v.mem) \in Nat
    BY ListFacts DEF MachineOK, Shape
  <1>7. c \in [1 .. n -> Nat] /\ \A i \in 1 .. n : c[i] = BindSize(binds[i])
    <2>1. \A i \in 1 .. n : BindSize(binds[i]) \in Nat
      BY <1>5, <1>6, BindRoom
    <2> QED BY <1>1, <2>1
  <1>8. GroupSize(binds) = 2 + n + Total(c)
    BY DEF GroupSize
  <1> HIDE DEF n, c
  <1>9. PICK t : Totals(t, c, n) /\ Total(c) = t[n] /\ Total(c) \in Nat
    BY <1>1, <1>7, TotalOf
  <1> DEFINE OK(i, h) == /\ GroupOK(pg, v, n, i, h)
                         /\ Sized(Behind(Len(v.mem), h)) /\ Len(v.mem) <= Len(h)
                         /\ WordsSince(v, h) \in Nat
                         /\ WordsSince(v, h) <= 2 + n + t[i]
  <1>10. OK(0, g[0])
    <2> DEFINE o == GroupFrame(v, binds)
               f == Len(v.mem) + 1
    <2>1. Words(o) = 2 + n
      <3>1. Append(v.mem, o)[f] = o
        BY <1>6, ListAppend
      <3>2. g[0][f] = o
        BY <1>3, <3>1
      <3>3. g[0][f] = Thing("ENV", <<>>, g[0][f].ptr) /\ Len(g[0][f].ptr) = 1 + n
        BY <1>4 DEF GroupOK
      <3> HIDE DEF o
      <3>4. o = Thing("ENV", <<>>, o.ptr) /\ Len(o.ptr) = 1 + n
        BY <3>2, <3>3
      <3> DEFINE q == o.ptr
      <3>5. o = Thing("ENV", <<>>, q) /\ Len(q) = 1 + n
        BY <3>4
      <3> HIDE DEF q
      <3>6. Words(Thing("ENV", <<>>, q)) = 1 + Len(q)
        BY ThingWords
      <3> QED BY <1>1, <3>5, <3>6
    <2> HIDE DEF o, f
    <2>2. g[0] = v.mem \o <<o>>
      <3>1. Append(v.mem, o) = v.mem \o <<o>>
        BY <1>6, ListAppended
      <3> QED BY <1>3, <3>1 DEF o
    <2>3. Sized(<<o>>) /\ Size(<<o>>) = 2 + n
      <3>1. Words(o) \in Nat
        BY <1>1, <2>1
      <3> QED BY <2>1, <3>1, SizeOne
    <2>4. Sized(Behind(Len(v.mem), v.mem)) /\ WordsSince(v, v.mem) = 0 /\ Len(v.mem) <= Len(v.mem)
      BY <1>6, SinceItself
    <2>5. /\ Sized(Behind(Len(v.mem), v.mem \o <<o>>))
          /\ WordsSince(v, v.mem \o <<o>>) = WordsSince(v, v.mem) + Size(<<o>>)
          /\ Len(v.mem) <= Len(v.mem \o <<o>>)
      BY <1>6, <2>3, <2>4, SinceConcat
    <2>6. WordsSince(v, g[0]) = 2 + n
      BY <1>1, <2>2, <2>3, <2>4, <2>5
    <2>7. t[0] = 0
      BY <1>9 DEF Totals
    <2>8. WordsSince(v, g[0]) \in Nat /\ WordsSince(v, g[0]) <= 2 + n + t[0]
      BY <1>1, <2>6, <2>7
    <2> QED BY <1>4, <2>2, <2>5, <2>8
  <1>11. ASSUME NEW i \in 1 .. n, OK(i - 1, g[i - 1]) PROVE OK(i, g[i])
    <2> DEFINE h == g[i - 1]
    <2>1. /\ GroupOK(pg, v, n, i - 1, h)
          /\ Sized(Behind(Len(v.mem), h)) /\ Len(v.mem) <= Len(h)
          /\ WordsSince(v, h) \in Nat /\ WordsSince(v, h) <= 2 + n + t[i - 1]
      BY <1>11
    <2>2. g[i] = NextBinder(v, binds, i, h)
      BY <1>3
    <2> HIDE DEF h
    <2>3. GroupOK(pg, v, n, i, g[i])
      BY <1>1, <1>5, <2>1, <2>2, BinderStored
    <2>4. /\ Sized(Behind(Len(v.mem), g[i])) /\ Len(v.mem) <= Len(g[i])
          /\ WordsSince(v, g[i]) \in Nat
          /\ WordsSince(v, g[i]) <= WordsSince(v, h) + BindSize(binds[i])
          /\ BindSize(binds[i]) \in Nat
      <3>1. GroupOK(pg, v, n, i, NextBinder(v, binds, i, h))
        BY <2>2, <2>3
      <3>2. <<binds[i], <<n>> \o s>> \in Code[pg]
        BY <1>5
      <3>3. LET x == NextBinder(v, binds, i, h)
            IN  /\ Sized(Behind(Len(v.mem), x)) /\ Len(v.mem) <= Len(x) /\ WordsSince(v, x) \in Nat
                /\ WordsSince(v, x) <= WordsSince(v, h) + BindSize(binds[i])
                /\ BindSize(binds[i]) \in Nat
        BY <1>1, <2>1, <3>1, <3>2, BinderRoom
      <3> QED BY <2>2, <3>3
    <2>5. t[i] = t[i - 1] + BindSize(binds[i]) /\ t[i - 1] \in Nat
      <3>1. i - 1 \in 0 .. n
        BY <1>1
      <3> QED BY <1>7, <1>9, <3>1 DEF Totals
    <2>6. WordsSince(v, g[i]) <= 2 + n + t[i]
      BY <1>1, <2>1, <2>4, <2>5
    <2> QED BY <2>3, <2>4, <2>6
  <1>o. OK(n, g[n]) => WordsSince(v, g[n]) \in Nat /\ WordsSince(v, g[n]) <= 2 + n + t[n]
    OBVIOUS
  <1>m. \A i \in 1 .. n : OK(i - 1, g[i - 1]) => OK(i, g[i])
    BY <1>11
  <1> HIDE DEF OK
  <1> DEFINE T == {i \in Nat : i <= n => OK(i, g[i])}
  <1>12. 0 \in T
    BY <1>10
  <1>13. ASSUME NEW i \in Nat, i \in T PROVE i + 1 \in T
    <2>1. i + 1 <= n => i + 1 \in 1 .. n /\ (i + 1) - 1 = i /\ i <= n
      BY <1>1
    <2> QED BY <2>1, <1>m, <1>13
  <1>14. \A i \in Nat : i \in T
    <2> HIDE DEF T
    <2> QED BY <1>12, <1>13, SetInduction
  <1>15. OK(n, g[n])
    BY <1>1, <1>14
  <1>16. WordsSince(v, Group(v, binds, n)) \in Nat /\ WordsSince(v, Group(v, binds, n)) <= GroupSize(binds)
    BY <1>3, <1>8, <1>9, <1>15, <1>o
  <1>17. GroupSize(binds) \in Nat
    BY <1>1, <1>8, <1>9
  <1> QED BY <1>16, <1>17 DEF n
-----------------------------------------------------------------------------
(* What a step leaves of its reservation.                                  *)

\* A step that takes what it reserved keeps to the rule ...
LEMMA RoomAfter ==
  ASSUME NEW n \in Nat, NEW w, NEW mem, Uses(n, w, mem), WordsSince(w, mem) \in Nat, WordsSince(w, mem) <= n
  PROVE  RoomKept'
  <1> DEFINE x == WordsSince(w, mem)
  <1>1. room' = n - x
    BY DEF Uses
  <1>2. x \in Nat /\ x <= n
    OBVIOUS
  <1> HIDE DEF x
  <1> QED BY <1>1, <1>2 DEF RoomKept

\* ... if what is behind its heap has no more words.
LEMMA TookRoom ==
  ASSUME NEW w, IsList(w.mem), NEW n \in Nat, NEW mem, Took(mem, w.mem, n)
  PROVE  WordsSince(w, mem) \in Nat /\ WordsSince(w, mem) <= n
  <1>1. PICK objs : mem = w.mem \o objs /\ Sized(objs) /\ Size(objs) <= n
    BY DEF Took
  <1>2. WordsSince(w, w.mem \o objs) = Size(objs) /\ Size(objs) \in Nat
    BY <1>1, SinceMade
  <1> QED BY <1>1, <1>2

LEMMA OneTook ==
  ASSUME NEW m, IsList(m), NEW o, NEW n \in Nat, Words(o) \in Nat, Words(o) <= n
  PROVE  Took(Append(m, o), m, n)
  <1> DEFINE objs == <<o>>
  <1>1. Sized(objs) /\ Size(objs) <= n
    BY SizeOne
  <1>2. Append(m, o) = m \o objs
    BY ListAppended
  <1> HIDE DEF objs
  <1> QED BY <1>1, <1>2 DEF Took

\* make_int() and make_char() take the words of an integer, or none.
LEMMA BoxedRoom ==
  ASSUME NEW v, NEW m, IsList(m), NEW kind \in {"INT", "CHAR"}, NEW n, NEW static \in BOOLEAN
  PROVE  Took(Boxed(v, m, kind, n, static).mem, m, IF static THEN 0 ELSE 2)
  <1>1. CASE static
    <2> DEFINE none == <<>>
    <2>1. Boxed(v, m, kind, n, static).mem = m /\ m = m \o none /\ (IF static THEN 0 ELSE 2) = 0
      BY <1>1 DEF Boxed, IsList
    <2>2. Sized(none) /\ Size(none) <= 0
      BY SizeEmpty
    <2> HIDE DEF none
    <2> QED BY <2>1, <2>2 DEF Took
  <1>2. CASE ~ static
    <2> DEFINE o == Thing(kind, n, <<>>)
    <2>1. Boxed(v, m, kind, n, static).mem = Append(m, o) /\ (IF static THEN 0 ELSE 2) = 2
      BY <1>2 DEF Boxed
    <2>2. Words(o) = 2
      BY ThingWords
    <2> HIDE DEF o
    <2>3. Took(Append(m, o), m, 2)
      BY <2>2, OneTook
    <2> QED BY <2>1, <2>3
  <1> QED BY <1>1, <1>2

-----------------------------------------------------------------------------
(* Steps that reserve nothing.                                             *)

LEMMA IsRecorded ==
  ASSUME MachineInv
  PROVE  Recorded(vm)
  BY MachineRecorded DEF MachineInv, MachineOK

LEMMA QuietEval ==
  ASSUME MachineInv, EvalVar \/ EvalGlobal \/ EvalApp \/ EvalFun \/ EvalCase
  PROVE  BuildsNothing
  BY IsRecorded DEF EvalVar, EvalGlobal, EvalApp, EvalFun, EvalCase, BuildsNothing, Recorded, Fields

LEMMA QuietEnter ==
  ASSUME MachineInv, EnterInd \/ EnterThunk \/ EnterBlackhole \/ EnterEmptyStr \/ EnterValue
  PROVE  BuildsNothing
  BY IsRecorded DEF EnterInd, EnterThunk, EnterBlackhole, EnterEmptyStr, EnterValue, BuildsNothing, Recorded, Fields

LEMMA QuietRet ==
  ASSUME MachineInv, RetUpdate \/ NoAlternative \/ NotAFunction \/ RetStrict \/ RetCatch
  PROVE  BuildsNothing
  BY IsRecorded DEF RetUpdate, NoAlternative, NotAFunction, RetStrict, RetCatch, BuildsNothing, Recorded, Fields

LEMMA QuietCall ==
  ASSUME MachineInv,
         \/ CallWhnf \/ CallCatch \/ CallRaise \/ CallMutVarWrite \/ CallMvarPut
         \/ Blocked \/ NotACell \/ CallFileSize
  PROVE  BuildsNothing
  BY IsRecorded DEF CallWhnf, CallCatch, CallRaise, CallMutVarWrite, CallMvarPut, Blocked, NotACell, CallFileSize,
     Return, ReturnAt, SetContent, ForceString, StartRun, BuildsNothing, Recorded, Fields

LEMMA QuietReturn ==
  ASSUME MachineInv, ReturnMain \/ ReturnToken \/ ReturnReport
  PROVE  BuildsNothing
  BY IsRecorded DEF ReturnMain, ReturnToken, ReturnReport, Popped, ForceString, StartRun, BuildsNothing, Recorded, Fields

LEMMA QuietUnwind ==
  ASSUME MachineInv, UnwindStep
  PROVE  BuildsNothing
  BY IsRecorded DEF UnwindStep, UnwindCatch, UnwindUpdate, UnwindFrame, UnwindRun, UnwindMain,
     Popped, StartRun, BuildsNothing, Recorded, Fields

-----------------------------------------------------------------------------
(* The steps of eval.                                                      *)

LEMMA EvalLiteralRoom ==
  ASSUME MachineInv, EvalLiteral
  PROVE  RoomKept'
  <1> DEFINE static == IF code.k = "INT" THEN code.n \in SmallInt ELSE code.n \in SmallChar
             n == IF static THEN 0 ELSE 2
             b(w) == Boxed(w, w.mem, code.k, code.n, static)
  <1>1. code.k \in {"INT", "CHAR"}
    BY DEF EvalLiteral
  <1>2. PICK w \in Reserved(n, vm) : Uses(n, w, b(w).mem)
    BY DEF EvalLiteral
  <1>s. static \in BOOLEAN
    <2>1. \A S, x : (x \in S) \in BOOLEAN
      BY SMT
    <2> QED BY <2>1, Zenon
  <1>n. n \in Nat
    OBVIOUS
  <1> DEFINE m == b(w).mem
             k == code.k
             x == code.n
             h == w.mem
  <1> HIDE DEF static
  <1>3. Base(w)
    BY <1>2, Reservation
  <1>4. IsList(h)
    BY <1>3 DEF Base, MachineOK, Shape
  <1>5. Took(m, h, n)
    <2>1. k \in {"INT", "CHAR"}
      BY <1>1
    <2> HIDE DEF k, x, h
    <2>2. Took(Boxed(w, h, k, x, static).mem, h, IF static THEN 0 ELSE 2)
      BY <1>4, <1>s, <2>1, BoxedRoom
    <2> QED BY <2>2 DEF k, x, h
  <1> HIDE DEF m, n
  <1>6. WordsSince(w, m) \in Nat /\ WordsSince(w, m) <= n
    BY <1>4, <1>5, <1>n, TookRoom
  <1> QED BY <1>2, <1>6, <1>n, RoomAfter DEF m

LEMMA EvalAtomRoom ==
  ASSUME MachineInv, EvalAtom
  PROVE  RoomKept'
  <1> DEFINE n == AtomSize(code)
             a(w) == Atom(w, w.mem, code, w.env)
  <1>1. Running /\ pc = "eval"
    BY DEF EvalAtom
  <1>2. PICK w \in Reserved(n, vm) : Uses(n, w, a(w).mem)
    BY DEF EvalAtom
  <1> DEFINE m == a(w).mem
  <1>3. Base(w)
    BY <1>2, Reservation
  <1>4. IsList(w.mem)
    BY <1>3 DEF Base, MachineOK, Shape
  <1>5. PICK s : prog \in Program /\ <<code, s>> \in Code[prog]
    BY <1>1, AtEval, ScopeOf
  <1>6. n \in Nat /\ Took(m, w.mem, n)
    BY <1>5, AtomRoom
  <1> HIDE DEF m, n
  <1>7. WordsSince(w, m) \in Nat /\ WordsSince(w, m) <= n
    BY <1>4, <1>6, TookRoom
  <1> QED BY <1>2, <1>6, <1>7, RoomAfter DEF m

LEMMA PushArgRoom ==
  ASSUME MachineInv, PushArg
  PROVE  RoomKept'
  <1> DEFINE e == code.args[todo]
             n == AtomSize(e)
             a(w) == Atom(w, w.mem, e, w.env)
  <1>1. Running /\ pc = "args" /\ todo > 0
    BY DEF PushArg
  <1>2. PICK w \in Reserved(n, vm) : Uses(n, w, a(w).mem)
    BY DEF PushArg
  <1> DEFINE m == a(w).mem
  <1>3. Base(w)
    BY <1>2, Reservation
  <1>4. IsList(w.mem)
    BY <1>3 DEF Base, MachineOK, Shape
  <1>5. PICK s : prog \in Program /\ <<e, s>> \in Code[prog]
    <2>1. /\ todo \in 0 .. Len(code.args) /\ IsList(code.args)
          /\ prog \in Program /\ Fits(prog, vm.space, vm.mem, code, vm.env)
      BY <1>1, AtArgs
    <2>2. Len(code.args) \in Nat /\ DOMAIN code.args = 1 .. Len(code.args)
      BY <2>1, ListFacts
    <2>3. todo \in DOMAIN code.args
      BY <1>1, <2>1, <2>2
    <2>4. Fits(prog, vm.space, vm.mem, e, vm.env)
      BY <1>1, <2>1, <2>3, AtArgs
    <2> HIDE DEF e
    <2> QED BY <2>1, <2>4, ScopeOf
  <1> HIDE DEF e
  <1>6. n \in Nat /\ Took(m, w.mem, n)
    BY <1>5, AtomRoom
  <1> HIDE DEF m, n
  <1>7. WordsSince(w, m) \in Nat /\ WordsSince(w, m) <= n
    BY <1>4, <1>6, TookRoom
  <1> QED BY <1>2, <1>6, <1>7, RoomAfter DEF m

LEMMA EvalLetRoom ==
  ASSUME MachineInv, EvalLet
  PROVE  RoomKept'
  <1> DEFINE bs == code.binds
             h(w) == Group(w, bs, Len(bs))
             n == GroupSize(bs)
  <1>1. Running /\ pc = "eval" /\ code.k = "LET"
    BY DEF EvalLet, Eval
  <1>2. PICK w \in Reserved(2, vm) : Uses(n, w, h(w))
    BY DEF EvalLet
  <1> DEFINE m == h(w)
  <1>3. Base(w) /\ prog \in Program
    BY <1>2, Reservation DEF MachineInv
  <1>4. MachineOK(prog, w) /\ Fits(prog, w.space, w.mem, code, w.env)
    BY <1>1, <1>3, AtEval DEF Base, Kept
  <1>5. PICK s \in Seq(Nat) : /\ <<code, s>> \in Code[prog] /\ Scoped(prog, code, s)
                              /\ EnvFits(w.space, w.mem, w.env, s)
    BY <1>3, <1>4, ScopeOf
  <1>6. IsList(bs) /\ \A i \in DOMAIN bs : <<bs[i], <<Len(bs)>> \o s>> \in Code[prog]
    BY <1>1, <1>5 DEF Scoped
  <1> HIDE DEF bs
  <1>7. n \in Nat /\ WordsSince(w, m) \in Nat /\ WordsSince(w, m) <= n
    BY <1>3, <1>4, <1>5, <1>6, GroupRoom
  <1> HIDE DEF m, n
  <1> QED BY <1>2, <1>7, RoomAfter DEF m
-----------------------------------------------------------------------------
(* The steps of enter and ret.                                             *)

\* One object behind the heap.
LEMMA RoomForOne ==
  ASSUME NEW n \in Nat, NEW w, IsList(w.mem), NEW o, Words(o) \in Nat, Words(o) <= n,
         Uses(n, w, Append(w.mem, o))
  PROVE  RoomKept'
  <1> DEFINE m == Append(w.mem, o)
  <1>1. WordsSince(w, m) = Words(o)
    BY SinceOne
  <1>2. Uses(n, w, m)
    OBVIOUS
  <1> HIDE DEF m
  <1> QED BY <1>1, <1>2, RoomAfter

\* Two.
LEMMA SinceTwo ==
  ASSUME NEW v, IsList(v.mem), NEW o, NEW q, Words(o) \in Nat, Words(q) \in Nat
  PROVE  WordsSince(v, Append(Append(v.mem, o), q)) = Words(o) + Words(q)
  <1> DEFINE s == <<o>>
             t == <<q>>
             h == Append(v.mem, o)
  <1>1. Sized(s) /\ Size(s) = Words(o) /\ Sized(t) /\ Size(t) = Words(q)
    BY SizeOne
  <1>2. h = v.mem \o s
    BY ListAppended
  <1> HIDE DEF s, t, h
  <1>3. Sized(Behind(Len(v.mem), v.mem)) /\ WordsSince(v, v.mem) = 0 /\ Len(v.mem) <= Len(v.mem)
    <2>1. Len(v.mem) \in Nat
      BY ListFacts
    <2> QED BY <2>1, SinceItself
  <1>4. /\ Sized(Behind(Len(v.mem), h)) /\ WordsSince(v, h) = WordsSince(v, v.mem) + Size(s)
        /\ Len(v.mem) <= Len(h) /\ IsList(h)
    BY <1>1, <1>2, <1>3, SinceConcat
  <1>5. WordsSince(v, h \o t) = WordsSince(v, h) + Size(t)
    BY <1>1, <1>4, SinceConcat
  <1>6. Append(h, q) = h \o t
    BY <1>4, ListAppended DEF t
  <1>7. WordsSince(v, Append(h, q)) = Words(o) + Words(q)
    BY <1>1, <1>3, <1>4, <1>5, <1>6
  <1> QED BY <1>7 DEF h

LEMMA EnterStrRoom ==
  ASSUME MachineInv, EnterStr, ~ Overdraws
  PROVE  RoomKept'
  <1> DEFINE o(w) == Top(w.roots)
             s(w) == Obj(w, o(w)).code
             head(w) == Boxed(w, w.mem, "CHAR", s(w)[1], s(w)[1] \in SmallChar)
             tail(w) == Append(head(w).mem, Thing("STR", Tail(s(w)), <<>>))
             mem(w) == Append(tail(w), Thing("CON", "Cons", <<head(w).p, NewPtr(w, head(w).mem)>>))
  <1>1. Running /\ pc = "enter" /\ Obj(vm, obj).code[1] \in SmallChar
    BY DEF EnterStr, EnterKind, Overdraws
  <1>2. PICK w \in Reserved(StrRoom, Rooted(vm, obj)) : Uses(StrRoom, w, mem(w))
    BY DEF EnterStr, Rooted
  <1>3. prog \in Program /\ MachineOK(prog, vm) /\ Maybe(vm.space, vm.mem, obj)
    BY <1>1, AtEnter DEF Maybe
  <1>4. MachineOK(prog, w) /\ Alike(vm, obj, w, o(w))
    BY <1>2, <1>3, RootedReservation
  <1>5. s(w)[1] \in SmallChar /\ IsList(w.mem)
    BY <1>1, <1>4 DEF Alike, SameObject, MachineOK, Shape
  <1>6. head(w).mem = w.mem
    BY <1>5 DEF Boxed
  <1> DEFINE c == Tail(s(w))
             none == <<>>
             a == Thing("STR", c, none)
             l == <<head(w).p, NewPtr(w, head(w).mem)>>
             b == Thing("CON", "Cons", l)
             m == mem(w)
  <1>7. m = Append(Append(w.mem, a), b)
    BY <1>6
  <1>8. Len(l) = 2
    OBVIOUS
  <1> HIDE DEF c, l, m, none
  <1>9. Words(a) = 3 /\ Words(b) = 4
    <2>1. Words(a) = 3
      BY ThingWords
    <2>2. Words(b) = 2 + Len(l)
      <3> DEFINE k == "Cons"
      <3> HIDE DEF k
      <3>1. Words(Thing("CON", k, l)) = 2 + Len(l)
        BY ThingWords
      <3> QED BY <3>1 DEF k
    <2> QED BY <1>8, <2>1, <2>2
  <1> HIDE DEF a, b
  <1>10. WordsSince(w, m) = 7
    BY <1>5, <1>7, <1>9, SinceTwo
  <1>11. StrRoom \in Nat /\ WordsSince(w, m) \in Nat /\ WordsSince(w, m) <= StrRoom
    BY <1>10 DEF StrRoom
  <1> QED BY <1>2, <1>11, RoomAfter DEF m

LEMMA RetCaseRoom ==
  ASSUME MachineInv, RetCase
  PROVE  RoomKept' \/ BuildsNothing
  <1> DEFINE f == Top(vm.stack)
             P == [vm EXCEPT !.stack = Pop(@, 1), !.env = f.b]
             t(w) == <<w.env>> \o Obj(w, w.val).ptr
             h(w) == Append(w.mem, Thing("ENV", <<>>, t(w)))
  <1>1. Running /\ pc = "ret" /\ f.kind = "CASE"
    BY DEF RetCase, Ret
  <1>2. PICK alt \in Selected(f.code.alts, Obj(vm, vm.val)) :
           IF Binds(alt)
           THEN \E w \in Reserved(2 + alt.arity, P) : Uses(2 + alt.arity, w, h(w))
           ELSE vm' = P /\ room' = room
    BY DEF RetCase
  <1>3. /\ prog \in Program /\ MachineOK(prog, vm) /\ Recorded(vm)
        /\ RunsOK(vm.stack, runs, jump, Len(vm.roots))
        /\ vm.stack # <<>> /\ FrameOK(prog, vm.space, vm.mem, f) /\ Value(vm.space, vm.mem, vm.val) /\ vm.space \in Spaces
    BY <1>1, AtTop
  <1>4. f.code.k = "CASE" /\ Fits(prog, vm.space, vm.mem, f.code, f.b)
    BY <1>1, <1>3 DEF FrameOK
  <1>5. f.b = Null \/ IsEnv(vm.space, vm.mem, f.b)
    BY <1>4 DEF Fits
  <1> HIDE DEF f
  <1>6. /\ MachineOK(prog, P) /\ Recorded(P) /\ P.space = vm.space /\ P.mem = vm.mem /\ P.globals = vm.globals
        /\ P.roots = vm.roots /\ P.env = f.b /\ P.val = vm.val /\ P.exc = vm.exc /\ P.stack = Pop(vm.stack, 1)
        /\ RunsOK(P.stack, runs, jump, Len(vm.roots))
    <2>1. Top(vm.stack).kind \notin {"UPDATE", "STOP"}
      BY <1>1 DEF f
    <2> QED BY <1>3, <1>5, <2>1, PoppedMachine
  <1> HIDE DEF P
  <1>7. PICK i \in DOMAIN f.code.alts : alt = f.code.alts[i]
    BY SelectedAlt
  <1>8. alt.k = "CON" => alt.c \in DOMAIN ConArity /\ alt.arity = ConArity[alt.c]
    <2>1. PICK s \in Seq(Nat) : Scoped(prog, f.code, s)
      BY <1>3, <1>4, ScopeOf
    <2> QED BY <1>4, <1>7, <2>1 DEF Scoped
  <1>9. CASE ~ Binds(alt)
    BY <1>2, <1>6, <1>9 DEF BuildsNothing
  <1>10. CASE Binds(alt)
    <2>1. PICK w \in Reserved(2 + alt.arity, P) : Uses(2 + alt.arity, w, h(w))
      BY <1>2, <1>10
    <2> DEFINE o == Obj(w, w.val)
               l == o.ptr
               a == alt.arity
               x == t(w)
               r == Thing("ENV", <<>>, x)
    <2>2. MachineOK(prog, w) /\ Kept(prog, P, w)
      BY <1>3, <1>6, <2>1, ReservationKeeps
    <2>3. a \in Nat /\ a > 0 /\ a = ConArity[alt.c] /\ alt.c \in DOMAIN ConArity
      BY <1>8, <1>10, ConArityAssumption DEF Binds
    <2>4. Value(w.space, w.mem, w.val)
      <3>1. vm.val # Null
        BY <1>3, NullIsNoValue
      <3>2. w.val # Null
        BY <1>6, <2>2, <3>1 DEF Kept, Alike
      <3>3. Maybe(w.space, w.mem, w.val)
        BY <2>2 DEF MachineOK
      <3> QED BY <3>2, <3>3 DEF Maybe
    <2>5. o.kind = "CON" /\ o.code = alt.c
      <3>1. Obj(P, P.val) = Obj(vm, vm.val)
        BY <1>6 DEF Obj
      <3>2. o.kind = Obj(vm, vm.val).kind /\ o.code = Obj(vm, vm.val).code
        BY <2>2, <3>1 DEF Kept, Alike, SameObject
      <3> QED BY <1>10, <3>2, SelectedAlt
    <2>6. Good(prog, w.space, w.mem, o) /\ IsList(l)
      BY <1>3, <2>2, <2>3, <2>4, <2>5, ObjectHere
    <2> HIDE DEF a
    <2>7. Len(l) = a
      BY <2>3, <2>5, <2>6, ConArityAssumption DEF Good
    <2> HIDE DEF o, l
    <2>8. Len(x) = 1 + a
      <3>1. x = <<w.env>> \o l
        BY DEF o, l
      <3> HIDE DEF x
      <3>2. Len(x) = 1 + Len(l)
        BY <2>6, <3>1, FrontList
      <3> QED BY <2>7, <3>2
    <2> HIDE DEF x
    <2>9. Words(r) = 1 + (1 + a)
      BY <2>8, ThingWords
    <2>10. IsList(w.mem) /\ Uses(2 + a, w, Append(w.mem, r))
      BY <2>1, <2>2 DEF MachineOK, Shape, x, a
    <2> HIDE DEF r
    <2>11. Words(r) \in Nat /\ Words(r) <= 2 + a /\ 2 + a \in Nat
      BY <2>3, <2>9 DEF a
    <2> QED BY <2>10, <2>11, RoomForOne
  <1> QED BY <1>9, <1>10

LEMMA RetPartialRoom ==
  ASSUME MachineInv, RetPartial
  PROVE  RoomKept'
  <1> DEFINE n == ArgsOnStack(vm.stack)
             h(w) == <<Applied(w).fun>>
             x(w) == h(w) \o Applied(w).args \o TakeArgs(w, n)
             g(w) == Append(w.mem, Thing("PAP", <<>>, x(w)))
  <1>1. Running /\ pc = "ret" /\ IsFunction
    BY DEF RetPartial, Ret
  <1>2. PICK w \in Reserved(2, vm) : Uses(2 + Len(Applied(w).args) + n, w, g(w))
    BY DEF RetPartial
  <1>3. IsList(vm.stack)
    <2> DEFINE f == Top(vm.stack)
    <2>1. f = Top(vm.stack)
      OBVIOUS
    <2> HIDE DEF f
    <2> QED BY <1>1, <2>1, AtTop
  <1>4. n \in 0 .. n /\ n \in Nat
    <2>1. n \in 0 .. Len(vm.stack) /\ Len(vm.stack) \in Nat
      BY <1>3, ArgsFacts
    <2> QED BY <2>1
  <1> DEFINE f == Applied(w)
             t == TakeArgs(w, n)
             a == f.args
             y == x(w)
             r == Thing("PAP", <<>>, y)
  <1>5. /\ prog \in Program /\ MachineOK(prog, w) /\ Value(w.space, w.mem, w.val) /\ Function(w)
        /\ IsList(t) /\ Len(t) = n /\ Values(w.space, w.mem, t, 1)
    BY <1>1, <1>2, <1>4, FunctionReserved
  <1>6. IsList(a) /\ Values(w.space, w.mem, a, 1) /\ Len(a) \in Nat
    BY <1>5, AppliedFacts
  <1>7. Len(y) = 1 + (Len(a) + n)
    <2> DEFINE l == h(w)
               sp == w.space
               e == w.mem
    <2>1. IsList(l) /\ Len(l) = 1
      BY OneList
    <2>2. IsList(a) /\ Values(sp, e, a, 1)
      BY <1>6
    <2>3. y = l \o a \o t
      OBVIOUS
    <2>4. IsList(t) /\ Values(sp, e, t, 1) /\ Len(t) = n
      BY <1>5
    <2> HIDE DEF l, a, t, y, f, sp, e, n
    <2>5. Block(sp, e, l, a, t)
      BY <2>1, <2>2, <2>4 DEF Block
    <2>6. LET z == l \o a \o t IN Len(z) = 1 + (Len(a) + Len(t))
      BY <2>5, HeadedValues
    <2> QED BY <2>3, <2>4, <2>6
  <1>8. IsList(w.mem) /\ Uses(2 + Len(a) + n, w, Append(w.mem, r))
    BY <1>2, <1>5 DEF MachineOK, Shape
  <1> HIDE DEF y, n
  <1>9. Words(r) = 1 + (1 + (Len(a) + n))
    BY <1>7, ThingWords
  <1> HIDE DEF r, a
  <1>10. Words(r) \in Nat /\ Words(r) <= 2 + Len(a) + n /\ 2 + Len(a) + n \in Nat
    BY <1>4, <1>6, <1>9
  <1> QED BY <1>8, <1>10, RoomForOne

LEMMA RetApplyRoom ==
  ASSUME MachineInv, RetApply
  PROVE  RoomKept'
  <1> DEFINE n == Needed - Have
             x(w) == Obj(w, Applied(w).fun).ptr \o Applied(w).args \o TakeArgs(w, n)
             g(w) == Append(w.mem, Thing("ENV", <<>>, x(w)))
  <1>1. Running /\ pc = "ret" /\ IsFunction /\ n <= ArgsOnStack(vm.stack)
        /\ Obj(vm, Applied(vm).fun).kind = "FUN"
    BY DEF RetApply, Ret
  <1>2. PICK w \in Reserved(2, vm) : Uses(2 + Needed, w, g(w))
    BY DEF RetApply
  <1>3. n \in 0 .. ArgsOnStack(vm.stack) /\ Have + n = Needed /\ Needed \in Nat /\ Have \in Nat
    BY <1>1, ArgumentsTaken
  <1> DEFINE f == Applied(w)
             t == TakeArgs(w, n)
             o == Obj(w, f.fun)
             y == x(w)
             sp == w.space
             e == w.mem
             r == Thing("ENV", <<>>, y)
             k == Needed
  <1>5. /\ prog \in Program /\ MachineOK(prog, w) /\ Value(sp, e, w.val)
        /\ Function(w) /\ SameObject(Obj(vm, Applied(vm).fun), o) /\ Len(f.args) = Have
        /\ IsList(t) /\ Len(t) = n /\ Values(sp, e, t, 1)
    BY <1>1, <1>2, <1>3, FunctionReserved
  <1>6. o.kind = "FUN"
    BY <1>1, <1>5 DEF SameObject
  <1>7. IsList(f.args) /\ Values(sp, e, f.args, 1) /\ Good(prog, sp, e, o)
    <2>1. /\ IsList(f.args) /\ Values(sp, e, f.args, 1)
          /\ o.kind = "FUN" => Good(prog, sp, e, o)
      BY <1>5, AppliedFacts
    <2> QED BY <1>6, <2>1
  <1> HIDE DEF o
  <1>9. IsList(o.ptr) /\ Len(o.ptr) = 1
    BY <1>6, <1>7 DEF Good
  <1>10. Len(y) = 1 + k
    <2> DEFINE l == o.ptr
               a == f.args
    <2>1. Block(sp, e, l, a, t) /\ Len(a) = Have /\ Len(t) = n
      BY <1>5, <1>7, <1>9 DEF Block
    <2>3. y = l \o a \o t
      BY DEF o
    <2> HIDE DEF l, a, t, y, f, sp, e, n
    <2>5. LET z == l \o a \o t IN IsList(z) /\ Len(z) = 1 + (Len(a) + Len(t)) /\ z[1] = l[1] /\ Values(sp, e, z, 2)
      BY <2>1, HeadedValues
    <2> QED BY <1>3, <2>1, <2>3, <2>5
  <1>11. IsList(w.mem) /\ Uses(2 + k, w, Append(w.mem, r))
    BY <1>2, <1>5 DEF MachineOK, Shape
  <1>k. k \in Nat
    BY <1>3
  <1> HIDE DEF y, k
  <1>12. Words(r) = 1 + (1 + k)
    BY <1>10, ThingWords
  <1> HIDE DEF r
  <1>13. Words(r) \in Nat /\ Words(r) <= 2 + k /\ 2 + k \in Nat
    BY <1>k, <1>12
  <1> QED BY <1>11, <1>13, RoomForOne

LEMMA RetPrimitiveRoom ==
  ASSUME MachineInv, RetPrimitive
  PROVE  RoomKept'
  <1> DEFINE n == Needed - Have
             c(w) == Applied(w).args \o TakeArgs(w, n)
             x(w) == <<Applied(w).fun>> \o c(w)
             g(w) == Append(w.mem, Thing("PAP", <<>>, x(w)))
  <1>1. Running /\ pc = "ret" /\ IsFunction /\ n <= ArgsOnStack(vm.stack)
    BY DEF RetPrimitive, Ret
  <1>2. PICK w \in Reserved(2, vm) : Uses(2 + Needed, w, g(w))
    BY DEF RetPrimitive
  <1>3. n \in 0 .. ArgsOnStack(vm.stack) /\ Have + n = Needed /\ Needed \in Nat /\ Have \in Nat
    BY <1>1, ArgumentsTaken
  <1> DEFINE f == Applied(w)
             t == TakeArgs(w, n)
             y == x(w)
             sp == w.space
             e == w.mem
             b == c(w)
             r == Thing("PAP", <<>>, y)
             k == Needed
  <1>5. /\ prog \in Program /\ MachineOK(prog, w) /\ Value(sp, e, w.val) /\ Function(w)
        /\ Len(f.args) = Have
        /\ IsList(t) /\ Len(t) = n /\ Values(sp, e, t, 1)
    BY <1>1, <1>2, <1>3, FunctionReserved
  <1>6. IsList(f.args) /\ Values(sp, e, f.args, 1)
    BY <1>5, AppliedFacts
  <1>7. Len(y) = 1 + k
    <2> DEFINE l == <<f.fun>>
               a == f.args
    <2>0. IsList(l) /\ Len(l) = 1
      BY OneList
    <2>1. Block(sp, e, l, a, t) /\ Len(a) = Have /\ Len(t) = n
      BY <1>5, <1>6, <2>0 DEF Block
    <2>3. y = l \o (a \o t)
      OBVIOUS
    <2> HIDE DEF l, a, t, y, f, sp, e, n, b
    <2>4. Block(sp, e, l, a, t)
      BY <2>1
    <2>5. LET z == l \o (a \o t) IN IsList(z) /\ Len(z) = 1 + (Len(a) + Len(t)) /\ z[1] = l[1] /\ Values(sp, e, z, 2)
      BY <2>4, HeadedValues
    <2> QED BY <1>3, <2>1, <2>3, <2>5
  <1>8. IsList(w.mem) /\ Uses(2 + k, w, Append(w.mem, r))
    BY <1>2, <1>5 DEF MachineOK, Shape
  <1>k. k \in Nat
    BY <1>3
  <1> HIDE DEF y, k
  <1>9. Words(r) = 1 + (1 + k)
    BY <1>7, ThingWords
  <1> HIDE DEF r
  <1>10. Words(r) \in Nat /\ Words(r) <= 2 + k /\ 2 + k \in Nat
    BY <1>k, <1>9
  <1> QED BY <1>8, <1>10, RoomForOne
-----------------------------------------------------------------------------
(* The primitives and the returns to C code.                               *)

LEMMA CallIntAddRoom ==
  ASSUME MachineInv, CallIntAdd
  PROVE  RoomKept'
  <1> DEFINE sum == Obj(vm, CallArg(1)).code + Obj(vm, CallArg(2)).code
             static == sum \in SmallInt
             n == IF static THEN 0 ELSE 2
             b(w) == Boxed(w, w.mem, "INT", sum, static)
  <1>1. PICK w \in Reserved(n, vm) : Uses(n, w, b(w).mem)
    BY DEF CallIntAdd
  <1>s. static \in BOOLEAN
    <2>1. \A S, x : (x \in S) \in BOOLEAN
      BY SMT
    <2> QED BY <2>1, Zenon
  <1>n. n \in Nat
    OBVIOUS
  <1> DEFINE m == b(w).mem
             h == w.mem
  <1> HIDE DEF static, sum
  <1>2. Base(w)
    BY <1>1, Reservation
  <1>3. IsList(h)
    BY <1>2 DEF Base, MachineOK, Shape
  <1>4. Took(m, h, n)
    <2> DEFINE k == "INT"
    <2>1. k \in {"INT", "CHAR"}
      OBVIOUS
    <2> HIDE DEF k, h
    <2>2. Took(Boxed(w, h, k, sum, static).mem, h, IF static THEN 0 ELSE 2)
      BY <1>3, <1>s, <2>1, BoxedRoom
    <2> QED BY <2>2 DEF k, h
  <1> HIDE DEF m, n
  <1>5. WordsSince(w, m) \in Nat /\ WordsSince(w, m) <= n
    BY <1>3, <1>4, <1>n, TookRoom
  <1> QED BY <1>1, <1>5, <1>n, RoomAfter DEF m

\* io_result() takes exactly what it reserves.
LEMMA IoResultRoom ==
  ASSUME prog \in Program, NEW v, MachineOK(prog, v), NEW x, Maybe(v.space, v.mem, x), NEW a, IoResult(v, x, a)
  PROVE  RoomKept'
  <1> DEFINE l(w) == <<Unit, Top(w.roots)>>
             o(w) == Thing("CON", "IoRes", l(w))
  <1>1. PICK w \in Reserved(4, Rooted(v, x)) : Uses(4, w, Append(w.mem, o(w)))
    BY DEF IoResult, Rooted
  <1>2. IsList(w.mem)
    <2>1. MachineOK(prog, w)
      BY <1>1, RootedReservation
    <2> QED BY <2>1 DEF MachineOK, Shape
  <1> DEFINE p == l(w)
             r == o(w)
  <1>3. Len(p) = 2
    OBVIOUS
  <1>4. Words(r) = 4
    <2> DEFINE k == "IoRes"
    <2> HIDE DEF p, k
    <2>1. Words(Thing("CON", k, p)) = 2 + Len(p)
      BY ThingWords
    <2> QED BY <1>3, <2>1 DEF k, p
  <1>5. Uses(4, w, Append(w.mem, r))
    BY <1>1
  <1> HIDE DEF r
  <1>6. Words(r) \in Nat /\ Words(r) <= 4 /\ 4 \in Nat
    BY <1>4
  <1> QED BY <1>2, <1>5, <1>6, RoomForOne

LEMMA CallMutVarReadRoom ==
  ASSUME MachineInv, CallMutVarRead
  PROVE  RoomKept'
  <1> DEFINE f == Top(vm.stack)
             con == "MutVar"
             p == CallArg(1)
             o == vm.mem[p[2]]
             x == Content
             a == Len(vm.stack)
  <1>1. Running /\ pc = "call" /\ f.code = "mutVarRead" /\ prog' = prog
        /\ CellIs(con) /\ IoResult(vm, x, a) /\ con \in Cells
    BY DEF CallMutVarRead, Calls, Cells
  <1>2. f = Top(vm.stack) /\ p = CallArg(1) /\ o = vm.mem[p[2]]
    OBVIOUS
  <1>3. 1 \in 1 .. Arity[f.code]
    BY <1>1 DEF Arity
  <1> HIDE DEF f, p, o
  <1>4. Maybe(vm.space, vm.mem, x)
    <2>1. Holds(con, Content)
      BY <1>1, <1>2, <1>3, CellFacts
    <2> QED BY <2>1 DEF Holds, Maybe
  <1>5. prog \in Program /\ MachineOK(prog, vm)
    BY <1>1, <1>2, AtCall
  <1> HIDE DEF x, a
  <1> QED BY <1>1, <1>4, <1>5, IoResultRoom

LEMMA CallMvarTakeRoom ==
  ASSUME MachineInv, CallMvarTake
  PROVE  RoomKept'
  <1> DEFINE f == Top(vm.stack)
             con == "MVar"
             p == CallArg(1)
             o == vm.mem[p[2]]
             v == SetContent(Null)
             x == Content
             a == Len(vm.stack)
  <1>1. Running /\ pc = "call" /\ f.code = "mvarTake" /\ UNCHANGED <<prog, runs, jump, status>>
        /\ CellIs(con) /\ x # Null /\ IoResult(v, x, a) /\ con \in Cells
    BY DEF CallMvarTake, Calls, Cells
  <1>2. f = Top(vm.stack) /\ p = CallArg(1) /\ o = vm.mem[p[2]]
    OBVIOUS
  <1>3. 1 \in 1 .. Arity[f.code]
    BY <1>1 DEF Arity
  <1> HIDE DEF f, p, o
  <1>4. Value(vm.space, vm.mem, x)
    <2>1. Holds(con, Content)
      BY <1>1, <1>2, <1>3, CellFacts
    <2> QED BY <1>1, <2>1 DEF Holds, Maybe
  <1>5. /\ prog \in Program /\ MachineOK(prog, vm) /\ RootsAreValues(vm) /\ gcs \in Nat
        /\ RunsOK(vm.stack, runs', jump', Len(vm.roots)) /\ vm.stack # <<>> /\ f.kind = "PRIM"
    BY <1>1, <1>2, AtCall
  <1>6. gcs' \in Nat
    <2>1. \E w : gcs' = IF w.space = vm.space THEN gcs ELSE gcs + 1
      BY <1>1 DEF IoResult, Uses
    <2> QED BY <1>5, <2>1
  <1>7. From(vm)
    BY <1>1, <1>5, <1>6 DEF From
  <1>8. Holds(con, Null)
    BY DEF Holds, Maybe
  <1>9. v.space = vm.space /\ MachineOK(prog, v) /\ Later(vm.mem, v.mem)
    BY <1>1, <1>2, <1>3, <1>7, <1>8, CellStored
  <1> HIDE DEF v, x, a
  <1>10. Value(v.space, v.mem, x)
    BY <1>4, <1>9, ValueLater
  <1>11. Maybe(v.space, v.mem, x)
    BY <1>10 DEF Maybe
  <1> QED BY <1>1, <1>5, <1>9, <1>11, IoResultRoom

LEMMA StringForcedRoom ==
  ASSUME MachineInv, Running, Top(vm.stack).kind = "STOP", Caller.caller \in {"cell", "head"}, prog' = prog,
         StringForced
  PROVE  RoomKept' \/ BuildsNothing
  <1> DEFINE v == Unrooted(Popped)
             a == Caller.at
             x == IntObject(Len(Caller.out))
  <1>1. /\ prog \in Program /\ MachineOK(prog, Popped) /\ RootsAreValues(Popped) /\ Popped.roots = vm.roots
    BY AtStop
  <1>2. vm.roots # <<>>
    BY AtString
  <1>3. MachineOK(prog, v)
    BY <1>1, <1>2, UnrootedValues
  <1>4. CASE a = 0
    BY <1>4, IsRecorded DEF StringForced, BuildsNothing, Popped, Recorded, Fields
  <1>5. CASE a # 0
    <2>1. IoResult(v, x, a)
      BY <1>5 DEF StringForced, Unrooted
    <2> HIDE DEF v
    <2>2. Maybe(v.space, v.mem, x)
      BY DEF Maybe, Value, StaticValue, IntObject
    <2> HIDE DEF x, a
    <2> QED BY <1>1, <1>3, <2>1, <2>2, IoResultRoom
  <1> QED BY <1>4, <1>5

LEMMA ReturnCellRoom ==
  ASSUME MachineInv, ReturnCell
  PROVE  RoomKept' \/ BuildsNothing
  <1> DEFINE o == Obj(vm, vm.val)
  <1>1. Running /\ Top(vm.stack).kind = "STOP" /\ Caller.caller = "cell" /\ prog' = prog
    BY DEF ReturnCell, Returns, Ret
  <1>2. CASE o.kind = "CON" /\ Len(o.ptr) = 2
    BY <1>2, IsRecorded DEF ReturnCell, StartRun, Popped, BuildsNothing, Recorded, Fields
  <1>3. CASE ~ (o.kind = "CON" /\ Len(o.ptr) = 2)
    <2>1. StringForced
      BY <1>3 DEF ReturnCell
    <2> QED BY <1>1, <2>1, StringForcedRoom
  <1> QED BY <1>2, <1>3

LEMMA ReturnHeadRoom ==
  ASSUME MachineInv, ReturnHead
  PROVE  RoomKept' \/ BuildsNothing
  <1> DEFINE o == Obj(vm, vm.val)
  <1>1. Running /\ Top(vm.stack).kind = "STOP" /\ Caller.caller = "head" /\ prog' = prog
    BY DEF ReturnHead, Returns, Ret
  <1>2. CASE o.kind = "CHAR"
    BY <1>2, IsRecorded DEF ReturnHead, StartRun, Popped, BuildsNothing, Recorded, Fields
  <1>3. CASE o.kind # "CHAR"
    <2>1. StringForced
      BY <1>3 DEF ReturnHead
    <2> QED BY <1>1, <2>1, StringForcedRoom
  <1> QED BY <1>2, <1>3

-----------------------------------------------------------------------------
(* Every step.                                                             *)

LEMMA EvalRoom ==
  ASSUME MachineInv, EvalStep
  PROVE  RoomKept' \/ BuildsNothing
  <1>1. CASE EvalVar \/ EvalGlobal \/ EvalApp \/ EvalFun \/ EvalCase
    BY <1>1, QuietEval
  <1>2. CASE EvalLiteral \/ EvalAtom \/ PushArg \/ EvalLet
    BY <1>2, EvalLiteralRoom, EvalAtomRoom, PushArgRoom, EvalLetRoom
  <1> QED BY <1>1, <1>2 DEF EvalStep

LEMMA EnterRoom ==
  ASSUME MachineInv, EnterStep, ~ Overdraws
  PROVE  RoomKept' \/ BuildsNothing
  <1>1. CASE EnterInd \/ EnterThunk \/ EnterBlackhole \/ EnterEmptyStr \/ EnterValue
    BY <1>1, QuietEnter
  <1>2. CASE EnterStr
    BY <1>2, EnterStrRoom
  <1> QED BY <1>1, <1>2 DEF EnterStep

LEMMA RetRoom ==
  ASSUME MachineInv, RetStep
  PROVE  RoomKept' \/ BuildsNothing
  <1>1. CASE RetUpdate \/ NoAlternative \/ NotAFunction \/ RetStrict \/ RetCatch
    BY <1>1, QuietRet
  <1>2. CASE RetCase \/ RetPartial \/ RetApply \/ RetPrimitive
    BY <1>2, RetCaseRoom, RetPartialRoom, RetApplyRoom, RetPrimitiveRoom
  <1> QED BY <1>1, <1>2 DEF RetStep

LEMMA CallRoom ==
  ASSUME MachineInv, CallStep, ~ Overdraws
  PROVE  RoomKept' \/ BuildsNothing
  <1>1. CASE \/ CallWhnf \/ CallCatch \/ CallRaise \/ CallMutVarWrite \/ CallMvarPut
             \/ Blocked \/ NotACell \/ CallFileSize
    BY <1>1, QuietCall
  <1>2. CASE CallIntAdd \/ CallMutVarRead \/ CallMvarTake
    BY <1>2, CallIntAddRoom, CallMutVarReadRoom, CallMvarTakeRoom
  <1>3. CASE CallMutVarNew \/ CallMvarNew
    BY <1>3 DEF CallMutVarNew, CallMvarNew, Overdraws
  <1> QED BY <1>1, <1>2, <1>3 DEF CallStep

LEMMA ReturnRoom ==
  ASSUME MachineInv, ReturnStep
  PROVE  RoomKept' \/ BuildsNothing
  <1>1. CASE ReturnMain \/ ReturnToken \/ ReturnReport
    BY <1>1, QuietReturn
  <1>2. CASE ReturnCell \/ ReturnHead
    BY <1>2, ReturnCellRoom, ReturnHeadRoom
  <1> QED BY <1>1, <1>2 DEF ReturnStep

LEMMA NextRoom ==
  ASSUME MachineInv, [Next]_vars
  PROVE  RoomKept' \/ BuildsNothing \/ Overdraws
  <1>1. CASE UNCHANGED vars
    BY <1>1 DEF vars, BuildsNothing
  <1>2. CASE Next
    BY <1>2, EvalRoom, EnterRoom, RetRoom, CallRoom, ReturnRoom, QuietUnwind DEF Next
  <1> QED BY <1>1, <1>2
-----------------------------------------------------------------------------
(* The globals.                                                            *)

LEMMA SinceTook ==
  ASSUME NEW v, IsList(v.mem), NEW h, IsList(h), Len(v.mem) <= Len(h), Sized(Behind(Len(v.mem), h)),
         NEW n \in Nat, NEW mem, Took(mem, h, n)
  PROVE  /\ Sized(Behind(Len(v.mem), mem)) /\ Len(v.mem) <= Len(mem) /\ IsList(mem)
         /\ WordsSince(v, mem) \in Nat /\ WordsSince(v, mem) <= WordsSince(v, h) + n
  <1>1. PICK s : mem = h \o s /\ Sized(s) /\ Size(s) <= n
    BY DEF Took
  <1>2. /\ Sized(Behind(Len(v.mem), h \o s))
        /\ WordsSince(v, h \o s) = WordsSince(v, h) + Size(s)
        /\ Len(v.mem) <= Len(h \o s) /\ IsList(h \o s)
    BY <1>1, SinceConcat
  <1>3. WordsSince(v, h) \in Nat /\ Size(s) \in Nat
    <2>1. WordsSince(v, h) = Size(Behind(Len(v.mem), h))
      BY BehindSize
    <2> QED BY <1>1, <2>1, SizeOf
  <1>4. WordsSince(v, mem) \in Nat /\ WordsSince(v, mem) <= WordsSince(v, h) + n
    BY <1>1, <1>2, <1>3
  <1> QED BY <1>1, <1>2, <1>4

LEMMA GlobalRoom ==
  ASSUME NEW pg \in Program, NEW bodies, NEW j, NEW v, Recorded(v), IsList(v.mem),
         <<bodies[j], <<>>>> \in Code[pg]
  PROVE  /\ GlobalSize(bodies[j]) \in Nat
         /\ Took(NextGlobal(bodies, j, v).mem, v.mem, GlobalSize(bodies[j]))
  <1> DEFINE e == bodies[j]
             m == v.mem
             a == IF DirectGlobal(e) THEN Atom(v, m, e, Null)
                  ELSE [mem |-> Append(m, Thing("THUNK", e, <<Null>>)), p |-> NewPtr(v, m)]
             s == <<>>
  <1>1. NextGlobal(bodies, j, v).mem = a.mem
    <2> DEFINE h == a.mem
               g == Append(v.globals, a.p)
    <2>1. NextGlobal(bodies, j, v) = [v EXCEPT !.mem = h, !.globals = g]
      BY DEF NextGlobal
    <2> HIDE DEF h, g
    <2>2. NextGlobal(bodies, j, v).mem = h
      BY <2>1 DEF Recorded, Fields
    <2> QED BY <2>2 DEF h
  <1>2. <<e, s>> \in Code[pg]
    OBVIOUS
  <1> HIDE DEF e, s
  <1>3. CASE DirectGlobal(e)
    <2>1. a = Atom(v, m, e, Null) /\ GlobalSize(e) = AtomSize(e)
      BY <1>3 DEF GlobalSize
    <2> HIDE DEF a, m
    <2>2. AtomSize(e) \in Nat /\ Took(Atom(v, m, e, Null).mem, m, AtomSize(e))
      BY <1>2, AtomRoom
    <2> QED BY <1>1, <2>1, <2>2 DEF e, m
  <1>4. CASE ~ DirectGlobal(e)
    <2> DEFINE l == <<Null>>
               o == Thing("THUNK", e, l)
    <2>1. a.mem = Append(m, o) /\ GlobalSize(e) = 3
      BY <1>4 DEF GlobalSize
    <2> HIDE DEF l
    <2>2. Words(o) = 3
      BY ThingWords
    <2> HIDE DEF o, a
    <2>3. IsList(m) /\ 3 \in Nat
      OBVIOUS
    <2> HIDE DEF m
    <2>4. Took(Append(m, o), m, 3)
      BY <2>2, <2>3, OneTook
    <2> QED BY <1>1, <2>1, <2>4 DEF e, m
  <1> QED BY <1>3, <1>4

\* init_globals() reserves once for all of them.
LEMMA GlobalsRoom ==
  ASSUME NEW pg \in Program
  PROVE  LET b == pg.globals
             n == Total([i \in DOMAIN b |-> GlobalSize(b[i])])
             m == Globals(b, Len(b)).mem
         IN  n \in Nat /\ WordsSince(Blank, m) \in Nat /\ WordsSince(Blank, m) <= n
  <1> DEFINE b == pg.globals
             n == Len(b)
             c == [i \in DOMAIN b |-> GlobalSize(b[i])]
  <1>1. IsList(b) /\ \A g \in DOMAIN b : <<b[g], <<>>>> \in Code[pg]
    BY CodeAssumption
  <1>2. n \in Nat /\ DOMAIN b = 1 .. n
    BY <1>1, ListFacts
  <1> HIDE DEF b, n
  <1>3. PICK f : GlobalLoop(b, n, f)
    BY <1>2, GlobalsSteps
  <1>4. f[0] = Blank /\ Globals(b, n) = f[n] /\ \A i \in 1 .. n : f[i] = NextGlobal(b, i, f[i - 1])
    BY <1>3 DEF GlobalLoop
  <1>5. /\ Recorded(Blank) /\ Blank.space = "A" /\ Blank.stack = <<>> /\ Blank.roots = <<>>
        /\ Blank.env = Null /\ Blank.val = Null /\ Blank.exc = Null /\ Blank.mem = <<>> /\ Blank.globals = <<>>
    BY DEF Blank, Recorded, Fields
  <1>6. GlobalsOK(pg, 0, Blank)
    <2>1. HeapOK(pg, "A", <<>>, {}) /\ BlackHoles(<<>>) = {} /\ IsList(<<>>) /\ Len(<<>>) = 0 /\ 1 .. 0 = {}
      BY EmptyList DEF HeapOK, BlackHoles
    <2> QED BY <1>5, <2>1 DEF GlobalsOK
  <1>b. IsList(Blank.mem) /\ Len(Blank.mem) = 0
    BY <1>5, EmptyList
  <1>7. c \in [1 .. n -> Nat] /\ \A i \in 1 .. n : c[i] = GlobalSize(b[i])
    <2>1. \A i \in 1 .. n : GlobalSize(b[i]) \in Nat
      BY <1>1, <1>2, <1>5, <1>b, GlobalRoom
    <2> QED BY <1>2, <2>1
  <1> HIDE DEF c
  <1>8. PICK t : Totals(t, c, n) /\ Total(c) = t[n] /\ Total(c) \in Nat
    BY <1>2, <1>7, TotalOf
  <1> DEFINE k == Len(Blank.mem)
             OK(i, v) == /\ GlobalsOK(pg, i, v)
                         /\ Sized(Behind(k, v.mem)) /\ k <= Len(v.mem)
                         /\ WordsSince(Blank, v.mem) \in Nat /\ WordsSince(Blank, v.mem) <= t[i]
  <1>9. OK(0, f[0])
    <2>1. Sized(Behind(k, Blank.mem)) /\ WordsSince(Blank, Blank.mem) = 0
      BY <1>b, SinceItself
    <2>2. t[0] = 0
      BY <1>8 DEF Totals
    <2>3. k <= Len(Blank.mem)
      BY <1>b
    <2>4. WordsSince(Blank, Blank.mem) \in Nat /\ WordsSince(Blank, Blank.mem) <= t[0]
      BY <2>1, <2>2
    <2> QED BY <1>4, <1>6, <2>1, <2>3, <2>4
  <1>10. ASSUME NEW i \in 1 .. n, OK(i - 1, f[i - 1]) PROVE OK(i, f[i])
    <2> DEFINE v == f[i - 1]
               h == v.mem
               x == NextGlobal(b, i, v)
               z == GlobalSize(b[i])
    <2>1. /\ GlobalsOK(pg, i - 1, v) /\ Sized(Behind(k, h)) /\ k <= Len(h)
          /\ WordsSince(Blank, h) \in Nat /\ WordsSince(Blank, h) <= t[i - 1]
      BY <1>10
    <2>2. f[i] = x
      BY <1>4
    <2>3. <<b[i], <<>>>> \in Code[pg]
      BY <1>1, <1>2
    <2>4. i - 1 \in Nat /\ (i - 1) + 1 = i /\ i - 1 \in 0 .. n
      BY <1>2
    <2> HIDE DEF v
    <2>5. GlobalsOK(pg, i, x)
      <3> DEFINE j == i - 1
      <3>1. j \in Nat /\ j + 1 = i /\ GlobalsOK(pg, j, v) /\ <<b[j + 1], <<>>>> \in Code[pg]
        BY <2>1, <2>3, <2>4
      <3> HIDE DEF j
      <3>2. GlobalsOK(pg, j + 1, NextGlobal(b, j + 1, v))
        BY <3>1, GlobalMade
      <3> QED BY <3>1, <3>2
    <2>6. Recorded(v) /\ IsList(h)
      BY <2>1 DEF GlobalsOK, HeapOK
    <2>7. z \in Nat /\ Took(x.mem, h, z)
      BY <2>3, <2>6, GlobalRoom
    <2> HIDE DEF h, x, z
    <2>8. /\ Sized(Behind(k, x.mem)) /\ k <= Len(x.mem) /\ WordsSince(Blank, x.mem) \in Nat
          /\ WordsSince(Blank, x.mem) <= WordsSince(Blank, h) + z
      <3> DEFINE mem == x.mem
      <3>1. Took(mem, h, z) /\ IsList(h)
        BY <2>6, <2>7 DEF h
      <3> HIDE DEF mem
      <3>2. /\ Sized(Behind(k, mem)) /\ k <= Len(mem) /\ WordsSince(Blank, mem) \in Nat
            /\ WordsSince(Blank, mem) <= WordsSince(Blank, h) + z
        BY <1>b, <2>1, <2>7, <3>1, SinceTook
      <3> QED BY <3>2 DEF mem
    <2>9. t[i] = t[i - 1] + z /\ t[i - 1] \in Nat
      BY <1>7, <1>8, <2>4 DEF Totals, z
    <2>10. WordsSince(Blank, x.mem) <= t[i]
      BY <2>1, <2>7, <2>8, <2>9
    <2> QED BY <2>2, <2>5, <2>8, <2>10
  <1>o. OK(n, f[n]) => WordsSince(Blank, f[n].mem) \in Nat /\ WordsSince(Blank, f[n].mem) <= t[n]
    OBVIOUS
  <1>m. \A i \in 1 .. n : OK(i - 1, f[i - 1]) => OK(i, f[i])
    BY <1>10
  <1> HIDE DEF OK, k
  <1> DEFINE T == {i \in Nat : i <= n => OK(i, f[i])}
  <1>11. 0 \in T
    BY <1>9
  <1>12. ASSUME NEW i \in Nat, i \in T PROVE i + 1 \in T
    <2>1. i + 1 <= n => i + 1 \in 1 .. n /\ (i + 1) - 1 = i /\ i <= n
      BY <1>2
    <2> QED BY <2>1, <1>m, <1>12
  <1>13. \A i \in Nat : i \in T
    <2> HIDE DEF T
    <2> QED BY <1>11, <1>12, SetInduction
  <1>14. OK(n, f[n])
    BY <1>2, <1>13
  <1>15. WordsSince(Blank, Globals(b, n).mem) \in Nat /\ WordsSince(Blank, Globals(b, n).mem) <= Total(c)
    BY <1>4, <1>8, <1>14, <1>o
  <1> QED BY <1>8, <1>15 DEF c, n, b

\* The machine starts with room.
LEMMA InitRoom ==
  ASSUME Init
  PROVE  RoomKept
  <1> DEFINE b == prog.globals
             n == Total([i \in DOMAIN b |-> GlobalSize(b[i])])
             m == Globals(b, Len(b)).mem
             x == WordsSince(Blank, m)
  <1>1. prog \in Program /\ room = Start(prog).room
    BY DEF Init
  <1>2. Start(prog).room = n - x
    BY DEF Start
  <1>3. n \in Nat /\ x \in Nat /\ x <= n
    BY <1>1, GlobalsRoom
  <1> HIDE DEF n, x
  <1>4. n - x >= 0
    BY <1>3
  <1> QED BY <1>1, <1>2, <1>4 DEF RoomKept

-----------------------------------------------------------------------------

\* "A sequence of allocations reserves its total size first" (the rule that alloc()
\* counts on, eval.c): whatever the program and whenever collections happen, no step
\* overdraws its reservation, but for the two that this theorem has to leave out -
\* new_cell, and a packed string whose first character has no static object.
THEOREM RoomIsKept == Spec => RoomKeptOtherwise
  <1>1. Init => RoomKept
    BY InitRoom
  <1>2. MachineInv /\ [Next]_vars => [RoomKept' \/ BuildsNothing \/ Overdraws]_vars
    BY NextRoom
  <1>3. Spec => []MachineInv
    BY MachineInvariance
  <1> QED BY <1>1, <1>2, <1>3, PTL DEF Spec, RoomKeptOtherwise
=============================================================================
