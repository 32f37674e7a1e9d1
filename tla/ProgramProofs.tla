--------------------------- MODULE ProgramProofs ---------------------------
(***************************************************************************)
(* Proofs about the names of a whole program.                              *)
(***************************************************************************)
EXTENDS Program, Induction, SequenceTheorems, TLAPS

Call(P) == [name : P, i : Nat \ {0}]

\* The program and the stack of calls.
TypeInv ==
    /\ \E programs \in Inputs : input \in programs
    /\ pkg \in 0 .. Len(input.packages) /\ next \in Nat \ {0}
    /\ calls # <<>> => pkg > 0 /\ calls \in Seq(Call(Pending))

-----------------------------------------------------------------------------
(* The program                                                             *)

LEMMA Elements ==
  ASSUME NEW s, IsSeq(s)
  PROVE  /\ Len(s) \in Nat /\ DOMAIN s = 1 .. Len(s)
         /\ \A x : x \in ToSet(s) <=> \E i \in 1 .. Len(s) : s[i] = x
         /\ \A i \in 1 .. Len(s) : s[i] \in ToSet(s)
  BY DEF IsSeq, ToSet

\* A function on 1 .. n with values in S is a sequence.
LEMMA FunctionIsSeq ==
  ASSUME NEW S, NEW n \in Nat, NEW f \in [1 .. n -> S]
  PROVE  f \in Seq(S) /\ Len(f) = n /\ DOMAIN f = 1 .. n
  OBVIOUS

LEMMA OneElement ==
  ASSUME NEW S, NEW x \in S
  PROVE  <<x>> \in Seq(S) /\ ToSet(<<x>>) = {x}
  BY DEF ToSet

\* What is in a concatenation.
LEMMA Concatenated ==
  ASSUME NEW S, NEW a \in Seq(S), NEW b \in Seq(S)
  PROVE  a \o b \in Seq(S) /\ ToSet(a \o b) = ToSet(a) \cup ToSet(b)
  <1> DEFINE c == a \o b
  <1>1. /\ c \in Seq(S) /\ Len(c) = Len(a) + Len(b)
        /\ \A i \in 1 .. Len(a) + Len(b) : c[i] = IF i <= Len(a) THEN a[i] ELSE b[i - Len(a)]
    BY ConcatProperties
  <1> HIDE DEF c
  <1>2. Len(a) \in Nat /\ Len(b) \in Nat /\ DOMAIN a = 1 .. Len(a) /\ DOMAIN b = 1 .. Len(b)
        /\ DOMAIN c = 1 .. Len(a) + Len(b)
    BY <1>1
  <1>3. ASSUME NEW i \in DOMAIN c PROVE c[i] \in ToSet(a) \cup ToSet(b)
    <2>1. CASE i <= Len(a)
      BY <2>1, <1>1, <1>2 DEF ToSet
    <2>2. CASE ~(i <= Len(a))
      <3>1. i - Len(a) \in DOMAIN b
        BY <2>2, <1>2
      <3> QED
        BY <3>1, <2>2, <1>1, <1>2 DEF ToSet
    <2> QED
      BY <2>1, <2>2
  <1>4. ASSUME NEW i \in DOMAIN a PROVE a[i] \in ToSet(c)
    <2>1. i \in DOMAIN c /\ c[i] = a[i]
      BY <1>1, <1>2
    <2> QED
      BY <2>1 DEF ToSet
  <1>5. ASSUME NEW i \in DOMAIN b PROVE b[i] \in ToSet(c)
    <2>1. i + Len(a) \in DOMAIN c /\ c[i + Len(a)] = b[i]
      BY <1>1, <1>2
    <2> QED
      BY <2>1 DEF ToSet
  <1>6. ToSet(c) = ToSet(a) \cup ToSet(b)
    BY <1>3, <1>4, <1>5 DEF ToSet
  <1> QED
    BY <1>1, <1>6 DEF c

LEMMA PackageFacts ==
  ASSUME TypeInv, pkg > 0
  PROVE  /\ IsSeq(input.packages) /\ IsSeq(input.builtins) /\ IsSeq(Package)
         /\ Package \in ToSet(input.packages)
         /\ \A m \in ToSet(Package) :
               /\ m.prelude \in BOOLEAN /\ IsSeq(m.imports) /\ IsSeq(m.exports)
               /\ \A imp \in ToSet(m.imports) : imp.package \in BOOLEAN /\ IsSeq(imp.items)
               /\ \A x \in ToSet(m.exports) : x.kind \in {"name", "module"}
         /\ (input.builtins # <<>> /\ "Prelude" \in Pending) => \A m \in ToSet(Package) : ~m.prelude
  <1>1. PICK programs \in Inputs : input \in programs
    BY DEF TypeInv
  <1>2. IsSeq(input.packages) /\ IsSeq(input.builtins)
    BY <1>1, InputAssumption
  <1>3. Package \in ToSet(input.packages)
    <2>1. pkg \in 1 .. Len(input.packages)
      BY <1>2, Elements DEF TypeInv
    <2> QED
      BY <1>2, <2>1, Elements DEF Package
  <1>4. IsSeq(Package) /\ \A m \in ToSet(Package) :
               /\ m.prelude \in BOOLEAN /\ IsSeq(m.imports) /\ IsSeq(m.exports)
               /\ \A imp \in ToSet(m.imports) : imp.package \in BOOLEAN /\ IsSeq(imp.items)
               /\ \A x \in ToSet(m.exports) : x.kind \in {"name", "module"}
    BY <1>1, <1>3, InputAssumption DEF IsModule
  <1>5. ASSUME input.builtins # <<>>, "Prelude" \in Pending
        PROVE  \A m \in ToSet(Package) : ~m.prelude
    <2>1. PICK i \in DOMAIN Package : Package[i].name = "Prelude"
      BY <1>5 DEF Pending
    <2>2. Package[i] \in ToSet(Package)
      BY <2>1 DEF ToSet
    <2> QED
      BY <1>1, <1>3, <1>5, <2>1, <2>2, PreludeAssumption
  <1> QED
    BY <1>2, <1>3, <1>4, <1>5

\* The later one of two modules of a name is there.
LEMMA LastOfName ==
  ASSUME NEW package, IsSeq(package), NEW n, \E i \in DOMAIN package : package[i].name = n
  PROVE  /\ SourceIn(package, n) \in ToSet(package) /\ SourceIn(package, n).name = n
         /\ \E k \in DOMAIN package :
               /\ SourceIn(package, n) = package[k]
               /\ \A j \in DOMAIN package : package[j].name = n => j <= k
  <1> DEFINE L == Len(package)
             I == {i \in DOMAIN package : package[i].name = n}
             T == {L - i : i \in I}
  <1>1. L \in Nat /\ DOMAIN package = 1 .. L
    BY Elements
  <1>2. T \subseteq Nat /\ T # {}
    BY <1>1
  <1>3. PICK x \in T : \A y \in T : x <= y
    <2> HIDE DEF T
    <2> QED
      BY <1>2, LeastNatural
  <1>4. PICK i \in I : x = L - i
    BY <1>3
  <1>5. \A j \in I : j <= i
    <2> SUFFICES ASSUME NEW j \in I PROVE j <= i
      OBVIOUS
    <2>1. L - i <= L - j
      BY <1>3, <1>4
    <2> QED
      BY <2>1, <1>1, <1>4
  <1>6. \E k \in DOMAIN package :
           /\ package[k].name = n /\ \A j \in DOMAIN package : package[j].name = n => j <= k
    BY <1>4, <1>5
  <1> QED
    BY <1>6 DEF SourceIn, ToSet

LEMMA SourceFacts ==
  ASSUME TypeInv, pkg > 0, NEW n \in Pending
  PROVE  Source(n) \in ToSet(Package) /\ Source(n).name = n
  BY PackageFacts, LastOfName DEF Pending, Source

\* The sites that a module visits as imports.
LEMMA ImportSitesFacts ==
  ASSUME NEW m, IsSeq(m.imports)
  PROVE  /\ ImportSites(m) \in Seq([name : NeedsOf(m), builtin : {FALSE}])
         /\ NeedsOf(m) = ImportsOf(m) \cup IF m.prelude THEN {"Prelude"} ELSE {}
  <1> DEFINE a == [i \in DOMAIN m.imports |-> Site(m.imports[i].module, FALSE)]
             b == IF m.prelude THEN <<Site("Prelude", FALSE)>> ELSE <<>>
             N == ImportsOf(m) \cup IF m.prelude THEN {"Prelude"} ELSE {}
             S == [name : N, builtin : {FALSE}]
  <1>1. DOMAIN m.imports = 1 .. Len(m.imports) /\ Len(m.imports) \in Nat
    BY Elements
  <1>2. a \in Seq(S) /\ ToSet(a) = [name : ImportsOf(m), builtin : {FALSE}]
    <2>1. a \in [1 .. Len(m.imports) -> S]
      BY <1>1 DEF Site, ImportsOf
    <2>2. a \in Seq(S)
      <3> HIDE DEF a, S
      <3> QED
        BY <1>1, <2>1, FunctionIsSeq
    <2>3. ASSUME NEW i \in DOMAIN m.imports
          PROVE  a[i] \in [name : ImportsOf(m), builtin : {FALSE}]
      BY DEF Site, ImportsOf
    <2>4. ASSUME NEW s \in [name : ImportsOf(m), builtin : {FALSE}]
          PROVE  \E i \in DOMAIN m.imports : a[i] = s
      <3>1. PICK i \in DOMAIN m.imports : m.imports[i].module = s.name
        BY DEF ImportsOf
      <3>2. a[i] = [name |-> s.name, builtin |-> FALSE]
        BY <3>1 DEF Site
      <3> QED
        BY <3>2
    <2>5. DOMAIN a = DOMAIN m.imports
      OBVIOUS
    <2> HIDE DEF a
    <2> QED
      BY <2>2, <2>3, <2>4, <2>5 DEF ToSet
  <1>3. b \in Seq(S) /\ ToSet(b) = IF m.prelude THEN {Site("Prelude", FALSE)} ELSE {}
    <2>1. CASE m.prelude
      <3>1. Site("Prelude", FALSE) \in S /\ b = <<Site("Prelude", FALSE)>>
        BY <2>1 DEF Site
      <3>2. <<Site("Prelude", FALSE)>> \in Seq(S) /\ ToSet(<<Site("Prelude", FALSE)>>) = {Site("Prelude", FALSE)}
        <4> HIDE DEF S
        <4> QED
          BY <3>1, OneElement
      <3> HIDE DEF b, S
      <3> QED
        BY <3>1, <3>2, <2>1
    <2>2. CASE ~m.prelude
      BY <2>2 DEF ToSet
    <2> QED
      BY <2>1, <2>2
  <1>4. ImportSites(m) = a \o b
    BY DEF ImportSites
  <1>5. ImportSites(m) \in Seq(S) /\ ToSet(ImportSites(m)) = ToSet(a) \cup ToSet(b)
    <2>1. a \in Seq(S) /\ b \in Seq(S)
      BY <1>2, <1>3
    <2> HIDE DEF a, b, S
    <2>2. a \o b \in Seq(S) /\ ToSet(a \o b) = ToSet(a) \cup ToSet(b)
      BY <2>1, Concatenated
    <2> QED
      BY <1>4, <2>2
  <1>6. NeedsOf(m) = N
    <2> HIDE DEF a, b
    <2>1. ToSet(ImportSites(m)) = [name : ImportsOf(m), builtin : {FALSE}]
                                  \cup IF m.prelude THEN {Site("Prelude", FALSE)} ELSE {}
      BY <1>2, <1>3, <1>5
    <2>2. {s.name : s \in [name : ImportsOf(m), builtin : {FALSE}]} = ImportsOf(m)
      <3>1. ASSUME NEW x \in ImportsOf(m)
            PROVE  \E s \in [name : ImportsOf(m), builtin : {FALSE}] : x = s.name
        <4>1. [name |-> x, builtin |-> FALSE] \in [name : ImportsOf(m), builtin : {FALSE}]
          OBVIOUS
        <4> QED
          BY <4>1
      <3> QED
        BY <3>1
    <2>3. NeedsOf(m) = {s.name : s \in [name : ImportsOf(m), builtin : {FALSE}]}
                       \cup IF m.prelude THEN {"Prelude"} ELSE {}
      <3>1. Site("Prelude", FALSE).name = "Prelude"
        BY DEF Site
      <3> QED
        BY <2>1, <3>1 DEF NeedsOf
    <2> QED
      BY <2>2, <2>3
  <1> QED
    BY <1>5, <1>6

\* A site is an import, or a builtin module.
LEMMA SitesFacts ==
  ASSUME TypeInv, pkg > 0, NEW m \in ToSet(Package)
  PROVE  /\ Len(Sites(m)) \in Nat
         /\ \A i \in Nat \ {0} : i <= Len(Sites(m)) =>
               \/ ~Sites(m)[i].builtin /\ Sites(m)[i].name \in NeedsOf(m)
               \/ Sites(m)[i].builtin /\ Sites(m)[i].name \in ToSet(input.builtins)
         /\ \A d \in NeedsOf(m) : \E i \in 1 .. Len(Sites(m)) : Sites(m)[i] = Site(d, FALSE)
         /\ \A d \in ToSet(input.builtins) : \E i \in 1 .. Len(Sites(m)) : Sites(m)[i] = Site(d, TRUE)
  <1> DEFINE a == ImportSites(m)
             b == [j \in DOMAIN input.builtins |-> Site(input.builtins[j], TRUE)]
             B == [name : ToSet(input.builtins), builtin : {TRUE}]
             A == [name : NeedsOf(m), builtin : {FALSE}]
  <1>1. a \in Seq(A)
    BY PackageFacts, ImportSitesFacts
  <1>2. b \in Seq(B)
    <2>1. /\ DOMAIN input.builtins = 1 .. Len(input.builtins) /\ Len(input.builtins) \in Nat
          /\ \A j \in 1 .. Len(input.builtins) : input.builtins[j] \in ToSet(input.builtins)
      BY PackageFacts, Elements
    <2>2. \A j \in 1 .. Len(input.builtins) : b[j] \in B
      BY <2>1 DEF Site
    <2>3. b \in [1 .. Len(input.builtins) -> B]
      BY <2>1, <2>2
    <2> HIDE DEF b, B
    <2> QED
      BY <2>1, <2>3, FunctionIsSeq
  <1>3. Sites(m) = a \o b
    BY DEF Sites
  <1> HIDE DEF a, b
  <1>4. Sites(m) \in Seq(A \cup B)
    <2>1. a \in Seq(A \cup B) /\ b \in Seq(A \cup B)
      <3> HIDE DEF A, B
      <3> QED
        BY <1>1, <1>2
    <2> HIDE DEF A, B
    <2> QED
      BY <1>3, <2>1, ConcatProperties
  <1> DEFINE t == Sites(m)
  <1>5. Len(t) \in Nat /\ \A i \in Nat \ {0} : i <= Len(t) => t[i] \in A \cup B
    <2> HIDE DEF A, B, t
    <2> QED
      BY <1>4 DEF t
  <1>6. ToSet(t) = ToSet(a) \cup ToSet(b) /\ \A s \in ToSet(t) : \E i \in 1 .. Len(t) : t[i] = s
    <2>1. a \in Seq(A \cup B) /\ b \in Seq(A \cup B)
      <3> HIDE DEF A, B
      <3> QED
        BY <1>1, <1>2
    <2>2. ToSet(t) = ToSet(a) \cup ToSet(b)
      <3> HIDE DEF A, B
      <3> QED
        BY <1>3, <2>1, Concatenated
    <2>3. DOMAIN t = 1 .. Len(t)
      <3> HIDE DEF A, B
      <3> QED
        BY <1>4
    <2> HIDE DEF t
    <2> QED
      BY <2>2, <2>3 DEF ToSet
  <1>7. ASSUME NEW d \in NeedsOf(m) PROVE \E i \in 1 .. Len(t) : t[i] = Site(d, FALSE)
    <2>1. PICK s \in ToSet(a) : s.name = d
      BY DEF NeedsOf, a
    <2>2. s \in A
      <3> HIDE DEF A
      <3> QED
        BY <1>1, <2>1 DEF ToSet
    <2>3. s = Site(d, FALSE)
      BY <2>1, <2>2 DEF Site
    <2> HIDE DEF t
    <2> QED
      BY <1>6, <2>1, <2>3
  <1>8. ASSUME NEW d \in ToSet(input.builtins) PROVE \E i \in 1 .. Len(t) : t[i] = Site(d, TRUE)
    <2>1. Site(d, TRUE) \in ToSet(b)
      BY DEF ToSet, b
    <2> HIDE DEF t
    <2> QED
      BY <1>6, <2>1
  <1> QED
    BY <1>5, <1>7, <1>8

-----------------------------------------------------------------------------
(* Reachability                                                            *)

LEMMA UnvisitedFinite ==
  ASSUME TypeInv, pkg > 0
  PROVE  IsFiniteSet(Unvisited) /\ Cardinality(Unvisited) <= Len(Package) /\ Len(Package) \in Nat
  <1> DEFINE L == Len(Package)
             f == [i \in 1 .. L |-> Package[i].name]
  <1>1. L \in Nat /\ DOMAIN Package = 1 .. L
    BY PackageFacts, Elements
  <1>2. f \in Surjection(1 .. L, Pending)
    BY <1>1 DEF Surjection, Pending
  <1>3. IsFiniteSet(1 .. L) /\ Cardinality(1 .. L) = L
    <2>1. L \in Int /\ 1 \in Int /\ L >= 0
      BY <1>1
    <2> HIDE DEF L
    <2>2. IsFiniteSet(1 .. L) /\ Cardinality(1 .. L) = IF 1 > L THEN 0 ELSE L - 1 + 1
      BY <2>1, FS_Interval
    <2> QED
      BY <2>1, <2>2
  <1>4. IsFiniteSet(Pending) /\ Cardinality(Pending) <= L
    <2> HIDE DEF f, L
    <2> QED
      BY <1>2, <1>3, FS_Surjection
  <1>5. Unvisited \in SUBSET Pending
    BY DEF Unvisited
  <1>6. IsFiniteSet(Unvisited) /\ Cardinality(Unvisited) <= Cardinality(Pending)
    BY <1>4, <1>5, FS_Subset
  <1> QED
    BY <1>1, <1>4, <1>6, FS_CardinalityType

\* What reaches_active() explores: the least set that is closed under the
\* imports of the modules that are neither known nor active.
LEMMA ReachFacts ==
  ASSUME TypeInv, pkg > 0, NEW name
  PROVE  \E R : /\ name \in R /\ (ReachesActive(name) <=> R \cap Active # {})
                /\ \A s \in R \cap Unvisited : ImportsOf(Source(s)) \subseteq R
                /\ \A S : name \in S /\ (\A s \in S \cap Unvisited : ImportsOf(Source(s)) \subseteq S)
                          => R \subseteq S
  <1> DEFINE Step(T) == {name} \cup UNION {ImportsOf(Source(s)) : s \in {s \in T : s \in Unvisited}}
             X == SUBSET ({name} \cup UNION {ImportsOf(Source(s)) : s \in Unvisited})
             G == [T \in X |-> Step(T)]
             L == Len(Package)
  <1>1. {name} \in X /\ G \in [X -> X]
    OBVIOUS
  <1>2. PICK g \in [Nat -> X] : g = [n \in Nat |-> IF n = 0 THEN {name} ELSE G[g[n - 1]]]
    <2> HIDE DEF X, G
    <2> QED
      BY <1>1, Iteration
  <1>3. g = [n \in Nat |-> IF n = 0 THEN {name} ELSE Step(g[n - 1])]
    <2>1. ASSUME NEW n \in Nat PROVE g[n] = IF n = 0 THEN {name} ELSE Step(g[n - 1])
      <3>1. n # 0 => g[n - 1] \in X
        <4> HIDE DEF X, G
        <4> QED
          BY <1>2
      <3>2. n # 0 => G[g[n - 1]] = Step(g[n - 1])
        BY <3>1
      <3> HIDE DEF X, G, Step
      <3> QED
        BY <1>2, <3>2
    <2> HIDE DEF X, G, Step
    <2> QED
      BY <1>2, <2>1
  <1> HIDE DEF X, G
  <1> DEFINE f == CHOOSE f : f = [n \in Nat |-> IF n = 0 THEN {name} ELSE Step(f[n - 1])]
  <1>4. f = [n \in Nat |-> IF n = 0 THEN {name} ELSE Step(f[n - 1])]
    BY <1>3
  <1>5. ReachesActive(name) <=> f[L] \cap Active # {}
    BY DEF ReachesActive, Unvisited
  <1> HIDE DEF f
  <1>6. f[0] = {name} /\ \A n \in Nat : f[n + 1] = Step(f[n])
    <2>1. \A n \in Nat : n + 1 \in Nat /\ n + 1 # 0 /\ (n + 1) - 1 = n
      OBVIOUS
    <2> HIDE DEF Step
    <2> QED
      BY <2>1, <1>4
  <1>7. L \in Nat
    BY UnvisitedFinite
  <1>8. name \in f[L]
    <2>1. L # 0 => L - 1 \in Nat /\ (L - 1) + 1 = L
      BY <1>7
    <2> QED
      BY <2>1, <1>6
  <1>9. \A s \in f[L] \cap Unvisited : ImportsOf(Source(s)) \subseteq f[L]
    <2>1. CASE name \notin Unvisited
      <3> DEFINE T == {n \in Nat : f[n] = {name}}
      <3>1. 0 \in T
        BY <1>6
      <3>2. ASSUME NEW n \in Nat, n \in T PROVE n + 1 \in T
        BY <3>2, <1>6, <2>1
      <3> HIDE DEF T
      <3>3. L \in T
        BY <3>1, <3>2, <1>7, SetInduction
      <3> QED
        BY <3>3, <2>1 DEF T
    <2>2. CASE name \in Unvisited
      <3> DEFINE h == [n \in Nat |-> f[n] \cap Unvisited]
                 T == {n \in Nat : f[n] \subseteq f[n + 1]}
      <3>1. 0 \in T
        BY <1>6
      <3>2. ASSUME NEW n \in Nat, n \in T PROVE n + 1 \in T
        <4>1. f[n] \subseteq f[n + 1] /\ n + 1 \in Nat
          BY <3>2
        <4>2. f[n + 1] = Step(f[n]) /\ f[(n + 1) + 1] = Step(f[n + 1])
          BY <4>1, <1>6
        <4> QED
          BY <4>1, <4>2
      <3> HIDE DEF T
      <3>3. \A n \in Nat : f[n] \subseteq f[n + 1]
        <4>1. \A n \in Nat : n \in T
          BY <3>1, <3>2, SetInduction
        <4> QED
          BY <4>1 DEF T
      <3>4. ASSUME NEW n \in Nat
            PROVE  /\ h[n] \subseteq Unvisited /\ h[n] \subseteq h[n + 1]
                   /\ h[n + 1] = h[n] => f[(n + 1) + 1] = f[n + 1]
        <4>1. n + 1 \in Nat /\ f[n] \subseteq f[n + 1]
          BY <3>3
        <4>2. f[n + 1] = Step(f[n]) /\ f[(n + 1) + 1] = Step(f[n + 1])
          BY <4>1, <1>6
        <4>3. h[n] = f[n] \cap Unvisited /\ h[n + 1] = f[n + 1] \cap Unvisited
          BY <4>1
        <4>4. h[n + 1] = h[n] => Step(f[n + 1]) = Step(f[n])
          BY <4>3
        <4> HIDE DEF Step, h
        <4> QED
          BY <4>1, <4>2, <4>3, <4>4
      <3>5. \A n \in Nat : /\ h[n] \subseteq Unvisited /\ h[n] \subseteq h[n + 1]
                           /\ h[n + 1] = h[n] => h[(n + 1) + 1] = h[n + 1]
        <4>1. \A n \in Nat : n + 1 \in Nat /\ (n + 1) + 1 \in Nat
          OBVIOUS
        <4>2. \A n \in Nat : h[n] = f[n] \cap Unvisited
          OBVIOUS
        <4> HIDE DEF h
        <4> QED
          BY <4>1, <4>2, <3>4
      <3>6. h[0] # {}
        BY <1>6, <2>2
      <3>7. L - 1 \in Nat /\ h[L] = h[L - 1]
        <4> HIDE DEF h, L
        <4> QED
          BY <3>5, <3>6, <1>7, UnvisitedFinite, Saturation DEF L
      <3>8. f[L + 1] = f[L]
        <4>1. (L - 1) + 1 = L /\ L - 1 \in Nat
          BY <3>7, <1>7
        <4> HIDE DEF h, L
        <4> QED
          BY <4>1, <3>4, <3>7
      <3>9. f[L] = Step(f[L])
        <4> HIDE DEF Step
        <4> QED
          BY <3>8, <1>6, <1>7
      <3> QED
        BY <3>9
    <2> QED
      BY <2>1, <2>2
  <1>10. ASSUME NEW S, name \in S, \A s \in S \cap Unvisited : ImportsOf(Source(s)) \subseteq S
         PROVE  f[L] \subseteq S
    <2> DEFINE T == {n \in Nat : f[n] \subseteq S}
    <2>1. 0 \in T
      BY <1>6, <1>10
    <2>2. ASSUME NEW n \in Nat, n \in T PROVE n + 1 \in T
      <3>1. f[n + 1] = Step(f[n]) /\ f[n] \subseteq S
        BY <2>2, <1>6
      <3>2. Step(f[n]) \subseteq S
        BY <3>1, <1>10
      <3> QED
        BY <3>1, <3>2
    <2> HIDE DEF T
    <2>3. L \in T
      BY <2>1, <2>2, <1>7, SetInduction
    <2> QED
      BY <2>3 DEF T
  <1> HIDE DEF L
  <1> QED
    BY <1>5, <1>8, <1>9, <1>10

-----------------------------------------------------------------------------
(* The invariant                                                           *)

Needs(n) == NeedsOf(Source(n))

\* The active call k + 1 is for an import of the module of the call k.
Imported(k) == calls[k + 1].name \in Needs(calls[k].name)
ImportedFrom(k, h) == \A j \in k .. h - 1 : Imported(j)

\* S holds all that its modules need, as far as they are not finished.
Closed(S) ==
    \A s \in S \cap Pending : s \notin DOMAIN modules \/ s \in Active => Needs(s) \subseteq S

\* The module of the call h needs one that failed, which no later call changes.
Broken(h) ==
    \E x \in Needs(calls[h].name) :
        /\ x \in DOMAIN modules /\ ~modules[x].exports.ok
        /\ \A j \in h + 1 .. Len(calls) : calls[j].name # x

ActiveOnce == \A j, k \in 1 .. Len(calls) : calls[j].name = calls[k].name => j = k

ActiveFails ==
    \A k \in 1 .. Len(calls) : calls[k].name \in DOMAIN modules => modules[calls[k].name] = Unresolved

\* Where a builtin module was visited between two calls, the later module does
\* not lead back to the earlier one.
NoWayBack ==
    \A h \in 1 .. Len(calls) : \A k \in 1 .. h :
        \/ ImportedFrom(k, h)
        \/ \E S : Closed(S) /\ calls[h].name \in S /\ calls[k].name \notin S

\* An active module on a cycle is bound to fail: each later call up to a broken
\* one is for an import.
Doomed ==
    \A k \in 1 .. Len(calls) : calls[k].name \in DOMAIN modules =>
        \E h \in k .. Len(calls) : ImportedFrom(k, h) /\ Broken(h)

StackInv == TypeInv /\ ActiveOnce /\ ActiveFails /\ NoWayBack /\ Doomed

LEMMA CallsFacts ==
  ASSUME TypeInv, calls # <<>>
  PROVE  /\ pkg > 0 /\ Len(calls) \in Nat \ {0} /\ DOMAIN calls = 1 .. Len(calls)
         /\ \A k \in 1 .. Len(calls) : calls[k].name \in Pending /\ calls[k].i \in Nat \ {0}
         /\ Top = calls[Len(calls)] /\ Top.name \in Pending /\ Top.i \in Nat \ {0}
         /\ Active = {calls[k].name : k \in 1 .. Len(calls)}
  <1>1. calls \in Seq(Call(Pending)) /\ pkg > 0
    BY DEF TypeInv
  <1>2. Len(calls) \in Nat \ {0} /\ DOMAIN calls = 1 .. Len(calls)
    BY <1>1
  <1>3. \A k \in 1 .. Len(calls) : calls[k] \in Call(Pending)
    BY <1>1, <1>2
  <1>4. Len(calls) \in 1 .. Len(calls)
    BY <1>2
  <1> QED
    BY <1>1, <1>2, <1>3, <1>4 DEF Top, Call, Active

LEMMA AdvancedFacts ==
  ASSUME TypeInv, calls # <<>>
  PROVE  /\ Advanced \in Seq(Call(Pending)) /\ Len(Advanced) = Len(calls)
         /\ \A k \in 1 .. Len(calls) : Advanced[k].name = calls[k].name
         /\ Advanced[Len(calls)].i = Top.i + 1
  <1> DEFINE n == Len(calls)
  <1>1. /\ n \in Nat \ {0} /\ DOMAIN calls = 1 .. n /\ calls \in Seq(Call(Pending))
        /\ \A k \in 1 .. n : calls[k] \in Call(Pending)
    BY CallsFacts DEF TypeInv
  <1>2. [calls[n] EXCEPT !.i = @ + 1] = [name |-> calls[n].name, i |-> calls[n].i + 1]
    BY <1>1 DEF Call
  <1>3. Advanced = [k \in 1 .. n |-> IF k = n THEN [name |-> calls[n].name, i |-> calls[n].i + 1] ELSE calls[k]]
    BY <1>1, <1>2 DEF Advanced
  <1>4. Advanced \in [1 .. n -> Call(Pending)]
    <2>1. [name |-> calls[n].name, i |-> calls[n].i + 1] \in Call(Pending)
      BY <1>1 DEF Call
    <2> QED
      BY <1>1, <1>3, <2>1
  <1>5. Advanced \in Seq(Call(Pending)) /\ Len(Advanced) = n
    BY <1>1, <1>4, FunctionIsSeq
  <1>6. Advanced[n].i = calls[n].i + 1
    <2>1. n \in 1 .. n
      BY <1>1
    <2> HIDE DEF n
    <2> QED
      BY <2>1, <1>3
  <1>7. Top = calls[n]
    BY DEF Top
  <1> QED
    BY <1>3, <1>5, <1>6, <1>7

\* The program does not change while calls are active.
LEMMA SameProgram ==
  ASSUME UNCHANGED <<input, pkg>>
  PROVE  Pending' = Pending /\ Package' = Package /\ \A n : Needs(n)' = Needs(n)
  BY DEF Pending, Package, Needs, Source, SourceIn, NeedsOf, ImportSites, Site

\* The calls keep their names: the position of the last one moves.
LEMMA SameStack ==
  ASSUME StackInv, calls # <<>>, UNCHANGED <<input, pkg, modules>>,
         DOMAIN calls' = 1 .. Len(calls), Len(calls') = Len(calls),
         \A k \in 1 .. Len(calls) : calls'[k].name = calls[k].name
  PROVE  ActiveOnce' /\ ActiveFails' /\ NoWayBack' /\ Doomed'
  <1> DEFINE n == Len(calls)
  <1>1. n \in Nat \ {0} /\ Pending' = Pending /\ \A s : Needs(s)' = Needs(s)
    BY CallsFacts, SameProgram DEF StackInv
  <1>2. Active' = Active
    BY CallsFacts DEF StackInv, Active
  <1>3. ActiveOnce' /\ ActiveFails'
    BY <1>1, <1>2 DEF StackInv, ActiveOnce, ActiveFails, Unresolved
  <1>4. \A k, h \in 1 .. n : ImportedFrom(k, h) => ImportedFrom(k, h)'
    <2> SUFFICES ASSUME NEW k \in 1 .. n, NEW h \in 1 .. n, ImportedFrom(k, h),
                        NEW j \in k .. h - 1
                 PROVE  Imported(j)'
      BY DEF ImportedFrom
    <2>1. j \in 1 .. n /\ j + 1 \in 1 .. n
      BY <1>1
    <2> QED
      BY <2>1, <1>1 DEF ImportedFrom, Imported
  <1>5. \A S : Closed(S) => Closed(S)'
    BY <1>1, <1>2 DEF Closed
  <1>6. NoWayBack'
    <2> SUFFICES ASSUME NEW h \in 1 .. n, NEW k \in 1 .. h
                 PROVE  \/ ImportedFrom(k, h)'
                        \/ \E S : Closed(S)' /\ calls[h].name \in S /\ calls[k].name \notin S
      BY <1>1 DEF NoWayBack
    <2> QED
      BY <1>1, <1>4, <1>5 DEF StackInv, NoWayBack
  <1>7. \A h \in 1 .. n : Broken(h) => Broken(h)'
    <2> SUFFICES ASSUME NEW h \in 1 .. n, NEW x \in Needs(calls[h].name),
                        x \in DOMAIN modules, ~modules[x].exports.ok,
                        \A j \in h + 1 .. n : calls[j].name # x
                 PROVE  Broken(h)'
      BY DEF Broken
    <2>1. x \in Needs(calls[h].name)' /\ \A j \in h + 1 .. n : calls'[j].name # x
      BY <1>1
    <2> QED
      BY <2>1 DEF Broken
  <1>8. Doomed'
    <2> SUFFICES ASSUME NEW k \in 1 .. n, calls[k].name \in DOMAIN modules
                 PROVE  \E h \in k .. n : ImportedFrom(k, h)' /\ Broken(h)'
      BY <1>1 DEF Doomed
    <2>1. PICK h \in k .. n : ImportedFrom(k, h) /\ Broken(h)
      BY DEF StackInv, Doomed
    <2> QED
      BY <2>1, <1>1, <1>4, <1>7
  <1> QED
    BY <1>3, <1>6, <1>8

\* A call for a module that is neither known nor active.
LEMMA Pushed ==
  ASSUME StackInv, UNCHANGED <<input, pkg, modules>>, NEW x, NEW n, n = Len(calls), n \in Nat,
         x \in Pending, x \notin DOMAIN modules, x \notin Active,
         Active = {calls[k].name : k \in 1 .. n}, \A k \in 1 .. n : calls[k].name \in Pending,
         Len(calls') = n + 1, DOMAIN calls' = 1 .. n + 1, calls'[n + 1].name = x,
         \A k \in 1 .. n : calls'[k].name = calls[k].name,
         \/ n = 0
         \/ x \in Needs(calls[n].name)
         \/ \E S : Closed(S) /\ x \in S /\ S \cap Active = {}
  PROVE  ActiveOnce' /\ ActiveFails' /\ NoWayBack' /\ Doomed'
  <1>1. Pending' = Pending /\ \A s : Needs(s)' = Needs(s)
    BY SameProgram
  <1>2. \A k \in 1 .. n + 1 : k \in 1 .. n \/ k = n + 1
    OBVIOUS
  <1>3. Active' = Active \cup {x}
    <2>1. Active' = {calls'[k].name : k \in 1 .. n + 1}
      BY DEF Active
    <2>2. {calls'[k].name : k \in 1 .. n + 1} = {calls[k].name : k \in 1 .. n} \cup {x}
      BY <1>2
    <2> QED
      BY <2>1, <2>2
  <1>4. ActiveOnce'
    <2> SUFFICES ASSUME NEW j \in 1 .. n + 1, NEW k \in 1 .. n + 1, calls'[j].name = calls'[k].name
                 PROVE  j = k
      BY DEF ActiveOnce
    <2>1. \A i \in 1 .. n : calls'[i].name # x
      OBVIOUS
    <2> QED
      BY <2>1, <1>2 DEF StackInv, ActiveOnce
  <1>5. ActiveFails'
    BY <1>2 DEF StackInv, ActiveFails, Unresolved
  <1>6. ASSUME NEW k \in 1 .. n, NEW h \in 1 .. n, ImportedFrom(k, h)
        PROVE  ImportedFrom(k, h)'
    <2> SUFFICES ASSUME NEW j \in k .. h - 1 PROVE Imported(j)'
      BY DEF ImportedFrom
    <2>1. j \in 1 .. n /\ j + 1 \in 1 .. n
      OBVIOUS
    <2> QED
      BY <2>1, <1>1, <1>6 DEF ImportedFrom, Imported
  <1>7. ASSUME NEW S, Closed(S) PROVE Closed(S)'
    BY <1>1, <1>3, <1>7 DEF Closed
  <1>8. NoWayBack'
    <2> SUFFICES ASSUME NEW h \in 1 .. n + 1, NEW k \in 1 .. h
                 PROVE  \/ ImportedFrom(k, h)'
                        \/ \E S : Closed(S)' /\ calls'[h].name \in S /\ calls'[k].name \notin S
      BY DEF NoWayBack
    <2>1. CASE h \in 1 .. n
      <3>1. k \in 1 .. n /\ \/ ImportedFrom(k, h)
                            \/ \E S : Closed(S) /\ calls[h].name \in S /\ calls[k].name \notin S
        BY <2>1 DEF StackInv, NoWayBack
      <3> QED
        BY <2>1, <3>1, <1>6, <1>7
    <2>2. CASE h = n + 1 /\ k = n + 1
      BY <2>2 DEF ImportedFrom
    <2>3. CASE h = n + 1 /\ k # n + 1
      <3>1. k \in 1 .. n /\ n \in 1 .. n /\ k \in 1 .. n /\ calls'[k].name = calls[k].name
        BY <2>3
      <3>2. CASE x \in Needs(calls[n].name) /\ ImportedFrom(k, n)
        <4> SUFFICES ASSUME NEW j \in k .. n PROVE Imported(j)'
          BY <2>3 DEF ImportedFrom
        <4>1. CASE j = n
          BY <4>1, <3>1, <3>2, <1>1 DEF Imported
        <4>2. CASE j # n
          <5>1. j \in k .. n - 1
            BY <4>2
          <5> QED
            BY <5>1, <3>1, <3>2, <1>6 DEF ImportedFrom
        <4> QED
          BY <4>1, <4>2
      <3>3. CASE x \in Needs(calls[n].name) /\ ~ImportedFrom(k, n)
        <4>1. PICK S : Closed(S) /\ calls[n].name \in S /\ calls[k].name \notin S
          BY <3>1, <3>3 DEF StackInv, NoWayBack
        <4>2. calls[n].name \in Pending /\ calls[n].name \in Active
          BY <3>1
        <4>3. x \in S
          BY <4>1, <4>2, <3>3 DEF Closed
        <4> QED
          BY <4>1, <4>3, <3>1, <2>3, <1>7
      <3>4. CASE \E S : Closed(S) /\ x \in S /\ S \cap Active = {}
        <4>1. PICK S : Closed(S) /\ x \in S /\ S \cap Active = {}
          BY <3>4
        <4>2. calls[k].name \notin S
          BY <4>1, <3>1
        <4> QED
          BY <4>1, <4>2, <3>1, <2>3, <1>7
      <3> QED
        BY <3>1, <3>2, <3>3, <3>4
    <2> QED
      BY <2>1, <2>2, <2>3, <1>2
  <1>9. Doomed'
    <2> SUFFICES ASSUME NEW k \in 1 .. n + 1, calls'[k].name \in DOMAIN modules
                 PROVE  \E h \in k .. n + 1 : ImportedFrom(k, h)' /\ Broken(h)'
      BY DEF Doomed
    <2>1. k \in 1 .. n /\ calls[k].name \in DOMAIN modules
      BY <1>2
    <2>2. PICK h \in k .. n : ImportedFrom(k, h) /\ Broken(h)
      BY <2>1 DEF StackInv, Doomed
    <2>3. PICK y \in Needs(calls[h].name) : /\ y \in DOMAIN modules /\ ~modules[y].exports.ok
                                            /\ \A j \in h + 1 .. n : calls[j].name # y
      BY <2>2 DEF Broken
    <2>4. h \in 1 .. n /\ h \in k .. n + 1
      BY <2>1
    <2>5. \A j \in h + 1 .. n + 1 : calls'[j].name # y
      BY <2>3, <2>4, <1>2
    <2>6. y \in Needs(calls[h].name)'
      BY <2>3, <2>4, <1>1
    <2>7. Broken(h)'
      BY <2>3, <2>5, <2>6 DEF Broken
    <2> QED
      BY <2>1, <2>2, <2>4, <2>7, <1>6
  <1> QED
    BY <1>4, <1>5, <1>8, <1>9

\* An import of a module that is being computed: that module is bound to fail.
LEMMA CycleFound ==
  ASSUME StackInv, calls # <<>>, UNCHANGED <<input, pkg>>, NEW x,
         x \in Active, x \notin DOMAIN modules, x \in Needs(Top.name),
         modules' = Entered(x, Unresolved),
         DOMAIN calls' = 1 .. Len(calls), Len(calls') = Len(calls),
         \A k \in 1 .. Len(calls) : calls'[k].name = calls[k].name
  PROVE  ActiveOnce' /\ ActiveFails' /\ NoWayBack' /\ Doomed'
  <1> DEFINE n == Len(calls)
  <1>1. /\ n \in Nat \ {0} /\ Pending' = Pending /\ \A s : Needs(s)' = Needs(s)
        /\ Top = calls[n] /\ \A k \in 1 .. n : calls[k].name \in Pending
        /\ Active = {calls[k].name : k \in 1 .. n}
    BY CallsFacts, SameProgram DEF StackInv
  <1>2. Active' = Active
    BY <1>1 DEF Active
  <1>3. /\ DOMAIN modules' = DOMAIN modules \cup {x} /\ modules'[x] = Unresolved
        /\ \A m \in DOMAIN modules : modules'[m] = modules[m]
    BY DEF Entered
  <1>4. ActiveOnce'
    BY <1>1 DEF StackInv, ActiveOnce
  <1>5. ActiveFails'
    <2>1. Unresolved' = Unresolved
      BY DEF Unresolved
    <2> QED
      BY <2>1, <1>1, <1>3 DEF StackInv, ActiveFails
  <1>6. \A k, h \in 1 .. n : ImportedFrom(k, h) => ImportedFrom(k, h)'
    <2> SUFFICES ASSUME NEW k \in 1 .. n, NEW h \in 1 .. n, ImportedFrom(k, h),
                        NEW j \in k .. h - 1
                 PROVE  Imported(j)'
      BY DEF ImportedFrom
    <2>1. j \in 1 .. n /\ j + 1 \in 1 .. n
      BY <1>1
    <2> QED
      BY <2>1, <1>1 DEF ImportedFrom, Imported
  <1>7. \A S : Closed(S) => Closed(S)'
    BY <1>1, <1>2, <1>3 DEF Closed
  <1>8. NoWayBack'
    <2> SUFFICES ASSUME NEW h \in 1 .. n, NEW k \in 1 .. h
                 PROVE  \/ ImportedFrom(k, h)'
                        \/ \E S : Closed(S)' /\ calls[h].name \in S /\ calls[k].name \notin S
      BY <1>1 DEF NoWayBack
    <2> QED
      BY <1>1, <1>6, <1>7 DEF StackInv, NoWayBack
  <1>9. Doomed'
    <2> SUFFICES ASSUME NEW k \in 1 .. n, calls[k].name \in DOMAIN modules'
                 PROVE  \E h \in k .. n : ImportedFrom(k, h)' /\ Broken(h)'
      BY <1>1 DEF Doomed
    <2>1. CASE calls[k].name = x
      <3>1. ImportedFrom(k, n)
        <4> SUFFICES ASSUME NEW S, Closed(S), calls[n].name \in S, calls[k].name \notin S
                     PROVE  FALSE
          BY <1>1 DEF StackInv, NoWayBack
        <4>1. calls[n].name \in Pending /\ calls[n].name \in Active
          BY <1>1
        <4> QED
          BY <4>1, <2>1, <1>1 DEF Closed
      <3>2. Broken(n)'
        <4>1. x \in Needs(calls[n].name)' /\ ~modules'[x].exports.ok /\ x \in DOMAIN modules'
          BY <1>1, <1>3 DEF Unresolved, Failed
        <4>2. \A j \in n + 1 .. n : FALSE
          BY <1>1
        <4> QED
          BY <4>1, <4>2 DEF Broken
      <3> QED
        BY <3>1, <3>2, <1>1, <1>6
    <2>2. CASE calls[k].name \in DOMAIN modules
      <3>1. PICK h \in k .. n : ImportedFrom(k, h) /\ Broken(h)
        BY <2>2 DEF StackInv, Doomed
      <3>2. PICK y \in Needs(calls[h].name) : /\ y \in DOMAIN modules /\ ~modules[y].exports.ok
                                              /\ \A j \in h + 1 .. n : calls[j].name # y
        BY <3>1 DEF Broken
      <3>3. y \in Needs(calls[h].name)' /\ y \in DOMAIN modules' /\ ~modules'[y].exports.ok
        BY <3>2, <1>1, <1>3
      <3>4. \A j \in h + 1 .. n : calls'[j].name # y
        BY <3>2, <1>1
      <3>5. Broken(h)'
        BY <3>3, <3>4 DEF Broken
      <3> QED
        BY <3>1, <3>5, <1>1, <1>6
    <2> QED
      BY <2>1, <2>2, <1>3
  <1> QED
    BY <1>4, <1>5, <1>8, <1>9

\* The last call returns: its module fails when one that it needs has failed.
LEMMA Popped ==
  ASSUME StackInv, calls # <<>>, UNCHANGED <<input, pkg>>, NEW e,
         modules' = Entered(Top.name, e),
         (\E y \in Needs(Top.name) : y \in DOMAIN modules /\ ~modules[y].exports.ok) => e = Unresolved,
         calls' = SubSeq(calls, 1, Len(calls) - 1)
  PROVE  /\ calls' \in Seq(Call(Pending))
         /\ \A m \in DOMAIN modules : m \in DOMAIN modules' /\ modules'[m] = modules[m]
         /\ ActiveOnce' /\ ActiveFails' /\ NoWayBack' /\ Doomed'
  <1> DEFINE n == Len(calls)
             x == calls[n].name
  <1>1. /\ n \in Nat \ {0} /\ Pending' = Pending /\ \A s : Needs(s)' = Needs(s)
        /\ Top = calls[n] /\ \A k \in 1 .. n : calls[k].name \in Pending
        /\ Active = {calls[k].name : k \in 1 .. n}
    BY CallsFacts, SameProgram DEF StackInv
  <1>2. /\ calls' \in Seq(Call(Pending)) /\ Len(calls') = n - 1 /\ DOMAIN calls' = 1 .. n - 1
        /\ \A k \in 1 .. n - 1 : calls'[k] = calls[k]
    <2>1. calls \in Seq(Call(Pending)) /\ n - 1 \in Nat
      BY <1>1 DEF StackInv, TypeInv
    <2>2. calls' = SubSeq(calls, 1, n - 1) /\ n = Len(calls)
      OBVIOUS
    <2> HIDE DEF n
    <2>3. /\ SubSeq(calls, 1, n - 1) \in Seq(Call(Pending)) /\ Len(SubSeq(calls, 1, n - 1)) = n - 1
          /\ \A k \in 1 .. n - 1 : SubSeq(calls, 1, n - 1)[k] = calls[k]
      BY <2>1, <2>2, <1>1
    <2> QED
      BY <2>2, <2>3
  <1>3. \A k \in 1 .. n - 1 : calls[k].name # x
    BY <1>1 DEF StackInv, ActiveOnce
  <1>4. ASSUME Broken(n) PROVE e = Unresolved
    BY <1>4, <1>1 DEF Broken
  <1>5. x \in DOMAIN modules => modules[x] = Unresolved /\ e = Unresolved
    <2>1. x \in DOMAIN modules => modules[x] = Unresolved
      BY <1>1 DEF StackInv, ActiveFails
    <2>2. x \in DOMAIN modules => \E h \in n .. n : Broken(h)
      BY <1>1 DEF StackInv, Doomed
    <2> QED
      BY <2>1, <2>2, <1>1, <1>4
  <1>6. /\ DOMAIN modules' = DOMAIN modules \cup {x} /\ modules'[x] = e
        /\ \A m \in DOMAIN modules : modules'[m] = modules[m]
    BY <1>1, <1>5 DEF Entered
  <1>7. Active' \subseteq Active
    BY <1>1, <1>2 DEF Active
  <1>8. ActiveOnce'
    BY <1>1, <1>2 DEF StackInv, ActiveOnce
  <1>9. ActiveFails'
    <2>1. Unresolved' = Unresolved
      BY DEF Unresolved
    <2> QED
      BY <2>1, <1>1, <1>2, <1>3, <1>6 DEF StackInv, ActiveFails
  <1>10. \A k, h \in 1 .. n - 1 : ImportedFrom(k, h) => ImportedFrom(k, h)'
    <2> SUFFICES ASSUME NEW k \in 1 .. n - 1, NEW h \in 1 .. n - 1, ImportedFrom(k, h),
                        NEW j \in k .. h - 1
                 PROVE  Imported(j)'
      BY DEF ImportedFrom
    <2>1. j \in 1 .. n - 1 /\ j + 1 \in 1 .. n - 1
      BY <1>1
    <2> QED
      BY <2>1, <1>1, <1>2 DEF ImportedFrom, Imported
  <1>11. \A S : Closed(S) => Closed(S)'
    BY <1>1, <1>6, <1>7 DEF Closed
  <1>12. NoWayBack'
    <2> SUFFICES ASSUME NEW h \in 1 .. n - 1, NEW k \in 1 .. h
                 PROVE  \/ ImportedFrom(k, h)'
                        \/ \E S : Closed(S)' /\ calls'[h].name \in S /\ calls'[k].name \notin S
      BY <1>2 DEF NoWayBack
    <2>1. h \in 1 .. n /\ k \in 1 .. n - 1 /\ calls'[h] = calls[h] /\ calls'[k] = calls[k]
      BY <1>1, <1>2
    <2> QED
      BY <2>1, <1>1, <1>10, <1>11 DEF StackInv, NoWayBack
  <1>13. Doomed'
    <2> SUFFICES ASSUME NEW k \in 1 .. n - 1, calls'[k].name \in DOMAIN modules'
                 PROVE  \E h \in k .. n - 1 : ImportedFrom(k, h)' /\ Broken(h)'
      BY <1>2 DEF Doomed
    <2>1. calls'[k] = calls[k] /\ calls[k].name \in DOMAIN modules /\ k \in 1 .. n
      BY <1>1, <1>2, <1>3, <1>6
    <2>2. PICK h \in k .. n : ImportedFrom(k, h) /\ Broken(h)
      BY <2>1 DEF StackInv, Doomed
    <2>3. CASE h # n
      <3>1. h \in k .. n - 1 /\ h \in 1 .. n - 1
        BY <2>3, <1>1
      <3>2. PICK y \in Needs(calls[h].name) : /\ y \in DOMAIN modules /\ ~modules[y].exports.ok
                                              /\ \A j \in h + 1 .. n : calls[j].name # y
        BY <2>2 DEF Broken
      <3>3. y \in Needs(calls'[h].name) /\ calls'[h].name = calls[h].name
        BY <3>1, <3>2, <1>2
      <3>4. y \in Needs(calls[h].name)'
        BY <3>3, <1>1
      <3>5. y \in DOMAIN modules' /\ ~modules'[y].exports.ok
        BY <3>2, <1>6
      <3>6. \A j \in h + 1 .. n - 1 : calls'[j].name # y
        BY <3>1, <3>2, <1>1, <1>2
      <3>7. Broken(h)'
        BY <3>4, <3>5, <3>6, <1>2 DEF Broken
      <3> QED
        BY <3>1, <3>7, <2>2, <1>10
    <2>4. CASE h = n
      <3>1. PICK g \in k .. n - 1 : g = n - 1 /\ g \in 1 .. n - 1 /\ g \in 1 .. n /\ g + 1 = n
        BY <1>1
      <3>2. ImportedFrom(k, g) /\ Imported(g)
        BY <3>1, <2>2, <2>4 DEF ImportedFrom
      <3>3. x \in Needs(calls[g].name)
        BY <3>1, <3>2 DEF Imported
      <3>4. e = Unresolved
        BY <2>2, <2>4, <1>4
      <3>5. PICK y : y = x
        OBVIOUS
      <3>6. y \in DOMAIN modules' /\ ~modules'[y].exports.ok
        BY <3>4, <3>5, <1>6 DEF Unresolved, Failed
      <3>7. y \in Needs(calls[g].name)'
        BY <3>1, <3>3, <3>5, <1>1, <1>2
      <3>8. \A j \in g + 1 .. n - 1 : FALSE
        BY <3>1, <1>1
      <3>9. Broken(g)'
        BY <3>6, <3>7, <3>8, <1>2 DEF Broken
      <3> QED
        BY <3>1, <3>2, <3>9, <1>10
    <2> QED
      BY <2>3, <2>4
  <1> QED
    BY <1>1, <1>2, <1>6, <1>8, <1>9, <1>12, <1>13

\* A module that needs one that failed does not resolve.
LEMMA FailingImport ==
  ASSUME NEW m, m.prelude \in BOOLEAN, IsSeq(m.imports),
         \A imp \in ToSet(m.imports) : imp.package \in BOOLEAN,
         NEW y \in NeedsOf(m), y \in DOMAIN modules, ~modules[y].exports.ok
  PROVE  ~ModuleScope(modules, kids, input.builtins, m).ok
  <1>1. ASSUME NEW imp \in ToSet(m.imports), imp.module = y
        PROVE  ~ImportScope(modules, kids, imp).ok
    BY <1>1 DEF ImportScope, ExportsOf, Failed
  <1>2. (\A imp \in ToSet(m.imports) : ImportScope(modules, kids, imp).ok)
            /\ (m.prelude => ExportsOf(modules, "Prelude").ok) => FALSE
    <2>1. CASE \E i \in DOMAIN m.imports : m.imports[i].module = y
      <3>1. \E imp \in ToSet(m.imports) : imp.module = y
        BY <2>1 DEF ToSet
      <3> QED
        BY <3>1, <1>1
    <2>2. CASE m.prelude /\ y = "Prelude"
      BY <2>2 DEF ExportsOf
    <2>3. y \in ImportsOf(m) \cup IF m.prelude THEN {"Prelude"} ELSE {}
      BY ImportSitesFacts
    <2> QED
      BY <2>1, <2>2, <2>3 DEF ImportsOf
  <1> QED
    BY <1>2 DEF ModuleScope, Fine, Failed

-----------------------------------------------------------------------------
(* The steps                                                               *)

\* No call is active.
LEMMA NoCalls ==
  ASSUME calls = <<>>
  PROVE  ActiveOnce /\ ActiveFails /\ NoWayBack /\ Doomed
  BY DEF ActiveOnce, ActiveFails, NoWayBack, Doomed

LEMMA AddPackageStep ==
  ASSUME StackInv, AddPackage
  PROVE  StackInv' /\ UNCHANGED modules
  <1>1. calls' = <<>> /\ UNCHANGED modules
    BY DEF AddPackage
  <1>2. Len(input.packages) \in Nat
    <2>1. PICK programs \in Inputs : input \in programs
      BY DEF StackInv, TypeInv
    <2> QED
      BY <2>1, InputAssumption, Elements
  <1>3. TypeInv'
    BY <1>1, <1>2 DEF StackInv, TypeInv, AddPackage
  <1>4. ActiveOnce' /\ ActiveFails' /\ NoWayBack' /\ Doomed'
    BY <1>1 DEF ActiveOnce, ActiveFails, NoWayBack, Doomed
  <1> QED
    BY <1>1, <1>3, <1>4 DEF StackInv

LEMMA StartModuleStep ==
  ASSUME StackInv, StartModule
  PROVE  StackInv' /\ UNCHANGED modules
  <1> DEFINE x == Package[next].name
  <1>1. calls = <<>> /\ pkg > 0 /\ next <= Len(Package) /\ UNCHANGED <<input, pkg>> /\ next' = next + 1
    BY DEF StartModule
  <1>2. Active = {} /\ Len(calls) = 0
    BY <1>1 DEF Active
  <1>3. x \in Pending
    <2>1. next \in Nat \ {0} /\ Len(Package) \in Nat /\ DOMAIN Package = 1 .. Len(Package)
      BY <1>1, PackageFacts, Elements DEF StackInv, TypeInv
    <2>2. next \in DOMAIN Package
      BY <2>1, <1>1
    <2> QED
      BY <2>2 DEF Pending
  <1>4. Pending' = Pending
    BY <1>1, SameProgram
  <1>5. Compute(x, <<>>) /\ next' \in Nat \ {0}
    BY <1>1 DEF StartModule, StackInv, TypeInv
  <1>6. CASE Known(x)
    <2>1. calls' = <<>> /\ UNCHANGED modules
      BY <1>5, <1>6 DEF Compute
    <2>2. ActiveOnce' /\ ActiveFails' /\ NoWayBack' /\ Doomed'
      BY <2>1 DEF ActiveOnce, ActiveFails, NoWayBack, Doomed
    <2> QED
      BY <2>1, <2>2, <1>1, <1>5 DEF StackInv, TypeInv
  <1>7. CASE ~Known(x)
    <2>1. calls' = Append(<<>>, [name |-> x, i |-> 1]) /\ UNCHANGED modules
      BY <1>2, <1>5, <1>7 DEF Compute, IsActive
    <2>2. calls' = <<[name |-> x, i |-> 1]>> /\ [name |-> x, i |-> 1] \in Call(Pending)
      BY <2>1, <1>3 DEF Call
    <2>3. /\ calls' \in Seq(Call(Pending)) /\ Len(calls') = 0 + 1 /\ DOMAIN calls' = 1 .. 0 + 1
          /\ calls'[0 + 1].name = x
      BY <2>2
    <2>4. TypeInv'
      BY <2>3, <1>1, <1>4, <1>5 DEF StackInv, TypeInv
    <2>5. x \notin DOMAIN modules /\ x \notin Active /\ Active = {calls[k].name : k \in 1 .. 0}
      BY <1>2, <1>7 DEF Known
    <2>6. PICK y : y = x
      OBVIOUS
    <2>7. UNCHANGED <<input, pkg, modules>> /\ 0 = Len(calls) /\ 0 \in Nat
      BY <1>1, <1>2, <2>1
    <2>8. ActiveOnce' /\ ActiveFails' /\ NoWayBack' /\ Doomed'
      <3>1. y \in Pending /\ y \notin DOMAIN modules /\ y \notin Active /\ calls'[0 + 1].name = y
        BY <2>3, <2>5, <2>6, <1>3
      <3>2. \A k \in 1 .. 0 : calls[k].name \in Pending /\ calls'[k].name = calls[k].name
        OBVIOUS
      <3> HIDE DEF x
      <3> QED
        BY <2>3, <2>5, <2>7, <3>1, <3>2, Pushed
    <2> QED
      BY <2>1, <2>4, <2>8 DEF StackInv
  <1> QED
    BY <1>6, <1>7

\* The module that the last call visits.
LEMMA VisitedFacts ==
  ASSUME StackInv, Visiting
  PROVE  /\ calls # <<>>
         /\ \/ ~Visited.builtin /\ Visited.name \in Needs(Top.name)
            \/ Visited.builtin /\ input.builtins # <<>>
  <1>1. calls # <<>> /\ Top.i <= Len(Sites(Source(Top.name)))
    BY DEF Visiting, InCall
  <1>2. Top.i \in Nat \ {0} /\ Source(Top.name) \in ToSet(Package) /\ pkg > 0
    BY <1>1, CallsFacts, SourceFacts DEF StackInv
  <1>3. \/ ~Visited.builtin /\ Visited.name \in NeedsOf(Source(Top.name))
        \/ Visited.builtin /\ Visited.name \in ToSet(input.builtins)
    BY <1>1, <1>2, SitesFacts DEF StackInv, Visited
  <1>4. input.builtins = <<>> => ToSet(input.builtins) = {}
    BY DEF ToSet
  <1> QED
    BY <1>1, <1>3, <1>4 DEF Needs

\* A builtin module that is visited does not lead to an active one.
LEMMA VisitedApart ==
  ASSUME TypeInv, calls # <<>>, input.builtins # <<>>, NEW x, ~ReachesActive(x)
  PROVE  \E S : Closed(S) /\ x \in S /\ S \cap Active = {}
  <1>1. pkg > 0 /\ Active \subseteq Pending
    BY CallsFacts
  <1>2. PICK R : /\ x \in R /\ R \cap Active = {}
                 /\ \A s \in R \cap Unvisited : ImportsOf(Source(s)) \subseteq R
    BY <1>1, ReachFacts
  <1>3. ASSUME NEW s \in R \cap Pending, s \notin DOMAIN modules \/ s \in Active
        PROVE  /\ ImportsOf(Source(s)) \subseteq R
               /\ Needs(s) = ImportsOf(Source(s)) \cup IF Source(s).prelude THEN {"Prelude"} ELSE {}
               /\ Source(s) \in ToSet(Package)
    <2>1. s \in Unvisited
      BY <1>2, <1>3 DEF Unvisited
    <2>2. Source(s) \in ToSet(Package) /\ IsSeq(Source(s).imports)
      BY <1>1, SourceFacts, PackageFacts
    <2> QED
      BY <2>1, <2>2, <1>2, ImportSitesFacts DEF Needs
  <1>4. CASE "Prelude" \in Pending
    <2>1. \A m \in ToSet(Package) : ~m.prelude
      BY <1>1, <1>4, PackageFacts
    <2>2. Closed(R)
      BY <2>1, <1>3 DEF Closed
    <2> QED
      BY <2>2, <1>2
  <1>5. CASE "Prelude" \notin Pending
    <2> DEFINE S == R \cup {"Prelude"}
    <2>1. Closed(S)
      <3> SUFFICES ASSUME NEW s \in S \cap Pending, s \notin DOMAIN modules \/ s \in Active
                   PROVE  Needs(s) \subseteq S
        BY DEF Closed
      <3>1. s \in R \cap Pending
        BY <1>5
      <3> QED
        BY <3>1, <1>3
    <2>2. S \cap Active = {} /\ x \in S
      BY <1>1, <1>2, <1>5
    <2> QED
      BY <2>1, <2>2
  <1> QED
    BY <1>4, <1>5

LEMMA SkipBuiltinStep ==
  ASSUME StackInv, SkipBuiltin
  PROVE  StackInv' /\ UNCHANGED modules
  <1>1. /\ calls # <<>> /\ calls' = Advanced /\ UNCHANGED <<input, pkg, next, modules>>
    BY VisitedFacts DEF SkipBuiltin
  <1>2. /\ calls' \in Seq(Call(Pending)) /\ Len(calls') = Len(calls) /\ pkg > 0
        /\ \A k \in 1 .. Len(calls) : calls'[k].name = calls[k].name
    BY <1>1, AdvancedFacts, CallsFacts DEF StackInv
  <1>3. DOMAIN calls' = 1 .. Len(calls)
    BY <1>2
  <1>4. TypeInv'
    BY <1>1, <1>2, SameProgram DEF StackInv, TypeInv
  <1> QED
    BY <1>1, <1>2, <1>3, <1>4, SameStack DEF StackInv

LEMMA VisitModuleStep ==
  ASSUME StackInv, VisitModule
  PROVE  StackInv' /\ \A m \in DOMAIN modules : m \in DOMAIN modules' /\ modules'[m] = modules[m]
  <1>1. PICK x : x = Visited.name
    OBVIOUS
  <1>2. /\ calls # <<>> /\ Compute(x, Advanced) /\ UNCHANGED <<input, pkg, next>>
        /\ \/ ~Visited.builtin /\ x \in Needs(Top.name)
           \/ Visited.builtin /\ input.builtins # <<>> /\ ~ReachesActive(x)
    BY <1>1, VisitedFacts DEF VisitModule
  <1>3. /\ Advanced \in Seq(Call(Pending)) /\ Len(Advanced) = Len(calls) /\ pkg > 0
        /\ \A k \in 1 .. Len(calls) : Advanced[k].name = calls[k].name
    BY <1>2, AdvancedFacts, CallsFacts DEF StackInv
  <1>4. DOMAIN Advanced = 1 .. Len(calls)
    BY <1>3
  <1>5. Pending' = Pending
    BY <1>2, SameProgram
  <1>6. CASE Known(x)
    <2>1. calls' = Advanced /\ UNCHANGED modules
      BY <1>2, <1>6 DEF Compute
    <2>2. TypeInv'
      BY <2>1, <1>2, <1>3, <1>5 DEF StackInv, TypeInv
    <2>3. ActiveOnce' /\ ActiveFails' /\ NoWayBack' /\ Doomed'
      BY <2>1, <1>2, <1>3, <1>4, SameStack
    <2> QED
      BY <2>1, <2>2, <2>3 DEF StackInv
  <1>7. CASE ~Known(x) /\ IsActive(x)
    <2>1. calls' = Advanced /\ modules' = Entered(x, Unresolved)
      BY <1>2, <1>7 DEF Compute
    <2>2. x \in Active /\ x \notin DOMAIN modules
      BY <1>7 DEF Known, IsActive
    <2>3. ReachesActive(x)
      BY <2>2, <1>3, ReachFacts DEF StackInv
    <2>4. x \in Needs(Top.name)
      BY <2>3, <1>2
    <2>5. TypeInv'
      BY <2>1, <1>2, <1>3, <1>5 DEF StackInv, TypeInv
    <2>6. ActiveOnce' /\ ActiveFails' /\ NoWayBack' /\ Doomed'
      BY <2>1, <2>2, <2>4, <1>2, <1>3, <1>4, CycleFound
    <2>7. \A m \in DOMAIN modules : m \in DOMAIN modules' /\ modules'[m] = modules[m]
      BY <2>1, <2>2 DEF Entered
    <2> QED
      BY <2>5, <2>6, <2>7 DEF StackInv
  <1>8. CASE ~Known(x) /\ ~IsActive(x)
    <2>1. calls' = Append(Advanced, [name |-> x, i |-> 1]) /\ UNCHANGED modules
      BY <1>2, <1>8 DEF Compute
    <2>2. x \in Pending /\ x \notin DOMAIN modules /\ x \notin Active
      BY <1>8 DEF Known, IsActive
    <2>3. [name |-> x, i |-> 1] \in Call(Pending)
      BY <2>2 DEF Call
    <2>4. PICK n : n = Len(calls)
      OBVIOUS
    <2>5. /\ n \in Nat \ {0} /\ Active = {calls[k].name : k \in 1 .. n} /\ Top = calls[n]
          /\ \A k \in 1 .. n : calls[k].name \in Pending
      BY <2>4, <1>2, CallsFacts DEF StackInv
    <2>6. /\ calls' \in Seq(Call(Pending)) /\ Len(calls') = n + 1
          /\ calls'[n + 1] = [name |-> x, i |-> 1]
          /\ \A k \in 1 .. n : calls'[k] = Advanced[k]
      BY <2>1, <2>3, <2>4, <2>5, <1>3, AppendProperties
    <2>7. DOMAIN calls' = 1 .. n + 1 /\ calls'[n + 1].name = x
          /\ \A k \in 1 .. n : calls'[k].name = calls[k].name
      BY <2>4, <2>6, <1>3
    <2>8. TypeInv'
      BY <2>6, <1>2, <1>3, <1>5 DEF StackInv, TypeInv
    <2>9. x \in Needs(calls[n].name) \/ \E S : Closed(S) /\ x \in S /\ S \cap Active = {}
      BY <2>5, <1>2, VisitedApart DEF StackInv
    <2>10. UNCHANGED <<input, pkg, modules>> /\ n \in Nat /\ Len(calls') = n + 1
      BY <2>1, <2>5, <2>6, <1>2
    <2>11. ActiveOnce' /\ ActiveFails' /\ NoWayBack' /\ Doomed'
      BY <2>2, <2>4, <2>5, <2>7, <2>9, <2>10, Pushed
    <2> QED
      BY <2>1, <2>8, <2>11 DEF StackInv
  <1> QED
    BY <1>6, <1>7, <1>8

LEMMA FinishStep ==
  ASSUME StackInv, Finish
  PROVE  StackInv' /\ \A m \in DOMAIN modules : m \in DOMAIN modules' /\ modules'[m] = modules[m]
  <1> DEFINE m == Source(Top.name)
             scope == ModuleScope(modules, kids, input.builtins, m)
  <1>1. calls # <<>> /\ UNCHANGED <<input, pkg, next>> /\ calls' = SubSeq(calls, 1, Len(calls) - 1)
    BY DEF Finish, InCall
  <1>2. /\ pkg > 0 /\ Top.name \in Pending /\ m \in ToSet(Package) /\ m.name = Top.name
        /\ m.prelude \in BOOLEAN /\ IsSeq(m.imports)
        /\ \A imp \in ToSet(m.imports) : imp.package \in BOOLEAN
    BY <1>1, CallsFacts, SourceFacts, PackageFacts DEF StackInv
  <1>3. \E e : modules' = Entered(m.name, e) /\ (~scope.ok => e = Unresolved)
    <2> HIDE DEF scope, m
    <2> QED
      BY DEF Finish, scope, m
  <1>4. PICK e : modules' = Entered(Top.name, e) /\ (~scope.ok => e = Unresolved)
    BY <1>2, <1>3
  <1>5. (\E y \in Needs(Top.name) : y \in DOMAIN modules /\ ~modules[y].exports.ok) => e = Unresolved
    BY <1>2, <1>4, FailingImport DEF Needs
  <1>6. /\ calls' \in Seq(Call(Pending)) /\ ActiveOnce' /\ ActiveFails' /\ NoWayBack' /\ Doomed'
        /\ \A k \in DOMAIN modules : k \in DOMAIN modules' /\ modules'[k] = modules[k]
    <2> HIDE DEF scope, m
    <2> QED
      BY <1>1, <1>4, <1>5, Popped
  <1>7. TypeInv'
    BY <1>1, <1>2, <1>6, SameProgram DEF StackInv, TypeInv
  <1> QED
    BY <1>6, <1>7 DEF StackInv

LEMMA NextStep ==
  ASSUME StackInv, [Next]_vars
  PROVE  StackInv' /\ \A m \in DOMAIN modules : m \in DOMAIN modules' /\ modules'[m] = modules[m]
  <1>1. CASE AddPackage
    BY <1>1, AddPackageStep
  <1>2. CASE StartModule
    BY <1>2, StartModuleStep
  <1>3. CASE VisitModule
    BY <1>3, VisitModuleStep
  <1>4. CASE SkipBuiltin
    BY <1>4, SkipBuiltinStep
  <1>5. CASE Finish
    BY <1>5, FinishStep
  <1>6. CASE Stop \/ UNCHANGED vars
    <2>1. UNCHANGED <<input, pkg, next, modules, calls>>
      BY <1>6 DEF vars, Stop
    <2>2. TypeInv'
      BY <2>1, SameProgram DEF StackInv, TypeInv
    <2>3. ActiveOnce' /\ ActiveFails' /\ NoWayBack' /\ Doomed'
      <3>1. CASE calls = <<>>
        BY <3>1, <2>1 DEF ActiveOnce, ActiveFails, NoWayBack, Doomed
      <3>2. CASE calls # <<>>
        BY <3>2, <2>1, SameStack, CallsFacts DEF StackInv
      <3> QED
        BY <3>1, <3>2
    <2> QED
      BY <2>1, <2>2, <2>3 DEF StackInv
  <1> QED
    BY <1>1, <1>2, <1>3, <1>4, <1>5, <1>6 DEF Next

\* The stack of compute(): a module is on it once, a module on an import cycle
\* has the error of an unresolved one and is bound to fail, and where a builtin
\* module was visited nothing leads back.
THEOREM StackInvariance == Spec => []StackInv
  <1>1. Init => StackInv
    <2> SUFFICES ASSUME Init PROVE StackInv
      OBVIOUS
    <2>1. calls = <<>> /\ pkg = 0 /\ next = 1 /\ \E programs \in Inputs : input \in programs
      BY DEF Init
    <2>2. Len(input.packages) \in Nat
      BY <2>1, InputAssumption, Elements
    <2>3. TypeInv
      BY <2>1, <2>2 DEF TypeInv
    <2> QED
      BY <2>1, <2>3, NoCalls DEF StackInv
  <1>2. StackInv /\ [Next]_vars => StackInv'
    BY NextStep
  <1> QED
    BY <1>1, <1>2, PTL DEF Spec

\* The entry of a module is final, the error of a module on an import cycle
\* too: compute() overwrites it only with the same error.
THEOREM Settles == Spec => Settled
  <1>1. StackInv /\ [Next]_vars
        => [\A n \in DOMAIN modules : n \in DOMAIN modules' /\ modules'[n] = modules[n]]_vars
    BY NextStep
  <1> QED
    BY <1>1, StackInvariance, PTL DEF Spec, Settled

-----------------------------------------------------------------------------
(* The recursion ends                                                      *)

\* A visit that finds its module: the last call goes on.
LEMMA GoesOn ==
  ASSUME StackInv, Visiting, calls' = Advanced, UNCHANGED <<input, pkg, next>>,
         \A n : n \notin Active => (n \in DOMAIN modules <=> n \in DOMAIN modules')
  PROVE  Forward
  <1> DEFINE n == Len(calls)
             L == Len(Sites(Source(Top.name)))
  <1>1. /\ calls # <<>> /\ Top.i <= L /\ InCall /\ n \in Nat \ {0} /\ Top = calls[n]
        /\ Active = {calls[k].name : k \in 1 .. n} /\ Top.i \in Nat \ {0}
    BY CallsFacts DEF Visiting, InCall, StackInv
  <1>2. L \in Nat
    BY <1>1, CallsFacts, SourceFacts, SitesFacts DEF StackInv
  <1>3. /\ Len(calls') = n /\ Top' = calls'[n] /\ calls'[n].i = Top.i + 1
        /\ \A k \in 1 .. n : calls'[k].name = calls[k].name
    BY <1>1, AdvancedFacts DEF StackInv, Top
  <1>4. Active' = Active
    <2>1. DOMAIN calls' = 1 .. n
      BY <1>1, <1>3, AdvancedFacts DEF StackInv
    <2> QED
      BY <2>1, <1>1, <1>3 DEF Active
  <1>5. Unvisited' = Unvisited
    BY <1>4, SameProgram DEF Unvisited
  <1>6. Top'.name = Top.name /\ Top'.i > Top.i /\ Top'.i <= L + 1
    <2>1. n \in 1 .. n
      BY <1>1
    <2> HIDE DEF L, n
    <2> QED
      BY <2>1, <1>1, <1>2, <1>3
  <1> QED
    BY <1>1, <1>3, <1>5, <1>6 DEF Forward

\* No step goes round: see Forward.
LEMMA Progress ==
  ASSUME StackInv, Next, vars' # vars
  PROVE  Forward
  <1>1. CASE AddPackage
    <2>1. Len(input.packages) \in Nat /\ pkg \in Nat
      <3>1. PICK programs \in Inputs : input \in programs
        BY DEF StackInv, TypeInv
      <3>2. Len(input.packages) \in Nat
        BY <3>1, InputAssumption, Elements
      <3> QED
        BY <3>2 DEF StackInv, TypeInv
    <2> QED
      BY <1>1, <2>1 DEF AddPackage, Forward
  <1>2. CASE StartModule
    <2>1. /\ calls = <<>> /\ pkg > 0 /\ next <= Len(Package) /\ UNCHANGED <<input, pkg>>
          /\ next' = next + 1 /\ Compute(Package[next].name, <<>>)
      BY <1>2 DEF StartModule
    <2>2. next \in Nat /\ Len(Package) \in Nat
      BY <2>1, PackageFacts, Elements DEF StackInv, TypeInv
    <2>3. Active = {} /\ Pending' = Pending
      BY <2>1, SameProgram DEF Active
    <2>4. DOMAIN modules' = DOMAIN modules
      BY <2>1, <2>3 DEF Compute, IsActive
    <2>5. Unvisited' \subseteq Unvisited
      BY <2>3, <2>4 DEF Unvisited
    <2> QED
      BY <2>1, <2>2, <2>5 DEF Forward
  <1>3. CASE VisitModule
    <2>1. PICK x : x = Visited.name
      OBVIOUS
    <2>2. /\ Visiting /\ calls # <<>> /\ Compute(x, Advanced) /\ UNCHANGED <<input, pkg, next>>
      BY <1>3, <2>1, VisitedFacts DEF VisitModule
    <2>3. CASE Known(x)
      BY <2>2, <2>3, GoesOn DEF Compute
    <2>4. CASE ~Known(x) /\ IsActive(x)
      <3>1. calls' = Advanced /\ DOMAIN modules' = DOMAIN modules \cup {x} /\ x \in Active
        BY <2>2, <2>4 DEF Compute, Entered, IsActive
      <3> QED
        BY <3>1, <2>2, GoesOn
    <2>5. CASE ~Known(x) /\ ~IsActive(x)
      <3>1. calls' = Append(Advanced, [name |-> x, i |-> 1]) /\ UNCHANGED modules
        BY <2>2, <2>5 DEF Compute
      <3>2. x \in Unvisited /\ x \in Pending
        BY <2>5 DEF Known, IsActive, Unvisited
      <3>3. PICK n : n = Len(calls)
        OBVIOUS
      <3>4. /\ n \in Nat \ {0} /\ Active = {calls[k].name : k \in 1 .. n}
            /\ Advanced \in Seq(Call(Pending)) /\ Len(Advanced) = n
            /\ \A k \in 1 .. n : Advanced[k].name = calls[k].name
        BY <2>2, <3>3, CallsFacts, AdvancedFacts DEF StackInv
      <3>5. [name |-> x, i |-> 1] \in Call(Pending)
        BY <3>2 DEF Call
      <3>6. /\ calls' \in Seq(Call(Pending)) /\ Len(calls') = n + 1
            /\ calls'[n + 1] = [name |-> x, i |-> 1]
            /\ \A k \in 1 .. n : calls'[k] = Advanced[k]
        BY <3>1, <3>4, <3>5, AppendProperties
      <3>7. Active' = Active \cup {x}
        <4>1. DOMAIN calls' = 1 .. n + 1 /\ 1 .. n + 1 = 1 .. n \cup {n + 1}
          BY <3>4, <3>6
        <4>2. Active' = {calls'[k].name : k \in 1 .. n + 1}
          BY <4>1 DEF Active
        <4> QED
          BY <4>1, <4>2, <3>4, <3>6
      <3>8. Unvisited' = Unvisited \ {x}
        BY <3>1, <3>7, <2>2, SameProgram DEF Unvisited
      <3> QED
        BY <2>2, <3>2, <3>8 DEF Forward
    <2> QED
      BY <2>3, <2>4, <2>5
  <1>4. CASE SkipBuiltin
    BY <1>4, GoesOn DEF SkipBuiltin
  <1>5. CASE Finish
    <2>1. /\ calls # <<>> /\ UNCHANGED <<input, pkg, next>> /\ calls' = SubSeq(calls, 1, Len(calls) - 1)
      BY <1>5 DEF Finish, InCall
    <2>2. PICK n : n = Len(calls)
      OBVIOUS
    <2>3. /\ n \in Nat \ {0} /\ Active = {calls[k].name : k \in 1 .. n} /\ calls \in Seq(Call(Pending))
          /\ Top = calls[n] /\ Top.name \in Pending
      BY <2>1, <2>2, CallsFacts DEF StackInv, TypeInv
    <2>4. Len(calls') = n - 1 /\ DOMAIN calls' = 1 .. n - 1 /\ \A k \in 1 .. n - 1 : calls'[k] = calls[k]
      BY <2>1, <2>2, <2>3
    <2>5. Active = Active' \cup {Top.name}
      <3>1. 1 .. n = 1 .. n - 1 \cup {n}
        BY <2>3
      <3>2. Active' = {calls[k].name : k \in 1 .. n - 1}
        BY <2>4 DEF Active
      <3> QED
        BY <3>1, <3>2, <2>3
    <2>6. DOMAIN modules' = DOMAIN modules \cup {Top.name}
      <3>1. Source(Top.name).name = Top.name
        BY <2>1, <2>3, CallsFacts, SourceFacts DEF StackInv
      <3>2. \E m \in {Source(Top.name)} : \E e : modules' = Entered(m.name, e)
        BY <1>5 DEF Finish
      <3> QED
        BY <3>1, <3>2 DEF Entered
    <2>7. Unvisited' = Unvisited
      BY <2>1, <2>5, <2>6, SameProgram DEF Unvisited
    <2>8. Len(calls') < Len(calls)
      BY <2>2, <2>3, <2>4
    <2> QED
      BY <2>1, <2>7, <2>8 DEF Forward
  <1>6. CASE Stop
    BY <1>6 DEF Stop
  <1> QED
    BY <1>1, <1>2, <1>3, <1>4, <1>5, <1>6 DEF Next

\* The recursion over imports ends on every import graph: every step that
\* changes anything lowers the measure that Forward states.
THEOREM Terminates == Spec => Advances
  <1>1. StackInv /\ [Next]_vars => [Forward]_vars
    BY Progress
  <1> QED
    BY <1>1, StackInvariance, PTL DEF Spec, Advances

-----------------------------------------------------------------------------
(* The names of a scope                                                    *)

\* Names among the keys K that mean entities of E.
NamesTo(K, E) == UNION {[D -> E] : D \in SUBSET K}

LEMMA NamesToFacts ==
  ASSUME NEW K, NEW E
  PROVE  /\ \A f \in NamesTo(K, E) : DOMAIN f \subseteq K /\ \A k \in DOMAIN f : f[k] \in E
         /\ \A D \in SUBSET K : \A f \in [D -> E] : f \in NamesTo(K, E)
         /\ NoNames \in NamesTo(K, E)
  <1>1. NoNames \in [{} -> E] /\ {} \in SUBSET K
    BY DEF NoNames
  <1> QED
    BY <1>1 DEF NamesTo

LEMMA Selected ==
  ASSUME NEW K, NEW E, NEW f \in NamesTo(K, E), NEW S
  PROVE  OnlyOf(f, S) \in NamesTo(K, E) /\ Without(f, S) \in NamesTo(K, E)
  <1>1. OnlyOf(f, S) \in [DOMAIN f \cap S -> E] /\ DOMAIN f \cap S \in SUBSET K
    BY NamesToFacts DEF OnlyOf
  <1>2. Without(f, S) \in [DOMAIN f \ S -> E] /\ DOMAIN f \ S \in SUBSET K
    BY NamesToFacts DEF Without
  <1> QED
    BY <1>1, <1>2, NamesToFacts

LEMMA OverFacts ==
  ASSUME NEW K, NEW E, NEW f \in NamesTo(K, E), NEW g \in NamesTo(K, E)
  PROVE  Over(f, g) \in NamesTo(K, E)
  <1>1. Over(f, g) \in [DOMAIN f \cup DOMAIN g -> E] /\ DOMAIN f \cup DOMAIN g \in SUBSET K
    BY NamesToFacts DEF Over
  <1> QED
    BY <1>1, NamesToFacts

LEMMA PutFacts ==
  ASSUME NEW K, NEW E, NEW f \in NamesTo(K, E), NEW k \in K, NEW v \in E
  PROVE  Put(k, v, f) \in NamesTo(K, E)
  <1>1. Put(k, v, f) \in [DOMAIN f \cup {k} -> E] /\ DOMAIN f \cup {k} \in SUBSET K
    BY NamesToFacts DEF Put
  <1> QED
    BY <1>1, NamesToFacts

LEMMA OwnFacts ==
  ASSUME NEW m, NEW by, NEW K, NEW E, m.own \subseteq K, \A k \in m.own : <<m.name, k, by>> \in E
  PROVE  OwnScope(m, by) \in NamesTo(K, E)
  <1>1. OwnScope(m, by) \in [m.own -> E]
    BY DEF OwnScope
  <1> QED
    BY <1>1, NamesToFacts

-----------------------------------------------------------------------------
(* Imports                                                                 *)

\* mods gives names among the keys K that mean entities of E.
Exporting(mods, K, E) == \A n \in DOMAIN mods : mods[n].exports.val \in NamesTo(K, E)

LEMMA ExportsOfFacts ==
  ASSUME NEW mods, NEW K, NEW E, Exporting(mods, K, E), NEW n
  PROVE  ExportsOf(mods, n).val \in NamesTo(K, E)
  BY NamesToFacts DEF Exporting, ExportsOf, Failed

LEMMA ImportFacts ==
  ASSUME NEW mods, NEW kd, NEW K, NEW E, Exporting(mods, K, E), NEW imp
  PROVE  ImportScope(mods, kd, imp).val \in NamesTo(K, E)
  <1> DEFINE exports == ExportsOf(mods, imp.module)
             selected == Select(kd, exports.val, imp.items)
  <1>1. exports.val \in NamesTo(K, E)
    BY ExportsOfFacts
  <1>2. \A S : OnlyOf(exports.val, S) \in NamesTo(K, E) /\ Without(exports.val, S) \in NamesTo(K, E)
    <2> HIDE DEF exports
    <2> QED
      BY <1>1, Selected
  <1>3. NoNames \in NamesTo(K, E)
    BY NamesToFacts
  <1>4. \/ ImportScope(mods, kd, imp) = Failed(NoNames)
        \/ ImportScope(mods, kd, imp) = exports
        \/ ImportScope(mods, kd, imp) = Fine(Without(exports.val, selected.val))
        \/ ImportScope(mods, kd, imp) = Fine(OnlyOf(exports.val, selected.val))
    <2> HIDE DEF exports, selected
    <2>1. ImportScope(mods, kd, imp) =
            CASE imp.package                       -> Failed(NoNames)
              [] ~imp.package /\ (~exports.ok \/ ~imp.hasItems) -> exports
              [] ~imp.package /\ exports.ok /\ imp.hasItems ->
                    IF ~selected.ok THEN Failed(NoNames)
                    ELSE IF imp.hiding THEN Fine(Without(exports.val, selected.val))
                    ELSE Fine(OnlyOf(exports.val, selected.val))
      BY DEF ImportScope, exports, selected
    <2> QED
      BY <2>1
  <1> HIDE DEF exports, selected
  <1> QED
    BY <1>1, <1>2, <1>3, <1>4 DEF Fine, Failed

\* What a builtin module gives to the module of a name.
BuiltinGives(mods, b, name) ==
    IF b # name /\ b \in DOMAIN mods /\ mods[b].exports.ok
    THEN OnlyOf(mods[b].exports.val, {<<"term", ":">>, <<"type", "~">>})
    ELSE NoNames

\* f is what the builtin modules give together, one after the other.
BuiltinSteps(f, mods, builtins, name, K, E) ==
    /\ f[0] = NoNames /\ f[Len(builtins)] \in NamesTo(K, E)
    /\ \A i \in 1 .. Len(builtins) : f[i] = Over(BuiltinGives(mods, builtins[i], name), f[i - 1])
    /\ BuiltinScope(mods, builtins, name) = f[Len(builtins)]

LEMMA BuiltinLoop ==
  ASSUME NEW mods, NEW K, NEW E, Exporting(mods, K, E), NEW builtins, IsSeq(builtins), NEW name
  PROVE  \E f : BuiltinSteps(f, mods, builtins, name, K, E)
  <1> DEFINE gives(b) == BuiltinGives(mods, b, name)
             X == NamesTo(K, E)
             n == Len(builtins)
             Step(x, i) == Over(gives(builtins[i]), x)
             F == [i \in Nat |-> [x \in X |-> IF i \in 1 .. n THEN Step(x, i) ELSE x]]
             f == CHOOSE f : f = [i \in 0 .. n |-> IF i = 0 THEN NoNames ELSE Step(f[i - 1], i)]
  <1>1. BuiltinScope(mods, builtins, name) = f[n]
    BY DEF BuiltinScope, BuiltinGives
  <1>2. n \in Nat /\ NoNames \in X
    BY Elements, NamesToFacts
  <1>3. \A b : gives(b) \in X
    BY <1>2, Selected DEF Exporting, BuiltinGives
  <1>4. \A i \in 1 .. n : \A x \in X : Step(x, i) \in X
    <2> HIDE DEF gives
    <2> QED
      BY <1>3, OverFacts
  <1> HIDE DEF X, Step
  <1>5. F \in [Nat -> [X -> X]]
    BY <1>4
  <1>6. PICK g \in [0 .. n -> X] : Iterates(g, NoNames, F, n)
    <2> HIDE DEF F, n
    <2> QED
      BY <1>2, <1>5, FiniteRecursion
  <1>7. g = [i \in 0 .. n |-> IF i = 0 THEN NoNames ELSE Step(g[i - 1], i)]
    <2>1. \A i \in 0 .. n : i # 0 => i \in 1 .. n /\ i - 1 \in 0 .. n /\ i \in Nat
      BY <1>2
    <2>2. \A i \in 1 .. n : \A x \in X : F[i][x] = Step(x, i)
      BY <1>2
    <2> HIDE DEF F, n
    <2> QED
      BY <1>6, <2>1, <2>2 DEF Iterates
  <1>8. f = [i \in 0 .. n |-> IF i = 0 THEN NoNames ELSE Step(f[i - 1], i)]
    BY <1>7
  <1> HIDE DEF f
  <1>9. f[0] = NoNames /\ \A i \in 1 .. n : f[i] = Step(f[i - 1], i)
    BY <1>2, <1>8
  <1>10. f[n] \in X
    <2>1. \A i \in 1 .. n : f[i - 1] \in X => f[i] \in X
      BY <1>9, <1>4
    <2> HIDE DEF n
    <2>2. \A i \in 0 .. n : f[i] \in X
      BY <1>2, <1>9, <2>1, LoopKeeps
    <2> QED
      BY <2>2, <1>2
  <1> QED
    BY <1>1, <1>9, <1>10 DEF X, Step, BuiltinSteps

LEMMA BuiltinFacts ==
  ASSUME NEW mods, NEW K, NEW E, Exporting(mods, K, E), NEW builtins, IsSeq(builtins), NEW name
  PROVE  BuiltinScope(mods, builtins, name) \in NamesTo(K, E)
  <1>1. \E f : BuiltinSteps(f, mods, builtins, name, K, E)
    BY BuiltinLoop
  <1> QED
    BY <1>1 DEF BuiltinSteps

\* Scopes whose names are among K and mean entities of E, with qualifiers of Q.
ScopesTo(Q, K, E) == [names : NamesTo(K, E), qual : NamesTo(Q, NamesTo(K, E))]

LEMMA UnionFacts ==
  ASSUME NEW Q, NEW K, NEW E, NEW s \in ScopesTo(Q, K, E), NEW names \in NamesTo(K, E)
  PROVE  /\ FirstWins(s, names) \in ScopesTo(Q, K, E)
         /\ \A q \in Q : Under(s, q, names) \in ScopesTo(Q, K, E)
  <1> DEFINE N == NamesTo(K, E)
  <1>1. s.names \in N /\ s.qual \in NamesTo(Q, N)
    BY DEF ScopesTo
  <1>2. Over(s.names, names) \in N
    BY <1>1, OverFacts
  <1>3. ASSUME NEW q \in Q
        PROVE  Put(q, Over(IF q \in DOMAIN s.qual THEN s.qual[q] ELSE NoNames, names), s.qual)
                  \in NamesTo(Q, N)
    <2>1. (IF q \in DOMAIN s.qual THEN s.qual[q] ELSE NoNames) \in N
      <3>1. NoNames \in N
        BY NamesToFacts
      <3> HIDE DEF N
      <3> QED
        BY <1>1, <3>1, NamesToFacts
    <2>2. Over(IF q \in DOMAIN s.qual THEN s.qual[q] ELSE NoNames, names) \in N
      BY <2>1, OverFacts
    <2> HIDE DEF N
    <2> QED
      BY <1>1, <2>2, PutFacts
  <1> HIDE DEF N
  <1> QED
    BY <1>1, <1>2, <1>3 DEF FirstWins, Under, ScopesTo, N

\* What is in the scope of a module comes from the module itself and from what
\* the others export.
LEMMA ScopeFacts ==
  ASSUME NEW mods, NEW kd, NEW K, NEW E, Exporting(mods, K, E), NEW builtins, IsSeq(builtins),
         NEW m, IsSeq(m.imports), OwnScope(m, "scope") \in NamesTo(K, E)
  PROVE  \E Q : ModuleScope(mods, kd, builtins, m).val \in ScopesTo(Q, K, E)
  <1> DEFINE own == OwnScope(m, "scope")
             start == [names |-> own, qual |-> [q \in {m.name} |-> own]]
             add(s, names, imp) ==
                 Under(IF imp.qualified THEN s ELSE FirstWins(s, names), imp.alias, names)
             given(imp) == ImportScope(mods, kd, imp)
             n == Len(m.imports)
             Q == {m.name, "Prelude"} \cup {m.imports[i].alias : i \in 1 .. n}
             N == NamesTo(K, E)
             X == ScopesTo(Q, K, E)
             Step(x, i) == add(x, given(m.imports[i]).val, m.imports[i])
             F == [i \in Nat |-> [x \in X |-> IF i \in 1 .. n THEN Step(x, i) ELSE x]]
             f == CHOOSE f : f = [i \in 0 .. n |-> IF i = 0 THEN start ELSE Step(f[i - 1], i)]
             prelude == ExportsOf(mods, "Prelude")
             asPrelude == [qualified |-> FALSE, alias |-> "Prelude"]
             builtin == BuiltinScope(mods, builtins, m.name)
             full == FirstWins(IF m.prelude THEN add(f[n], prelude.val, asPrelude) ELSE f[n], builtin)
  <1>1. ModuleScope(mods, kd, builtins, m) = Fine(full) \/ ModuleScope(mods, kd, builtins, m) = Failed(NoScope)
    BY DEF ModuleScope
  <1>2. n \in Nat
    BY Elements
  <1>3. start \in X
    <2>1. own \in N
      OBVIOUS
    <2>2. [q \in {m.name} |-> own] \in [{m.name} -> N] /\ {m.name} \in SUBSET Q
      BY <2>1
    <2>3. [q \in {m.name} |-> own] \in NamesTo(Q, N)
      <3> HIDE DEF own, N, Q
      <3> QED
        BY <2>2, NamesToFacts
    <2> HIDE DEF own, Q
    <2> QED
      BY <2>1, <2>3 DEF ScopesTo
  <1>4. \A imp : \A x \in X : \A names \in N : imp.alias \in Q => add(x, names, imp) \in X
    <2> HIDE DEF Q, N
    <2> QED
      BY UnionFacts DEF N
  <1>5. \A i \in 1 .. n : \A x \in X : Step(x, i) \in X
    <2>1. \A imp : given(imp).val \in N
      BY ImportFacts
    <2>2. \A i \in 1 .. n : m.imports[i].alias \in Q
      OBVIOUS
    <2> HIDE DEF X, N, Q, given, add, n
    <2> QED
      BY <2>1, <2>2, <1>4
  <1>6. NoScope \in X
    <2>1. NoNames \in N /\ NoNames \in NamesTo(Q, N)
      BY NamesToFacts
    <2>2. [q \in {} |-> NoNames] = NoNames
      BY DEF NoNames
    <2> HIDE DEF Q
    <2> QED
      BY <2>1, <2>2 DEF NoScope, ScopesTo
  <1>7. prelude.val \in N /\ builtin \in N
    BY ExportsOfFacts, BuiltinFacts
  <1>8. asPrelude.alias \in Q
    OBVIOUS
  <1>9. \A x \in X : FirstWins(IF m.prelude THEN add(x, prelude.val, asPrelude) ELSE x, builtin) \in X
    <2>1. \A x \in X : FirstWins(x, builtin) \in X
      <3> HIDE DEF Q, builtin
      <3> QED
        BY <1>7, UnionFacts
    <2> HIDE DEF X, N, Q, add, prelude, builtin, asPrelude
    <2> QED
      BY <2>1, <1>4, <1>7, <1>8
  <1> HIDE DEF X, Step, start
  <1>10. F \in [Nat -> [X -> X]]
    BY <1>5
  <1>11. PICK g \in [0 .. n -> X] : Iterates(g, start, F, n)
    <2> HIDE DEF F, n
    <2> QED
      BY <1>2, <1>3, <1>10, FiniteRecursion
  <1>12. g = [i \in 0 .. n |-> IF i = 0 THEN start ELSE Step(g[i - 1], i)]
    <2>1. \A i \in 0 .. n : i # 0 => i \in 1 .. n /\ i - 1 \in 0 .. n /\ i \in Nat
      BY <1>2
    <2>2. \A i \in 1 .. n : \A x \in X : F[i][x] = Step(x, i)
      BY <1>2
    <2> HIDE DEF F, n
    <2> QED
      BY <1>11, <2>1, <2>2 DEF Iterates
  <1>13. f = [i \in 0 .. n |-> IF i = 0 THEN start ELSE Step(f[i - 1], i)]
    BY <1>12
  <1> HIDE DEF f
  <1>14. f[n] \in X
    <2>1. f[0] = start /\ \A i \in 1 .. n : f[i] = Step(f[i - 1], i)
      <3> HIDE DEF n
      <3> QED
        BY <1>2, <1>13
    <2>2. \A i \in 1 .. n : f[i - 1] \in X => f[i] \in X
      BY <2>1, <1>5
    <2> HIDE DEF n
    <2>3. \A i \in 0 .. n : f[i] \in X
      BY <1>2, <1>3, <2>1, <2>2, LoopKeeps
    <2> QED
      BY <2>3, <1>2
  <1>15. full \in X
    <2> HIDE DEF add, prelude, builtin, asPrelude
    <2> QED
      BY <1>9, <1>14
  <1>16. ModuleScope(mods, kd, builtins, m).val \in X
    <2> HIDE DEF full
    <2> QED
      BY <1>1, <1>6, <1>15 DEF Fine, Failed
  <1> QED
    BY <1>16 DEF X

-----------------------------------------------------------------------------
(* Exports                                                                 *)

\* The children that add_children() leaves a type with.
LEMMA AddChildrenKids ==
  ASSUME NEW kd, NEW e, NEW subs, NEW source, NEW has, NEW D, NEW U,
         DOMAIN kd \subseteq D, \A x \in DOMAIN kd : kd[x] \subseteq U,
         EntityKey(e) \in D, DOMAIN source \subseteq U
  PROVE  LET k == AddChildren(kd, e, subs, source, has, TRUE).kids
         IN  k = kd \/ k \in NamesTo(D, SUBSET U)
  <1> DEFINE extra == {n \in subs.names : \A k \in Children(kd, e) : k[2] # n}
             bundled == {<<"term", n>> : n \in extra} \cap DOMAIN source
             more == Put(EntityKey(e), Children(kd, e) \cup bundled, kd)
             k == AddChildren(kd, e, subs, source, has, TRUE).kids
  <1>1. k = kd \/ k = more
    BY DEF AddChildren
  <1>2. Children(kd, e) \cup bundled \in SUBSET U
    BY DEF Children
  <1>3. more \in [DOMAIN kd \cup {EntityKey(e)} -> SUBSET U]
    <2> HIDE DEF bundled
    <2> QED
      BY <1>2 DEF Put
  <1>4. more \in NamesTo(D, SUBSET U)
    <2> HIDE DEF more
    <2> QED
      BY <1>3, NamesToFacts
  <1> QED
    BY <1>1, <1>4

LEMMA QualifierFacts ==
  ASSUME NEW Q, NEW K, NEW E, NEW s \in ScopesTo(Q, K, E), NEW q
  PROVE  Qualifier(s, q) \in NamesTo(K, E) /\ Reexported(s, q) \in NamesTo(K, E)
  <1> DEFINE N == NamesTo(K, E)
             names == Qualifier(s, q)
             D == {k \in DOMAIN names : k \in DOMAIN s.names /\ s.names[k] = names[k]}
  <1>1. names \in N
    <2>1. NoNames \in N /\ s.names \in N /\ s.qual \in NamesTo(Q, N)
      BY NamesToFacts DEF ScopesTo
    <2>2. q \in DOMAIN s.qual => s.qual[q] \in N
      <3> HIDE DEF N
      <3> QED
        BY <2>1, NamesToFacts
    <2> HIDE DEF N
    <2> QED
      BY <2>1, <2>2 DEF Qualifier
  <1>2. Reexported(s, q) = [k \in D |-> names[k]]
    BY DEF Reexported
  <1>3. Reexported(s, q) \in [D -> E] /\ D \in SUBSET K
    <2> HIDE DEF names
    <2> QED
      BY <1>1, <1>2, NamesToFacts
  <1> HIDE DEF D, names
  <1> QED
    BY <1>1, <1>3, NamesToFacts DEF names

\* What an export list has come to, for a module whose scope holds entities of
\* E under keys of K.
ExportsTo(kd, K, E) ==
    [ok   : BOOLEAN,
     kids : {kd} \cup NamesTo(DOMAIN kd \cup {EntityKey(e) : e \in E},
                             SUBSET (UNION {kd[x] : x \in DOMAIN kd} \cup K)),
     into : NamesTo(K, E)]
NoExports(kd) == [ok |-> TRUE, kids |-> kd, into |-> NoNames]
ExportsOut(kd, m, r) ==
    CASE ~m.hasExports -> [kids |-> kd, exports |-> Fine(OwnScope(m, "exports"))]
      [] m.hasExports /\ r.ok -> [kids |-> r.kids, exports |-> Fine(r.into)]
      [] m.hasExports /\ ~r.ok -> [kids |-> r.kids, exports |-> Failed(NoNames)]

\* f is what an export list comes to, one export after the other.
ExportSteps(f, kd, m, scope, K, E) ==
    /\ f[0] = NoExports(kd) /\ f[Len(m.exports)] \in ExportsTo(kd, K, E)
    /\ \A i \in 1 .. Len(m.exports) :
          f[i - 1] \in ExportsTo(kd, K, E) /\ f[i] = ExportItem(scope, f[i - 1], m.exports[i])
    /\ ModuleExports(kd, m, scope) = ExportsOut(kd, m, f[Len(m.exports)])

LEMMA ExportLoop ==
  ASSUME NEW kd, NEW m, IsSeq(m.exports), \A x \in ToSet(m.exports) : x.kind \in {"name", "module"},
         NEW Q, NEW K, NEW E, NEW scope \in ScopesTo(Q, K, E)
  PROVE  \E f : ExportSteps(f, kd, m, scope, K, E)
  <1> DEFINE N == NamesTo(K, E)
             D == DOMAIN kd \cup {EntityKey(e) : e \in E}
             held == UNION {kd[x] : x \in DOMAIN kd}
             U == held \cup K
             Y == {kd} \cup NamesTo(D, SUBSET U)
             X == [ok : BOOLEAN, kids : Y, into : N]
             n == Len(m.exports)
             start == [ok |-> TRUE, kids |-> kd, into |-> NoNames]
             Step(r, i) == ExportItem(scope, r, m.exports[i])
             F == [i \in Nat |-> [x \in X |-> IF i \in 1 .. n THEN Step(x, i) ELSE x]]
             f == CHOOSE f : f = [i \in 0 .. n |-> IF i = 0 THEN start ELSE Step(f[i - 1], i)]
  <1>1. ModuleExports(kd, m, scope) = ExportsOut(kd, m, f[n])
    BY DEF ModuleExports, ExportsOut
  <1>2. n \in Nat
    BY Elements
  <1>3. start \in X
    <2>1. NoNames \in N
      BY NamesToFacts
    <2> HIDE DEF N
    <2> QED
      BY <2>1
  <1>4. ASSUME NEW r \in X, NEW x, x.kind \in {"name", "module"}
        PROVE  ExportItem(scope, r, x) \in X
    <2> DEFINE source == Qualifier(scope, x.qual)
               c == AddChildren(r.kids, source[x.key], x.subs, source, DOMAIN r.into \cup {x.key}, TRUE)
               put(keys) == [r EXCEPT !.into = Over(OnlyOf(source, keys), @)]
               again == [r EXCEPT !.into = Over(Reexported(scope, x.qual), @)]
    <2>1. source \in N /\ Reexported(scope, x.qual) \in N
      BY QualifierFacts
    <2>2. r.ok \in BOOLEAN /\ r.kids \in Y /\ r.into \in N
      OBVIOUS
    <2>3. \A keys : put(keys) \in X
      <3>1. \A keys : Over(OnlyOf(source, keys), r.into) \in N
        <4> HIDE DEF source
        <4> QED
          BY <2>1, <2>2, Selected, OverFacts
      <3> HIDE DEF N, Y, source
      <3> QED
        BY <3>1
    <2>4. again \in X
      <3>1. Over(Reexported(scope, x.qual), r.into) \in N
        BY <2>1, <2>2, OverFacts
      <3> HIDE DEF N, Y
      <3> QED
        BY <3>1
    <2>5. ASSUME x.key \in DOMAIN source PROVE c.kids \in Y
      <3>1. source[x.key] \in E /\ DOMAIN source \subseteq U
        <4> HIDE DEF source, U, held
        <4>1. source[x.key] \in E /\ DOMAIN source \subseteq K
          BY <2>1, <2>5, NamesToFacts
        <4>2. K \subseteq U
          BY DEF U
        <4> QED
          BY <4>1, <4>2
      <3>2. EntityKey(source[x.key]) \in D
        BY <3>1
      <3>3. DOMAIN r.kids \subseteq D /\ \A y \in DOMAIN r.kids : r.kids[y] \subseteq U
        <4>1. CASE r.kids = kd
          BY <4>1
        <4>2. CASE r.kids \in NamesTo(D, SUBSET U)
          <5> HIDE DEF D, U
          <5> QED
            BY <4>2, NamesToFacts
        <4> QED
          BY <2>2, <4>1, <4>2
      <3>4. c.kids = r.kids \/ c.kids \in NamesTo(D, SUBSET U)
        <4> DEFINE e == source[x.key]
                   has == DOMAIN r.into \cup {x.key}
                   k == r.kids
        <4> HIDE DEF D, U, source, e, has, k
        <4> QED
          BY <3>1, <3>2, <3>3, AddChildrenKids DEF e, has, k
      <3> HIDE DEF D, U, c
      <3> QED
        BY <3>4, <2>2
    <2>6. \A keys : x.key \in DOMAIN source => [put(keys) EXCEPT !.kids = c.kids] \in X
      <3> HIDE DEF N, Y, source, c, put
      <3> QED
        BY <2>3, <2>5
    <2>7. \/ ExportItem(scope, r, x) = r \/ ExportItem(scope, r, x) = [r EXCEPT !.ok = FALSE] \/ ExportItem(scope, r, x) = again
          \/ ExportItem(scope, r, x) = put({x.key})
          \/ x.key \in DOMAIN source /\ ExportItem(scope, r, x) = [put({x.key} \cup c.adds) EXCEPT !.kids = c.kids]
      <3> HIDE DEF again, put, c, source
      <3>1. ExportItem(scope, r, x) =
                   CASE ~r.ok -> r
                      [] r.ok /\ ~x.supported -> [r EXCEPT !.ok = FALSE]
                      [] r.ok /\ x.supported /\ x.kind = "module" -> again
                      [] r.ok /\ x.supported /\ x.kind = "name" ->
                            IF x.key \notin DOMAIN source THEN r
                            ELSE IF x.key[1] = "term" THEN put({x.key})
                            ELSE [put({x.key} \cup c.adds) EXCEPT !.kids = c.kids]
        BY DEF ExportItem, again, put, c, source
      <3> QED
        BY <3>1, <1>4
    <2>8. [r EXCEPT !.ok = FALSE] \in X
      <3> HIDE DEF N, Y
      <3> QED
        OBVIOUS
    <2> HIDE DEF X, again, put, c, source
    <2> QED
      BY <2>3, <2>4, <2>6, <2>7, <2>8
  <1>5. \A i \in 1 .. n : \A x \in X : Step(x, i) \in X
    <2>1. \A i \in 1 .. n : m.exports[i].kind \in {"name", "module"}
      BY Elements
    <2> HIDE DEF X, n
    <2> QED
      BY <2>1, <1>4
  <1> HIDE DEF X, Step, start
  <1>10. F \in [Nat -> [X -> X]]
    BY <1>5
  <1>11. PICK g \in [0 .. n -> X] : Iterates(g, start, F, n)
    <2> HIDE DEF F, n
    <2> QED
      BY <1>2, <1>3, <1>10, FiniteRecursion
  <1>12. g = [i \in 0 .. n |-> IF i = 0 THEN start ELSE Step(g[i - 1], i)]
    <2>1. \A i \in 0 .. n : i # 0 => i \in 1 .. n /\ i - 1 \in 0 .. n /\ i \in Nat
      BY <1>2
    <2>2. \A i \in 1 .. n : \A x \in X : F[i][x] = Step(x, i)
      BY <1>2
    <2> HIDE DEF F, n
    <2> QED
      BY <1>11, <2>1, <2>2 DEF Iterates
  <1>13. f = [i \in 0 .. n |-> IF i = 0 THEN start ELSE Step(f[i - 1], i)]
    BY <1>12
  <1> HIDE DEF f
  <1>14. f[0] = start /\ \A i \in 1 .. n : f[i] = Step(f[i - 1], i)
    <2> HIDE DEF n
    <2> QED
      BY <1>2, <1>13
  <1>15. \A i \in 0 .. n : f[i] \in X
    <2>1. \A i \in 1 .. n : f[i - 1] \in X => f[i] \in X
      BY <1>14, <1>5
    <2> HIDE DEF n
    <2> QED
      BY <1>2, <1>3, <1>14, <2>1, LoopKeeps
  <1>16. /\ X = ExportsTo(kd, K, E) /\ start = NoExports(kd)
         /\ \A i \in 1 .. n : Step(f[i - 1], i) = ExportItem(scope, f[i - 1], m.exports[i])
    BY DEF X, start, Step, ExportsTo, NoExports
  <1>17. \A i \in 1 .. n : i - 1 \in 0 .. n
    BY <1>2
  <1>18. n \in 0 .. n
    BY <1>2
  <1>19. /\ f[0] = NoExports(kd) /\ f[n] \in ExportsTo(kd, K, E)
         /\ \A i \in 1 .. n : f[i - 1] \in ExportsTo(kd, K, E) /\ f[i] = ExportItem(scope, f[i - 1], m.exports[i])
         /\ ModuleExports(kd, m, scope) = ExportsOut(kd, m, f[n])
    <2> HIDE DEF n
    <2> QED
      BY <1>1, <1>14, <1>15, <1>16, <1>17, <1>18
  <1> QED
    BY <1>19 DEF n, ExportSteps

\* What a module exports is defined by itself, or is in its scope.
LEMMA ExportFacts ==
  ASSUME NEW kd, NEW m, IsSeq(m.exports), \A x \in ToSet(m.exports) : x.kind \in {"name", "module"},
         NEW Q, NEW K, NEW E, NEW scope \in ScopesTo(Q, K, E)
  PROVE  LET out == ModuleExports(kd, m, scope).exports
         IN  out.val = OwnScope(m, "exports") \/ out.val \in NamesTo(K, E)
  <1>1. PICK r \in ExportsTo(kd, K, E) : ModuleExports(kd, m, scope) = ExportsOut(kd, m, r)
    <2>1. \E f : ExportSteps(f, kd, m, scope, K, E)
      BY ExportLoop
    <2> QED
      BY <2>1 DEF ExportSteps
  <1>2. r.into \in NamesTo(K, E) /\ NoNames \in NamesTo(K, E)
    BY NamesToFacts DEF ExportsTo
  <1> QED
    BY <1>1, <1>2 DEF ExportsOut, Fine, Failed

-----------------------------------------------------------------------------
(* One object for each entity                                              *)

\* All entities that modules export.
Exported == UNION {Range(modules[n].exports.val) : n \in DOMAIN modules}

\* Only modules that are known define what is exported, and what is exported
\* under one key is one object.
EntitiesInv ==
    /\ \A n \in DOMAIN modules :
          LET names == modules[n].exports.val IN names = [k \in DOMAIN names |-> names[k]]
    /\ \A e \in Exported : e[1] \in DOMAIN modules
    /\ OneObject(Exported)
    /\ \A n \in DOMAIN modules : OneObject(SeenIn(modules[n].scope.val))

\* A module that is entered brings what it defines itself or what others export.
LEMMA EnteredEntities ==
  ASSUME EntitiesInv, NEW x, x \notin DOMAIN modules, NEW entry, modules' = Entered(x, entry),
         LET names == entry.exports.val
         IN  /\ names = [k \in DOMAIN names |-> names[k]]
             /\ \A e \in Range(names) : e \in Exported \/ e[1] = x
             /\ OneObject(Exported \cup Range(names)),
         OneObject(SeenIn(entry.scope.val))
  PROVE  EntitiesInv'
  <1> DEFINE names == entry.exports.val
  <1>1. /\ DOMAIN modules' = DOMAIN modules \cup {x} /\ modules'[x] = entry
        /\ \A n \in DOMAIN modules : modules'[n] = modules[n]
    BY DEF Entered
  <1>2. Exported' = Exported \cup Range(names)
    <2>1. ASSUME NEW e \in Exported' PROVE e \in Exported \cup Range(names)
      <3>1. PICK n \in DOMAIN modules' : e \in Range(modules'[n].exports.val)
        BY <2>1 DEF Exported
      <3> QED
        BY <3>1, <1>1 DEF Exported
    <2>2. ASSUME NEW e \in Exported PROVE e \in Exported'
      <3>1. PICK n \in DOMAIN modules : e \in Range(modules[n].exports.val)
        BY <2>2 DEF Exported
      <3> QED
        BY <3>1, <1>1 DEF Exported
    <2>3. ASSUME NEW e \in Range(names) PROVE e \in Exported'
      BY <2>3, <1>1 DEF Exported
    <2> QED
      BY <2>1, <2>2, <2>3
  <1>3. \A n \in DOMAIN modules' :
          LET mine == modules'[n].exports.val IN mine = [k \in DOMAIN mine |-> mine[k]]
    BY <1>1 DEF EntitiesInv
  <1>4. \A e \in Exported' : e[1] \in DOMAIN modules'
    BY <1>1, <1>2 DEF EntitiesInv
  <1>5. OneObject(Exported)'
    BY <1>2 DEF OneObject
  <1>6. \A n \in DOMAIN modules' : OneObject(SeenIn(modules'[n].scope.val))
    BY <1>1 DEF EntitiesInv
  <1> QED
    BY <1>3, <1>4, <1>5, <1>6 DEF EntitiesInv

LEMMA SameEntities ==
  ASSUME EntitiesInv, DOMAIN modules' = DOMAIN modules,
         \A n \in DOMAIN modules : modules'[n] = modules[n]
  PROVE  EntitiesInv'
  <1>1. Exported' = Exported
    <2>1. ASSUME NEW e PROVE e \in Exported' <=> e \in Exported
      BY DEF Exported
    <2> QED
      BY <2>1
  <1> QED
    BY <1>1 DEF EntitiesInv, OneObject

LEMMA UnresolvedEntities ==
  ASSUME EntitiesInv, NEW x, x \notin DOMAIN modules, modules' = Entered(x, Unresolved)
  PROVE  EntitiesInv'
  <1>1. Unresolved.exports.val = NoNames /\ Range(NoNames) = {}
        /\ NoNames = [k \in DOMAIN NoNames |-> NoNames[k]]
    BY DEF Unresolved, Failed, Range, NoNames
  <1>2. SeenIn(Unresolved.scope.val) = {}
    <2>1. Unresolved.scope.val = [names |-> NoNames, qual |-> NoNames]
      BY DEF Unresolved, Failed, NoScope, NoNames
    <2>2. DOMAIN NoNames = {}
      BY DEF NoNames
    <2> QED
      BY <2>1, <2>2, <1>1 DEF SeenIn
  <1>3. OneObject(Exported \cup Range(NoNames))
    BY <1>1 DEF EntitiesInv
  <1>4. OneObject(SeenIn(Unresolved.scope.val))
    BY <1>2 DEF OneObject
  <1> QED
    BY <1>1, <1>3, <1>4, EnteredEntities

LEMMA ComputeEntities ==
  ASSUME EntitiesInv, NEW x, NEW callers, Compute(x, callers)
  PROVE  EntitiesInv'
  <1>1. CASE modules' = modules
    BY <1>1, SameEntities
  <1>2. CASE modules' = Entered(x, Unresolved) /\ x \notin DOMAIN modules
    BY <1>2, UnresolvedEntities
  <1> QED
    BY <1>1, <1>2 DEF Compute, Known

\* What a scope of this kind holds.
LEMMA SeenFacts ==
  ASSUME NEW Q, NEW K, NEW E, NEW s \in ScopesTo(Q, K, E)
  PROVE  SeenIn(s) \subseteq E
  <1> DEFINE N == NamesTo(K, E)
  <1>1. s.names \in N /\ s.qual \in NamesTo(Q, N)
    BY DEF ScopesTo
  <1>2. \A q \in DOMAIN s.qual : s.qual[q] \in N
    <2> HIDE DEF N
    <2> QED
      BY <1>1, NamesToFacts
  <1>3. \A f \in N : Range(f) \subseteq E
    BY NamesToFacts DEF Range
  <1> HIDE DEF N
  <1> QED
    BY <1>1, <1>2, <1>3 DEF SeenIn

\* The entities of a module that is not known are new.
LEMMA OwnIsNew ==
  ASSUME EntitiesInv, NEW m, m.name \notin DOMAIN modules, NEW by
  PROVE  /\ OneObject(Exported \cup Range(OwnScope(m, by)))
         /\ \A e \in Range(OwnScope(m, by)) : e[1] = m.name
  <1>1. \A e \in Range(OwnScope(m, by)) : \E k \in m.own : e = <<m.name, k, by>>
    BY DEF Range, OwnScope
  <1>2. \A e \in Range(OwnScope(m, by)) : e = <<m.name, e[2], by>> /\ e[1] = m.name
    BY <1>1
  <1>3. ASSUME NEW e \in Exported \cup Range(OwnScope(m, by)),
               NEW f \in Exported \cup Range(OwnScope(m, by)), EntityKey(e) = EntityKey(f)
        PROVE  e = f
    <2>1. e[1] = f[1] /\ e[2] = f[2]
      BY <1>3 DEF EntityKey
    <2>2. CASE e \in Exported /\ f \in Exported
      BY <2>2, <1>3 DEF EntitiesInv, OneObject
    <2>3. CASE e \in Exported /\ f \in Range(OwnScope(m, by))
      BY <2>1, <2>3, <1>2 DEF EntitiesInv
    <2>4. CASE e \in Range(OwnScope(m, by)) /\ f \in Exported
      BY <2>1, <2>4, <1>2 DEF EntitiesInv
    <2>5. CASE e \in Range(OwnScope(m, by)) /\ f \in Range(OwnScope(m, by))
      BY <2>1, <2>5, <1>2
    <2> QED
      BY <2>2, <2>3, <2>4, <2>5
  <1> QED
    BY <1>2, <1>3 DEF OneObject

\* What the scope of m can hold: what is exported, and what it defines itself.
KeysFor(m) == (UNION {DOMAIN modules[n].exports.val : n \in DOMAIN modules}) \cup m.own
EntitiesFor(m) == Exported \cup Range(OwnScope(m, "scope"))

LEMMA ScopeHolds ==
  ASSUME EntitiesInv, IsSeq(input.builtins), NEW m, IsSeq(m.imports)
  PROVE  /\ Exporting(modules, KeysFor(m), EntitiesFor(m))
         /\ \E Q : ModuleScope(modules, kids, input.builtins, m).val
                      \in ScopesTo(Q, KeysFor(m), EntitiesFor(m))
  <1> DEFINE own == OwnScope(m, "scope")
             E == Exported \cup Range(own)
             known == UNION {DOMAIN modules[n].exports.val : n \in DOMAIN modules}
             K == known \cup m.own
  <1>1. Exporting(modules, K, E)
    <2>1. ASSUME NEW n \in DOMAIN modules PROVE modules[n].exports.val \in NamesTo(K, E)
      <3> DEFINE names == modules[n].exports.val
      <3>1. names = [k \in DOMAIN names |-> names[k]] /\ DOMAIN names \subseteq K
        BY DEF EntitiesInv
      <3>2. \A k \in DOMAIN names : names[k] \in E
        BY DEF Exported, Range
      <3> HIDE DEF names, E, K
      <3>3. names \in [DOMAIN names -> E]
        BY <3>1, <3>2
      <3>4. names \in NamesTo(K, E)
        BY <3>1, <3>3, NamesToFacts
      <3> QED
        BY <3>4 DEF names
    <2> QED
      BY <2>1 DEF Exporting
  <1>2. own \in NamesTo(K, E)
    <2>1. \A k \in m.own : <<m.name, k, "scope">> \in E
      BY DEF Range, OwnScope
    <2>2. m.own \subseteq K
      <3> HIDE DEF known
      <3> QED
        OBVIOUS
    <2> HIDE DEF E, K
    <2> QED
      BY <2>1, <2>2, OwnFacts
  <1> HIDE DEF E, K
  <1>3. \E Q : ModuleScope(modules, kids, input.builtins, m).val \in ScopesTo(Q, K, E)
    BY <1>1, <1>2, ScopeFacts
  <1>4. E = EntitiesFor(m) /\ K = KeysFor(m)
    BY DEF E, K, EntitiesFor, KeysFor
  <1> QED
    BY <1>1, <1>3, <1>4

LEMMA FinishEntities ==
  ASSUME StackInv, EntitiesInv, Finish
  PROVE  EntitiesInv'
  <1> DEFINE m == Source(Top.name)
             scope == ModuleScope(modules, kids, input.builtins, m)
             out == ModuleExports(kids, m, scope.val)
             entry == [scope |-> scope, exports |-> out.exports]
             E == EntitiesFor(m)
             K == KeysFor(m)
  <1>1. /\ pkg > 0 /\ Top.name \in Pending /\ m \in ToSet(Package) /\ m.name = Top.name
        /\ IsSeq(m.imports) /\ IsSeq(m.exports) /\ IsSeq(input.builtins)
        /\ \A x \in ToSet(m.exports) : x.kind \in {"name", "module"}
    BY CallsFacts, SourceFacts, PackageFacts DEF Finish, InCall, StackInv
  <1>2. modules' = Entered(m.name, entry) \/ modules' = Entered(m.name, Unresolved)
    <2> HIDE DEF m
    <2> QED
      BY DEF Finish, m
  <1>3. CASE m.name \in DOMAIN modules
    <2>1. DOMAIN modules' = DOMAIN modules
      <3> HIDE DEF m, entry
      <3> QED
        BY <1>2, <1>3 DEF Entered
    <2> QED
      BY <2>1, FinishStep, SameEntities
  <1>4. CASE m.name \notin DOMAIN modules /\ modules' = Entered(m.name, Unresolved)
    BY <1>4, UnresolvedEntities
  <1>5. CASE m.name \notin DOMAIN modules /\ modules' = Entered(m.name, entry)
    <2>3. PICK Q : scope.val \in ScopesTo(Q, K, E)
      BY <1>1, ScopeHolds
    <2> HIDE DEF m, E, K
    <2>4. SeenIn(scope.val) \subseteq E
      <3> HIDE DEF scope
      <3> QED
        BY <2>3, SeenFacts
    <2>5. OneObject(E) /\ \A e \in E : e \in Exported \/ e[1] = m.name
      BY <1>5, OwnIsNew DEF E, EntitiesFor
    <2>6. OneObject(SeenIn(scope.val))
      <3> HIDE DEF scope
      <3> QED
        BY <2>4, <2>5 DEF OneObject
    <2>7. out.exports.val = OwnScope(m, "exports") \/ out.exports.val \in NamesTo(K, E)
      <3> HIDE DEF scope
      <3> QED
        BY <1>1, <2>3, ExportFacts
    <2> DEFINE names == out.exports.val
    <2>8. /\ names = [k \in DOMAIN names |-> names[k]]
          /\ \A e \in Range(names) : e \in Exported \/ e[1] = m.name
          /\ OneObject(Exported \cup Range(names))
      <3>1. CASE names = OwnScope(m, "exports")
        <4>1. OwnScope(m, "exports") = [k \in DOMAIN OwnScope(m, "exports") |-> OwnScope(m, "exports")[k]]
          BY DEF OwnScope
        <4> HIDE DEF out
        <4> QED
          BY <3>1, <4>1, <1>5, OwnIsNew
      <3>2. CASE names \in NamesTo(K, E)
        <4> HIDE DEF out
        <4>1. names = [k \in DOMAIN names |-> names[k]]
          BY <3>2 DEF NamesTo
        <4>2. Range(names) \subseteq E
          BY <3>2, NamesToFacts DEF Range
        <4>3. Exported \cup Range(names) \subseteq E
          BY <4>2 DEF E, EntitiesFor
        <4> QED
          BY <4>1, <4>2, <4>3, <2>5 DEF OneObject
      <3> QED
        BY <2>7, <3>1, <3>2
    <2>9. entry.exports.val = names /\ entry.scope.val = scope.val
      OBVIOUS
    <2> HIDE DEF names, entry, scope
    <2> QED
      BY <1>5, <2>6, <2>8, <2>9, EnteredEntities
  <1> QED
    BY <1>2, <1>3, <1>4, <1>5

LEMMA EntitiesStep ==
  ASSUME StackInv, EntitiesInv, [Next]_vars
  PROVE  EntitiesInv'
  <1>1. CASE AddPackage \/ SkipBuiltin \/ Stop \/ UNCHANGED vars
    BY <1>1, SameEntities DEF AddPackage, SkipBuiltin, Stop, vars
  <1>2. CASE StartModule
    BY <1>2, ComputeEntities DEF StartModule
  <1>3. CASE VisitModule
    BY <1>3, ComputeEntities DEF VisitModule
  <1>4. CASE Finish
    BY <1>4, FinishEntities
  <1> QED
    BY <1>1, <1>2, <1>3, <1>4 DEF Next

\* What modules export under one key is one object, whatever way it took.
THEOREM EntitiesInvariance == Spec => []EntitiesInv
  <1>1. Init => EntitiesInv
    <2> SUFFICES ASSUME Init PROVE EntitiesInv
      OBVIOUS
    <2>1. DOMAIN modules = {}
      BY DEF Init
    <2>2. Exported = {}
      BY <2>1 DEF Exported
    <2> QED
      BY <2>1, <2>2 DEF EntitiesInv, OneObject
  <1>2. StackInv /\ EntitiesInv /\ [Next]_vars => EntitiesInv'
    BY EntitiesStep
  <1> QED
    BY <1>1, <1>2, StackInvariance, PTL DEF Spec

\* No scope holds two objects for one entity, so the pointers that `module M`
\* exports compare are entities.
THEOREM SameObjects == Spec => []SameObject
  <1>1. EntitiesInv => SameObject
    BY DEF EntitiesInv, SameObject
  <1> QED
    BY <1>1, EntitiesInvariance, PTL

-----------------------------------------------------------------------------
(* The modules of the program, and where they lead                         *)

LEMMA InputFacts ==
  ASSUME TypeInv
  PROVE  /\ IsSeq(input.packages) /\ IsSeq(input.builtins)
         /\ DOMAIN input.packages = 1 .. Len(input.packages) /\ Len(input.packages) \in Nat
         /\ \A p \in DOMAIN input.packages :
               IsSeq(input.packages[p]) /\ \A m \in ToSet(input.packages[p]) : IsModule(m)
  <1>1. PICK programs \in Inputs : input \in programs
    BY DEF TypeInv
  <1>2. IsSeq(input.packages) /\ IsSeq(input.builtins)
    BY <1>1, InputAssumption
  <1>3. ASSUME NEW p \in DOMAIN input.packages
        PROVE  IsSeq(input.packages[p]) /\ \A m \in ToSet(input.packages[p]) : IsModule(m)
    <2>1. input.packages[p] \in ToSet(input.packages)
      BY DEF ToSet
    <2> QED
      BY <1>1, <2>1, InputAssumption
  <1> QED
    BY <1>2, <1>3, Elements

\* A name means the module of the first package that has one of that name.
LEMMA NameFacts ==
  ASSUME TypeInv, NEW n \in AllNames
  PROVE  /\ PackageOf(n) \in DOMAIN input.packages /\ PackageOf(n) \in Nat /\ n \in NamesOf(PackageOf(n))
         /\ \A q \in DOMAIN input.packages : n \in NamesOf(q) => PackageOf(n) <= q
         /\ ModuleNamed(n) \in ToSet(input.packages[PackageOf(n)])
         /\ ModuleNamed(n).name = n /\ IsModule(ModuleNamed(n))
  <1> DEFINE P == {p \in DOMAIN input.packages : n \in NamesOf(p)}
  <1>1. DOMAIN input.packages \subseteq Nat
    BY InputFacts
  <1>2. PICK p \in P : \A q \in P : p <= q
    <2>1. P \subseteq Nat /\ P # {}
      BY <1>1 DEF AllNames
    <2> HIDE DEF P
    <2> QED
      BY <2>1, LeastNatural
  <1>3. /\ PackageOf(n) \in DOMAIN input.packages /\ n \in NamesOf(PackageOf(n))
        /\ \A q \in DOMAIN input.packages : n \in NamesOf(q) => PackageOf(n) <= q
    BY <1>2 DEF PackageOf
  <1> DEFINE package == input.packages[PackageOf(n)]
  <1>4. IsSeq(package) /\ \A m \in ToSet(package) : IsModule(m)
    BY <1>3, InputFacts
  <1>5. \E i \in DOMAIN package : package[i].name = n
    BY <1>3 DEF NamesOf
  <1>6. ModuleNamed(n) \in ToSet(package) /\ ModuleNamed(n).name = n
    <2> HIDE DEF package
    <2> QED
      BY <1>4, <1>5, LastOfName DEF ModuleNamed, package
  <1> QED
    BY <1>1, <1>3, <1>4, <1>6

LEMMA NamesFinite ==
  ASSUME TypeInv
  PROVE  IsFiniteSet(AllNames) /\ Cardinality(AllNames) \in Nat
  <1> DEFINE P == DOMAIN input.packages
             f == [p \in P |-> NamesOf(p)]
             S == {NamesOf(p) : p \in P}
  <1>1. IsFiniteSet(P) /\ P = 1 .. Len(input.packages)
    BY InputFacts, FS_Interval
  <1>2. f \in Surjection(P, S)
    BY DEF Surjection
  <1>3. IsFiniteSet(S)
    <2> HIDE DEF f, P, S
    <2> QED
      BY <1>1, <1>2, FS_Surjection
  <1>4. ASSUME NEW p \in P PROVE IsFiniteSet(NamesOf(p))
    <2> DEFINE I == DOMAIN input.packages[p]
               g == [i \in I |-> input.packages[p][i].name]
    <2>1. I = 1 .. Len(input.packages[p]) /\ Len(input.packages[p]) \in Nat
      BY InputFacts, Elements
    <2>2. IsFiniteSet(I)
      BY <2>1, FS_Interval
    <2>3. g \in Surjection(I, NamesOf(p))
      BY DEF Surjection, NamesOf
    <2> HIDE DEF I, g
    <2> QED
      BY <2>2, <2>3, FS_Surjection
  <1>5. AllNames = UNION S
    BY DEF AllNames
  <1> HIDE DEF S
  <1>6. \A T \in S : IsFiniteSet(T)
    BY <1>4 DEF S
  <1> QED
    BY <1>3, <1>5, <1>6, FS_UNION, FS_CardinalityType

\* Leads(n) is the least set with n that is closed under what modules need.
LEMMA LeadsFacts ==
  ASSUME TypeInv, NEW n
  PROVE  /\ n \in Leads(n)
         /\ \A x \in Leads(n) : Required(x) \subseteq Leads(n)
         /\ \A S : n \in S /\ (\A x \in S : Required(x) \subseteq S) => Leads(n) \subseteq S
  <1> DEFINE Step(T) == T \cup UNION {Required(x) : x \in T}
             X == SUBSET ({n} \cup UNION {Required(x) : x \in AllNames})
             G == [T \in X |-> Step(T)]
             N == Cardinality(AllNames)
  <1>0. \A x : x \notin AllNames => Required(x) = {}
    BY DEF Required
  <1>1. {n} \in X /\ G \in [X -> X]
    <2>1. ASSUME NEW T \in X PROVE Step(T) \in X
      <3> SUFFICES ASSUME NEW x \in T, NEW d \in Required(x) PROVE d \in UNION {Required(y) : y \in AllNames}
        OBVIOUS
      <3>1. x \in AllNames
        BY <1>0
      <3> QED
        BY <3>1
    <2> HIDE DEF Step
    <2> QED
      BY <2>1
  <1>2. PICK g \in [Nat -> X] : g = [k \in Nat |-> IF k = 0 THEN {n} ELSE G[g[k - 1]]]
    <2> DEFINE z == {n}
    <2>1. z \in X /\ G \in [X -> X]
      BY <1>1
    <2> HIDE DEF X, G, z
    <2>2. \E g \in [Nat -> X] : g = [k \in Nat |-> IF k = 0 THEN z ELSE G[g[k - 1]]]
      BY <2>1, Iteration
    <2> QED
      BY <2>2 DEF z
  <1>3. g = [k \in Nat |-> IF k = 0 THEN {n} ELSE Step(g[k - 1])]
    <2>1. ASSUME NEW k \in Nat PROVE g[k] = IF k = 0 THEN {n} ELSE Step(g[k - 1])
      <3>1. k # 0 => g[k - 1] \in X
        <4>1. k # 0 => k - 1 \in Nat
          OBVIOUS
        <4> HIDE DEF X, G, Step
        <4> QED
          BY <1>2, <4>1
      <3>2. k # 0 => G[g[k - 1]] = Step(g[k - 1])
        BY <3>1
      <3> HIDE DEF X, G, Step
      <3> QED
        BY <1>2, <3>2
    <2> HIDE DEF X, G, Step
    <2> QED
      BY <1>2, <2>1
  <1> HIDE DEF X, G
  <1> DEFINE f == CHOOSE f : f = [k \in Nat |-> IF k = 0 THEN {n} ELSE Step(f[k - 1])]
  <1>4. f = [k \in Nat |-> IF k = 0 THEN {n} ELSE Step(f[k - 1])]
    BY <1>3
  <1>5. Leads(n) = f[N]
    BY DEF Leads
  <1> HIDE DEF f
  <1>6. f[0] = {n} /\ \A k \in Nat : f[k + 1] = Step(f[k])
    <2>1. \A k \in Nat : k + 1 \in Nat /\ k + 1 # 0 /\ (k + 1) - 1 = k
      OBVIOUS
    <2> HIDE DEF Step
    <2> QED
      BY <2>1, <1>4
  <1>7. N \in Nat
    BY NamesFinite
  <1>8. \A T : T \subseteq Step(T)
    OBVIOUS
  <1>9. \A S : (\A x \in S : Required(x) \subseteq S) => \A T : T \subseteq S => Step(T) \subseteq S
    OBVIOUS
  <1>10. \A k \in Nat : n \in f[k]
    <2> DEFINE T == {k \in Nat : n \in f[k]}
    <2>1. 0 \in T
      BY <1>6
    <2>2. ASSUME NEW k \in Nat, k \in T PROVE k + 1 \in T
      BY <2>2, <1>6, <1>8
    <2> HIDE DEF T
    <2>3. \A k \in Nat : k \in T
      BY <2>1, <2>2, SetInduction
    <2> QED
      BY <2>3 DEF T
  <1>11. ASSUME NEW S, n \in S, \A x \in S : Required(x) \subseteq S
         PROVE  f[N] \subseteq S
    <2> DEFINE T == {k \in Nat : f[k] \subseteq S}
    <2>1. 0 \in T
      BY <1>6, <1>11
    <2>2. ASSUME NEW k \in Nat, k \in T PROVE k + 1 \in T
      <3>1. f[k + 1] = Step(f[k]) /\ f[k] \subseteq S
        BY <2>2, <1>6
      <3> HIDE DEF Step
      <3> QED
        BY <3>1, <1>9, <1>11
    <2> HIDE DEF T
    <2>3. N \in T
      BY <2>1, <2>2, <1>7, SetInduction
    <2> QED
      BY <2>3 DEF T
  <1>12. Step(f[N]) \subseteq f[N]
    <2> DEFINE h == [k \in Nat |-> f[k] \cap AllNames]
    <2>0. \A k \in Nat : h[k] = f[k] \cap AllNames
      OBVIOUS
    <2>1. \A A, B : A \cap AllNames = B \cap AllNames /\ A \subseteq B => Step(B) = B \cup Step(A)
      <3> SUFFICES ASSUME NEW A, NEW B, A \cap AllNames = B \cap AllNames, A \subseteq B,
                          NEW d
                   PROVE  d \in Step(B) <=> d \in B \/ d \in Step(A)
        <4> HIDE DEF Step
        <4> QED
          OBVIOUS
      <3>1. ASSUME NEW x \in B, d \in Required(x) PROVE x \in A
        BY <3>1, <1>0
      <3> QED
        BY <3>1
    <2> HIDE DEF Step, h
    <2>2. ASSUME NEW k \in Nat
          PROVE  /\ h[k] \subseteq AllNames /\ h[k] \subseteq h[k + 1]
                 /\ h[k + 1] = h[k] => f[(k + 1) + 1] = f[k + 1]
      <3>1. k + 1 \in Nat /\ (k + 1) + 1 \in Nat
        OBVIOUS
      <3>2. f[k + 1] = Step(f[k]) /\ f[(k + 1) + 1] = Step(f[k + 1]) /\ f[k] \subseteq f[k + 1]
        BY <3>1, <1>6, <1>8
      <3>3. h[k + 1] = h[k] => Step(f[k + 1]) = f[k + 1] \cup Step(f[k])
        BY <3>1, <3>2, <2>0, <2>1
      <3> QED
        BY <3>1, <3>2, <3>3, <2>0
    <2>3. CASE n \in AllNames
      <3>1. \A k \in Nat : h[k + 1] = h[k] => h[(k + 1) + 1] = h[k + 1]
        <4>1. \A k \in Nat : k + 1 \in Nat /\ (k + 1) + 1 \in Nat
          OBVIOUS
        <4> QED
          BY <4>1, <2>0, <2>2
      <3>2. h[0] # {}
        BY <2>3, <2>0, <1>6
      <3>3. N - 1 \in Nat /\ h[N] = h[N - 1]
        <4>1. IsFiniteSet(AllNames) /\ N <= N
          BY <1>7, NamesFinite
        <4> HIDE DEF N
        <4>2. Cardinality(AllNames) <= N
          BY <4>1 DEF N
        <4> QED
          BY <4>1, <4>2, <1>7, <2>2, <3>1, <3>2, Saturation
      <3>4. (N - 1) + 1 = N /\ N + 1 \in Nat
        BY <1>7
      <3>5. f[N + 1] = f[N]
        <4> HIDE DEF N
        <4> QED
          BY <3>3, <3>4, <2>2
      <3> HIDE DEF N
      <3> QED
        BY <3>5, <1>6, <1>7
    <2>4. CASE n \notin AllNames
      <3>1. Required(n) = {}
        BY <2>4, <1>0
      <3>2. f[N] \subseteq {n}
        BY <3>1, <1>11
      <3>3. Step({n}) = {n}
        BY <3>1 DEF Step
      <3>4. f[N] = {n}
        BY <3>2, <1>7, <1>10
      <3> QED
        BY <3>3, <3>4
    <2> QED
      BY <2>3, <2>4
  <1>13. \A x \in f[N] : Required(x) \subseteq f[N]
    BY <1>12
  <1> HIDE DEF N
  <1> QED
    BY <1>5, <1>7, <1>10, <1>11, <1>13

\* Where a module leads, all that it leads to leads too.
LEMMA LeadsOn ==
  ASSUME TypeInv, NEW n, NEW d \in Leads(n)
  PROVE  Leads(d) \subseteq Leads(n)
  BY LeadsFacts

\* The sources of the program do not change.
LEMMA SameSources ==
  ASSUME TypeInv, UNCHANGED input
  PROVE  /\ AllNames' = AllNames
         /\ \A n : /\ PackageOf(n)' = PackageOf(n) /\ ModuleNamed(n)' = ModuleNamed(n)
                   /\ Required(n)' = Required(n) /\ Leads(n)' = Leads(n) /\ OnCycle(n)' = OnCycle(n)
  <1>1. AllNames' = AllNames
    BY DEF AllNames, NamesOf
  <1>2. \A n : PackageOf(n)' = PackageOf(n)
    BY DEF PackageOf, NamesOf
  <1>3. \A n : ModuleNamed(n)' = ModuleNamed(n)
    BY <1>2 DEF ModuleNamed, SourceIn
  <1>4. \A n : Required(n)' = Required(n)
    BY <1>1, <1>3 DEF Required, NeedsOf, ImportSites, Site
  <1>5. ASSUME NEW n PROVE Leads(n)' = Leads(n)
    <2> DEFINE F(f) == [k \in Nat |-> IF k = 0 THEN {n} ELSE f[k - 1] \cup UNION {Required(x) : x \in f[k - 1]}]
               G(f) == [k \in Nat |-> IF k = 0 THEN {n} ELSE f[k - 1] \cup UNION {Required(x)' : x \in f[k - 1]}]
    <2>1. /\ Leads(n) = (CHOOSE f : f = F(f))[Cardinality(AllNames)]
          /\ Leads(n)' = (CHOOSE f : f = G(f))[Cardinality(AllNames')]
      BY DEF Leads
    <2>2. \A f : F(f) = G(f)
      BY <1>4
    <2> HIDE DEF F, G
    <2>3. (CHOOSE f : f = F(f)) = (CHOOSE f : f = G(f))
      BY <2>2, Zenon
    <2> QED
      BY <2>1, <2>3, <1>1
  <1>6. \A n : OnCycle(n)' = OnCycle(n)
    BY <1>4, <1>5 DEF OnCycle
  <1> QED
    BY <1>1, <1>2, <1>3, <1>4, <1>5, <1>6

-----------------------------------------------------------------------------
(* What is known when                                                      *)

\* The call k has passed its site i.
Passed(k, i) ==
    LET s == Sites(Source(calls[k].name))[i]
    IN  \/ Known(s.name)
        \/ k < Len(calls) /\ s.name = calls[k + 1].name
        \/ s.builtin /\ \E c \in ToSet(input.builtins) : calls[k].name \in Leads(c)

EntriesOfNames == \A n \in DOMAIN modules : n \in AllNames /\ PackageOf(n) <= pkg
EarlierKnown == \A p \in 1 .. pkg - 1 : NamesOf(p) \subseteq DOMAIN modules
StartedKnown ==
    pkg > 0 => \A i \in DOMAIN Package : i < next => Package[i].name \in DOMAIN modules \cup Active
ActiveHere == \A k \in 1 .. Len(calls) : PackageOf(calls[k].name) = pkg
Linked ==
    \A k \in 1 .. Len(calls) - 1 :
        calls[k + 1].name \in Needs(calls[k].name) \cup ToSet(input.builtins)
SitesPassed == \A k \in 1 .. Len(calls) : \A i \in 1 .. calls[k].i - 1 : Passed(k, i)

KnownInv == EntriesOfNames /\ EarlierKnown /\ StartedKnown /\ ActiveHere /\ Linked /\ SitesPassed

LEMMA PackageNames ==
  ASSUME TypeInv, pkg > 0
  PROVE  /\ Pending = NamesOf(pkg) /\ Pending \subseteq AllNames /\ pkg \in DOMAIN input.packages
         /\ \A n \in Pending : PackageOf(n) <= pkg
  <1>1. pkg \in DOMAIN input.packages
    BY InputFacts DEF TypeInv
  <1>2. Pending = NamesOf(pkg)
    BY DEF Pending, NamesOf, Package
  <1>3. Pending \subseteq AllNames
    BY <1>1, <1>2 DEF AllNames
  <1> QED
    BY <1>1, <1>2, <1>3, NameFacts

\* A module of the package that is not known is of no earlier package.
LEMMA NewHere ==
  ASSUME TypeInv, pkg > 0, EarlierKnown, NEW n \in Pending, n \notin DOMAIN modules
  PROVE  PackageOf(n) = pkg
  <1>1. /\ n \in AllNames /\ PackageOf(n) <= pkg /\ PackageOf(n) \in DOMAIN input.packages
        /\ n \in NamesOf(PackageOf(n)) /\ PackageOf(n) \in Nat
    BY PackageNames, NameFacts
  <1>2. PackageOf(n) \in 1 .. pkg - 1 => n \in DOMAIN modules
    BY <1>1 DEF EarlierKnown
  <1>3. PackageOf(n) >= 1 /\ pkg \in Nat
    BY <1>1, InputFacts DEF TypeInv
  <1> QED
    BY <1>1, <1>2, <1>3

\* What pending has under such a name is the module of that name.
LEMMA HereFacts ==
  ASSUME TypeInv, pkg > 0, NEW n \in Pending, PackageOf(n) = pkg
  PROVE  Source(n) = ModuleNamed(n) /\ Needs(n) = Required(n) /\ n \in AllNames
  <1>1. n \in AllNames
    BY PackageNames
  <1>2. Source(n) = ModuleNamed(n)
    BY DEF Source, ModuleNamed, Package
  <1> QED
    BY <1>1, <1>2 DEF Needs, Required

LEMMA ActiveFacts ==
  ASSUME TypeInv, ActiveHere, NEW k \in 1 .. Len(calls)
  PROVE  /\ pkg > 0 /\ calls[k].name \in Pending /\ PackageOf(calls[k].name) = pkg
         /\ Source(calls[k].name) = ModuleNamed(calls[k].name)
         /\ Needs(calls[k].name) = Required(calls[k].name) /\ calls[k].name \in AllNames
  <1>1. calls # <<>>
    OBVIOUS
  <1>2. pkg > 0 /\ calls[k].name \in Pending
    BY <1>1, CallsFacts
  <1>3. PackageOf(calls[k].name) = pkg
    BY DEF ActiveHere
  <1> QED
    BY <1>2, <1>3, HereFacts

\* reaches_active() answers yes only when the module leads to an active one.
LEMMA ReachSound ==
  ASSUME TypeInv, pkg > 0, EarlierKnown, NEW name, ReachesActive(name)
  PROVE  \E a \in Active : a \in Leads(name)
  <1>1. ASSUME NEW s \in Leads(name) \cap Unvisited
        PROVE  ImportsOf(Source(s)) \subseteq Leads(name)
    <2>1. s \in Pending /\ s \notin DOMAIN modules
      BY <1>1 DEF Unvisited
    <2>2. Needs(s) = Required(s)
      BY <2>1, NewHere, HereFacts
    <2>3. ImportsOf(Source(s)) \subseteq Needs(s)
      BY <2>1, SourceFacts, PackageFacts, ImportSitesFacts DEF Needs
    <2> QED
      BY <2>2, <2>3, LeadsFacts
  <1>2. name \in Leads(name)
    BY LeadsFacts
  <1>3. PICK R : /\ R \cap Active # {}
                 /\ \A S : name \in S /\ (\A s \in S \cap Unvisited : ImportsOf(Source(s)) \subseteq S)
                           => R \subseteq S
    BY ReachFacts
  <1>4. R \subseteq Leads(name)
    BY <1>1, <1>2, <1>3
  <1> QED
    BY <1>3, <1>4

\* A builtin module is passed over only for a module that a builtin one needs.
LEMMA SkipReason ==
  ASSUME StackInv, KnownInv, Visiting, Visited.builtin, ReachesActive(Visited.name)
  PROVE  \E c \in ToSet(input.builtins) : Top.name \in Leads(c)
  <1>1. /\ calls # <<>> /\ pkg > 0 /\ Len(calls) \in Nat \ {0} /\ Top = calls[Len(calls)]
        /\ Active = {calls[k].name : k \in 1 .. Len(calls)} /\ Top.i \in Nat \ {0}
        /\ Top.i <= Len(Sites(Source(Top.name))) /\ Source(Top.name) \in ToSet(Package)
    BY CallsFacts, SourceFacts DEF Visiting, InCall, StackInv
  <1>2. PICK n : n = Len(calls)
    OBVIOUS
  <1>3. Visited.name \in ToSet(input.builtins)
    BY <1>1, SitesFacts DEF StackInv, Visited
  <1>4. PICK k \in 1 .. n : calls[k].name \in Leads(Visited.name)
    BY <1>1, <1>2, ReachSound DEF StackInv, KnownInv
  <1> DEFINE Led(j) == \E c \in ToSet(input.builtins) : calls[j].name \in Leads(c)
             T == {j \in Nat : k <= j /\ j <= n => Led(j)}
  <1>5. Led(k)
    BY <1>3, <1>4
  <1>6. ASSUME NEW j \in 1 .. n, Led(j), j + 1 <= n PROVE Led(j + 1)
    <2>1. PICK c \in ToSet(input.builtins) : calls[j].name \in Leads(c)
      BY <1>6
    <2>2. Required(calls[j].name) \subseteq Leads(c)
      BY <2>1, LeadsFacts DEF StackInv
    <2>3. Needs(calls[j].name) = Required(calls[j].name)
      BY <1>2, ActiveFacts DEF StackInv, KnownInv
    <2>4. calls[j + 1].name \in Needs(calls[j].name) \cup ToSet(input.builtins)
      <3>1. j \in 1 .. Len(calls) - 1
        BY <1>1, <1>2, <1>6
      <3> QED
        BY <3>1 DEF KnownInv, Linked
    <2>5. \A x : x \in Leads(x)
      BY LeadsFacts DEF StackInv
    <2> QED
      BY <2>1, <2>2, <2>3, <2>4, <2>5
  <1> HIDE DEF Led
  <1>7. 0 \in T
    BY <1>4
  <1>8. ASSUME NEW j \in Nat, j \in T PROVE j + 1 \in T
    <2> SUFFICES ASSUME k <= j + 1, j + 1 <= n PROVE Led(j + 1)
      OBVIOUS
    <2>1. CASE k = j + 1
      BY <2>1, <1>5
    <2>2. CASE k # j + 1
      <3>1. k <= j /\ j \in 1 .. n
        BY <2>2, <1>1, <1>2, <1>4
      <3> QED
        BY <3>1, <1>6, <1>8
    <2> QED
      BY <2>1, <2>2
  <1> HIDE DEF T
  <1>9. \A j \in Nat : j \in T
    BY <1>7, <1>8, SetInduction
  <1>10. Led(n)
    BY <1>9, <1>1, <1>2, <1>4 DEF T
  <1> QED
    BY <1>10, <1>1, <1>2 DEF Led

\* The last call has visited a site, for which another one may be active now.
LEMMA Moved ==
  ASSUME StackInv, KnownInv, Visiting, UNCHANGED <<input, pkg>>, NEW n, n = Len(calls), n \in Nat \ {0},
         NEW h \in {n, n + 1}, Len(calls') = h, DOMAIN modules \subseteq DOMAIN modules',
         \A k \in 1 .. n : calls'[k].name = calls[k].name,
         \A k \in 1 .. n - 1 : calls'[k].i = calls[k].i,
         calls'[n].i = calls[n].i + 1,
         h = n + 1 => /\ calls'[h] = [name |-> Visited.name, i |-> 1]
                      /\ Visited.name \in Pending /\ Visited.name \notin DOMAIN modules,
         \/ h = n + 1 \/ Visited.name \in DOMAIN modules' \/ Visited.name \notin Pending
         \/ Visited.builtin /\ \E c \in ToSet(input.builtins) : Top.name \in Leads(c)
  PROVE  ActiveHere' /\ Linked' /\ SitesPassed'
  <1>1. /\ pkg > 0 /\ Top = calls[n] /\ Top.i \in Nat \ {0} /\ Source(Top.name) \in ToSet(Package)
        /\ Top.i <= Len(Sites(Source(Top.name)))
        /\ \A k \in 1 .. n : calls[k].name \in Pending /\ calls[k].i \in Nat \ {0}
    BY CallsFacts, SourceFacts DEF Visiting, InCall, StackInv
  <1>2. /\ Pending' = Pending /\ \A s : Needs(s)' = Needs(s) /\ Source(s)' = Source(s)
    BY SameProgram DEF Source, SourceIn, Package
  <1>3. \A s : PackageOf(s)' = PackageOf(s) /\ Leads(s)' = Leads(s)
    BY SameSources DEF StackInv
  <1>4. \A m : Sites(m)' = Sites(m)
    BY DEF Sites, ImportSites, Site
  <1>5. ActiveHere'
    <2> SUFFICES ASSUME NEW k \in 1 .. h PROVE PackageOf(calls'[k].name) = pkg
      BY <1>3 DEF ActiveHere
    <2>1. CASE k \in 1 .. n
      BY <2>1 DEF KnownInv, ActiveHere
    <2>2. CASE k = n + 1 /\ h = n + 1
      BY <2>2, <1>1, NewHere DEF StackInv, KnownInv
    <2> QED
      BY <2>1, <2>2
  <1>6. Linked'
    <2> SUFFICES ASSUME NEW k \in 1 .. h - 1
                 PROVE  calls'[k + 1].name \in Needs(calls'[k].name) \cup ToSet(input.builtins)
      BY <1>2 DEF Linked
    <2>1. CASE k + 1 \in 1 .. n
      <3>1. k \in 1 .. Len(calls) - 1 /\ k \in 1 .. n
        BY <2>1
      <3> QED
        BY <2>1, <3>1 DEF KnownInv, Linked
    <2>2. CASE k = n /\ h = n + 1
      <3>1. calls'[k + 1].name = Visited.name /\ calls'[k].name = Top.name
        BY <2>2, <1>1
      <3>2. Visited.name \in NeedsOf(Source(Top.name)) \cup ToSet(input.builtins)
        BY <1>1, SitesFacts DEF StackInv, Visited
      <3> QED
        BY <3>1, <3>2 DEF Needs
    <2> QED
      BY <2>1, <2>2
  <1>7. SitesPassed'
    <2> SUFFICES ASSUME NEW k \in 1 .. h, NEW i \in 1 .. calls'[k].i - 1 PROVE Passed(k, i)'
      BY DEF SitesPassed
    <2>1. k \in 1 .. n
      <3>1. ASSUME k = n + 1, h = n + 1 PROVE FALSE
        BY <3>1
      <3> QED
        BY <3>1
    <2> DEFINE s == Sites(Source(calls[k].name))[i]
    <2>2. Passed(k, i)' <=> \/ s.name \in DOMAIN modules' \/ s.name \notin Pending
                            \/ k < h /\ s.name = calls'[k + 1].name
                            \/ s.builtin /\ \E c \in ToSet(input.builtins) : calls[k].name \in Leads(c)
      BY <2>1, <1>2, <1>3, <1>4 DEF Passed, Known
    <2>3. CASE i \in 1 .. calls[k].i - 1
      <3>1. \/ s.name \in DOMAIN modules \/ s.name \notin Pending
            \/ k < n /\ s.name = calls[k + 1].name
            \/ s.builtin /\ \E c \in ToSet(input.builtins) : calls[k].name \in Leads(c)
        <4>1. Passed(k, i)
          BY <2>1, <2>3 DEF KnownInv, SitesPassed
        <4> QED
          BY <4>1 DEF Passed, Known
      <3>2. k < n => k < h /\ calls'[k + 1].name = calls[k + 1].name
        <4>1. k < n => k + 1 \in 1 .. n
          BY <2>1
        <4> QED
          BY <4>1
      <3> HIDE DEF s
      <3> QED
        BY <2>2, <3>1, <3>2
    <2>4. CASE ~(i \in 1 .. calls[k].i - 1)
      <3>1. k = n /\ i = Top.i
        <4>1. k # n => k \in 1 .. n - 1
          BY <2>1
        <4> QED
          BY <4>1, <2>1, <2>4, <1>1
      <3>2. s = Visited
        BY <3>1, <1>1 DEF Visited
      <3>3. h = n + 1 => calls'[k + 1].name = Visited.name /\ k < h
        BY <3>1
      <3>4. calls[k].name = Top.name
        BY <3>1, <1>1
      <3> HIDE DEF s
      <3> QED
        BY <2>2, <3>2, <3>3, <3>4
    <2> QED
      BY <2>3, <2>4
  <1> QED
    BY <1>5, <1>6, <1>7

\* What compute() has started stays known or active.
LEMMA StillStarted ==
  ASSUME KnownInv, UNCHANGED <<input, pkg, next>>,
         DOMAIN modules \cup Active \subseteq DOMAIN modules' \cup Active'
  PROVE  StartedKnown'
  <1>1. Package' = Package
    BY DEF Package
  <1> QED
    BY <1>1 DEF KnownInv, StartedKnown

LEMMA StillKnown ==
  ASSUME StackInv, KnownInv, UNCHANGED <<input, pkg>>, DOMAIN modules \subseteq DOMAIN modules',
         \A n \in DOMAIN modules' \ DOMAIN modules : n \in AllNames /\ PackageOf(n) <= pkg
  PROVE  EntriesOfNames' /\ EarlierKnown'
  <1>1. AllNames' = AllNames /\ \A n : PackageOf(n)' = PackageOf(n)
    BY SameSources DEF StackInv
  <1>2. EntriesOfNames'
    BY <1>1 DEF KnownInv, EntriesOfNames
  <1>3. EarlierKnown'
    BY DEF KnownInv, EarlierKnown, NamesOf
  <1> QED
    BY <1>2, <1>3

LEMMA AddPackageKnown ==
  ASSUME StackInv, KnownInv, AddPackage, TypeInv'
  PROVE  KnownInv'
  <1>1. /\ calls = <<>> /\ calls' = <<>> /\ pkg' = pkg + 1 /\ next' = 1 /\ UNCHANGED <<input, modules>>
        /\ pkg \in Nat /\ (pkg > 0 => next > Len(Package))
    BY DEF AddPackage, StackInv, TypeInv
  <1>2. AllNames' = AllNames /\ \A n : PackageOf(n)' = PackageOf(n)
    BY <1>1, SameSources DEF StackInv
  <1>3. EntriesOfNames'
    <2> SUFFICES ASSUME NEW n \in DOMAIN modules PROVE n \in AllNames /\ PackageOf(n) <= pkg'
      BY <1>1, <1>2 DEF EntriesOfNames
    <2>1. n \in AllNames /\ PackageOf(n) <= pkg
      BY DEF KnownInv, EntriesOfNames
    <2>2. PackageOf(n) \in Nat
      BY <2>1, NameFacts DEF StackInv
    <2> QED
      BY <2>1, <2>2, <1>1
  <1>4. EarlierKnown'
    <2> SUFFICES ASSUME NEW p \in 1 .. pkg PROVE NamesOf(p) \subseteq DOMAIN modules
      <3>1. pkg' - 1 = pkg /\ \A p : NamesOf(p)' = NamesOf(p)
        BY <1>1 DEF NamesOf
      <3> QED
        BY <3>1, <1>1 DEF EarlierKnown
    <2>1. CASE p \in 1 .. pkg - 1
      BY <2>1 DEF KnownInv, EarlierKnown
    <2>2. CASE p = pkg
      <3>1. DOMAIN Package = 1 .. Len(Package) /\ Len(Package) \in Nat /\ NamesOf(p) = Pending /\ pkg > 0
        BY <2>2, <1>1, PackageFacts, PackageNames, Elements DEF StackInv
      <3>2. Active = {} /\ next \in Nat
        BY <1>1 DEF Active, StackInv, TypeInv
      <3>3. ASSUME NEW i \in DOMAIN Package PROVE Package[i].name \in DOMAIN modules
        <4>1. i < next
          BY <3>1, <3>2, <1>1
        <4> QED
          BY <4>1, <3>1, <3>2 DEF KnownInv, StartedKnown
      <3> QED
        BY <3>1, <3>3 DEF Pending
    <2> QED
      BY <2>1, <2>2, <1>1
  <1>5. StartedKnown'
    <2> SUFFICES ASSUME NEW i \in DOMAIN Package', i < 1 PROVE FALSE
      BY <1>1 DEF StartedKnown
    <2>1. pkg' \in DOMAIN input.packages
      BY <1>1, InputFacts DEF StackInv, AddPackage
    <2>2. IsSeq(input.packages[pkg']) /\ Package' = input.packages[pkg']
      BY <1>1, <2>1, InputFacts DEF StackInv, Package
    <2>3. DOMAIN Package' = 1 .. Len(input.packages[pkg'])
      BY <2>2, Elements
    <2> QED
      BY <2>3
  <1>6. ActiveHere' /\ Linked' /\ SitesPassed'
    BY <1>1 DEF ActiveHere, Linked, SitesPassed
  <1> QED
    BY <1>3, <1>4, <1>5, <1>6 DEF KnownInv

LEMMA StartModuleKnown ==
  ASSUME StackInv, KnownInv, StartModule
  PROVE  KnownInv'
  <1>1. PICK x : x = Package[next].name
    OBVIOUS
  <1>2. /\ calls = <<>> /\ pkg > 0 /\ next <= Len(Package) /\ UNCHANGED <<input, pkg>>
        /\ next' = next + 1 /\ Compute(x, <<>>)
    BY <1>1 DEF StartModule
  <1>3. Active = {} /\ ~IsActive(x) /\ Package' = Package
    BY <1>2 DEF Active, IsActive, Package
  <1>4. /\ next \in Nat /\ DOMAIN Package = 1 .. Len(Package) /\ Len(Package) \in Nat
        /\ x \in Pending
    <2>1. next \in Nat \ {0} /\ DOMAIN Package = 1 .. Len(Package) /\ Len(Package) \in Nat
      BY <1>2, PackageFacts, Elements DEF StackInv, TypeInv
    <2>2. next \in DOMAIN Package
      BY <2>1, <1>2
    <2> QED
      BY <2>1, <2>2, <1>1 DEF Pending
  <1>5. modules' = modules
    BY <1>2, <1>3 DEF Compute
  <1>6. EntriesOfNames' /\ EarlierKnown'
    BY <1>2, <1>5, StillKnown
  <1>7. CASE Known(x)
    <2>1. calls' = <<>> /\ x \in DOMAIN modules
      BY <1>2, <1>4, <1>7 DEF Compute, Known
    <2>2. ActiveHere' /\ Linked' /\ SitesPassed'
      BY <2>1 DEF ActiveHere, Linked, SitesPassed
    <2>3. StartedKnown'
      <3> SUFFICES ASSUME NEW i \in DOMAIN Package, i < next + 1 PROVE Package[i].name \in DOMAIN modules
        BY <1>2, <1>3, <1>5 DEF StartedKnown
      <3>1. i = next \/ i < next
        BY <1>4
      <3> QED
        BY <3>1, <2>1, <1>1, <1>2, <1>3 DEF KnownInv, StartedKnown
    <2> QED
      BY <2>2, <2>3, <1>6 DEF KnownInv
  <1>8. CASE ~Known(x)
    <2>1. calls' = Append(<<>>, [name |-> x, i |-> 1]) /\ x \notin DOMAIN modules
      BY <1>2, <1>3, <1>8 DEF Compute, Known
    <2>2. calls' = <<[name |-> x, i |-> 1]>>
      BY <2>1
    <2>3. Len(calls') = 1 /\ DOMAIN calls' = {1} /\ calls'[1] = [name |-> x, i |-> 1]
      BY <2>2
    <2>4. PackageOf(x) = pkg /\ PackageOf(x)' = PackageOf(x)
      BY <2>1, <1>2, <1>4, NewHere, SameSources DEF StackInv, KnownInv
    <2>5. ActiveHere'
      <3>1. \A s : PackageOf(s)' = PackageOf(s)
        BY <1>2, SameSources DEF StackInv
      <3> SUFFICES ASSUME NEW k \in 1 .. 1 PROVE PackageOf(calls'[k].name) = pkg
        BY <3>1, <2>3, <1>2 DEF ActiveHere
      <3> QED
        BY <2>3, <2>4
    <2>6. Linked' /\ SitesPassed'
      BY <2>3 DEF Linked, SitesPassed
    <2>7. Active' = {x}
      BY <2>3 DEF Active
    <2>8. StartedKnown'
      <3> SUFFICES ASSUME NEW i \in DOMAIN Package, i < next + 1
                   PROVE  Package[i].name \in DOMAIN modules \cup {x}
        BY <1>2, <1>3, <1>5, <2>7 DEF StartedKnown
      <3>1. i = next \/ i < next
        BY <1>4
      <3> QED
        BY <3>1, <1>1, <1>2, <1>3 DEF KnownInv, StartedKnown
    <2> QED
      BY <2>5, <2>6, <2>8, <1>6 DEF KnownInv
  <1> QED
    BY <1>7, <1>8

\* A visit that finds its module, or passes it over: the last call goes on.
LEMMA GoesOnKnown ==
  ASSUME StackInv, KnownInv, Visiting, calls' = Advanced, UNCHANGED <<input, pkg, next>>,
         DOMAIN modules \subseteq DOMAIN modules',
         \A n \in DOMAIN modules' \ DOMAIN modules : n \in AllNames /\ PackageOf(n) <= pkg,
         \/ Visited.name \in DOMAIN modules' \/ Visited.name \notin Pending
         \/ Visited.builtin /\ \E c \in ToSet(input.builtins) : Top.name \in Leads(c)
  PROVE  KnownInv'
  <1>1. PICK n : n = Len(calls)
    OBVIOUS
  <1>2. /\ calls # <<>> /\ n \in Nat \ {0} /\ DOMAIN calls = 1 .. n
        /\ Active = {calls[k].name : k \in 1 .. n} /\ Top = calls[n]
    BY <1>1, CallsFacts DEF Visiting, InCall, StackInv
  <1>3. /\ Len(calls') = n /\ DOMAIN calls' = 1 .. n /\ calls'[n].i = calls[n].i + 1
        /\ \A k \in 1 .. n : calls'[k].name = calls[k].name
    BY <1>1, <1>2, AdvancedFacts DEF StackInv
  <1>4. \A k \in 1 .. n - 1 : calls'[k].i = calls[k].i
    BY <1>1, <1>2 DEF Advanced
  <1>5. ActiveHere' /\ Linked' /\ SitesPassed'
    <2>1. n \in {n, n + 1} /\ n # n + 1
      BY <1>2
    <2> QED
      BY <2>1, <1>1, <1>2, <1>3, <1>4, Moved
  <1>6. Active' = Active
    BY <1>2, <1>3 DEF Active
  <1> QED
    BY <1>5, <1>6, StillStarted, StillKnown DEF KnownInv

LEMMA VisitModuleKnown ==
  ASSUME StackInv, KnownInv, VisitModule
  PROVE  KnownInv'
  <1>1. PICK x : x = Visited.name
    OBVIOUS
  <1>2. Visiting /\ calls # <<>> /\ Compute(x, Advanced) /\ UNCHANGED <<input, pkg, next>>
    BY <1>1, VisitedFacts DEF VisitModule
  <1>3. pkg > 0
    BY <1>2, CallsFacts DEF StackInv
  <1>4. CASE Known(x)
    <2>1. calls' = Advanced /\ UNCHANGED modules
      BY <1>2, <1>4 DEF Compute
    <2> QED
      BY <2>1, <1>1, <1>2, <1>4, GoesOnKnown DEF Known
  <1>5. CASE ~Known(x) /\ IsActive(x)
    <2>1. calls' = Advanced /\ DOMAIN modules' = DOMAIN modules \cup {x} /\ x \in Pending
      BY <1>2, <1>5 DEF Compute, Entered, Known
    <2>2. x \in AllNames /\ PackageOf(x) <= pkg
      BY <2>1, <1>3, PackageNames DEF StackInv
    <2> QED
      BY <2>1, <2>2, <1>1, <1>2, GoesOnKnown
  <1>6. CASE ~Known(x) /\ ~IsActive(x)
    <2>1. /\ calls' = Append(Advanced, [name |-> x, i |-> 1]) /\ UNCHANGED modules
          /\ x \in Pending /\ x \notin DOMAIN modules
      BY <1>2, <1>6 DEF Compute, Known
    <2>2. PICK n : n = Len(calls)
      OBVIOUS
    <2>3. /\ n \in Nat \ {0} /\ DOMAIN calls = 1 .. n
          /\ Active = {calls[k].name : k \in 1 .. n} /\ Top = calls[n]
          /\ Advanced \in Seq(Call(Pending)) /\ Len(Advanced) = n
          /\ Advanced[n].i = calls[n].i + 1
          /\ \A k \in 1 .. n : Advanced[k].name = calls[k].name
      BY <2>2, <1>2, CallsFacts, AdvancedFacts DEF StackInv
    <2>4. [name |-> x, i |-> 1] \in Call(Pending)
      BY <2>1 DEF Call
    <2>5. /\ Len(calls') = n + 1 /\ calls' \in Seq(Call(Pending)) /\ calls'[n + 1] = [name |-> x, i |-> 1]
          /\ \A k \in 1 .. n : calls'[k] = Advanced[k]
      BY <2>1, <2>3, <2>4, AppendProperties
    <2>6. \A k \in 1 .. n : calls'[k].name = calls[k].name
      BY <2>3, <2>5
    <2>7. \A k \in 1 .. n - 1 : calls'[k].i = calls[k].i
      <3> SUFFICES ASSUME NEW k \in 1 .. n - 1 PROVE calls'[k].i = calls[k].i
        OBVIOUS
      <3>1. k \in 1 .. n /\ k # n
        BY <2>3
      <3>2. Advanced[k] = calls[k]
        BY <3>1, <2>2, <2>3 DEF Advanced
      <3> QED
        BY <3>1, <3>2, <2>5
    <2>8. n + 1 \in {n, n + 1} /\ n \in 1 .. n /\ calls'[n].i = calls[n].i + 1
      BY <2>3, <2>5
    <2>9. ActiveHere' /\ Linked' /\ SitesPassed'
      BY <2>1, <2>2, <2>3, <2>5, <2>6, <2>7, <2>8, <1>1, <1>2, Moved
    <2>10. Active \subseteq Active'
      <3>1. DOMAIN calls' = 1 .. n + 1 /\ \A k \in 1 .. n : k \in 1 .. n + 1
        BY <2>3, <2>5
      <3> QED
        BY <3>1, <2>3, <2>6 DEF Active
    <2> QED
      BY <2>1, <2>9, <2>10, <1>2, StillStarted, StillKnown DEF KnownInv
  <1> QED
    BY <1>4, <1>5, <1>6

LEMMA SkipBuiltinKnown ==
  ASSUME StackInv, KnownInv, SkipBuiltin
  PROVE  KnownInv'
  <1>1. \E c \in ToSet(input.builtins) : Top.name \in Leads(c)
    BY SkipReason DEF SkipBuiltin
  <1> QED
    BY <1>1, GoesOnKnown DEF SkipBuiltin

LEMMA FinishKnown ==
  ASSUME StackInv, KnownInv, Finish
  PROVE  KnownInv'
  <1>1. PICK n : n = Len(calls)
    OBVIOUS
  <1>2. /\ calls # <<>> /\ UNCHANGED <<input, pkg, next>> /\ calls' = SubSeq(calls, 1, n - 1)
    BY <1>1 DEF Finish, InCall
  <1>3. /\ n \in Nat \ {0} /\ Active = {calls[k].name : k \in 1 .. n} /\ calls \in Seq(Call(Pending))
        /\ Top = calls[n] /\ Top.name \in Pending /\ pkg > 0
        /\ \A k \in 1 .. n : calls[k].name \in Pending /\ calls[k].i \in Nat \ {0}
    BY <1>1, <1>2, CallsFacts DEF StackInv, TypeInv
  <1>4. Len(calls') = n - 1 /\ DOMAIN calls' = 1 .. n - 1 /\ \A k \in 1 .. n - 1 : calls'[k] = calls[k]
    BY <1>1, <1>2, <1>3
  <1>5. DOMAIN modules' = DOMAIN modules \cup {Top.name}
    <2>1. Source(Top.name).name = Top.name
      BY <1>3, SourceFacts DEF StackInv
    <2>2. \E m \in {Source(Top.name)} : \E e : modules' = Entered(m.name, e)
      BY DEF Finish
    <2> QED
      BY <2>1, <2>2 DEF Entered
  <1>6. Top.name \in AllNames /\ PackageOf(Top.name) <= pkg
    BY <1>3, PackageNames DEF StackInv
  <1>7. \A k \in 1 .. n : k # n => k \in 1 .. n - 1
    BY <1>3
  <1>8. StartedKnown'
    <2>1. Active \subseteq Active' \cup {Top.name}
      BY <1>3, <1>4, <1>7 DEF Active
    <2> QED
      BY <2>1, <1>2, <1>5, StillStarted
  <1>9. /\ Pending' = Pending /\ \A s : Needs(s)' = Needs(s) /\ Source(s)' = Source(s)
        /\ \A m : Sites(m)' = Sites(m)
        /\ \A s : PackageOf(s)' = PackageOf(s) /\ Leads(s)' = Leads(s)
    BY <1>2, SameProgram, SameSources DEF Source, SourceIn, Package, Sites, ImportSites, Site, StackInv
  <1>10. \A k \in 1 .. n - 1 : k \in 1 .. n
    BY <1>3
  <1>11. ActiveHere'
    BY <1>1, <1>2, <1>4, <1>9, <1>10 DEF KnownInv, ActiveHere
  <1>12. Linked'
    <2> SUFFICES ASSUME NEW k \in 1 .. (n - 1) - 1
                 PROVE  calls'[k + 1].name \in Needs(calls'[k].name) \cup ToSet(input.builtins)
      BY <1>2, <1>4, <1>9 DEF Linked
    <2>1. k \in 1 .. n - 1 /\ k + 1 \in 1 .. n - 1
      BY <1>3
    <2> QED
      BY <2>1, <1>1, <1>4 DEF KnownInv, Linked
  <1>13. SitesPassed'
    <2> SUFFICES ASSUME NEW k \in 1 .. n - 1, NEW i \in 1 .. calls'[k].i - 1 PROVE Passed(k, i)'
      BY <1>4 DEF SitesPassed
    <2> DEFINE s == Sites(Source(calls[k].name))[i]
    <2>1. k \in 1 .. n /\ i \in 1 .. calls[k].i - 1
      BY <1>4, <1>10
    <2>2. \/ s.name \in DOMAIN modules \/ s.name \notin Pending
          \/ k < n /\ s.name = calls[k + 1].name
          \/ s.builtin /\ \E c \in ToSet(input.builtins) : calls[k].name \in Leads(c)
      <3>1. Passed(k, i)
        BY <2>1, <1>1 DEF KnownInv, SitesPassed
      <3> QED
        BY <3>1, <1>1 DEF Passed, Known
    <2>3. Passed(k, i)' <=> \/ s.name \in DOMAIN modules' \/ s.name \notin Pending
                            \/ k < n - 1 /\ s.name = calls'[k + 1].name
                            \/ s.builtin /\ \E c \in ToSet(input.builtins) : calls[k].name \in Leads(c)
      BY <1>2, <1>4, <1>9 DEF Passed, Known
    <2>4. k < n - 1 => calls'[k + 1].name = calls[k + 1].name
      <3>1. k < n - 1 => k + 1 \in 1 .. n - 1
        BY <1>3
      <3> QED
        BY <3>1, <1>4
    <2>5. ~(k < n - 1) => calls[k + 1].name = Top.name
      <3>1. ~(k < n - 1) => k + 1 = n
        BY <1>3
      <3> QED
        BY <3>1, <1>3
    <2> HIDE DEF s
    <2> QED
      BY <2>2, <2>3, <2>4, <2>5, <1>5
  <1> QED
    BY <1>2, <1>5, <1>6, <1>8, <1>11, <1>12, <1>13, StillKnown DEF KnownInv

\* What compute() and its caller know of the modules they have come to: those
\* of earlier packages, those the active calls have passed.
THEOREM KnownInvariance == Spec => []KnownInv
  <1>1. Init => KnownInv
    <2> SUFFICES ASSUME Init PROVE KnownInv
      OBVIOUS
    <2>1. calls = <<>> /\ pkg = 0 /\ DOMAIN modules = {}
      BY DEF Init
    <2> QED
      BY <2>1 DEF KnownInv, EntriesOfNames, EarlierKnown, StartedKnown, ActiveHere, Linked, SitesPassed
  <1>2. ASSUME StackInv, StackInv', KnownInv, [Next]_vars PROVE KnownInv'
    <2>1. CASE AddPackage
      BY <1>2, <2>1, AddPackageKnown DEF StackInv
    <2>2. CASE StartModule
      BY <1>2, <2>2, StartModuleKnown
    <2>3. CASE VisitModule
      BY <1>2, <2>3, VisitModuleKnown
    <2>4. CASE SkipBuiltin
      BY <1>2, <2>4, SkipBuiltinKnown
    <2>5. CASE Finish
      BY <1>2, <2>5, FinishKnown
    <2>6. CASE UNCHANGED vars
      <3>1. UNCHANGED <<input, pkg, next, modules, kids, calls>>
        BY <2>6 DEF vars
      <3>2. /\ Pending' = Pending /\ \A s : Needs(s)' = Needs(s) /\ Source(s)' = Source(s)
            /\ \A m : Sites(m)' = Sites(m)
            /\ \A s : PackageOf(s)' = PackageOf(s) /\ Leads(s)' = Leads(s)
            /\ Active' = Active
        BY <1>2, <3>1, SameProgram, SameSources
           DEF Source, SourceIn, Package, Sites, ImportSites, Site, StackInv, Active
      <3>3. \A k, i : Passed(k, i)' <=> Passed(k, i)
        BY <3>1, <3>2 DEF Passed, Known
      <3>4. SitesPassed'
        BY <1>2, <3>1, <3>3 DEF KnownInv, SitesPassed
      <3>5. ActiveHere' /\ Linked'
        BY <1>2, <3>1, <3>2 DEF KnownInv, ActiveHere, Linked
      <3> QED
        BY <1>2, <3>1, <3>2, <3>4, <3>5, StillStarted, StillKnown DEF KnownInv
    <2> QED
      BY <1>2, <2>1, <2>2, <2>3, <2>4, <2>5, <2>6 DEF Next, Stop
  <1> QED
    BY <1>1, <1>2, StackInvariance, PTL DEF Spec

-----------------------------------------------------------------------------
(* When imports and exports are refused                                    *)

\* The exports and the children kd have what an item of an import asks for.
Admitted(kd, exports, it) ==
    /\ it.supported /\ it.key \in DOMAIN exports
    /\ \/ it.key[1] = "term" \/ it.subs.kind = "NONE"
       \/ \A x \in it.subs.names : \E k \in Children(kd, exports[it.key]) : k[2] = x

LEMMA ItemFacts ==
  ASSUME NEW kd, NEW exports, NEW r \in [ok : BOOLEAN, val : SUBSET DOMAIN exports],
         NEW it, it.supported \in BOOLEAN
  PROVE  LET s == SelectItem(kd, exports, r, it)
         IN  /\ s \in [ok : BOOLEAN, val : SUBSET DOMAIN exports]
             /\ s.ok <=> r.ok /\ Admitted(kd, exports, it)
  <1> DEFINE X == [ok : BOOLEAN, val : SUBSET DOMAIN exports]
             e == exports[it.key]
             has == r.val \cup {it.key}
             children == AddChildren(kd, e, it.subs, exports, has, FALSE)
             extra == {n \in it.subs.names : \A k \in Children(kd, e) : k[2] # n}
             s == SelectItem(kd, exports, r, it)
             admitted == Admitted(kd, exports, it)
  <1>1. /\ children.ok \in BOOLEAN /\ children.adds \subseteq DOMAIN exports
        /\ children.ok <=> it.subs.kind = "NONE" \/ extra = {}
    BY DEF AddChildren
  <1>2. extra = {} <=> \A x \in it.subs.names : \E k \in Children(kd, e) : k[2] = x
    OBVIOUS
  <1>3. s = CASE ~r.ok -> r
              [] r.ok /\ (~it.supported \/ it.key \notin DOMAIN exports) -> Failed({})
              [] r.ok /\ it.supported /\ it.key \in DOMAIN exports ->
                    IF it.key[1] = "term" THEN Fine(has)
                    ELSE IF children.ok THEN Fine(has \cup children.adds)
                    ELSE Failed({})
    BY DEF SelectItem
  <1>4. admitted <=> /\ it.supported /\ it.key \in DOMAIN exports
                     /\ it.key[1] = "term" \/ children.ok
    BY <1>1, <1>2 DEF Admitted
  <1> HIDE DEF children, s, admitted
  <1>5. r.ok \in BOOLEAN /\ r.val \subseteq DOMAIN exports
    OBVIOUS
  <1>6. Failed({}) \in X /\ Failed({}).ok = FALSE
    BY DEF Failed
  <1>7. \A v \in SUBSET DOMAIN exports : Fine(v) \in X /\ Fine(v).ok = TRUE
    BY DEF Fine
  <1>8. CASE ~r.ok
    <2>1. s = r
      BY <1>3, <1>8
    <2> QED
      BY <2>1, <1>8 DEF admitted, s
  <1>9. CASE r.ok /\ (~it.supported \/ it.key \notin DOMAIN exports)
    <2>1. s = Failed({}) /\ ~admitted
      BY <1>3, <1>4, <1>9
    <2> QED
      BY <2>1, <1>6 DEF admitted, s
  <1>10. CASE r.ok /\ it.supported /\ it.key \in DOMAIN exports
    <2>1. s = IF it.key[1] = "term" THEN Fine(has)
              ELSE IF children.ok THEN Fine(has \cup children.adds) ELSE Failed({})
      BY <1>3, <1>10
    <2>2. has \in SUBSET DOMAIN exports /\ has \cup children.adds \in SUBSET DOMAIN exports
      BY <1>1, <1>5, <1>10
    <2>3. s \in X /\ (s.ok <=> admitted)
      BY <2>1, <2>2, <1>1, <1>4, <1>6, <1>7, <1>10
    <2> QED
      BY <2>3, <1>10 DEF admitted, s
  <1> QED
    BY <1>5, <1>8, <1>9, <1>10

\* An import goes through when it asks for nothing that is not there.
LEMMA SelectFacts ==
  ASSUME NEW kd, NEW exports, NEW items, IsSeq(items), \A it \in ToSet(items) : it.supported \in BOOLEAN
  PROVE  LET s == Select(kd, exports, items)
         IN  /\ s.ok \in BOOLEAN
             /\ s.ok <=> \A it \in ToSet(items) : Admitted(kd, exports, it)
  <1> DEFINE X == [ok : BOOLEAN, val : SUBSET DOMAIN exports]
             n == Len(items)
             start == Fine({})
             Step(r, i) == SelectItem(kd, exports, r, items[i])
             F == [i \in Nat |-> [r \in X |-> IF i \in 1 .. n THEN Step(r, i) ELSE r]]
             f == CHOOSE f : f = [i \in 0 .. n |-> IF i = 0 THEN start ELSE Step(f[i - 1], i)]
             admitted(i) == Admitted(kd, exports, items[i])
  <1>1. Select(kd, exports, items) = f[n]
    BY DEF Select
  <1>2. n \in Nat /\ start \in X /\ start.ok
    BY Elements DEF Fine
  <1>3. \A i \in 1 .. n : \A r \in X : Step(r, i) \in X /\ (Step(r, i).ok <=> r.ok /\ admitted(i))
    <2>1. \A i \in 1 .. n : items[i].supported \in BOOLEAN
      BY Elements
    <2> SUFFICES ASSUME NEW i \in 1 .. n, NEW r \in X
                 PROVE  Step(r, i) \in X /\ (Step(r, i).ok <=> r.ok /\ admitted(i))
      OBVIOUS
    <2> HIDE DEF n
    <2>2. PICK it : it = items[i]
      OBVIOUS
    <2>3. it.supported \in BOOLEAN
      BY <2>1, <2>2
    <2>4. LET s == SelectItem(kd, exports, r, it)
          IN  s \in X /\ (s.ok <=> r.ok /\ Admitted(kd, exports, it))
      BY <2>3, ItemFacts
    <2> QED
      BY <2>2, <2>4
  <1> HIDE DEF X, Step, start, admitted
  <1>4. F \in [Nat -> [X -> X]]
    BY <1>3
  <1>5. PICK g \in [0 .. n -> X] : Iterates(g, start, F, n)
    <2> HIDE DEF F, n
    <2> QED
      BY <1>2, <1>4, FiniteRecursion
  <1>6. g = [i \in 0 .. n |-> IF i = 0 THEN start ELSE Step(g[i - 1], i)]
    <2>1. \A i \in 0 .. n : i # 0 => i \in 1 .. n /\ i - 1 \in 0 .. n /\ i \in Nat
      BY <1>2
    <2>2. \A i \in 1 .. n : \A r \in X : F[i][r] = Step(r, i)
      BY <1>2
    <2> HIDE DEF F, n
    <2> QED
      BY <1>5, <2>1, <2>2 DEF Iterates
  <1>7. f = [i \in 0 .. n |-> IF i = 0 THEN start ELSE Step(f[i - 1], i)]
    BY <1>6
  <1> HIDE DEF f, n
  <1>8. f[0] = start /\ \A i \in 1 .. n : f[i] = Step(f[i - 1], i)
    BY <1>2, <1>7
  <1> DEFINE T == {i \in Nat : i <= n => f[i] \in X /\ (f[i].ok <=> \A j \in 1 .. i : admitted(j))}
  <1>9. 0 \in T
    BY <1>2, <1>8
  <1>10. ASSUME NEW i \in Nat, i \in T PROVE i + 1 \in T
    <2> SUFFICES ASSUME i + 1 <= n
                 PROVE  /\ f[i + 1] \in X
                        /\ f[i + 1].ok <=> \A j \in 1 .. i + 1 : admitted(j)
      OBVIOUS
    <2>1. f[i] \in X /\ (f[i].ok <=> \A j \in 1 .. i : admitted(j))
      BY <1>10, <1>2
    <2>2. i + 1 \in 1 .. n /\ (i + 1) - 1 = i
      BY <1>2
    <2>3. f[i + 1] = Step(f[i], i + 1)
      BY <2>2, <1>8
    <2>4. f[i + 1] \in X /\ (f[i + 1].ok <=> f[i].ok /\ admitted(i + 1))
      BY <2>1, <2>2, <2>3, <1>3
    <2>5. \A j : j \in 1 .. i + 1 <=> j \in 1 .. i \/ j = i + 1
      OBVIOUS
    <2> QED
      BY <2>1, <2>4, <2>5
  <1> HIDE DEF T
  <1>11. n \in T
    BY <1>2, <1>9, <1>10, SetInduction
  <1>12. f[n].ok \in BOOLEAN /\ (f[n].ok <=> \A j \in 1 .. n : admitted(j))
    BY <1>11, <1>2 DEF T, X
  <1>13. (\A j \in 1 .. n : admitted(j)) <=> \A it \in ToSet(items) : Admitted(kd, exports, it)
    BY Elements DEF n, admitted
  <1> QED
    BY <1>1, <1>12, <1>13

LEMMA ImportOk ==
  ASSUME NEW mods, NEW kd, NEW imp, imp.package \in BOOLEAN, imp.hasItems \in BOOLEAN, IsSeq(imp.items),
         \A it \in ToSet(imp.items) : it.supported \in BOOLEAN,
         \A n \in DOMAIN mods : mods[n].exports.ok \in BOOLEAN
  PROVE  LET s == ImportScope(mods, kd, imp)
         IN  /\ s.ok \in BOOLEAN
             /\ s.ok <=> /\ ~imp.package
                         /\ imp.module \in DOMAIN mods /\ mods[imp.module].exports.ok
                         /\ imp.hasItems => \A it \in ToSet(imp.items) :
                                               Admitted(kd, mods[imp.module].exports.val, it)
  <1> DEFINE exports == ExportsOf(mods, imp.module)
             selected == Select(kd, exports.val, imp.items)
             s == ImportScope(mods, kd, imp)
             admitted == \A it \in ToSet(imp.items) : Admitted(kd, exports.val, it)
  <1>1. selected.ok \in BOOLEAN /\ (selected.ok <=> admitted)
    BY SelectFacts
  <1>2. /\ exports.ok \in BOOLEAN
        /\ exports.ok <=> imp.module \in DOMAIN mods /\ mods[imp.module].exports.ok
    BY DEF ExportsOf, Failed
  <1>3. s = CASE imp.package                       -> Failed(NoNames)
              [] ~imp.package /\ (~exports.ok \/ ~imp.hasItems) -> exports
              [] ~imp.package /\ exports.ok /\ imp.hasItems ->
                    IF ~selected.ok THEN Failed(NoNames)
                    ELSE IF imp.hiding THEN Fine(Without(exports.val, selected.val))
                    ELSE Fine(OnlyOf(exports.val, selected.val))
    BY DEF ImportScope
  <1>4. imp.module \in DOMAIN mods => exports.val = mods[imp.module].exports.val
    BY DEF ExportsOf
  <1>5. /\ imp.module \in DOMAIN mods /\ mods[imp.module].exports.ok =>
             (admitted <=> \A it \in ToSet(imp.items) : Admitted(kd, mods[imp.module].exports.val, it))
    BY <1>4
  <1> HIDE DEF exports, selected, s, admitted
  <1>6. s.ok \in BOOLEAN /\ (s.ok <=> ~imp.package /\ exports.ok /\ (imp.hasItems => selected.ok))
    BY <1>1, <1>2, <1>3 DEF Fine, Failed
  <1> QED
    BY <1>1, <1>2, <1>5, <1>6 DEF s

LEMMA ScopeOk ==
  ASSUME NEW mods, NEW kd, NEW builtins, NEW m
  PROVE  LET s == ModuleScope(mods, kd, builtins, m)
         IN  /\ s.ok <=> /\ m.supported
                         /\ \A imp \in ToSet(m.imports) : ImportScope(mods, kd, imp).ok
                         /\ m.prelude => ExportsOf(mods, "Prelude").ok
             /\ s.ok => \E t : s.val = FirstWins(t, BuiltinScope(mods, builtins, m.name))
  BY DEF ModuleScope, Fine, Failed

\* Each type and class has the children it had.
Grown(kd, k) == \A x \in DOMAIN kd : x \in DOMAIN k /\ kd[x] \subseteq k[x]

LEMMA ChildrenGrow ==
  ASSUME NEW kd, NEW e, NEW subs, NEW source, NEW has
  PROVE  Grown(kd, AddChildren(kd, e, subs, source, has, TRUE).kids)
  <1> DEFINE extra == {n \in subs.names : \A k \in Children(kd, e) : k[2] # n}
             bundled == {<<"term", n>> : n \in extra} \cap DOMAIN source
             more == Put(EntityKey(e), Children(kd, e) \cup bundled, kd)
  <1>1. \/ AddChildren(kd, e, subs, source, has, TRUE).kids = kd
        \/ AddChildren(kd, e, subs, source, has, TRUE).kids = more
    BY DEF AddChildren
  <1>2. Grown(kd, more)
    <2> HIDE DEF bundled
    <2> QED
      BY DEF Grown, Put, Children
  <1>3. Grown(kd, kd)
    BY DEF Grown
  <1> HIDE DEF more
  <1> QED
    BY <1>1, <1>2, <1>3

LEMMA ExportItemFacts ==
  ASSUME NEW kd, NEW K, NEW E, NEW scope, NEW r \in ExportsTo(kd, K, E),
         NEW x, x.kind \in {"name", "module"}, x.supported \in BOOLEAN
  PROVE  LET s == ExportItem(scope, r, x)
         IN  (s.ok <=> r.ok /\ x.supported) /\ Grown(r.kids, s.kids)
  <1> DEFINE source == Qualifier(scope, x.qual)
             c == AddChildren(r.kids, source[x.key], x.subs, source, DOMAIN r.into \cup {x.key}, TRUE)
             put(keys) == [r EXCEPT !.into = Over(OnlyOf(source, keys), @)]
             again == [r EXCEPT !.into = Over(Reexported(scope, x.qual), @)]
             s == ExportItem(scope, r, x)
  <1>1. r = [ok |-> r.ok, kids |-> r.kids, into |-> r.into] /\ r.ok \in BOOLEAN
    BY DEF ExportsTo
  <1>2. s = CASE ~r.ok -> r
              [] r.ok /\ ~x.supported -> [r EXCEPT !.ok = FALSE]
              [] r.ok /\ x.supported /\ x.kind = "module" -> again
              [] r.ok /\ x.supported /\ x.kind = "name" ->
                    IF x.key \notin DOMAIN source THEN r
                    ELSE IF x.key[1] = "term" THEN put({x.key})
                    ELSE [put({x.key} \cup c.adds) EXCEPT !.kids = c.kids]
    BY DEF ExportItem
  <1>3. Grown(r.kids, c.kids)
    <2> HIDE DEF source
    <2> QED
      BY ChildrenGrow
  <1>4. Grown(r.kids, r.kids)
    BY DEF Grown
  <1>5. \A keys : put(keys).ok = r.ok /\ put(keys).kids = r.kids
    <2> HIDE DEF source
    <2> QED
      BY <1>1
  <1>6. \A keys : [put(keys) EXCEPT !.kids = c.kids].ok = r.ok /\ [put(keys) EXCEPT !.kids = c.kids].kids = c.kids
    <2> HIDE DEF source, c
    <2> QED
      BY <1>1
  <1>7. again.ok = r.ok /\ again.kids = r.kids
    BY <1>1
  <1>8. [r EXCEPT !.ok = FALSE].ok = FALSE /\ [r EXCEPT !.ok = FALSE].kids = r.kids
    BY <1>1
  <1> HIDE DEF source, c, put, again, s
  <1>9. (s.ok <=> r.ok /\ x.supported) /\ (s.kids = r.kids \/ s.kids = c.kids)
    <2>1. CASE ~r.ok \/ ~x.supported
      BY <2>1, <1>1, <1>2, <1>8
    <2>2. CASE r.ok /\ x.supported /\ x.kind = "module"
      BY <2>2, <1>2, <1>7
    <2>3. CASE r.ok /\ x.supported /\ x.kind = "name"
      BY <2>3, <1>2, <1>5, <1>6
    <2> QED
      BY <2>1, <2>2, <2>3
  <1>10. (s.ok <=> r.ok /\ x.supported) /\ Grown(r.kids, s.kids)
    BY <1>3, <1>4, <1>9
  <1> QED
    BY <1>10 DEF s

\* An export list goes through when all of it is supported; it only adds children.
LEMMA ExportOk ==
  ASSUME NEW kd, NEW m, IsSeq(m.exports), m.hasExports \in BOOLEAN,
         \A x \in ToSet(m.exports) : x.kind \in {"name", "module"} /\ x.supported \in BOOLEAN,
         NEW Q, NEW K, NEW E, NEW scope \in ScopesTo(Q, K, E)
  PROVE  LET out == ModuleExports(kd, m, scope)
         IN  /\ out.exports.ok \in BOOLEAN
             /\ out.exports.ok <=> (m.hasExports => \A x \in ToSet(m.exports) : x.supported)
             /\ Grown(kd, out.kids)
  <1>1. \E f : ExportSteps(f, kd, m, scope, K, E)
    BY ExportLoop
  <1>2. PICK f : ExportSteps(f, kd, m, scope, K, E)
    BY <1>1
  <1> DEFINE n == Len(m.exports)
             supported(i) == m.exports[i].supported
             T == {i \in Nat : i <= n => /\ f[i].ok <=> \A j \in 1 .. i : supported(j)
                                         /\ Grown(kd, f[i].kids)}
  <1>3. /\ n \in Nat /\ f[0] = NoExports(kd) /\ f[n] \in ExportsTo(kd, K, E)
        /\ ModuleExports(kd, m, scope) = ExportsOut(kd, m, f[n])
    BY <1>2, Elements DEF ExportSteps
  <1>4. \A i \in 1 .. n : /\ f[i].ok <=> f[i - 1].ok /\ supported(i)
                          /\ Grown(f[i - 1].kids, f[i].kids)
    <2>1. \A i \in 1 .. n : /\ m.exports[i].kind \in {"name", "module"} /\ m.exports[i].supported \in BOOLEAN
                            /\ f[i - 1] \in ExportsTo(kd, K, E) /\ f[i] = ExportItem(scope, f[i - 1], m.exports[i])
      BY <1>2, Elements DEF ExportSteps
    <2> HIDE DEF n
    <2> QED
      BY <2>1, ExportItemFacts
  <1> HIDE DEF n, supported
  <1>5. Grown(kd, kd) /\ \A a, b : Grown(kd, a) /\ Grown(a, b) => Grown(kd, b)
    BY DEF Grown
  <1>6. 0 \in T
    BY <1>3, <1>5 DEF NoExports
  <1>7. ASSUME NEW i \in Nat, i \in T PROVE i + 1 \in T
    <2> SUFFICES ASSUME i + 1 <= n
                 PROVE  (f[i + 1].ok <=> \A j \in 1 .. i + 1 : supported(j)) /\ Grown(kd, f[i + 1].kids)
      OBVIOUS
    <2>1. (f[i].ok <=> \A j \in 1 .. i : supported(j)) /\ Grown(kd, f[i].kids)
      BY <1>7, <1>3
    <2>2. i + 1 \in 1 .. n /\ (i + 1) - 1 = i
      BY <1>3
    <2>3. (f[i + 1].ok <=> f[i].ok /\ supported(i + 1)) /\ Grown(f[i].kids, f[i + 1].kids)
      BY <2>2, <1>4
    <2>4. \A j : j \in 1 .. i + 1 <=> j \in 1 .. i \/ j = i + 1
      OBVIOUS
    <2>5. (\A j \in 1 .. i + 1 : supported(j)) <=> (\A j \in 1 .. i : supported(j)) /\ supported(i + 1)
      BY <2>4
    <2> QED
      BY <2>1, <2>3, <2>5, <1>5
  <1> HIDE DEF T
  <1>8. n \in T
    BY <1>3, <1>6, <1>7, SetInduction
  <1>9. f[n].ok \in BOOLEAN /\ (f[n].ok <=> \A j \in 1 .. n : supported(j)) /\ Grown(kd, f[n].kids)
    BY <1>8, <1>3 DEF T, ExportsTo
  <1>10. (\A j \in 1 .. n : supported(j)) <=> \A x \in ToSet(m.exports) : x.supported
    BY Elements DEF n, supported
  <1>11. LET out == ExportsOut(kd, m, f[n])
         IN  /\ out.exports.ok = (~m.hasExports \/ f[n].ok)
             /\ out.kids = kd \/ out.kids = f[n].kids
    BY <1>9 DEF ExportsOut, Fine, Failed
  <1> HIDE DEF T
  <1> QED
    BY <1>3, <1>5, <1>9, <1>10, <1>11

\* What one builtin module gives, they give together.
LEMMA BuiltinGiven ==
  ASSUME NEW mods, NEW K, NEW E, Exporting(mods, K, E), NEW builtins, IsSeq(builtins), NEW name,
         NEW b \in ToSet(builtins), NEW k \in DOMAIN BuiltinGives(mods, b, name)
  PROVE  k \in DOMAIN BuiltinScope(mods, builtins, name)
  <1>1. \E f : BuiltinSteps(f, mods, builtins, name, K, E)
    BY BuiltinLoop
  <1>2. PICK f : BuiltinSteps(f, mods, builtins, name, K, E)
    BY <1>1
  <1> DEFINE n == Len(builtins)
             given(i) == DOMAIN BuiltinGives(mods, builtins[i], name)
             T == {i \in Nat : i <= n => \A j \in 1 .. i : k \in given(j) => k \in DOMAIN f[i]}
  <1>3. n \in Nat /\ BuiltinScope(mods, builtins, name) = f[n]
    BY <1>2, Elements DEF BuiltinSteps
  <1>4. \A i \in 1 .. n : DOMAIN f[i] = given(i) \cup DOMAIN f[i - 1]
    <2>1. \A c, d : DOMAIN Over(c, d) = DOMAIN c \cup DOMAIN d
      BY DEF Over
    <2> QED
      BY <1>2, <2>1 DEF BuiltinSteps
  <1>5. PICK i \in 1 .. n : k \in given(i)
    BY Elements
  <1> HIDE DEF n, given
  <1>6. 0 \in T
    BY <1>3
  <1>7. ASSUME NEW h \in Nat, h \in T PROVE h + 1 \in T
    <2> SUFFICES ASSUME h + 1 <= n, NEW j \in 1 .. h + 1, k \in given(j) PROVE k \in DOMAIN f[h + 1]
      OBVIOUS
    <2>1. h + 1 \in 1 .. n /\ (h + 1) - 1 = h /\ h <= n
      BY <1>3
    <2>2. DOMAIN f[h + 1] = given(h + 1) \cup DOMAIN f[h]
      BY <2>1, <1>4
    <2>3. j = h + 1 \/ j \in 1 .. h
      OBVIOUS
    <2>4. \A g \in 1 .. h : k \in given(g) => k \in DOMAIN f[h]
      BY <1>7, <2>1
    <2> QED
      BY <2>2, <2>3, <2>4
  <1> HIDE DEF T
  <1>8. n \in T
    BY <1>3, <1>6, <1>7, SetInduction
  <1> QED
    BY <1>3, <1>5, <1>8 DEF T

-----------------------------------------------------------------------------
(* The children that a package declares                                    *)

\* What a module of a new package declares, when no earlier one has its name.
NewKids(m) == IF m.name \in DOMAIN modules THEN NoKids ELSE Declared(m)

\* f is what the modules of p declare, one after the other.
DeclaredSteps(f, p) ==
    /\ f[0] = kids /\ \A i \in 1 .. Len(p) : f[i] = Over(NewKids(p[i]), f[i - 1])
    /\ AllDeclared(p) = f[Len(p)]

LEMMA DeclaredLoop ==
  ASSUME NEW p, IsSeq(p)
  PROVE  \E f : DeclaredSteps(f, p)
  <1> DEFINE n == Len(p)
             D == DOMAIN kids \cup UNION {DOMAIN NewKids(p[i]) : i \in 1 .. n}
             E == {kids[x] : x \in DOMAIN kids}
                  \cup UNION {{NewKids(p[i])[x] : x \in DOMAIN NewKids(p[i])} : i \in 1 .. n}
             X == {kids} \cup NamesTo(D, E)
             Step(x, i) == Over(NewKids(p[i]), x)
             F == [i \in Nat |-> [x \in X |-> IF i \in 1 .. n THEN Step(x, i) ELSE x]]
             f == CHOOSE f : f = [i \in 0 .. n |-> IF i = 0 THEN kids ELSE Step(f[i - 1], i)]
  <1>1. AllDeclared(p) = f[n]
    BY DEF AllDeclared, NewKids
  <1>2. n \in Nat /\ kids \in X
    BY Elements
  <1>3. ASSUME NEW i \in 1 .. n, NEW x \in X PROVE Step(x, i) \in X
    <2> DEFINE g == NewKids(p[i])
    <2>1. DOMAIN g \subseteq D /\ \A y \in DOMAIN g : g[y] \in E
      <3> DEFINE new(h) == NewKids(p[h])
                 news == UNION {{new(h)[y] : y \in DOMAIN new(h)} : h \in 1 .. n}
      <3>1. E = {kids[y] : y \in DOMAIN kids} \cup news
        OBVIOUS
      <3>2. DOMAIN new(i) \subseteq D
        OBVIOUS
      <3>3. \A y \in DOMAIN new(i) : new(i)[y] \in {new(i)[z] : z \in DOMAIN new(i)}
        OBVIOUS
      <3>4. {new(i)[y] : y \in DOMAIN new(i)} \in {{new(h)[y] : y \in DOMAIN new(h)} : h \in 1 .. n}
        <4> HIDE DEF new, n
        <4> QED
          OBVIOUS
      <3>5. \A y \in DOMAIN new(i) : new(i)[y] \in news
        <4> HIDE DEF new, n
        <4> QED
          BY <3>3, <3>4
      <3> HIDE DEF news, E, D
      <3> QED
        BY <3>1, <3>2, <3>5
    <2>2. DOMAIN x \subseteq D /\ \A y \in DOMAIN x : x[y] \in E
      <3>1. CASE x = kids
        BY <3>1
      <3>2. CASE x \in NamesTo(D, E)
        <4> HIDE DEF D, E
        <4> QED
          BY <3>2, NamesToFacts
      <3> QED
        BY <3>1, <3>2
    <2> HIDE DEF g, D, E
    <2>3. Over(g, x) \in [DOMAIN g \cup DOMAIN x -> E] /\ DOMAIN g \cup DOMAIN x \in SUBSET D
      BY <2>1, <2>2 DEF Over
    <2>4. Over(g, x) \in NamesTo(D, E)
      BY <2>3, NamesToFacts
    <2> QED
      BY <2>4 DEF g
  <1> HIDE DEF X, Step
  <1>4. F \in [Nat -> [X -> X]]
    BY <1>3
  <1>5. PICK h \in [0 .. n -> X] : Iterates(h, kids, F, n)
    <2> HIDE DEF F, n
    <2> QED
      BY <1>2, <1>4, FiniteRecursion
  <1>6. h = [i \in 0 .. n |-> IF i = 0 THEN kids ELSE Step(h[i - 1], i)]
    <2>1. \A i \in 0 .. n : i # 0 => i \in 1 .. n /\ i - 1 \in 0 .. n /\ i \in Nat
      BY <1>2
    <2>2. \A i \in 1 .. n : \A x \in X : F[i][x] = Step(x, i)
      BY <1>2
    <2> HIDE DEF F, n
    <2> QED
      BY <1>5, <2>1, <2>2 DEF Iterates
  <1>7. f = [i \in 0 .. n |-> IF i = 0 THEN kids ELSE Step(f[i - 1], i)]
    BY <1>6
  <1> HIDE DEF f
  <1>8. f[0] = kids /\ \A i \in 1 .. n : f[i] = Step(f[i - 1], i)
    <2> HIDE DEF n
    <2> QED
      BY <1>2, <1>7
  <1> QED
    BY <1>1, <1>8 DEF Step, DeclaredSteps

\* The children of a module of a name that is known stay, and the last new
\* module of a name declares what it has.
LEMMA DeclaredFacts ==
  ASSUME NEW p, IsSeq(p), NEW name
  PROVE  /\ name \in DOMAIN modules \/ (\A i \in 1 .. Len(p) : p[i].name # name) =>
                \A t : <<name, t>> \in DOMAIN kids =>
                          <<name, t>> \in DOMAIN AllDeclared(p) /\ AllDeclared(p)[<<name, t>>] = kids[<<name, t>>]
         /\ name \notin DOMAIN modules /\ (\E i \in 1 .. Len(p) : p[i].name = name) =>
                \A t \in DOMAIN SourceIn(p, name).kids :
                    /\ <<name, t>> \in DOMAIN AllDeclared(p)
                    /\ AllDeclared(p)[<<name, t>>] = SourceIn(p, name).kids[t]
  <1> DEFINE n == Len(p)
  <1>0. \E f : DeclaredSteps(f, p)
    BY DeclaredLoop
  <1>1. PICK f : DeclaredSteps(f, p)
    BY <1>0
  <1>2. /\ n \in Nat /\ DOMAIN p = 1 .. n /\ f[0] = kids /\ AllDeclared(p) = f[n]
        /\ \A i \in 1 .. n : f[i] = Over(NewKids(p[i]), f[i - 1])
    BY <1>1, Elements DEF DeclaredSteps
  <1>3. \A m : DOMAIN NewKids(m) = IF m.name \in DOMAIN modules THEN {} ELSE {<<m.name, t>> : t \in DOMAIN m.kids}
    BY DEF NewKids, NoKids, Declared
  <1>4. \A m, t : <<m.name, t>> \in DOMAIN NewKids(m) => NewKids(m)[<<m.name, t>>] = m.kids[t]
    BY DEF NewKids, NoKids, Declared
  <1>9. \A m, t : m.name \in DOMAIN modules \/ m.name # name => <<name, t>> \notin DOMAIN NewKids(m)
    <2> SUFFICES ASSUME NEW m, NEW t, <<name, t>> \in DOMAIN NewKids(m)
                 PROVE  m.name \notin DOMAIN modules /\ m.name = name
      OBVIOUS
    <2>1. m.name \notin DOMAIN modules
      BY <1>3
    <2>2. PICK u \in DOMAIN m.kids : <<name, t>> = <<m.name, u>>
      <3>1. DOMAIN NewKids(m) = {<<m.name, u>> : u \in DOMAIN m.kids}
        BY <2>1 DEF NewKids, Declared
      <3> QED
        BY <3>1
    <2> QED
      BY <2>1, <2>2
  <1>5. \A i \in 1 .. n : \A x : x \notin DOMAIN NewKids(p[i]) =>
            /\ x \in DOMAIN f[i] <=> x \in DOMAIN f[i - 1]
            /\ x \in DOMAIN f[i - 1] => f[i][x] = f[i - 1][x]
    <2> SUFFICES ASSUME NEW i \in 1 .. n, NEW x, x \notin DOMAIN NewKids(p[i])
                 PROVE  /\ x \in DOMAIN f[i] <=> x \in DOMAIN f[i - 1]
                        /\ x \in DOMAIN f[i - 1] => f[i][x] = f[i - 1][x]
      OBVIOUS
    <2> DEFINE a == NewKids(p[i])
               b == f[i - 1]
               c == f[i]
    <2>1. c = Over(a, b) /\ x \notin DOMAIN a
      BY <1>2
    <2> HIDE DEF a, b, c
    <2>2. (x \in DOMAIN c <=> x \in DOMAIN b) /\ (x \in DOMAIN b => c[x] = b[x])
      BY <2>1 DEF Over
    <2> QED
      BY <2>2 DEF b, c
  <1>6. ASSUME NEW j \in 0 .. n, NEW x, NEW v, x \in DOMAIN f[j], f[j][x] = v,
               \A i \in j + 1 .. n : x \notin DOMAIN NewKids(p[i])
        PROVE  x \in DOMAIN f[n] /\ f[n][x] = v
    <2> DEFINE T == {i \in Nat : j <= i /\ i <= n => x \in DOMAIN f[i] /\ f[i][x] = v}
    <2> HIDE DEF n
    <2>1. 0 \in T
      BY <1>2, <1>6
    <2>2. ASSUME NEW i \in Nat, i \in T PROVE i + 1 \in T
      <3> SUFFICES ASSUME j <= i + 1, i + 1 <= n PROVE x \in DOMAIN f[i + 1] /\ f[i + 1][x] = v
        OBVIOUS
      <3>1. CASE j = i + 1
        BY <3>1, <1>6
      <3>2. CASE j <= i
        <4>1. i + 1 \in j + 1 .. n /\ i + 1 \in 1 .. n /\ (i + 1) - 1 = i /\ i <= n
          BY <3>2, <1>2
        <4>2. x \in DOMAIN f[i] /\ f[i][x] = v
          BY <2>2, <3>2, <4>1
        <4> QED
          BY <4>1, <4>2, <1>5, <1>6
      <3>3. j = i + 1 \/ j <= i
        BY <1>2
      <3> QED
        BY <3>1, <3>2, <3>3
    <2> HIDE DEF T
    <2>3. n \in T
      BY <2>1, <2>2, <1>2, SetInduction
    <2> QED
      BY <2>3, <1>2 DEF T
  <1> HIDE DEF n
  <1>7. ASSUME name \in DOMAIN modules \/ \A i \in 1 .. n : p[i].name # name, NEW t, <<name, t>> \in DOMAIN kids
        PROVE  <<name, t>> \in DOMAIN f[n] /\ f[n][<<name, t>>] = kids[<<name, t>>]
    <2>1. \A i \in 1 .. n : <<name, t>> \notin DOMAIN NewKids(p[i])
      BY <1>9, <1>7
    <2>2. 0 \in 0 .. n /\ 0 + 1 = 1 /\ <<name, t>> \in DOMAIN f[0] /\ f[0][<<name, t>>] = kids[<<name, t>>]
      BY <1>2, <1>7
    <2> QED
      BY <2>1, <2>2, <1>6
  <1>8. ASSUME name \notin DOMAIN modules, NEW i \in 1 .. n, p[i].name = name, NEW t \in DOMAIN SourceIn(p, name).kids
        PROVE  <<name, t>> \in DOMAIN f[n] /\ f[n][<<name, t>>] = SourceIn(p, name).kids[t]
    <2>1. PICK j \in 1 .. n : p[j].name = name /\ SourceIn(p, name) = p[j] /\ \A h \in 1 .. n : p[h].name = name => h <= j
      BY <1>2, <1>8, LastOfName
    <2>2. <<name, t>> \in DOMAIN NewKids(p[j]) /\ NewKids(p[j])[<<name, t>>] = p[j].kids[t]
      BY <2>1, <1>3, <1>4, <1>8
    <2>3. <<name, t>> \in DOMAIN f[j] /\ f[j][<<name, t>>] = p[j].kids[t]
      <3>1. \A a, b : \A x \in DOMAIN a : x \in DOMAIN Over(a, b) /\ Over(a, b)[x] = a[x]
        BY DEF Over
      <3> QED
        BY <3>1, <2>2, <1>2
    <2>4. \A h \in j + 1 .. n : <<name, t>> \notin DOMAIN NewKids(p[h])
      <3>1. \A h \in j + 1 .. n : h \in 1 .. n /\ ~(h <= j)
        BY <1>2
      <3>2. \A h \in j + 1 .. n : p[h].name # name
        BY <3>1, <2>1
      <3> QED
        BY <3>2, <1>9
    <2>5. j \in 0 .. n
      BY <1>2
    <2> QED
      BY <2>1, <2>3, <2>4, <2>5, <1>6
  <1> QED
    BY <1>2, <1>7, <1>8 DEF n

-----------------------------------------------------------------------------
(* Why a module fails                                                      *)

\* All that the module n needs is there and resolves.
Sound(n) ==
    /\ \A d \in Required(n) : d \in DOMAIN modules /\ modules[d].exports.ok /\ PackageOf(d) <= PackageOf(n)
    /\ ~Refused(ModuleNamed(n)) /\ ~OnCycle(n)
Reason(n) == \E d \in Leads(n) : Hopeless(d) \/ Doubtful(d)

SoundOrNot ==
    \A n \in DOMAIN modules :
        /\ modules[n].exports.ok \in BOOLEAN
        /\ modules[n].exports.ok => Sound(n)
        /\ ~modules[n].exports.ok => Reason(n)

\* Each type and class has at least the children its module declares.
HasKids(n) ==
    \A t \in DOMAIN ModuleNamed(n).kids :
        <<n, t>> \in DOMAIN kids /\ ModuleNamed(n).kids[t] \subseteq kids[<<n, t>>]
KidsDeclared == \A n \in AllNames : PackageOf(n) <= pkg => HasKids(n)

CauseInv == SoundOrNot /\ KidsDeclared

\* Only entries of modules that are not known are made.
OnlyNew == \A n \in DOMAIN modules : n \in DOMAIN modules' /\ modules'[n] = modules[n]

LEMMA NeededImports ==
  ASSUME TypeInv, NEW n \in AllNames
  PROVE  /\ Required(n) = NeedsOf(ModuleNamed(n))
         /\ \A imp \in ToSet(ModuleNamed(n).imports) : imp.module \in Required(n)
         /\ ModuleNamed(n).prelude => "Prelude" \in Required(n)
         /\ \A d \in Required(n) : \/ \E imp \in ToSet(ModuleNamed(n).imports) : imp.module = d
                                   \/ ModuleNamed(n).prelude /\ d = "Prelude"
  <1> DEFINE m == ModuleNamed(n)
  <1>1. IsModule(m) /\ Required(n) = NeedsOf(m)
    BY NameFacts DEF Required
  <1> HIDE DEF m
  <1>2. NeedsOf(m) = ImportsOf(m) \cup IF m.prelude THEN {"Prelude"} ELSE {}
    BY <1>1, ImportSitesFacts DEF IsModule
  <1>3. ImportsOf(m) = {imp.module : imp \in ToSet(m.imports)}
    BY DEF ImportsOf, ToSet
  <1>4. m.prelude \in BOOLEAN
    BY <1>1 DEF IsModule
  <1>5. /\ Required(n) = NeedsOf(m)
        /\ \A imp \in ToSet(m.imports) : imp.module \in Required(n)
        /\ m.prelude => "Prelude" \in Required(n)
        /\ \A d \in Required(n) : \/ \E imp \in ToSet(m.imports) : imp.module = d
                                  \/ m.prelude /\ d = "Prelude"
    BY <1>1, <1>2, <1>3, <1>4
  <1> QED
    BY <1>5 DEF m

\* What the sources show of a module does not change, and what the entries show
\* of it stays true.
LEMMA ReasonsStay ==
  ASSUME TypeInv, UNCHANGED input, OnlyNew
  PROVE  \A n : Reason(n) => Reason(n)'
  <1>1. /\ AllNames' = AllNames
        /\ \A n : /\ PackageOf(n)' = PackageOf(n) /\ ModuleNamed(n)' = ModuleNamed(n)
                  /\ Required(n)' = Required(n) /\ Leads(n)' = Leads(n) /\ OnCycle(n)' = OnCycle(n)
    BY SameSources
  <1>2. ASSUME NEW m, Refused(m) PROVE Refused(m)'
    <2>1. \A imp, it : NotExported(imp, it) => NotExported(imp, it)'
      BY DEF NotExported, OnlyNew
    <2> QED
      BY <1>2, <2>1 DEF Refused
  <1>3. ASSUME NEW n, Hopeless(n) PROVE Hopeless(n)'
    <2>1. NeedsLater(n) => NeedsLater(n)'
      BY <1>1 DEF NeedsLater
    <2>2. Missing(n) => Missing(n)'
      BY <1>1 DEF Missing
    <2>3. Refused(ModuleNamed(n)) => Refused(ModuleNamed(n))'
      <3>1. PICK m : m = ModuleNamed(n)
        OBVIOUS
      <3>2. m = ModuleNamed(n)'
        BY <3>1, <1>1
      <3>3. Refused(m) => Refused(m)'
        BY <1>2
      <3> QED
        BY <3>1, <3>2, <3>3 DEF Refused, NotExported
    <2> QED
      BY <1>3, <1>1, <2>1, <2>2, <2>3 DEF Hopeless
  <1>4. ASSUME NEW n, Doubtful(n) PROVE Doubtful(n)'
    <2>1. \A e : DeclaredKids(e)' = DeclaredKids(e)
      BY <1>1 DEF DeclaredKids
    <2>2. ASSUME NEW imp, NEW it, Undeclared(imp, it) PROVE Undeclared(imp, it)'
      <3>1. imp.module \in DOMAIN modules /\ imp.module \in DOMAIN modules' /\ modules'[imp.module] = modules[imp.module]
        BY <2>2 DEF Undeclared, OnlyNew
      <3>2. NotExported(imp, it)' = NotExported(imp, it)
        BY <3>1 DEF NotExported
      <3> QED
        BY <2>2, <2>1, <3>1, <3>2 DEF Undeclared
    <2>3. PICK imp \in ToSet(ModuleNamed(n).imports) :
              imp.hasItems /\ \E it \in ToSet(imp.items) : Undeclared(imp, it)
      BY <1>4 DEF Doubtful
    <2>4. imp \in ToSet(ModuleNamed(n)'.imports)
      BY <2>3, <1>1
    <2> QED
      BY <2>2, <2>3, <2>4 DEF Doubtful
  <1> QED
    BY <1>1, <1>3, <1>4 DEF Reason

LEMMA SoundStays ==
  ASSUME TypeInv, UNCHANGED input, OnlyNew, NEW n \in AllNames, Sound(n)
  PROVE  Sound(n)'
  <1>1. \A x : /\ PackageOf(x)' = PackageOf(x) /\ ModuleNamed(x)' = ModuleNamed(x)
               /\ Required(x)' = Required(x) /\ OnCycle(x)' = OnCycle(x)
    BY SameSources
  <1>2. PICK m : m = ModuleNamed(n)
    OBVIOUS
  <1>3. m = ModuleNamed(n)' /\ \A imp \in ToSet(m.imports) : imp.module \in DOMAIN modules
    BY <1>1, <1>2, NeededImports DEF Sound
  <1>4. \A imp \in ToSet(m.imports) : \A it : NotExported(imp, it)' = NotExported(imp, it)
    BY <1>3 DEF NotExported, OnlyNew
  <1>5. Refused(m)' => Refused(m)
    BY <1>4 DEF Refused
  <1>6. ~Refused(ModuleNamed(n))'
    BY <1>2, <1>3, <1>5 DEF Sound, Refused, NotExported
  <1>7. \A d \in Required(n) : /\ d \in DOMAIN modules' /\ modules'[d].exports.ok
                               /\ PackageOf(d) <= PackageOf(n)
    BY DEF Sound, OnlyNew
  <1> QED
    BY <1>1, <1>6, <1>7 DEF Sound

LEMMA KidsStay ==
  ASSUME TypeInv, KidsDeclared, UNCHANGED <<input, pkg>>, Grown(kids, kids')
  PROVE  KidsDeclared'
  <1>1. AllNames' = AllNames /\ \A n : PackageOf(n)' = PackageOf(n) /\ ModuleNamed(n)' = ModuleNamed(n)
    BY SameSources
  <1>2. ASSUME NEW n, HasKids(n) PROVE HasKids(n)'
    BY <1>1, <1>2 DEF HasKids, Grown
  <1> QED
    BY <1>1, <1>2 DEF KidsDeclared

\* New entries are sound or have a reason to fail.
LEMMA CausesStay ==
  ASSUME TypeInv, KnownInv, SoundOrNot, UNCHANGED input, OnlyNew,
         \A n \in DOMAIN modules' \ DOMAIN modules :
             /\ modules'[n].exports.ok \in BOOLEAN
             /\ modules'[n].exports.ok => Sound(n)'
             /\ ~modules'[n].exports.ok => Reason(n)
  PROVE  SoundOrNot'
  <1> SUFFICES ASSUME NEW n \in DOMAIN modules'
               PROVE  /\ modules'[n].exports.ok \in BOOLEAN
                      /\ modules'[n].exports.ok => Sound(n)'
                      /\ ~modules'[n].exports.ok => Reason(n)'
    BY DEF SoundOrNot
  <1>1. Reason(n) => Reason(n)'
    BY ReasonsStay
  <1>2. CASE n \in DOMAIN modules
    <2>1. n \in AllNames /\ modules'[n] = modules[n]
      BY <1>2 DEF KnownInv, EntriesOfNames, OnlyNew
    <2>2. Sound(n) => Sound(n)'
      BY <2>1, SoundStays
    <2> QED
      BY <2>1, <2>2, <1>1, <1>2 DEF SoundOrNot
  <1>3. CASE n \notin DOMAIN modules
    BY <1>1, <1>3
  <1> QED
    BY <1>2, <1>3

\* An active module that an active one needs is on an import cycle.
LEMMA CycleReason ==
  ASSUME StackInv, KnownInv, calls # <<>>, NEW x, x \in Active, x \notin DOMAIN modules, x \in Needs(Top.name)
  PROVE  Reason(x)
  <1>1. PICK n : n = Len(calls)
    OBVIOUS
  <1>2. /\ n \in Nat \ {0} /\ Top = calls[n] /\ Active = {calls[k].name : k \in 1 .. n}
        /\ \A k \in 1 .. n : calls[k].name \in Pending
    BY <1>1, CallsFacts DEF StackInv
  <1>3. PICK k \in 1 .. n : calls[k].name = x
    BY <1>2
  <1>4. \A j \in 1 .. n : Needs(calls[j].name) = Required(calls[j].name)
    BY <1>1, ActiveFacts DEF StackInv, KnownInv
  <1>5. ImportedFrom(k, n)
    <2> SUFFICES ASSUME NEW S, Closed(S), calls[n].name \in S, calls[k].name \notin S PROVE FALSE
      BY <1>1, <1>2 DEF StackInv, NoWayBack
    <2>1. calls[n].name \in Pending /\ calls[n].name \in Active
      BY <1>2
    <2> QED
      BY <2>1, <1>2, <1>3 DEF Closed
  <1>6. OnCycle(x)
    <2>1. CASE k = n
      <3>1. x \in Required(x) /\ x \in Leads(x)
        BY <2>1, <1>2, <1>3, <1>4, LeadsFacts DEF StackInv
      <3> QED
        BY <3>1 DEF OnCycle
    <2>2. CASE k < n
      <3>1. PICK d : d = calls[k + 1].name
        OBVIOUS
      <3>2. d \in Required(x)
        <4>1. k \in k .. n - 1
          BY <2>2, <1>2
        <4> QED
          BY <4>1, <3>1, <1>3, <1>4, <1>5 DEF ImportedFrom, Imported
      <3> DEFINE T == {j \in Nat : k + 1 <= j /\ j <= n => calls[j].name \in Leads(d)}
      <3>3. 0 \in T
        BY <1>2
      <3>4. ASSUME NEW j \in Nat, j \in T PROVE j + 1 \in T
        <4> SUFFICES ASSUME k + 1 <= j + 1, j + 1 <= n PROVE calls[j + 1].name \in Leads(d)
          OBVIOUS
        <4>1. CASE k = j
          BY <4>1, <3>1, LeadsFacts DEF StackInv
        <4>2. CASE k < j
          <5>1. k + 1 <= j /\ j <= n /\ j \in k .. n - 1 /\ j \in 1 .. n
            BY <4>2, <1>2
          <5>2. calls[j].name \in Leads(d)
            BY <5>1, <3>4
          <5>3. calls[j + 1].name \in Required(calls[j].name)
            BY <5>1, <1>4, <1>5 DEF ImportedFrom, Imported
          <5> QED
            BY <5>2, <5>3, LeadsFacts DEF StackInv
        <4>3. k = j \/ k < j
          BY <1>2
        <4> QED
          BY <4>1, <4>2, <4>3
      <3> HIDE DEF T
      <3>5. n \in T
        BY <3>3, <3>4, <1>2, SetInduction
      <3>6. calls[n].name \in Leads(d)
        BY <3>5, <2>2, <1>2 DEF T
      <3>7. x \in Leads(d)
        BY <3>6, <1>2, <1>4, LeadsFacts DEF StackInv
      <3> QED
        BY <3>2, <3>7 DEF OnCycle
    <2> QED
      BY <2>1, <2>2, <1>2
  <1> QED
    BY <1>6, LeadsFacts DEF StackInv, Reason, Hopeless

\* A call that has visited all its sites knows what it needs.
LEMMA NeedsCome ==
  ASSUME StackInv, KnownInv, InCall, ~Visiting
  PROVE  /\ pkg > 0 /\ Top.name \in Pending /\ Top.name \in AllNames /\ PackageOf(Top.name) = pkg
         /\ Source(Top.name) = ModuleNamed(Top.name)
         /\ \A d \in Required(Top.name) : Known(d)
         /\ \A b \in ToSet(input.builtins) :
               Known(b) \/ \E c \in ToSet(input.builtins) : Top.name \in Leads(c)
  <1>1. PICK n : n = Len(calls)
    OBVIOUS
  <1>2. calls # <<>> /\ n \in Nat \ {0} /\ Top = calls[n] /\ Top.i \in Nat \ {0} /\ n \in 1 .. n
    BY <1>1, CallsFacts DEF InCall, StackInv
  <1>3. /\ pkg > 0 /\ Top.name \in Pending /\ Top.name \in AllNames /\ PackageOf(Top.name) = pkg
        /\ Source(Top.name) = ModuleNamed(Top.name) /\ Needs(Top.name) = Required(Top.name)
    BY <1>1, <1>2, ActiveFacts DEF StackInv, KnownInv
  <1> DEFINE m == Source(Top.name)
  <1>4. m \in ToSet(Package)
    BY <1>3, SourceFacts DEF StackInv
  <1>5. Len(Sites(m)) \in Nat /\ ~(Top.i <= Len(Sites(m)))
    BY <1>4, SitesFacts DEF Visiting, StackInv
  <1> HIDE DEF m
  <1>6. \A i \in 1 .. Len(Sites(m)) :
            \/ Known(Sites(m)[i].name)
            \/ Sites(m)[i].builtin /\ \E c \in ToSet(input.builtins) : Top.name \in Leads(c)
    <2> SUFFICES ASSUME NEW i \in 1 .. Len(Sites(m))
                 PROVE  \/ Known(Sites(m)[i].name)
                        \/ Sites(m)[i].builtin /\ \E c \in ToSet(input.builtins) : Top.name \in Leads(c)
      OBVIOUS
    <2>1. i \in 1 .. calls[n].i - 1
      BY <1>2, <1>5
    <2>2. Passed(n, i)
      BY <2>1, <1>1, <1>2 DEF KnownInv, SitesPassed
    <2>3. ~(n < Len(calls))
      BY <1>1, <1>2
    <2> QED
      BY <2>2, <2>3, <1>2 DEF Passed, m
  <1>7. ASSUME NEW d \in Required(Top.name) PROVE Known(d)
    <2>1. d \in NeedsOf(m)
      BY <1>3 DEF Needs, m
    <2>2. PICK i \in 1 .. Len(Sites(m)) : Sites(m)[i] = Site(d, FALSE)
      BY <2>1, <1>3, <1>4, SitesFacts DEF StackInv
    <2> QED
      BY <2>2, <1>6 DEF Site
  <1>8. ASSUME NEW b \in ToSet(input.builtins)
        PROVE  Known(b) \/ \E c \in ToSet(input.builtins) : Top.name \in Leads(c)
    <2>1. PICK i \in 1 .. Len(Sites(m)) : Sites(m)[i] = Site(b, TRUE)
      BY <1>3, <1>4, SitesFacts DEF StackInv
    <2> QED
      BY <2>1, <1>6 DEF Site
  <1> QED
    BY <1>3, <1>7, <1>8

\* A need that is known and does not resolve is a reason to fail.
LEMMA NeedFails ==
  ASSUME StackInv, KnownInv, SoundOrNot, NEW x \in AllNames, pkg > 0, PackageOf(x) = pkg,
         NEW d \in Required(x), Known(d), ~(d \in DOMAIN modules /\ modules[d].exports.ok)
  PROVE  Reason(x)
  <1>1. x \in Leads(x) /\ d \in Leads(x) /\ Leads(d) \subseteq Leads(x)
    <2>1. x \in Leads(x) /\ d \in Leads(x)
      BY LeadsFacts DEF StackInv
    <2> QED
      BY <2>1, LeadsOn DEF StackInv
  <1>2. CASE d \in DOMAIN modules
    BY <1>1, <1>2 DEF SoundOrNot, Reason
  <1>3. CASE d \notin AllNames
    BY <1>1, <1>3 DEF Missing, Hopeless, Reason
  <1>4. CASE d \notin DOMAIN modules /\ d \in AllNames
    <2>1. /\ PackageOf(d) \in DOMAIN input.packages /\ PackageOf(d) \in Nat /\ d \in NamesOf(PackageOf(d))
          /\ DOMAIN input.packages = 1 .. Len(input.packages) /\ pkg \in Nat
          /\ Pending = NamesOf(pkg)
      BY <1>4, NameFacts, InputFacts, PackageNames DEF StackInv, TypeInv
    <2>2. d \notin Pending
      BY <1>4 DEF Known
    <2>3. ~(PackageOf(d) < pkg)
      <3>1. PackageOf(d) < pkg => PackageOf(d) \in 1 .. pkg - 1
        BY <2>1
      <3> QED
        BY <3>1, <2>1, <1>4 DEF KnownInv, EarlierKnown
    <2>4. PackageOf(d) > pkg
      BY <2>1, <2>2, <2>3
    <2> QED
      BY <2>4, <1>1, <1>4 DEF NeedsLater, Hopeless, Reason
  <1> QED
    BY <1>2, <1>3, <1>4

\* A type that is exported has the children its module declares.
LEMMA DeclaredThere ==
  ASSUME KnownInv, EntitiesInv, KidsDeclared, NEW e \in Exported
  PROVE  DeclaredKids(e) \subseteq Children(kids, e)
  <1>1. e[1] \in AllNames /\ PackageOf(e[1]) <= pkg
    BY DEF EntitiesInv, KnownInv, EntriesOfNames
  <1>2. HasKids(e[1])
    BY <1>1 DEF KidsDeclared
  <1>3. CASE e[2] \in DOMAIN ModuleNamed(e[1]).kids
    <2>1. DeclaredKids(e) = ModuleNamed(e[1]).kids[e[2]]
      BY <1>3 DEF DeclaredKids
    <2>2. <<e[1], e[2]>> \in DOMAIN kids /\ ModuleNamed(e[1]).kids[e[2]] \subseteq kids[<<e[1], e[2]>>]
      BY <1>2, <1>3 DEF HasKids
    <2>3. Children(kids, e) = kids[<<e[1], e[2]>>]
      BY <2>2 DEF Children, EntityKey
    <2> QED
      BY <2>1, <2>2, <2>3
  <1>4. CASE e[2] \notin DOMAIN ModuleNamed(e[1]).kids
    BY <1>4 DEF DeclaredKids
  <1> QED
    BY <1>3, <1>4

\* An import that does not go through is a reason to fail.
LEMMA ImportReason ==
  ASSUME StackInv, KnownInv, EntitiesInv, CauseInv, NEW x \in AllNames, pkg > 0, PackageOf(x) = pkg,
         \A d \in Required(x) : Known(d),
         NEW imp \in ToSet(ModuleNamed(x).imports), ~ImportScope(modules, kids, imp).ok
  PROVE  Reason(x)
  <1> DEFINE d == imp.module
  <1>1. /\ imp.package \in BOOLEAN /\ imp.hasItems \in BOOLEAN /\ IsSeq(imp.items)
        /\ \A it \in ToSet(imp.items) : it.supported \in BOOLEAN
    BY NameFacts DEF StackInv, IsModule
  <1>2. x \in Leads(x) /\ d \in Required(x)
    BY LeadsFacts, NeededImports DEF StackInv
  <1>3. Refused(ModuleNamed(x)) => Reason(x)
    BY <1>2 DEF Hopeless, Reason
  <1>4. \/ imp.package
        \/ ~(d \in DOMAIN modules /\ modules[d].exports.ok)
        \/ /\ d \in DOMAIN modules /\ imp.hasItems
           /\ \E it \in ToSet(imp.items) : ~Admitted(kids, modules[d].exports.val, it)
    <2>1. \A n \in DOMAIN modules : modules[n].exports.ok \in BOOLEAN
      BY DEF CauseInv, SoundOrNot
    <2> QED
      BY <1>1, <2>1, ImportOk
  <1>5. CASE imp.package
    BY <1>3, <1>5 DEF Refused
  <1>6. CASE ~(d \in DOMAIN modules /\ modules[d].exports.ok)
    BY <1>2, <1>6, NeedFails DEF CauseInv
  <1>7. CASE /\ d \in DOMAIN modules /\ imp.hasItems
             /\ \E it \in ToSet(imp.items) : ~Admitted(kids, modules[d].exports.val, it)
    <2>1. PICK it \in ToSet(imp.items) : ~Admitted(kids, modules[d].exports.val, it)
      BY <1>7
    <2>2. CASE ~it.supported \/ NotExported(imp, it)
      <3>1. Refused(ModuleNamed(x))
        BY <1>7, <2>2 DEF Refused
      <3> QED
        BY <3>1, <1>3
    <2>3. CASE it.supported /\ ~NotExported(imp, it)
      <3> DEFINE e == modules[d].exports.val[it.key]
      <3>1. it.key \in DOMAIN modules[d].exports.val
        BY <1>7, <2>3 DEF NotExported
      <3>2. e \in Exported
        BY <1>7, <3>1 DEF Exported, Range
      <3>3. DeclaredKids(e) \subseteq Children(kids, e)
        BY <3>2, DeclaredThere DEF CauseInv
      <3>4. /\ it.key[1] # "term" /\ it.subs.kind # "NONE"
            /\ \E n \in it.subs.names : \A k \in Children(kids, e) : k[2] # n
        BY <2>1, <2>3, <3>1 DEF Admitted
      <3>5. \E n \in it.subs.names : \A k \in DeclaredKids(e) : k[2] # n
        <4> HIDE DEF e
        <4> QED
          BY <3>3, <3>4
      <3>6. Undeclared(imp, it)
        BY <1>7, <2>3, <3>4, <3>5 DEF Undeclared
      <3>7. Doubtful(x)
        BY <3>6, <1>7 DEF Doubtful
      <3> QED
        BY <3>7, <1>2 DEF Reason
    <2>4. it.supported \in BOOLEAN
      BY <1>1
    <2> QED
      BY <2>2, <2>3, <2>4
  <1> QED
    BY <1>4, <1>5, <1>6, <1>7

\* Scope and exports: they come out as they should, or there is a reason.
LEMMA FinishCause ==
  ASSUME StackInv, KnownInv, EntitiesInv, CauseInv, NEW x \in AllNames, pkg > 0, PackageOf(x) = pkg,
         \A d \in Required(x) : Known(d), x \notin DOMAIN modules,
         NEW m, m = ModuleNamed(x)
  PROVE  LET scope == ModuleScope(modules, kids, input.builtins, m)
             supported == m.hasExports => \A e \in ToSet(m.exports) : e.supported
         IN  IF scope.ok /\ supported THEN Sound(x) ELSE Reason(x)
  <1> DEFINE scope == ModuleScope(modules, kids, input.builtins, m)
             supported == m.hasExports => \A e \in ToSet(m.exports) : e.supported
             given(imp) == ImportScope(modules, kids, imp)
  <1>1. scope.ok <=> /\ m.supported
                     /\ \A imp \in ToSet(m.imports) : given(imp).ok
                     /\ m.prelude => ExportsOf(modules, "Prelude").ok
    BY ScopeOk
  <1>2. IsModule(m) /\ x \in Leads(x)
    BY NameFacts, LeadsFacts DEF StackInv
  <1>3. Refused(m) => Reason(x)
    BY <1>2 DEF Hopeless, Reason
  <1>4. CASE ~m.supported \/ ~supported
    BY <1>1, <1>3, <1>4 DEF Refused
  <1>5. CASE m.supported /\ ~scope.ok
    <2>1. CASE \E imp \in ToSet(m.imports) : ~given(imp).ok
      BY <1>5, <2>1, ImportReason
    <2>2. CASE m.prelude /\ ~ExportsOf(modules, "Prelude").ok
      <3>1. "Prelude" \in Required(x)
        BY <2>2, NeededImports DEF StackInv
      <3>2. ~("Prelude" \in DOMAIN modules /\ modules["Prelude"].exports.ok)
        BY <2>2 DEF ExportsOf
      <3> QED
        BY <3>1, <3>2, <1>5, NeedFails DEF CauseInv
    <2> QED
      BY <1>1, <1>5, <2>1, <2>2
  <1>6. CASE scope.ok /\ supported
    <2>1. /\ m.supported /\ \A imp \in ToSet(m.imports) : given(imp).ok
          /\ m.prelude => ExportsOf(modules, "Prelude").ok
      BY <1>1, <1>6
    <2>2. ASSUME NEW imp \in ToSet(m.imports)
          PROVE  /\ ~imp.package /\ imp.module \in DOMAIN modules /\ modules[imp.module].exports.ok
                 /\ imp.hasItems => \A it \in ToSet(imp.items) :
                                       Admitted(kids, modules[imp.module].exports.val, it)
      <3>1. /\ imp.package \in BOOLEAN /\ imp.hasItems \in BOOLEAN /\ IsSeq(imp.items)
            /\ \A it \in ToSet(imp.items) : it.supported \in BOOLEAN
        BY <1>2 DEF IsModule
      <3>2. \A n \in DOMAIN modules : modules[n].exports.ok \in BOOLEAN
        BY DEF CauseInv, SoundOrNot
      <3> QED
        BY <2>1, <3>1, <3>2, ImportOk
    <2>3. ASSUME NEW d \in Required(x)
          PROVE  d \in DOMAIN modules /\ modules[d].exports.ok /\ PackageOf(d) <= PackageOf(x)
      <3>1. CASE \E imp \in ToSet(m.imports) : imp.module = d
        BY <3>1, <2>2 DEF KnownInv, EntriesOfNames
      <3>2. CASE m.prelude /\ d = "Prelude"
        <4>1. "Prelude" \in DOMAIN modules /\ modules["Prelude"].exports.ok
          BY <2>1, <3>2 DEF ExportsOf, Failed
        <4> QED
          BY <3>2, <4>1 DEF KnownInv, EntriesOfNames
      <3> QED
        BY <3>1, <3>2, NeededImports DEF StackInv
    <2>4. ~Refused(m)
      <3> SUFFICES ASSUME Refused(m) PROVE FALSE
        OBVIOUS
      <3>1. \E imp \in ToSet(m.imports) :
                imp.hasItems /\ \E it \in ToSet(imp.items) : ~it.supported \/ NotExported(imp, it)
        BY <1>6, <2>1, <2>2 DEF Refused
      <3> QED
        BY <3>1, <2>2 DEF Admitted, NotExported
    <2>5. ~OnCycle(x)
      <3> SUFFICES ASSUME NEW d \in Required(x), x \in Leads(d) PROVE FALSE
        BY DEF OnCycle
      <3> DEFINE S == {y \in DOMAIN modules : modules[y].exports.ok}
      <3>1. \A y \in S : Required(y) \subseteq S
        BY DEF CauseInv, SoundOrNot, Sound
      <3>2. d \in S
        BY <2>3
      <3> HIDE DEF S
      <3>3. Leads(d) \subseteq S
        BY <3>1, <3>2, LeadsFacts DEF StackInv
      <3> QED
        BY <3>3 DEF S
    <2>6. Sound(x)
      BY <2>3, <2>4, <2>5 DEF Sound
    <2> QED
      BY <2>6, <1>6
  <1> QED
    BY <1>4, <1>5, <1>6

\* What the last call enters when it has visited all its sites.
LEMMA FinishEntry ==
  ASSUME StackInv, KnownInv, Finish
  PROVE  LET x == Top.name
             m == Source(x)
             scope == ModuleScope(modules, kids, input.builtins, m)
             out == ModuleExports(kids, m, scope.val)
         IN  /\ scope.ok => /\ modules' = Entered(x, [scope |-> scope, exports |-> out.exports])
                            /\ kids' = out.kids
             /\ ~scope.ok => modules' = Entered(x, Unresolved) /\ kids' = kids
  <1> DEFINE x == Top.name
             m == Source(x)
             scope == ModuleScope(modules, kids, input.builtins, m)
             out == ModuleExports(kids, m, scope.val)
  <1>1. m.name = x
    <2>1. /\ x \in AllNames /\ m = ModuleNamed(x)
      BY NeedsCome DEF Finish
    <2> QED
      BY <2>1, NameFacts DEF StackInv
  <1> HIDE DEF m
  <1>2. IF scope.ok
        THEN /\ modules' = Entered(m.name, [scope |-> scope, exports |-> out.exports])
             /\ kids' = out.kids
        ELSE modules' = Entered(m.name, Unresolved) /\ UNCHANGED kids
    <2> HIDE DEF x
    <2> QED
      BY DEF Finish, m, x
  <1> HIDE DEF scope, out, x
  <1>3. /\ scope.ok => /\ modules' = Entered(x, [scope |-> scope, exports |-> out.exports])
                       /\ kids' = out.kids
        /\ ~scope.ok => modules' = Entered(x, Unresolved) /\ kids' = kids
    BY <1>1, <1>2
  <1> QED
    BY <1>3 DEF scope, out, x, m

LEMMA FinishReasons ==
  ASSUME StackInv, KnownInv, EntitiesInv, CauseInv, Finish
  PROVE  CauseInv'
  <1> DEFINE x == Top.name
             m == Source(x)
             scope == ModuleScope(modules, kids, input.builtins, m)
             out == ModuleExports(kids, m, scope.val)
             supported == m.hasExports => \A e \in ToSet(m.exports) : e.supported
  <1>1. InCall /\ ~Visiting /\ UNCHANGED <<input, pkg, next>>
    BY DEF Finish
  <1>2. /\ pkg > 0 /\ x \in Pending /\ x \in AllNames /\ PackageOf(x) = pkg /\ m = ModuleNamed(x)
        /\ \A d \in Required(x) : Known(d)
    BY <1>1, NeedsCome
  <1>3. OnlyNew
    BY FinishStep DEF OnlyNew
  <1>4. IsModule(m) /\ m.name = x /\ IsSeq(input.builtins)
    BY <1>2, NameFacts, InputFacts DEF StackInv
  <1>5. /\ scope.ok => /\ modules' = Entered(x, [scope |-> scope, exports |-> out.exports])
                       /\ kids' = out.kids
        /\ ~scope.ok => modules' = Entered(x, Unresolved) /\ kids' = kids
    BY FinishEntry
  <1> HIDE DEF m, x
  <1>6. out.exports.ok \in BOOLEAN /\ (out.exports.ok <=> supported) /\ Grown(kids, out.kids)
    <2>1. PICK Q : scope.val \in ScopesTo(Q, KeysFor(m), EntitiesFor(m))
      BY <1>4, ScopeHolds DEF IsModule
    <2>2. /\ IsSeq(m.exports) /\ m.hasExports \in BOOLEAN
          /\ \A e \in ToSet(m.exports) : e.kind \in {"name", "module"} /\ e.supported \in BOOLEAN
      BY <1>4 DEF IsModule
    <2> HIDE DEF scope
    <2> QED
      BY <2>1, <2>2, ExportOk
  <1>7. x \notin DOMAIN modules => IF scope.ok /\ supported THEN Sound(x) ELSE Reason(x)
    BY <1>2, FinishCause
  <1> HIDE DEF scope, out, supported
  <1>8. KidsDeclared'
    <2>1. Grown(kids, kids')
      BY <1>5, <1>6 DEF Grown
    <2> QED
      BY <2>1, <1>1, KidsStay DEF CauseInv, StackInv
  <1>9. ASSUME NEW n \in DOMAIN modules' \ DOMAIN modules
        PROVE  /\ modules'[n].exports.ok \in BOOLEAN
               /\ modules'[n].exports.ok => Sound(n)'
               /\ ~modules'[n].exports.ok => Reason(n)
    <2>1. n = x /\ x \notin DOMAIN modules
      BY <1>5, <1>9 DEF Entered
    <2>2. modules'[x] = IF scope.ok THEN [scope |-> scope, exports |-> out.exports] ELSE Unresolved
      BY <1>5 DEF Entered
    <2>3. scope.ok => modules'[x].exports.ok = out.exports.ok
      BY <2>2
    <2>4. ~scope.ok => modules'[x].exports.ok = FALSE
      BY <2>2 DEF Unresolved, Failed
    <2>5. Sound(n) => Sound(n)'
      BY <2>1, <1>1, <1>2, <1>3, SoundStays DEF StackInv
    <2>6. IF scope.ok /\ supported THEN Sound(n) ELSE Reason(n)
      BY <2>1, <1>7
    <2> QED
      BY <2>1, <2>3, <2>4, <2>5, <2>6, <1>6
  <1>10. SoundOrNot'
    BY <1>1, <1>3, <1>9, CausesStay DEF CauseInv, StackInv
  <1> QED
    BY <1>8, <1>10 DEF CauseInv

LEMMA AddPackageReasons ==
  ASSUME StackInv, KnownInv, KnownInv', CauseInv, AddPackage, TypeInv'
  PROVE  CauseInv'
  <1>1. /\ UNCHANGED <<input, modules, calls>> /\ pkg' = pkg + 1 /\ pkg \in Nat /\ pkg < Len(input.packages)
        /\ kids' = AllDeclared(input.packages[pkg + 1])
    BY DEF AddPackage, StackInv, TypeInv
  <1>2. OnlyNew /\ DOMAIN modules' = DOMAIN modules
    BY <1>1 DEF OnlyNew
  <1>3. SoundOrNot'
    BY <1>1, <1>2, CausesStay DEF CauseInv, StackInv
  <1> DEFINE p == input.packages[pkg + 1]
  <1>4. IsSeq(p) /\ DOMAIN p = 1 .. Len(p) /\ pkg + 1 \in DOMAIN input.packages
    <2>1. pkg + 1 \in DOMAIN input.packages
      BY <1>1, InputFacts DEF StackInv
    <2> QED
      BY <2>1, InputFacts, Elements DEF StackInv
  <1>5. /\ AllNames' = AllNames
        /\ \A n : PackageOf(n)' = PackageOf(n) /\ ModuleNamed(n)' = ModuleNamed(n) /\ NamesOf(n)' = NamesOf(n)
    BY <1>1, SameSources DEF StackInv, NamesOf
  <1> HIDE DEF p
  <1>6. ASSUME NEW n \in AllNames, PackageOf(n) <= pkg + 1, NEW t \in DOMAIN ModuleNamed(n).kids
        PROVE  <<n, t>> \in DOMAIN kids' /\ ModuleNamed(n).kids[t] \subseteq kids'[<<n, t>>]
    <2>1. CASE n \in DOMAIN modules
      <3>1. HasKids(n)
        BY <2>1 DEF KnownInv, EntriesOfNames, CauseInv, KidsDeclared
      <3>2. <<n, t>> \in DOMAIN kids /\ ModuleNamed(n).kids[t] \subseteq kids[<<n, t>>]
        BY <3>1, <1>6 DEF HasKids
      <3>3. <<n, t>> \in DOMAIN AllDeclared(p) /\ AllDeclared(p)[<<n, t>>] = kids[<<n, t>>]
        BY <2>1, <3>2, <1>4, DeclaredFacts
      <3> QED
        BY <3>2, <3>3, <1>1 DEF p
    <2>2. CASE n \notin DOMAIN modules
      <3>1. PackageOf(n) = pkg + 1
        <4>1. /\ PackageOf(n) \in Nat /\ PackageOf(n) \in DOMAIN input.packages /\ n \in NamesOf(PackageOf(n))
              /\ DOMAIN input.packages = 1 .. Len(input.packages)
          BY NameFacts, InputFacts DEF StackInv
        <4>2. PackageOf(n) # pkg + 1 => PackageOf(n) \in 1 .. pkg' - 1
          BY <4>1, <1>1, <1>6
        <4>3. \A q \in 1 .. pkg' - 1 : NamesOf(q) \subseteq DOMAIN modules
          BY <1>1, <1>5 DEF KnownInv, EarlierKnown
        <4> QED
          BY <4>1, <4>2, <4>3, <2>2
      <3>2. n \in NamesOf(pkg + 1) /\ ModuleNamed(n) = SourceIn(p, n)
        BY <3>1, NameFacts DEF StackInv, ModuleNamed, p
      <3>3. \E i \in 1 .. Len(p) : p[i].name = n
        BY <3>2, <1>4 DEF NamesOf, p
      <3>4. <<n, t>> \in DOMAIN AllDeclared(p) /\ AllDeclared(p)[<<n, t>>] = SourceIn(p, n).kids[t]
        BY <2>2, <3>2, <3>3, <1>4, <1>6, DeclaredFacts
      <3> QED
        BY <3>2, <3>4, <1>1 DEF p
    <2> QED
      BY <2>1, <2>2
  <1>7. KidsDeclared'
    <2>1. \A n \in AllNames : PackageOf(n) <= pkg + 1 => HasKids(n)'
      BY <1>5, <1>6 DEF HasKids
    <2> QED
      BY <2>1, <1>1, <1>5 DEF KidsDeclared
  <1> QED
    BY <1>3, <1>7 DEF CauseInv

\* compute() enters nothing, or the error of a module on an import cycle.
LEMMA ComputeReasons ==
  ASSUME StackInv, KnownInv, CauseInv, UNCHANGED <<input, pkg, kids>>, NEW x,
         \/ modules' = modules
         \/ x \notin DOMAIN modules /\ Reason(x) /\ modules' = Entered(x, Unresolved)
  PROVE  CauseInv'
  <1>1. OnlyNew
    BY DEF OnlyNew, Entered
  <1>2. ASSUME NEW n \in DOMAIN modules' \ DOMAIN modules
        PROVE  modules'[n].exports.ok = FALSE /\ Reason(n)
    BY <1>2 DEF Entered, Unresolved, Failed
  <1>3. SoundOrNot'
    BY <1>1, <1>2, CausesStay DEF CauseInv, StackInv
  <1>4. KidsDeclared'
    BY KidsStay DEF CauseInv, StackInv, Grown
  <1> QED
    BY <1>3, <1>4 DEF CauseInv

LEMMA StartModuleReasons ==
  ASSUME StackInv, KnownInv, CauseInv, StartModule
  PROVE  CauseInv'
  <1>1. calls = <<>> /\ UNCHANGED <<input, pkg, kids>> /\ Compute(Package[next].name, <<>>)
    BY DEF StartModule
  <1>2. Active = {}
    BY <1>1 DEF Active
  <1>3. modules' = modules
    BY <1>1, <1>2 DEF Compute, IsActive
  <1> QED
    BY <1>1, <1>3, ComputeReasons

LEMMA VisitModuleReasons ==
  ASSUME StackInv, KnownInv, CauseInv, VisitModule
  PROVE  CauseInv'
  <1>1. PICK x : x = Visited.name
    OBVIOUS
  <1>2. /\ calls # <<>> /\ Compute(x, Advanced) /\ UNCHANGED <<input, pkg, kids>>
        /\ (~Visited.builtin /\ x \in Needs(Top.name)) \/ (Visited.builtin /\ ~ReachesActive(x))
    BY <1>1, VisitedFacts DEF VisitModule
  <1>3. CASE modules' = modules
    BY <1>2, <1>3, ComputeReasons
  <1>4. CASE x \notin DOMAIN modules /\ x \in Active /\ modules' = Entered(x, Unresolved)
    <2>1. ReachesActive(x)
      BY <1>2, <1>4, CallsFacts, ReachFacts DEF StackInv
    <2>2. Reason(x)
      BY <2>1, <1>2, <1>4, CycleReason
    <2> QED
      BY <2>2, <1>2, <1>4, ComputeReasons
  <1> QED
    BY <1>2, <1>3, <1>4 DEF Compute, Known, IsActive

\* A module that is entered is sound, or has a reason to fail.
THEOREM CauseInvariance == Spec => []CauseInv
  <1>1. Init => CauseInv
    <2> SUFFICES ASSUME Init PROVE CauseInv
      OBVIOUS
    <2>1. DOMAIN modules = {} /\ pkg = 0
      BY DEF Init
    <2>2. TypeInv
      BY DEF Init, TypeInv
    <2>3. ASSUME NEW n \in AllNames PROVE ~(PackageOf(n) <= pkg)
      <3>1. PackageOf(n) \in Nat /\ PackageOf(n) \in DOMAIN input.packages
            /\ DOMAIN input.packages = 1 .. Len(input.packages)
        BY <2>2, NameFacts, InputFacts
      <3> QED
        BY <3>1, <2>1
    <2> QED
      BY <2>1, <2>3 DEF CauseInv, SoundOrNot, KidsDeclared
  <1>2. ASSUME StackInv, StackInv', KnownInv, KnownInv', EntitiesInv, CauseInv, [Next]_vars PROVE CauseInv'
    <2>1. CASE AddPackage
      BY <1>2, <2>1, AddPackageReasons DEF StackInv
    <2>2. CASE StartModule
      BY <1>2, <2>2, StartModuleReasons
    <2>3. CASE VisitModule
      BY <1>2, <2>3, VisitModuleReasons
    <2>4. CASE SkipBuiltin
      BY <1>2, <2>4, ComputeReasons DEF SkipBuiltin
    <2>5. CASE Finish
      BY <1>2, <2>5, FinishReasons
    <2>6. CASE UNCHANGED vars
      BY <1>2, <2>6, ComputeReasons DEF vars
    <2> QED
      BY <1>2, <2>1, <2>2, <2>3, <2>4, <2>5, <2>6 DEF Next, Stop
  <1> QED
    BY <1>1, <1>2, StackInvariance, KnownInvariance, EntitiesInvariance, PTL DEF Spec

\* At the end every module of the program has been computed.
LEMMA DoneKnown ==
  ASSUME StackInv, KnownInv, Done
  PROVE  AllNames \subseteq DOMAIN modules
  <1> SUFFICES ASSUME NEW n \in AllNames PROVE n \in DOMAIN modules
    OBVIOUS
  <1>1. /\ PackageOf(n) \in Nat /\ PackageOf(n) \in DOMAIN input.packages /\ n \in NamesOf(PackageOf(n))
        /\ DOMAIN input.packages = 1 .. Len(input.packages) /\ calls = <<>> /\ pkg = Len(input.packages)
    BY NameFacts, InputFacts DEF StackInv, Done
  <1>2. pkg > 0 /\ pkg \in Nat
    BY <1>1
  <1>3. CASE PackageOf(n) < pkg
    <2>1. PackageOf(n) \in 1 .. pkg - 1
      BY <1>1, <1>2, <1>3
    <2> QED
      BY <2>1, <1>1 DEF KnownInv, EarlierKnown
  <1>4. CASE PackageOf(n) = pkg
    <2>1. n \in Pending
      BY <1>1, <1>2, <1>4, PackageNames DEF StackInv
    <2>2. PICK i \in DOMAIN Package : Package[i].name = n
      BY <2>1 DEF Pending
    <2>3. i < next
      <3>1. i \in 1 .. Len(Package) /\ Len(Package) \in Nat /\ next \in Nat /\ next > Len(Package)
        BY <1>2, PackageFacts, Elements DEF StackInv, TypeInv, Done
      <3> QED
        BY <3>1
    <2>4. Active = {}
      BY <1>1 DEF Active
    <2> QED
      BY <1>2, <2>2, <2>3, <2>4 DEF KnownInv, StartedKnown
  <1> QED
    BY <1>1, <1>2, <1>3, <1>4

\* Exactly the modules fail that lead to one with a reason that the sources
\* show: one that is not there, is on an import cycle, has a construct that is
\* refused, or needs a module of a later package.
THEOREM FailsExactly == Spec => []FailsForCause
  <1>1. ASSUME StackInv, KnownInv, CauseInv PROVE FailsForCause
    <2> SUFFICES ASSUME Done, NEW n \in AllNames
                 PROVE  /\ (\E d \in Leads(n) : Hopeless(d)) => ~modules[n].exports.ok
                        /\ ~modules[n].exports.ok => \E d \in Leads(n) : Hopeless(d) \/ Doubtful(d)
      BY DEF FailsForCause
    <2>1. n \in DOMAIN modules
      BY <1>1, DoneKnown
    <2>2. ASSUME NEW d \in Leads(n), modules[n].exports.ok PROVE ~Hopeless(d)
      <3> DEFINE S == {y \in DOMAIN modules : modules[y].exports.ok}
      <3>1. \A y \in S : Required(y) \subseteq S
        BY <1>1 DEF CauseInv, SoundOrNot, Sound
      <3>2. n \in S
        BY <2>1, <2>2
      <3> HIDE DEF S
      <3>3. d \in S
        BY <1>1, <3>1, <3>2, LeadsFacts DEF StackInv
      <3>4. Sound(d) /\ d \in AllNames
        BY <1>1, <3>3 DEF S, CauseInv, SoundOrNot, KnownInv, EntriesOfNames
      <3>5. ~NeedsLater(d)
        <4>1. \A y \in AllNames : PackageOf(y) \in Nat
          BY <1>1, NameFacts DEF StackInv
        <4> QED
          BY <3>4, <4>1 DEF NeedsLater, Sound
      <3> QED
        BY <3>4, <3>5 DEF Hopeless, Missing, Sound
    <2> QED
      BY <1>1, <2>1, <2>2 DEF CauseInv, SoundOrNot, Reason
  <1> QED
    BY <1>1, StackInvariance, KnownInvariance, CauseInvariance, PTL

-----------------------------------------------------------------------------
(* The names that need no import                                           *)

\* The module n has `:` in scope when the builtin module b exports it.
GetsColon(n, b) ==
    /\ b \in DOMAIN modules
    /\ modules[b].exports.ok /\ Colon \in DOMAIN modules[b].exports.val
       => Colon \in DOMAIN modules[n].scope.val.names

\* No builtin module leads to n, and b is of no later package.
CanUse(n, b) ==
    /\ \A c \in ToSet(input.builtins) : n \notin Leads(c)
    /\ b \in AllNames /\ PackageOf(b) <= PackageOf(n)

BuiltinInv ==
    \A n \in DOMAIN modules : \A b \in ToSet(input.builtins) :
        modules[n].scope.ok /\ CanUse(n, b) => GetsColon(n, b)

LEMMA ColonsStay ==
  ASSUME StackInv, BuiltinInv, UNCHANGED input, OnlyNew,
         \A n \in DOMAIN modules' \ DOMAIN modules : \A b \in ToSet(input.builtins) :
             modules'[n].scope.ok /\ CanUse(n, b) => GetsColon(n, b)'
  PROVE  BuiltinInv'
  <1> SUFFICES ASSUME NEW n \in DOMAIN modules', NEW b \in ToSet(input.builtins),
                      modules'[n].scope.ok, CanUse(n, b)'
               PROVE  GetsColon(n, b)'
    BY DEF BuiltinInv
  <1>1. CanUse(n, b)
    BY SameSources DEF StackInv, CanUse
  <1>2. CASE n \in DOMAIN modules
    <2>1. GetsColon(n, b)
      BY <1>1, <1>2 DEF BuiltinInv, OnlyNew
    <2> QED
      BY <2>1, <1>2 DEF GetsColon, OnlyNew
  <1>3. CASE n \notin DOMAIN modules
    BY <1>1, <1>3
  <1> QED
    BY <1>2, <1>3

LEMMA FinishColon ==
  ASSUME StackInv, KnownInv, EntitiesInv, BuiltinInv, Finish
  PROVE  BuiltinInv'
  <1> DEFINE x == Top.name
             m == Source(x)
             scope == ModuleScope(modules, kids, input.builtins, m)
             builtin == BuiltinScope(modules, input.builtins, x)
  <1>1. InCall /\ ~Visiting /\ UNCHANGED input
    BY DEF Finish
  <1>2. /\ pkg > 0 /\ x \in Pending /\ x \in AllNames /\ PackageOf(x) = pkg /\ m = ModuleNamed(x)
        /\ \A b \in ToSet(input.builtins) :
               Known(b) \/ \E c \in ToSet(input.builtins) : x \in Leads(c)
    BY <1>1, NeedsCome
  <1>3. OnlyNew
    BY FinishStep DEF OnlyNew
  <1>4. IsModule(m) /\ m.name = x /\ IsSeq(input.builtins)
    BY <1>2, NameFacts, InputFacts DEF StackInv
  <1>5. \E e : modules' = Entered(x, e) /\ (e.scope.ok => e.scope = scope)
    <2>1. /\ scope.ok => \E out : modules' = Entered(x, [scope |-> scope, exports |-> out.exports])
          /\ ~scope.ok => modules' = Entered(x, Unresolved)
      BY FinishEntry
    <2>2. ~Unresolved.scope.ok
      BY DEF Unresolved, Failed
    <2> HIDE DEF scope, x
    <2>3. CASE scope.ok
      <3>1. PICK out : modules' = Entered(x, [scope |-> scope, exports |-> out.exports])
        BY <2>1, <2>3
      <3>2. [scope |-> scope, exports |-> out.exports].scope = scope
        OBVIOUS
      <3> QED
        BY <3>1, <3>2
    <2>4. CASE ~scope.ok
      BY <2>1, <2>2, <2>4
    <2> QED
      BY <2>3, <2>4
  <1>6. PICK e : modules' = Entered(x, e) /\ (e.scope.ok => e.scope = scope)
    BY <1>5
  <1>7. scope.ok => \E t : scope.val = FirstWins(t, builtin)
    BY <1>4, ScopeOk
  <1>8. scope.ok => DOMAIN builtin \subseteq DOMAIN scope.val.names
    <2> HIDE DEF scope, builtin
    <2>1. \A t : DOMAIN builtin \subseteq DOMAIN FirstWins(t, builtin).names
      BY DEF FirstWins, Over
    <2> QED
      BY <1>7, <2>1
  <1>9. Exporting(modules, KeysFor(m), EntitiesFor(m))
    BY <1>4, ScopeHolds DEF IsModule
  <1> HIDE DEF x, m, scope
  <1> SUFFICES ASSUME NEW n \in DOMAIN modules' \ DOMAIN modules, NEW b \in ToSet(input.builtins),
                      modules'[n].scope.ok, CanUse(n, b)
               PROVE  GetsColon(n, b)'
    BY <1>1, <1>3, ColonsStay
  <1>10. n = x /\ x \notin DOMAIN modules /\ modules'[n] = e
    BY <1>6 DEF Entered
  <1>11. Known(b)
    BY <1>2, <1>10 DEF CanUse
  <1>12. b \in DOMAIN modules
    <2> SUFFICES ASSUME b \notin DOMAIN modules PROVE FALSE
      OBVIOUS
    <2>1. /\ b \in AllNames /\ PackageOf(b) <= pkg /\ PackageOf(b) \in Nat /\ PackageOf(b) \in DOMAIN input.packages
          /\ b \in NamesOf(PackageOf(b)) /\ DOMAIN input.packages = 1 .. Len(input.packages) /\ pkg \in Nat
          /\ Pending = NamesOf(pkg)
      BY <1>2, <1>10, NameFacts, InputFacts, PackageNames DEF CanUse, StackInv, TypeInv
    <2>2. b \notin Pending
      BY <1>11 DEF Known
    <2>3. PackageOf(b) \in 1 .. pkg - 1
      BY <2>1, <2>2
    <2> QED
      BY <2>1, <2>3 DEF KnownInv, EarlierKnown
  <1>13. modules'[b] = modules[b] /\ b \in DOMAIN modules'
    BY <1>3, <1>12 DEF OnlyNew
  <1>14. ASSUME modules[b].exports.ok, Colon \in DOMAIN modules[b].exports.val
         PROVE  Colon \in DOMAIN builtin
    <2>1. DOMAIN BuiltinGives(modules, b, x)
            = DOMAIN modules[b].exports.val \cap {<<"term", ":">>, <<"type", "~">>}
      BY <1>10, <1>12, <1>14 DEF BuiltinGives, OnlyOf
    <2>2. Colon \in DOMAIN BuiltinGives(modules, b, x)
      BY <2>1, <1>14 DEF Colon
    <2> QED
      BY <2>2, <1>4, <1>9, BuiltinGiven
  <1>15. e.scope.ok /\ e.scope = scope /\ modules'[n].scope.val = scope.val
    BY <1>6, <1>10
  <1>16. modules[b].exports.ok /\ Colon \in DOMAIN modules[b].exports.val
           => Colon \in DOMAIN modules'[n].scope.val.names
    BY <1>8, <1>14, <1>15
  <1> QED
    BY <1>13, <1>16 DEF GetsColon, Colon

\* A module has the builtin names that were there to have, unless a builtin
\* module needs it.
THEOREM BuiltinInvariance == Spec => []BuiltinInv
  <1>1. Init => BuiltinInv
    BY DEF Init, BuiltinInv
  <1>2. ASSUME NEW x, NEW callers, Compute(x, callers), StackInv, BuiltinInv, UNCHANGED input
        PROVE  BuiltinInv'
    <2>1. OnlyNew
      BY <1>2 DEF Compute, OnlyNew, Entered, Known
    <2>2. \A n \in DOMAIN modules' \ DOMAIN modules : ~modules'[n].scope.ok
      <3>1. ~Unresolved.scope.ok
        BY DEF Unresolved, Failed
      <3>2. modules' = modules \/ modules' = Entered(x, Unresolved)
        BY <1>2 DEF Compute
      <3> QED
        BY <3>1, <3>2 DEF Entered
    <2> QED
      BY <1>2, <2>1, <2>2, ColonsStay
  <1>3. ASSUME StackInv, KnownInv, EntitiesInv, BuiltinInv, [Next]_vars PROVE BuiltinInv'
    <2>1. CASE AddPackage \/ SkipBuiltin \/ Stop \/ UNCHANGED vars
      <3>1. UNCHANGED <<input, modules>>
        BY <2>1 DEF AddPackage, SkipBuiltin, Stop, vars
      <3> QED
        BY <1>3, <3>1, ColonsStay DEF OnlyNew
    <2>2. CASE StartModule
      BY <1>2, <1>3, <2>2 DEF StartModule
    <2>3. CASE VisitModule
      BY <1>2, <1>3, <2>3 DEF VisitModule
    <2>4. CASE Finish
      BY <1>3, <2>4, FinishColon
    <2> QED
      BY <1>3, <2>1, <2>2, <2>3, <2>4 DEF Next
  <1> QED
    BY <1>1, <1>3, StackInvariance, KnownInvariance, EntitiesInvariance, PTL DEF Spec

\* What `:` and `~` mean needs no import: a module that no builtin module needs
\* has `:` in scope when a builtin module of no later package exports it.
THEOREM BuiltinNames == Spec => []BuiltinsInScope
  <1>1. ASSUME StackInv, KnownInv, BuiltinInv PROVE BuiltinsInScope
    <2> SUFFICES ASSUME Done, NEW m \in AllModules, NEW b \in ToSet(input.builtins),
                        b \in DOMAIN modules, PackageOf(b) <= PackageOf(m.name),
                        modules[b].exports.ok, Colon \in DOMAIN modules[b].exports.val,
                        modules[m.name].scope.ok,
                        \A c \in ToSet(input.builtins) : m.name \notin Leads(c)
                 PROVE  Colon \in DOMAIN modules[m.name].scope.val.names
      BY DEF BuiltinsInScope
    <2>1. PICK n \in AllNames : m = ModuleNamed(n)
      BY DEF AllModules
    <2>2. m.name = n /\ n \in DOMAIN modules
      BY <1>1, <2>1, NameFacts, DoneKnown DEF StackInv
    <2>3. b \in AllNames
      BY <1>1 DEF KnownInv, EntriesOfNames
    <2>4. CanUse(n, b)
      BY <2>2, <2>3 DEF CanUse
    <2> QED
      BY <1>1, <2>2, <2>4 DEF BuiltinInv, GetsColon
  <1> QED
    BY <1>1, StackInvariance, KnownInvariance, BuiltinInvariance, PTL
=============================================================================
