------------------------------ MODULE HeapGraph ------------------------------
(***************************************************************************)
(* Proof that the heap implements the object graph.  What the machine sees *)
(* is a function of the objects' nodes and of the tags the roots refer to; *)
(* a collection keeps both, up to objects that nothing reaches.            *)
(***************************************************************************)
EXTENDS HeapProofs

Fixed == Static \cup {NULL}

\* A pointer to an object of a space in use, or to one that never moves.
Good(p) == p \in Fixed \/ (p \in Addr /\ p[1] \in InUse /\ p[2] <= Len(mem[p[1]]))

Starts == {Resolve(root[r]) : r \in Slot} \ Fixed
Successors(a) == {Resolve(At(a).w[k]) : k \in Follows(At(a))} \ Fixed
NodesOf(G) == {NodeOf(At(a)) : a \in G}
Refs == [r \in Slot |-> Tag(root[r])]

\* The set G holds what the roots reach.
Rooted(G) == Starts \subseteq G /\ \A a \in G : Successors(a) \subseteq G

-----------------------------------------------------------------------------
(* Objects and pointers                                                    *)

LEMMA FixedFacts ==
  ASSUME NEW p \in Fixed
  PROVE  p \notin Addr /\ p \notin Nat
  BY NameAssumption, TagAssumption DEF Fixed, Addr

LEMMA UsedFacts ==
  ASSUME IInv
  PROVE  /\ InUse \subseteq Space /\ mem \in [Space -> Seq(Object)]
         /\ \A s \in InUse : Len(mem[s]) \in Nat
         /\ \A a : a \in Objects <=>
               a \in Addr /\ a[1] \in InUse /\ a[2] <= Len(mem[a[1]]) /\ At(a).kind # "FWD"
  <1>1. InUse \subseteq Space
    BY DEF IInv, InUse, Copying, Current, Phase, TypeOK
  <1>2. mem \in [Space -> Seq(Object)]
    BY DEF IInv, TypeOK
  <1>3. \A s \in InUse : Len(mem[s]) \in Nat
    BY <1>1, <1>2
  <1>4. ASSUME NEW a
        PROVE  a \in UNION {{s} \X (1 .. Len(mem[s])) : s \in InUse}
                  <=> a \in Addr /\ a[1] \in InUse /\ a[2] <= Len(mem[a[1]])
    <2>1. ASSUME a \in Addr, a[1] \in InUse, a[2] <= Len(mem[a[1]])
          PROVE  a \in UNION {{s} \X (1 .. Len(mem[s])) : s \in InUse}
      <3>1. a = <<a[1], a[2]>> /\ a[2] \in 1 .. Len(mem[a[1]])
        BY <2>1, <1>3 DEF Addr
      <3>2. a \in {a[1]} \X (1 .. Len(mem[a[1]]))
        BY <3>1
      <3> QED
        BY <3>2, <2>1
    <2>2. ASSUME a \in UNION {{s} \X (1 .. Len(mem[s])) : s \in InUse}
          PROVE  a \in Addr /\ a[1] \in InUse /\ a[2] <= Len(mem[a[1]])
      <3>1. PICK s \in InUse : a \in {s} \X (1 .. Len(mem[s]))
        BY <2>2
      <3> QED
        BY <3>1, <1>1, <1>3 DEF Addr
    <2> QED
      BY <2>1, <2>2
  <1> QED
    BY <1>1, <1>2, <1>3, <1>4 DEF Objects

\* All that an object or a root refers to is in a space in use.
LEMMA GoodFacts ==
  ASSUME IInv
  PROVE  /\ \A r \in Slot : Good(root[r])
         /\ \A a \in Objects : /\ At(a) \in Object /\ WellFormed(At(a))
                               /\ \A k \in Follows(At(a)) : Good(At(a).w[k])
  <1>1. ASSUME NEW p, NEW s \in InUse, In(p, s, mem)
        PROVE  Good(p)
    BY <1>1 DEF In, Good, Fixed
  <1>2. CASE Copying
    <2>1. Between /\ InUse = {from, to}
      BY <1>2 DEF IInv, InUse
    <2>2. ASSUME NEW r \in Slot PROVE Good(root[r])
      BY <1>1, <2>1 DEF Between
    <2>3. ASSUME NEW a \in Objects
          PROVE  /\ At(a) \in Object /\ WellFormed(At(a))
                 /\ \A k \in Follows(At(a)) : Good(At(a).w[k])
      <3>1. /\ a[1] \in {from, to} /\ a[2] \in 1 .. Len(mem[a[1]]) /\ At(a) = mem[a[1]][a[2]]
            /\ At(a).kind # "FWD" /\ a[1] \in Space
        BY <2>1, UsedFacts DEF Addr, At
      <3>2. At(a) \in Object
        BY <3>1, UsedFacts, SpaceIsSeq
      <3>3. CASE a[1] = from
        <4>1. Whole(At(a), from, mem)
          BY <3>1, <3>3, <2>1 DEF Between, Forwarded
        <4> QED
          BY <4>1, <3>2, <2>1, <1>1 DEF Whole
      <3>4. CASE a[1] = to
        <4>1. WellFormed(At(a)) /\ \A k \in Follows(At(a)) : In(At(a).w[k], Side(a[2], k), mem)
          BY <3>1, <3>4, <2>1 DEF Between
        <4> QED
          BY <4>1, <3>2, <2>1, <1>1 DEF Side
      <3> QED
        BY <3>1, <3>3, <3>4
    <2> QED
      BY <2>2, <2>3
  <1>3. CASE ~Copying
    <2>1. AtRest /\ InUse = {Current}
      BY <1>3 DEF IInv, InUse
    <2>2. ASSUME NEW r \in Slot PROVE Good(root[r])
      BY <1>1, <2>1 DEF AtRest
    <2>3. ASSUME NEW a \in Objects
          PROVE  /\ At(a) \in Object /\ WellFormed(At(a))
                 /\ \A k \in Follows(At(a)) : Good(At(a).w[k])
      <3>1. a[1] = Current /\ a[2] \in 1 .. Len(mem[Current]) /\ At(a) = mem[Current][a[2]]
            /\ Current \in Space
        BY <2>1, UsedFacts DEF Addr, At
      <3>2. At(a) \in Object /\ Whole(At(a), Current, mem)
        BY <3>1, <2>1, UsedFacts, SpaceIsSeq DEF AtRest
      <3> QED
        BY <3>2, <2>1, <1>1 DEF Whole
    <2> QED
      BY <2>2, <2>3
  <1> QED
    BY <1>2, <1>3

\* A pointer leads to an object with the tag that it shows.
LEMMA ResolveFacts ==
  ASSUME IInv, TagInv, NEW p, Good(p)
  PROVE  /\ p \in Fixed => Resolve(p) = p /\ Tag(p) = p /\ ~IsAddr(p)
         /\ p \notin Fixed => /\ Resolve(p) \in Objects /\ Resolve(p) \notin Fixed
                              /\ Tag(p) = At(Resolve(p)).tag
                              /\ Tag(p) \in 1 .. born /\ Tag(p) \notin Fixed
                              /\ p \in Objects => Resolve(p) = p
  <1>1. CASE p \in Fixed
    BY <1>1, FixedFacts DEF Resolve, Tag, IsAddr
  <1>2. CASE p \notin Fixed
    <2>1. p \in Addr /\ p[1] \in InUse /\ p[2] <= Len(mem[p[1]]) /\ IsAddr(p)
      BY <1>2 DEF Good, IsAddr
    <2>2. p \in Objects => At(p).kind # "FWD"
      BY UsedFacts
    <2>3. Resolve(p) \in Objects /\ Tag(p) = At(Resolve(p)).tag
      <3>1. CASE At(p).kind # "FWD"
        BY <3>1, <2>1, UsedFacts DEF Resolve, Tag
      <3>2. CASE At(p).kind = "FWD"
        <4>1. p[1] \in Space /\ p[2] \in 1 .. Len(mem[p[1]]) /\ At(p) = mem[p[1]][p[2]]
          BY <2>1, UsedFacts DEF Addr, At
        <4>2. Copying /\ p[1] = from
          <5>1. CASE ~Copying
            <6>1. AtRest /\ p[1] = Current
              BY <5>1, <2>1 DEF IInv, InUse
            <6> QED
              BY <6>1, <4>1, <3>2 DEF AtRest, Whole
          <5>2. CASE Copying
            <6>1. Between /\ p[1] \in {from, to}
              BY <5>2, <2>1 DEF IInv, InUse
            <6> QED
              BY <6>1, <5>2, <4>1, <3>2 DEF Between
          <5> QED
            BY <5>1, <5>2
        <4>3. Between /\ to \in InUse
          BY <4>2 DEF IInv, InUse
        <4> DEFINE q == At(p).w[1]
        <4>4. q \in Addr /\ In(q, to, mem)
          BY <4>1, <4>2, <4>3, <3>2 DEF Between, Forwarded, Whole
        <4>5. q[1] = to /\ q[2] \in 1 .. Len(mem[to])
          BY <4>4, FixedFacts, UsedFacts, <4>3 DEF In, Fixed, Addr
        <4>6. At(q).kind # "FWD"
          BY <4>3, <4>5 DEF Between, At
        <4>7. q \in Objects
          BY <4>3, <4>4, <4>5, <4>6, UsedFacts
        <4>8. Resolve(p) = q /\ Tag(p) = At(p).tag
          BY <2>1, <3>2 DEF Resolve, Tag
        <4>9. At(q).tag = At(p).tag
          BY <4>1, <4>2, <3>2 DEF TagInv
        <4> QED
          BY <4>7, <4>8, <4>9
      <3> QED
        BY <3>1, <3>2
    <2>4. Resolve(p) \notin Fixed
      BY <2>3, UsedFacts, FixedFacts
    <2>5. Tag(p) \in 1 .. born /\ born \in Nat
      BY <2>3 DEF TagInv, IInv, TypeOK
    <2>6. Tag(p) \notin Fixed
      BY <2>5, FixedFacts
    <2> QED
      BY <1>2, <2>2, <2>3, <2>4, <2>5, <2>6 DEF Resolve
  <1> QED
    BY <1>1, <1>2

\* There are at most as many objects as were made.
LEMMA ObjectsFinite ==
  ASSUME IInv, TagInv
  PROVE  /\ IsFiniteSet(Objects) /\ Cardinality(Objects) <= MaxBorn /\ MaxBorn \in Nat
         /\ IsFiniteSet(1 .. born) /\ Cardinality(1 .. born) <= MaxBorn
  <1> DEFINE f == [a \in Objects |-> At(a).tag]
  <1>1. born \in Nat /\ born <= MaxBorn /\ MaxBorn \in Nat
    BY SizeAssumption DEF TagInv, IInv, TypeOK
  <1>2. IsFiniteSet(1 .. born) /\ Cardinality(1 .. born) = born
    <2>1. IsFiniteSet(1 .. born) /\ Cardinality(1 .. born) = IF 1 > born THEN 0 ELSE born - 1 + 1
      BY <1>1, FS_Interval
    <2> QED
      BY <2>1, <1>1
  <1>3. f \in Injection(Objects, 1 .. born)
    BY DEF TagInv, Injection, IsInjective
  <1>4. IsFiniteSet(Objects) /\ Cardinality(Objects) <= Cardinality(1 .. born)
    <2> HIDE DEF f
    <2> QED
      BY <1>2, <1>3, FS_Injection
  <1> QED
    BY <1>1, <1>2, <1>4, FS_CardinalityType

-----------------------------------------------------------------------------
(* What the roots reach                                                    *)

LEMMA SuccessorsFacts ==
  ASSUME IInv, TagInv
  PROVE  Starts \subseteq Objects /\ \A a \in Objects : Successors(a) \subseteq Objects
  <1>1. ASSUME NEW p, Good(p) PROVE Resolve(p) \in Objects \cup Fixed
    BY <1>1, ResolveFacts
  <1> QED
    BY <1>1, GoodFacts DEF Starts, Successors

ReachableIsLeast ==
    /\ Reachable \subseteq Objects /\ Rooted(Reachable)
    /\ \A G : Rooted(G) => Reachable \subseteq G

\* Reachable is the least set that holds what the roots reach.
LEMMA ReachableFacts == IInv /\ TagInv => ReachableIsLeast
  <1> SUFFICES ASSUME IInv, TagInv PROVE ReachableIsLeast
    OBVIOUS
  <1> DEFINE next(S) == UNION {{Resolve(At(a).w[k]) : k \in Follows(At(a))} : a \in S}
             Step(S) == S \cup (next(S) \ Fixed)
             G == [S \in SUBSET Objects |-> Step(S)]
             E == [a \in Objects |-> Successors(a)]
  <1>1. ASSUME NEW S \in SUBSET Objects
        PROVE  Step(S) = S \cup UNION {E[a] : a \in S} /\ Step(S) \in SUBSET Objects
    <2>1. \A a \in S : E[a] = {Resolve(At(a).w[k]) : k \in Follows(At(a))} \ Fixed
      BY DEF Successors
    <2>2. UNION {E[a] : a \in S} = next(S) \ Fixed
      <3> HIDE DEF E
      <3> QED
        BY <2>1
    <2>3. UNION {E[a] : a \in S} \subseteq Objects
      BY SuccessorsFacts
    <2> QED
      BY <2>2, <2>3
  <1>2. Starts \in SUBSET Objects /\ G \in [SUBSET Objects -> SUBSET Objects]
        /\ E \in [Objects -> SUBSET Objects]
    <2>1. \A S \in SUBSET Objects : Step(S) \in SUBSET Objects
      BY <1>1
    <2> HIDE DEF Step
    <2> QED
      BY <2>1, SuccessorsFacts
  <1> HIDE DEF E
  <1>3. PICK g \in [Nat -> SUBSET Objects] : g = [n \in Nat |-> IF n = 0 THEN Starts ELSE G[g[n - 1]]]
    <2> DEFINE X == SUBSET Objects
    <2>1. Starts \in X /\ G \in [X -> X]
      BY <1>2
    <2> HIDE DEF G, X
    <2>2. \E g \in [Nat -> X] : g = [n \in Nat |-> IF n = 0 THEN Starts ELSE G[g[n - 1]]]
      BY <2>1, Iteration
    <2> QED
      BY <2>2 DEF X
  <1>4. g = [n \in Nat |-> IF n = 0 THEN Starts ELSE Step(g[n - 1])]
    <2>1. ASSUME NEW n \in Nat PROVE g[n] = IF n = 0 THEN Starts ELSE Step(g[n - 1])
      <3>1. n # 0 => n - 1 \in Nat
        OBVIOUS
      <3>2. n # 0 => g[n - 1] \in SUBSET Objects
        BY <3>1
      <3>3. n # 0 => G[g[n - 1]] = Step(g[n - 1])
        <4> HIDE DEF Step
        <4> QED
          BY <3>2
      <3> HIDE DEF G, Step
      <3> QED
        BY <1>3, <3>3
    <2> HIDE DEF G, Step
    <2> QED
      BY <1>3, <2>1
  <1> HIDE DEF G
  <1> DEFINE f == CHOOSE f : f = [n \in Nat |-> IF n = 0 THEN Starts ELSE Step(f[n - 1])]
  <1>5. f = [n \in Nat |-> IF n = 0 THEN Starts ELSE Step(f[n - 1])]
    <2> HIDE DEF Step
    <2> QED
      BY <1>4
  <1>6. Reachable = f[MaxBorn]
    BY DEF Reachable, Starts, Fixed
  <1> HIDE DEF f
  <1>7. f[0] = Starts /\ \A n \in Nat : f[n + 1] = Step(f[n])
    <2>1. \A n \in Nat : n + 1 \in Nat /\ n + 1 # 0 /\ (n + 1) - 1 = n
      OBVIOUS
    <2> HIDE DEF Step
    <2> QED
      BY <2>1, <1>5
  <1>8. /\ f[0] \subseteq f[MaxBorn] /\ f[MaxBorn] \subseteq Objects
        /\ \A a \in f[MaxBorn] : E[a] \subseteq f[MaxBorn]
        /\ \A S : f[0] \subseteq S /\ (\A a \in S \cap Objects : E[a] \subseteq S)
                      => f[MaxBorn] \subseteq S
    <2>1. \A n \in Nat : f[n] \subseteq Objects => f[n + 1] = f[n] \cup UNION {E[a] : a \in f[n]}
      <3> SUFFICES ASSUME NEW n \in Nat, f[n] \subseteq Objects
                   PROVE  f[n + 1] = f[n] \cup UNION {E[a] : a \in f[n]}
        OBVIOUS
      <3>1. Step(f[n]) = f[n] \cup UNION {E[a] : a \in f[n]}
        <4>1. f[n] \in SUBSET Objects
          OBVIOUS
        <4> HIDE DEF Step
        <4> QED
          BY <1>1, <4>1
      <3> HIDE DEF Step
      <3> QED
        BY <3>1, <1>7
    <2>2. f[0] \subseteq Objects
      BY <1>2, <1>7
    <2> HIDE DEF Step
    <2> QED
      BY <2>1, <2>2, <1>2, ObjectsFinite, LeastClosure
  <1>9. \A a \in Objects : E[a] = Successors(a)
    BY DEF E
  <1>10. Reachable \subseteq Objects /\ Rooted(Reachable)
    BY <1>6, <1>7, <1>8, <1>9 DEF Rooted
  <1>11. ASSUME NEW S, Rooted(S) PROVE Reachable \subseteq S
    BY <1>6, <1>7, <1>8, <1>9, <1>11 DEF Rooted
  <1> QED
    BY <1>10, <1>11 DEF ReachableIsLeast

\* The references of a node.
LEMMA TargetsFacts ==
  ASSUME IInv, TagInv, NEW a \in Objects
  PROVE  /\ NodeOf(At(a)).tag = At(a).tag /\ NodeOf(At(a)).kind = At(a).kind
         /\ Graph!Targets(NodeOf(At(a))) = {At(b).tag : b \in Successors(a)}
         /\ Graph!Targets(NodeOf(At(a))) \subseteq 1 .. born
  <1> DEFINE o == At(a)
  <1>1. NodeOf(o).tag = o.tag /\ NodeOf(o).kind = o.kind
        /\ NodeOf(o).refs = {<<k, Tag(o.w[k])>> : k \in Follows(o)}
    BY DEF NodeOf
  <1>2. Graph!Targets(NodeOf(o)) = {Tag(o.w[k]) : k \in Follows(o)} \ Fixed
    <2>1. Graph!Targets(NodeOf(o)) = {p[2] : p \in NodeOf(o).refs} \ Fixed
      BY DEF Graph!Targets, Graph!Leaf, Fixed
    <2>2. {p[2] : p \in {<<k, Tag(o.w[k])>> : k \in Follows(o)}} = {Tag(o.w[k]) : k \in Follows(o)}
      <3> DEFINE P == {<<k, Tag(o.w[k])>> : k \in Follows(o)}
      <3>1. \A k \in Follows(o) : <<k, Tag(o.w[k])>> \in P /\ <<k, Tag(o.w[k])>>[2] = Tag(o.w[k])
        OBVIOUS
      <3>2. \A p \in P : \E k \in Follows(o) : p[2] = Tag(o.w[k])
        OBVIOUS
      <3> HIDE DEF P
      <3>3. \A k \in Follows(o) : \E p \in P : p[2] = Tag(o.w[k])
        BY <3>1
      <3>4. {p[2] : p \in P} = {Tag(o.w[k]) : k \in Follows(o)}
        BY <3>2, <3>3
      <3> QED
        BY <3>4 DEF P
    <2> HIDE DEF o
    <2> QED
      BY <2>1, <2>2, <1>1
  <1>3. \A k \in Follows(o) : Good(o.w[k])
    BY GoodFacts
  <1> HIDE DEF o
  <1>4. ASSUME NEW k \in Follows(o)
        PROVE  /\ o.w[k] \in Fixed => Tag(o.w[k]) \in Fixed /\ Resolve(o.w[k]) \in Fixed
               /\ o.w[k] \notin Fixed => /\ Resolve(o.w[k]) \notin Fixed /\ Tag(o.w[k]) \notin Fixed
                                         /\ Tag(o.w[k]) = At(Resolve(o.w[k])).tag
                                         /\ Tag(o.w[k]) \in 1 .. born
    BY <1>3, ResolveFacts
  <1>5. {Tag(o.w[k]) : k \in Follows(o)} \ Fixed
            = {At(b).tag : b \in {Resolve(o.w[k]) : k \in Follows(o)} \ Fixed}
    BY <1>4
  <1>6. {Tag(o.w[k]) : k \in Follows(o)} \ Fixed \subseteq 1 .. born
    BY <1>4
  <1> QED
    BY <1>1, <1>2, <1>5, <1>6 DEF Successors, o

\* The tags that the references of the roots reach among the nodes g.
LEMMA ReachFacts ==
  ASSUME IInv, TagInv, NEW G \in SUBSET Objects
  PROVE  LET g == NodesOf(G)
             R == Graph!Reach(g, Refs)
         IN  /\ {Refs[r] : r \in Slot} \ Fixed \subseteq R
             /\ \A n \in g : n.tag \in R => Graph!Targets(n) \subseteq R
             /\ \A S : /\ {Refs[r] : r \in Slot} \ Fixed \subseteq S
                       /\ \A n \in g : n.tag \in S => Graph!Targets(n) \subseteq S
                       => R \subseteq S
  <1> DEFINE g == NodesOf(G)
             D == 1 .. born
             start == {Refs[r] : r \in Slot} \ Fixed
             Step(S) == S \cup UNION {Graph!Targets(n) : n \in {m \in g : m.tag \in S}}
             H == [S \in SUBSET D |-> Step(S)]
             E == [t \in D |-> UNION {Graph!Targets(n) : n \in {m \in g : m.tag = t}}]
  <1>1. \A n \in g : Graph!Targets(n) \subseteq D
    BY TargetsFacts DEF NodesOf
  <1>2. start \subseteq D
    <2>1. ASSUME NEW r \in Slot, Refs[r] \notin Fixed PROVE Refs[r] \in D
      <3>1. Refs[r] = Tag(root[r]) /\ Good(root[r])
        BY GoodFacts DEF Refs
      <3> QED
        BY <3>1, <2>1, ResolveFacts
    <2> QED
      BY <2>1
  <1> HIDE DEF g, D, start
  <1>3. ASSUME NEW S \in SUBSET D
        PROVE  Step(S) = S \cup UNION {E[t] : t \in S} /\ Step(S) \in SUBSET D
    <2>1. \A t \in S : E[t] = UNION {Graph!Targets(n) : n \in {m \in g : m.tag = t}}
      OBVIOUS
    <2> HIDE DEF E
    <2>2. UNION {E[t] : t \in S} = UNION {Graph!Targets(n) : n \in {m \in g : m.tag \in S}}
      <3>1. ASSUME NEW x \in UNION {E[t] : t \in S}
            PROVE  x \in UNION {Graph!Targets(n) : n \in {m \in g : m.tag \in S}}
        <4>1. PICK t \in S : x \in E[t]
          OBVIOUS
        <4>2. PICK n \in {m \in g : m.tag = t} : x \in Graph!Targets(n)
          BY <4>1, <2>1
        <4> QED
          BY <4>2
      <3>2. ASSUME NEW x \in UNION {Graph!Targets(n) : n \in {m \in g : m.tag \in S}}
            PROVE  x \in UNION {E[t] : t \in S}
        <4>1. PICK n \in {m \in g : m.tag \in S} : x \in Graph!Targets(n)
          OBVIOUS
        <4>2. x \in E[n.tag]
          BY <4>1, <2>1
        <4> QED
          BY <4>2
      <3> QED
        BY <3>1, <3>2
    <2>3. UNION {Graph!Targets(n) : n \in {m \in g : m.tag \in S}} \subseteq D
      BY <1>1
    <2> QED
      BY <2>2, <2>3
  <1>4. start \in SUBSET D /\ H \in [SUBSET D -> SUBSET D] /\ E \in [D -> SUBSET D]
    <2>1. \A S \in SUBSET D : Step(S) \in SUBSET D
      BY <1>3
    <2>2. E \in [D -> SUBSET D]
      BY <1>1
    <2> HIDE DEF Step, E
    <2> QED
      BY <2>1, <2>2, <1>2
  <1> HIDE DEF E
  <1>5. PICK h \in [Nat -> SUBSET D] : h = [n \in Nat |-> IF n = 0 THEN start ELSE H[h[n - 1]]]
    <2> DEFINE X == SUBSET D
    <2>1. start \in X /\ H \in [X -> X]
      BY <1>4
    <2> HIDE DEF H, X
    <2>2. \E h \in [Nat -> X] : h = [n \in Nat |-> IF n = 0 THEN start ELSE H[h[n - 1]]]
      BY <2>1, Iteration
    <2> QED
      BY <2>2 DEF X
  <1>6. h = [n \in Nat |-> IF n = 0 THEN start ELSE Step(h[n - 1])]
    <2>1. ASSUME NEW n \in Nat PROVE h[n] = IF n = 0 THEN start ELSE Step(h[n - 1])
      <3>1. n # 0 => n - 1 \in Nat
        OBVIOUS
      <3>2. n # 0 => h[n - 1] \in SUBSET D
        BY <3>1
      <3>3. n # 0 => H[h[n - 1]] = Step(h[n - 1])
        <4> HIDE DEF Step
        <4> QED
          BY <3>2
      <3> HIDE DEF H, Step
      <3> QED
        BY <1>5, <3>3
    <2> HIDE DEF H, Step
    <2> QED
      BY <1>5, <2>1
  <1> HIDE DEF H
  <1> DEFINE f == CHOOSE f : f = [n \in Nat |-> IF n = 0 THEN start ELSE Step(f[n - 1])]
  <1>7. f = [n \in Nat |-> IF n = 0 THEN start ELSE Step(f[n - 1])]
    <2> HIDE DEF Step
    <2> QED
      BY <1>6
  <1>8. Graph!Reach(g, Refs) = f[MaxBorn]
    BY DEF Graph!Reach, Graph!Leaf, start, Fixed
  <1> HIDE DEF f
  <1>9. f[0] = start /\ \A n \in Nat : f[n + 1] = Step(f[n])
    <2>1. \A n \in Nat : n + 1 \in Nat /\ n + 1 # 0 /\ (n + 1) - 1 = n
      OBVIOUS
    <2> HIDE DEF Step
    <2> QED
      BY <2>1, <1>7
  <1>10. /\ f[0] \subseteq f[MaxBorn] /\ f[MaxBorn] \subseteq D
         /\ \A t \in f[MaxBorn] : E[t] \subseteq f[MaxBorn]
         /\ \A S : f[0] \subseteq S /\ (\A t \in S \cap D : E[t] \subseteq S) => f[MaxBorn] \subseteq S
    <2>1. \A n \in Nat : f[n] \subseteq D => f[n + 1] = f[n] \cup UNION {E[t] : t \in f[n]}
      <3> SUFFICES ASSUME NEW n \in Nat, f[n] \subseteq D
                   PROVE  f[n + 1] = f[n] \cup UNION {E[t] : t \in f[n]}
        OBVIOUS
      <3>1. Step(f[n]) = f[n] \cup UNION {E[t] : t \in f[n]}
        <4>1. f[n] \in SUBSET D
          OBVIOUS
        <4> HIDE DEF Step
        <4> QED
          BY <1>3, <4>1
      <3> HIDE DEF Step
      <3> QED
        BY <3>1, <1>9
    <2>2. f[0] \subseteq D /\ IsFiniteSet(D) /\ Cardinality(D) <= MaxBorn /\ MaxBorn \in Nat
      BY <1>4, <1>9, ObjectsFinite DEF D
    <2> HIDE DEF Step
    <2> QED
      BY <2>1, <2>2, <1>4, LeastClosure
  <1>11. \A t \in D : E[t] = UNION {Graph!Targets(n) : n \in {m \in g : m.tag = t}}
    BY DEF E
  <1>12. \A n \in g : n.tag \in D
    BY TargetsFacts DEF g, NodesOf, TagInv, D
  <1>13. \A n \in g : n.tag \in f[MaxBorn] => Graph!Targets(n) \subseteq f[MaxBorn]
    BY <1>10, <1>11, <1>12
  <1>14. ASSUME NEW S, start \subseteq S,
                \A n \in g : n.tag \in S => Graph!Targets(n) \subseteq S
         PROVE  f[MaxBorn] \subseteq S
    <2>1. \A t \in S \cap D : E[t] \subseteq S
      BY <1>11, <1>14
    <2> QED
      BY <2>1, <1>9, <1>10, <1>14
  <1> QED
    BY <1>8, <1>9, <1>10, <1>13, <1>14 DEF g, start

\* What the machine sees, as a function of the nodes and of the roots' references.
SeenFrom(G) ==
    LET g == NodesOf(G) IN Seen = {n \in g : n.tag \in Graph!Reach(g, Refs)}
SeenIsGraph == \A G \in SUBSET Objects : Rooted(G) => SeenFrom(G)

LEMMA SeenFacts == IInv /\ TagInv => SeenIsGraph
  <1> SUFFICES ASSUME IInv, TagInv, NEW G \in SUBSET Objects, Rooted(G) PROVE SeenFrom(G)
    BY DEF SeenIsGraph
  <1> DEFINE g == NodesOf(G)
             R == Graph!Reach(g, Refs)
             start == {Refs[r] : r \in Slot} \ Fixed
             T == {At(a).tag : a \in Reachable}
  <1>1. /\ start \subseteq R
        /\ \A n \in g : n.tag \in R => Graph!Targets(n) \subseteq R
        /\ \A S : /\ start \subseteq S
                  /\ \A n \in g : n.tag \in S => Graph!Targets(n) \subseteq S
                  => R \subseteq S
    BY ReachFacts
  <1>2. Reachable \subseteq G /\ Rooted(Reachable) /\ \A S : Rooted(S) => Reachable \subseteq S
    BY ReachableFacts DEF ReachableIsLeast
  <1>3. start = {At(a).tag : a \in Starts}
    <2>1. ASSUME NEW r \in Slot
          PROVE  /\ Refs[r] = Tag(root[r])
                 /\ root[r] \in Fixed => Tag(root[r]) \in Fixed /\ Resolve(root[r]) \in Fixed
                 /\ root[r] \notin Fixed => /\ Resolve(root[r]) \notin Fixed /\ Tag(root[r]) \notin Fixed
                                            /\ Tag(root[r]) = At(Resolve(root[r])).tag
      BY GoodFacts, ResolveFacts DEF Refs
    <2> QED
      BY <2>1 DEF Starts
  <1>4. \A a \in G : /\ NodeOf(At(a)).tag = At(a).tag
                     /\ Graph!Targets(NodeOf(At(a))) = {At(b).tag : b \in Successors(a)}
    BY TargetsFacts
  <1>5. \A a, b \in G : At(a).tag = At(b).tag => a = b
    BY DEF TagInv
  <1> HIDE DEF R, start
  <1>6. R \subseteq T
    <2>1. start \subseteq T
      BY <1>2, <1>3 DEF Rooted
    <2>2. ASSUME NEW n \in g, n.tag \in T
          PROVE  Graph!Targets(n) \subseteq T
      <3>1. PICK a \in G : n = NodeOf(At(a))
        BY DEF NodesOf
      <3>2. PICK b \in Reachable : n.tag = At(b).tag
        BY <2>2
      <3>3. a = b
        BY <3>1, <3>2, <1>2, <1>4, <1>5
      <3>4. Successors(a) \subseteq Reachable
        BY <3>2, <3>3, <1>2 DEF Rooted
      <3> QED
        BY <3>1, <3>4, <1>4
    <2> HIDE DEF T, g
    <2> QED
      BY <2>1, <2>2, <1>1
  <1>7. T \subseteq R
    <2> DEFINE S == {a \in Reachable : At(a).tag \in R}
    <2>1. Starts \subseteq S
      BY <1>1, <1>2, <1>3 DEF Rooted
    <2>2. ASSUME NEW a \in S PROVE Successors(a) \subseteq S
      <3>1. a \in Reachable /\ a \in G /\ NodeOf(At(a)) \in g /\ NodeOf(At(a)).tag \in R
        BY <2>2, <1>2, <1>4 DEF NodesOf
      <3>2. Graph!Targets(NodeOf(At(a))) \subseteq R
        BY <3>1, <1>1
      <3>3. Successors(a) \subseteq Reachable
        BY <3>1, <1>2 DEF Rooted
      <3> QED
        BY <3>1, <3>2, <3>3, <1>4
    <2>3. Reachable \subseteq S
      <3> HIDE DEF S
      <3> QED
        BY <2>1, <2>2, <1>2 DEF Rooted
    <2> QED
      BY <2>3
  <1>8. Seen = {n \in g : n.tag \in T}
    <2>1. ASSUME NEW a \in G PROVE At(a).tag \in T => a \in Reachable
      BY <1>2, <1>5
    <2> QED
      BY <2>1, <1>2, <1>4 DEF Seen, NodesOf
  <1> QED
    BY <1>6, <1>7, <1>8 DEF SeenFrom, R

-----------------------------------------------------------------------------
(* The view in a memory m                                                  *)

Obj(m, a) == m[a[1]][a[2]]
TagIn(m, p) == IF IsAddr(p) THEN Obj(m, p).tag ELSE p
NodeIn(m, a) ==
    LET o == Obj(m, a)
    IN  [tag |-> o.tag, kind |-> o.kind, refs |-> {<<k, TagIn(m, o.w[k])>> : k \in Follows(o)}]

Members ==
    \A a : a \in Objects <=>
        a \in Addr /\ a[1] \in InUse /\ a[2] <= Len(mem[a[1]]) /\ Obj(mem, a).kind # "FWD"

\* The facts about a state in terms of its memory.
Sees ==
    /\ SeenIsGraph /\ ReachableIsLeast /\ Rooted(Objects)
    /\ \A G : NodesOf(G) = {NodeIn(mem, a) : a \in G}
    /\ Refs = [r \in Slot |-> TagIn(mem, root[r])]
    /\ Members

LEMMA MembersFacts == IInv => Members
  BY UsedFacts DEF Members, At, Obj

LEMMA SeesFacts == IInv /\ TagInv => Sees
  <1> SUFFICES ASSUME IInv, TagInv PROVE Sees
    OBVIOUS
  <1>1. SeenIsGraph /\ ReachableIsLeast /\ Rooted(Objects)
    BY SeenFacts, ReachableFacts, SuccessorsFacts DEF Rooted
  <1>2. \A a : NodeOf(At(a)) = NodeIn(mem, a)
    BY DEF NodeOf, NodeIn, At, Obj, Tag, TagIn
  <1>3. \A G : NodesOf(G) = {NodeIn(mem, a) : a \in G}
    BY <1>2 DEF NodesOf
  <1>4. Refs = [r \in Slot |-> TagIn(mem, root[r])]
    BY DEF Refs, Tag, TagIn, At, Obj
  <1>5. Members
    BY MembersFacts
  <1> QED
    BY <1>1, <1>3, <1>4, <1>5 DEF Sees

\* A step keeps what the machine sees when it moves the objects of a rooted set
\* and keeps their nodes.
LEMMA KeepsView ==
  ASSUME IInv, TagInv, IInv', born' = born, Refs' = Refs,
         NEW G \in SUBSET Objects, Rooted(G), NEW b, Objects' = {b[a] : a \in G},
         \A a \in G : NodeIn(mem', b[a]) = NodeIn(mem, a),
         Copying' => \A i \in 1 .. Len(mem'[from']) :
             mem'[from'][i].kind = "FWD" => Obj(mem', mem'[from'][i].w[1]).tag = mem'[from'][i].tag
  PROVE  TagInv' /\ Seen' = Seen /\ Refs' = Refs
  <1>1. ASSUME NEW a \in G PROVE Obj(mem', b[a]).tag = At(a).tag
    <2>1. NodeIn(mem', b[a]).tag = Obj(mem', b[a]).tag /\ NodeIn(mem, a).tag = Obj(mem, a).tag
      BY DEF NodeIn
    <2>2. Obj(mem, a) = At(a)
      BY DEF Obj, At
    <2> QED
      BY <2>1, <2>2
  <1>2. TagInv'
    <2>1. born' <= MaxBorn
      BY DEF TagInv
    <2>2. ASSUME NEW c \in Objects' PROVE Obj(mem', c).tag \in 1 .. born'
      <3>1. PICK a \in G : c = b[a]
        BY <2>2
      <3> QED
        BY <3>1, <1>1 DEF TagInv
    <2>3. ASSUME NEW c \in Objects', NEW d \in Objects', Obj(mem', c).tag = Obj(mem', d).tag
          PROVE  c = d
      <3>1. PICK a \in G : c = b[a]
        BY <2>3
      <3>2. PICK e \in G : d = b[e]
        BY <2>3
      <3> QED
        BY <3>1, <3>2, <2>3, <1>1 DEF TagInv
    <2>4. \A a : At(a)' = Obj(mem', a)
      BY DEF At, Obj
    <2>5. Copying' => \A i \in 1 .. Len(mem'[from']) :
             mem'[from'][i].kind = "FWD" => At(mem[from][i].w[1])'.tag = mem'[from'][i].tag
      BY DEF At, Obj
    <2> QED
      BY <2>1, <2>2, <2>3, <2>4, <2>5 DEF TagInv
  <1>3. Sees
    BY SeesFacts
  <1>4. Sees'
    BY <1>2, SeesFacts, PTL
  <1>5. PICK H : H = Objects'
    OBVIOUS
  <1>6. Rooted(H)' /\ H \in SUBSET Objects'
    BY <1>4, <1>5 DEF Sees, Rooted
  <1>7. SeenFrom(H)'
    BY <1>4, <1>6 DEF Sees, SeenIsGraph
  <1>8. NodesOf(H)' = NodesOf(G)
    <2>1. NodesOf(H)' = {NodeIn(mem', a) : a \in H}
      BY <1>4 DEF Sees
    <2>2. NodesOf(G) = {NodeIn(mem, a) : a \in G}
      BY <1>3 DEF Sees
    <2> QED
      BY <2>1, <2>2, <1>5
  <1>9. SeenFrom(G)
    BY <1>3 DEF Sees, SeenIsGraph
  <1> QED
    BY <1>2, <1>7, <1>8, <1>9 DEF SeenFrom

-----------------------------------------------------------------------------
(* The collector                                                           *)

\* What copy() does to the memory when it moves an object.
LEMMA MoveFacts ==
  ASSUME IInv, Copying, NEW p, In(p, from, mem), Moves(p)
  PROVE  LET m == CopyMem(p)
             n == Len(mem[to])
             q == <<to, n + 1>>
         IN  /\ p \in Objects /\ q \in Addr /\ CopyPtr(p) = q
             /\ Len(m[to]) = n + 1 /\ m[to][n + 1] = At(p)
             /\ \A j \in 1 .. n : m[to][j] = mem[to][j]
             /\ Len(m[from]) = Len(mem[from])
             /\ m[from][p[2]].kind = "FWD" /\ m[from][p[2]].w[1] = q
             /\ m[from][p[2]].tag = At(p).tag
             /\ \A j \in 1 .. Len(mem[from]) : j # p[2] => m[from][j] = mem[from][j]
  <1> DEFINE m == CopyMem(p)
             n == Len(mem[to])
             i == p[2]
             o == mem[from][i]
             q == <<to, n + 1>>
             x == Forward(o, q)
  <1>1. /\ mem \in [Space -> Seq(Object)] /\ from \in Space /\ to \in Space /\ from # to
        /\ n \in Nat /\ \A j \in 1 .. Len(mem[from]) : Forwarded(mem[from][j], from, to, mem)
    BY CopyFacts DEF Between
  <1>2. p \in Addr /\ p[1] = from /\ i \in 1 .. Len(mem[from]) /\ At(p) = o /\ o.kind # "FWD"
    BY <1>1, NameAssumption DEF Moves, InHeap, IsAddr, In, At, Addr
  <1>3. o \in Object /\ Whole(o, from, mem) /\ Len(o.w) > 0
    BY <1>1, <1>2, SpaceIsSeq DEF Forwarded, Whole, WellFormed
  <1>4. q \in Addr
    BY <1>1 DEF Addr
  <1>5. x \in Object /\ x.kind = "FWD" /\ x.w[1] = q /\ x.tag = o.tag
    <2>1. x \in Object /\ x.kind = "FWD" /\ x.w[1] = q
      <3> HIDE DEF o, q
      <3> QED
        BY <1>3, <1>4, ForwardObject
    <2>2. x.tag = o.tag
      BY <1>3 DEF Forward, Object
    <2> QED
      BY <2>1, <2>2
  <1>6. m = [mem EXCEPT ![to] = Append(@, o), ![from][i] = x] /\ CopyPtr(p) = q
    BY <1>2 DEF CopyMem, CopyPtr, Moves
  <1>7. p \in Objects
    BY <1>2, UsedFacts DEF InUse
  <1> HIDE DEF m, o, q, x, i
  <1>8. m[to] = Append(mem[to], o) /\ m[from] = [mem[from] EXCEPT ![i] = x]
    BY <1>6, <1>1
  <1>9. Len(m[to]) = n + 1 /\ m[to][n + 1] = o /\ \A j \in 1 .. n : m[to][j] = mem[to][j]
    BY <1>8, <1>1, <1>3
  <1>10. Len(m[from]) = Len(mem[from]) /\ m[from][i] = x
         /\ \A j \in 1 .. Len(mem[from]) : j # i => m[from][j] = mem[from][j]
    BY <1>8, <1>1, <1>2, <1>5
  <1> QED
    BY <1>2, <1>4, <1>5, <1>6, <1>7, <1>9, <1>10 DEF m, q, i

\* A copy keeps every node and every reference: where an object is now, its
\* node is what it was; a pointer's copy leads to the same tag.
LEMMA CopyView ==
  ASSUME IInv, TagInv, Copying, NEW p, In(p, from, mem)
  PROVE  LET m == CopyMem(p)
             b == [a \in Objects |-> IF a = p THEN CopyPtr(p) ELSE a]
         IN  /\ \A c : (\E a \in Objects : c = b[a]) <=>
                     c \in Addr /\ c[1] \in {from, to} /\ c[2] <= Len(m[c[1]])
                     /\ Obj(m, c).kind # "FWD"
             /\ \A a \in Objects : Obj(m, b[a]) = Obj(mem, a)
             /\ \A y : Good(y) => TagIn(m, y) = TagIn(mem, y)
             /\ TagIn(m, CopyPtr(p)) = TagIn(mem, p)
             /\ \A i \in 1 .. Len(m[from]) :
                   m[from][i].kind = "FWD" => /\ m[from][i].w[1] \in Addr /\ m[from][i].w[1][1] = to
                                              /\ Obj(m, m[from][i].w[1]).tag = m[from][i].tag
             /\ \A a \in Objects : a[1] = to => b[a] = a
  <1> DEFINE m == CopyMem(p)
             b == [a \in Objects |-> IF a = p THEN CopyPtr(p) ELSE a]
             n == Len(mem[to])
             q == <<to, n + 1>>
  <1>1. /\ mem \in [Space -> Seq(Object)] /\ from \in Space /\ to \in Space /\ from # to
        /\ n \in Nat /\ Len(mem[from]) \in Nat
        /\ \A j \in 1 .. Len(mem[from]) : Forwarded(mem[from][j], from, to, mem)
        /\ \A j \in 1 .. Len(mem[to]) : mem[to][j].kind # "FWD"
    BY CopyFacts DEF Between
  <1>2. \A a : a \in Objects <=>
            a \in Addr /\ a[1] \in {from, to} /\ a[2] <= Len(mem[a[1]]) /\ Obj(mem, a).kind # "FWD"
    BY MembersFacts DEF Members, InUse
  <1>3. \A y : Good(y) => y \in Fixed \/ (y \in Addr /\ y[1] \in {from, to} /\ y[2] <= Len(mem[y[1]]))
    BY DEF Good, InUse
  <1>4. ASSUME NEW j \in 1 .. Len(mem[from]), mem[from][j].kind = "FWD"
        PROVE  /\ mem[from][j].w[1] \in Addr /\ mem[from][j].w[1][1] = to
               /\ mem[from][j].w[1][2] \in 1 .. n
               /\ Obj(mem, mem[from][j].w[1]).tag = mem[from][j].tag
    <2>1. mem[from][j].w[1] \in Addr /\ In(mem[from][j].w[1], to, mem)
      BY <1>1, <1>4 DEF Forwarded, Whole
    <2>2. At(mem[from][j].w[1]).tag = mem[from][j].tag
      BY <1>4 DEF TagInv
    <2> QED
      BY <2>1, <2>2, FixedFacts DEF In, Obj, At, Fixed, Addr
  <1>5. CASE ~Moves(p)
    <2>1. m = mem
      BY <1>5 DEF CopyMem
    <2>2. p \notin Objects
      BY <1>5, UsedFacts, <1>1, FixedFacts DEF Moves, InHeap, IsAddr, In, Fixed
    <2>3. \A a \in Objects : b[a] = a
      BY <2>2
    <2>4. TagIn(mem, CopyPtr(p)) = TagIn(mem, p)
      <3>1. CASE InHeap(p, from)
        <4>1. At(p).kind = "FWD" /\ p \in Addr /\ p[1] = from /\ CopyPtr(p) = At(p).w[1]
          BY <1>5, <3>1 DEF Moves, CopyPtr, InHeap, IsAddr
        <4>2. p[2] \in 1 .. Len(mem[from]) /\ At(p) = mem[from][p[2]]
          BY <4>1, <1>1, FixedFacts DEF In, At, Addr, Fixed
        <4>3. At(p).w[1] \in Addr /\ Obj(mem, At(p).w[1]).tag = Obj(mem, p).tag
          <5>1. Obj(mem, p) = mem[from][p[2]]
            BY <4>1 DEF Obj
          <5> QED
            BY <4>1, <4>2, <5>1, <1>4
        <4> QED
          BY <4>1, <4>3 DEF TagIn, IsAddr
      <3>2. CASE ~InHeap(p, from)
        <4>1. CopyPtr(p) = p
          BY <3>2 DEF CopyPtr, Moves
        <4> QED
          BY <4>1
      <3> QED
        BY <3>1, <3>2
    <2> HIDE DEF b, m
    <2> QED
      BY <2>1, <2>3, <2>4, <1>2, <1>4 DEF m, b
  <1>6. CASE Moves(p)
    <2>1. /\ p \in Objects /\ q \in Addr /\ CopyPtr(p) = q /\ q[1] = to /\ q[2] = n + 1
          /\ Len(m[to]) = n + 1 /\ m[to][n + 1] = At(p)
          /\ \A j \in 1 .. n : m[to][j] = mem[to][j]
          /\ Len(m[from]) = Len(mem[from])
          /\ m[from][p[2]].kind = "FWD" /\ m[from][p[2]].w[1] = q
          /\ m[from][p[2]].tag = At(p).tag
          /\ \A j \in 1 .. Len(mem[from]) : j # p[2] => m[from][j] = mem[from][j]
      BY <1>6, MoveFacts
    <2>2. p \in Addr /\ p[1] = from /\ p[2] \in 1 .. Len(mem[from]) /\ Obj(mem, p) = At(p)
          /\ At(p).kind # "FWD"
      BY <1>6, <2>1, <1>1, UsedFacts DEF Moves, InHeap, Addr, Obj, At
    <2>3. \A a \in Addr : a[2] \in Nat /\ a[2] > 0 /\ a = <<a[1], a[2]>>
      BY DEF Addr
    <2>4. /\ b[p] = q /\ \A a \in Objects : a # p => b[a] = a
      BY <2>1
    <2> HIDE DEF m, b, q, n
    <2>5. ASSUME NEW a \in Addr, a[1] \in {from, to}, a[2] <= Len(mem[a[1]]), a # p
          PROVE  Obj(m, a) = Obj(mem, a) /\ a[2] <= Len(m[a[1]])
      <3>1. CASE a[1] = from
        <4>1. a[2] \in 1 .. Len(mem[from]) /\ a[2] # p[2]
          BY <2>2, <2>3, <2>5, <3>1, <1>1
        <4> QED
          BY <4>1, <3>1, <2>1 DEF Obj
      <3>2. CASE a[1] = to
        <4>1. a[2] \in 1 .. n
          BY <2>3, <2>5, <3>2, <1>1 DEF n
        <4> QED
          BY <4>1, <3>2, <2>1, <1>1 DEF Obj
      <3> QED
        BY <3>1, <3>2, <2>5
    <2>6. Obj(m, q) = Obj(mem, p) /\ Obj(m, p).tag = Obj(mem, p).tag /\ Obj(m, p).kind = "FWD"
      BY <2>1, <2>2 DEF Obj
    <2>7. q \notin Objects /\ q # p
      BY <2>1, <2>2, <1>1, <1>2 DEF n
    <2>8. \A a \in Objects : Obj(m, b[a]) = Obj(mem, a)
      BY <2>4, <2>5, <2>6, <1>2
    <2>9. ASSUME NEW y, Good(y) PROVE TagIn(m, y) = TagIn(mem, y)
      BY <2>9, <2>5, <2>6, <1>3, FixedFacts DEF TagIn, IsAddr
    <2>10. TagIn(m, CopyPtr(p)) = TagIn(mem, p)
      BY <2>1, <2>2, <2>6 DEF TagIn, IsAddr
    <2>11. ASSUME NEW a \in Objects
           PROVE  /\ b[a] \in Addr /\ b[a][1] \in {from, to} /\ b[a][2] <= Len(m[b[a][1]])
                  /\ Obj(m, b[a]).kind # "FWD"
      <3>1. CASE a = p
        BY <3>1, <2>1, <2>2, <2>4, <2>6, <1>1 DEF n
      <3>2. CASE a # p
        BY <3>2, <2>4, <2>5, <1>2
      <3> QED
        BY <3>1, <3>2
    <2>12. ASSUME NEW c \in Addr, c[1] \in {from, to}, c[2] <= Len(m[c[1]]), Obj(m, c).kind # "FWD"
           PROVE  \E a \in Objects : c = b[a]
      <3>1. CASE c = q
        BY <3>1, <2>1, <2>4
      <3>2. CASE c # q
        <4>1. c[2] <= Len(mem[c[1]])
          BY <2>12, <3>2, <2>1, <2>3, <1>1 DEF n
        <4>2. c # p
          BY <2>12, <2>6
        <4> QED
          BY <4>1, <4>2, <2>4, <2>5, <2>12, <1>2
      <3> QED
        BY <3>1, <3>2
    <2>13. ASSUME NEW j \in 1 .. Len(m[from]), m[from][j].kind = "FWD"
           PROVE  /\ m[from][j].w[1] \in Addr /\ m[from][j].w[1][1] = to
                  /\ Obj(m, m[from][j].w[1]).tag = m[from][j].tag
      <3>1. CASE j = p[2]
        BY <3>1, <2>1, <2>2, <2>6
      <3>2. CASE j # p[2]
        <4>1. j \in 1 .. Len(mem[from]) /\ m[from][j] = mem[from][j]
          BY <3>2, <2>1
        <4>2. /\ mem[from][j].w[1] \in Addr /\ mem[from][j].w[1][1] = to
              /\ mem[from][j].w[1][2] \in 1 .. n
              /\ Obj(mem, mem[from][j].w[1]).tag = mem[from][j].tag
          BY <4>1, <2>13, <1>4
        <4>3. Obj(m, mem[from][j].w[1]) = Obj(mem, mem[from][j].w[1])
          BY <4>2, <2>1 DEF Obj
        <4> QED
          BY <4>1, <4>2, <4>3
      <3> QED
        BY <3>1, <3>2
    <2>14. \A a \in Objects : a[1] = to => b[a] = a
      BY <2>2, <2>4, <1>1
    <2>15. \A c : (\E a \in Objects : c = b[a]) <=>
               c \in Addr /\ c[1] \in {from, to} /\ c[2] <= Len(m[c[1]]) /\ Obj(m, c).kind # "FWD"
      BY <2>11, <2>12
    <2> QED
      BY <2>8, <2>9, <2>10, <2>13, <2>14, <2>15 DEF m, b
  <1> QED
    BY <1>5, <1>6

LEMMA SameNode ==
  ASSUME NEW m, NEW n, NEW a, NEW c,
         Obj(n, c).tag = Obj(m, a).tag, Obj(n, c).kind = Obj(m, a).kind,
         Follows(Obj(n, c)) = Follows(Obj(m, a)),
         \A k \in Follows(Obj(m, a)) : TagIn(n, Obj(n, c).w[k]) = TagIn(m, Obj(m, a).w[k])
  PROVE  NodeIn(n, c) = NodeIn(m, a)
  BY DEF NodeIn

\* What an object follows is good, in the memory's terms.
LEMMA GoodWords ==
  ASSUME IInv
  PROVE  \A a \in Objects : \A k \in Follows(Obj(mem, a)) : Good(Obj(mem, a).w[k])
  <1>1. \A a : At(a) = Obj(mem, a)
    BY DEF At, Obj
  <1> QED
    BY <1>1, GoodFacts

\* The objects of the next state.
LEMMA NextObjects == ASSUME IInv' PROVE Members'
  BY MembersFacts, PTL

LEMMA CopyRootView == ASSUME IInv, TagInv, IInv', CopyRoot PROVE TagInv' /\ Seen' = Seen /\ Refs' = Refs
  <1>1. /\ Copying /\ Copying'
        /\ UNCHANGED <<born, from, to>>
    BY DEF CopyRoot, Copying, mutVars
  <1>2. PICK r \in todo : /\ mem' = CopyMem(root[r])
                          /\ root' = [root EXCEPT ![r] = CopyPtr(root[r])]
    BY DEF CopyRoot
  <1>3. r \in Slot /\ root \in [Slot -> Ptr] /\ In(root[r], from, mem)
    BY <1>1, <1>2, CopyFacts DEF TypeOK, Between
  <1> DEFINE p == root[r]
             b == [a \in Objects |-> IF a = p THEN CopyPtr(p) ELSE a]
  <1>4. /\ \A c : (\E a \in Objects : c = b[a]) <=>
               c \in Addr /\ c[1] \in {from, to} /\ c[2] <= Len(mem'[c[1]])
               /\ Obj(mem', c).kind # "FWD"
        /\ \A a \in Objects : Obj(mem', b[a]) = Obj(mem, a)
        /\ \A y : Good(y) => TagIn(mem', y) = TagIn(mem, y)
        /\ TagIn(mem', CopyPtr(p)) = TagIn(mem, p)
        /\ \A i \in 1 .. Len(mem'[from]) :
              mem'[from][i].kind = "FWD" => Obj(mem', mem'[from][i].w[1]).tag = mem'[from][i].tag
    <2> DEFINE m == CopyMem(p)
    <2>1. m = mem'
      BY <1>2
    <2> HIDE DEF m, p
    <2>2. /\ \A c : (\E a \in Objects : c = b[a]) <=>
               c \in Addr /\ c[1] \in {from, to} /\ c[2] <= Len(m[c[1]])
               /\ Obj(m, c).kind # "FWD"
          /\ \A a \in Objects : Obj(m, b[a]) = Obj(mem, a)
          /\ \A y : Good(y) => TagIn(m, y) = TagIn(mem, y)
          /\ TagIn(m, CopyPtr(p)) = TagIn(mem, p)
          /\ \A i \in 1 .. Len(m[from]) :
                m[from][i].kind = "FWD" => Obj(m, m[from][i].w[1]).tag = m[from][i].tag
      BY <1>1, <1>3, CopyView DEF m, p
    <2> HIDE DEF b
    <2> QED
      BY <2>1, <2>2
  <1> HIDE DEF b
  <1>5. Objects' = {b[a] : a \in Objects}
    <2>1. InUse' = {from, to}
      BY <1>1 DEF InUse
    <2> QED
      BY <2>1, <1>4, NextObjects DEF Members
  <1>6. \A a \in Objects : NodeIn(mem', b[a]) = NodeIn(mem, a)
    <2> SUFFICES ASSUME NEW a \in Objects PROVE NodeIn(mem', b[a]) = NodeIn(mem, a)
      OBVIOUS
    <2>1. Obj(mem', b[a]) = Obj(mem, a)
      BY <1>4
    <2>2. \A k \in Follows(Obj(mem, a)) : TagIn(mem', Obj(mem, a).w[k]) = TagIn(mem, Obj(mem, a).w[k])
      BY <1>4, GoodWords
    <2> QED
      BY <2>1, <2>2, SameNode
  <1>7. Refs' = Refs
    <2>1. Refs = [q \in Slot |-> TagIn(mem, root[q])]
      BY SeesFacts DEF Sees
    <2>2. Refs' = [q \in Slot |-> TagIn(mem', root'[q])]
      BY DEF Refs, Tag, TagIn, At, Obj
    <2>3. ASSUME NEW q \in Slot PROVE TagIn(mem', root'[q]) = TagIn(mem, root[q])
      <3>1. CASE q = r
        BY <3>1, <1>2, <1>3, <1>4
      <3>2. CASE q # r
        <4>1. root'[q] = root[q] /\ Good(root[q])
          BY <3>2, <1>2, <1>3, GoodFacts
        <4> QED
          BY <4>1, <1>4
      <3> QED
        BY <3>1, <3>2
    <2> QED
      BY <2>1, <2>2, <2>3
  <1>8. Rooted(Objects)
    BY SeesFacts DEF Sees
  <1>9. Copying' => \A i \in 1 .. Len(mem'[from']) :
             mem'[from'][i].kind = "FWD" => Obj(mem', mem'[from'][i].w[1]).tag = mem'[from'][i].tag
    BY <1>1, <1>4
  <1> QED
    BY <1>1, <1>5, <1>6, <1>7, <1>8, <1>9, KeepsView

LEMMA ScanFieldView == ASSUME IInv, TagInv, IInv', ScanField PROVE TagInv' /\ Seen' = Seen /\ Refs' = Refs
  <1> DEFINE o == mem[to][scan]
             n == Len(mem[to])
  <1>1. /\ phase = "scan" /\ Copying /\ Copying' /\ scan <= n
        /\ UNCHANGED <<root, born, from, to>>
    BY DEF ScanField, Copying, mutVars
  <1>2. PICK k \in field : /\ mem' = [CopyMem(o.w[k]) EXCEPT ![to][scan].w[k] = CopyPtr(o.w[k])]
                           /\ toHp' = CopyHp(o.w[k])
                           /\ field' = field \ {k}
    BY Zenon DEF ScanField
  <1>3. /\ mem \in [Space -> Seq(Object)] /\ from \in Space /\ to \in Space /\ from # to
        /\ n \in Nat /\ scan \in 1 .. n /\ field \subseteq Follows(o)
        /\ o \in Object /\ o.kind # "FWD" /\ WellFormed(o)
        /\ \A h \in Follows(o) : In(o.w[h], IF h \in field THEN from ELSE to, mem)
    <2>1. /\ TypeOK /\ Between /\ Phase /\ mem \in [Space -> Seq(Object)] /\ n \in Nat
          /\ from \in Space /\ to \in Space /\ from # to
      BY <1>1, CopyFacts DEF IInv
    <2>2. scan \in 1 .. n /\ field \subseteq Follows(o)
      BY <1>1, <2>1 DEF TypeOK, Phase
    <2>3. o \in Object /\ o.kind # "FWD" /\ WellFormed(o)
      BY <2>1, <2>2, SpaceIsSeq DEF Between
    <2>4. \A h \in Follows(o) : In(o.w[h], IF h \in field THEN from ELSE to, mem)
      <3>1. \A h \in Follows(o) : In(o.w[h], Side(scan, h), mem)
        BY <2>1, <2>2 DEF Between
      <3>2. \A h : Side(scan, h) = IF h \in field THEN from ELSE to
        BY <2>2 DEF Side, Behind
      <3> QED
        BY <3>1, <3>2
    <2> QED
      BY <2>1, <2>2, <2>3, <2>4
  <1>4. k \in 1 .. Len(o.w) /\ In(o.w[k], from, mem)
    BY <1>2, <1>3, FieldsScanned
  <1> DEFINE p == o.w[k]
             m == CopyMem(p)
             b == [a \in Objects |-> IF a = p THEN CopyPtr(p) ELSE a]
             c0 == <<to, scan>>
  <1>5. /\ \A c : (\E a \in Objects : c = b[a]) <=>
               c \in Addr /\ c[1] \in {from, to} /\ c[2] <= Len(m[c[1]]) /\ Obj(m, c).kind # "FWD"
        /\ \A a \in Objects : Obj(m, b[a]) = Obj(mem, a)
        /\ \A y : Good(y) => TagIn(m, y) = TagIn(mem, y)
        /\ TagIn(m, CopyPtr(p)) = TagIn(mem, p)
        /\ \A i \in 1 .. Len(m[from]) :
              m[from][i].kind = "FWD" => /\ m[from][i].w[1] \in Addr /\ m[from][i].w[1][1] = to
                                         /\ Obj(m, m[from][i].w[1]).tag = m[from][i].tag
        /\ \A a \in Objects : a[1] = to => b[a] = a
    <2> HIDE DEF o
    <2>1. In(p, from, mem)
      BY <1>4
    <2> HIDE DEF p
    <2> QED
      BY <2>1, <1>1, CopyView
  <1>6. m \in [Space -> Seq(Object)] /\ \A j \in 1 .. n : m[to][j] = mem[to][j]
        /\ Len(m[to]) \in n .. n + 1
    BY <1>1, <1>4, CopyLemma
  <1>7. PICK q : q = CopyPtr(p)
    OBVIOUS
  <1>8. PICK x : x = [o EXCEPT !.w[k] = q]
    OBVIOUS
  <1>9. /\ x.kind = o.kind /\ x.tag = o.tag /\ Follows(x) = Follows(o)
        /\ \A h \in Follows(o) : x.w[h] = IF h = k THEN q ELSE o.w[h]
    <2>1. o.w \in Seq(Word) /\ DOMAIN o.w = 1 .. Len(o.w) /\ Follows(o) \subseteq 1 .. Len(o.w)
      BY <1>3, ObjectParts, FieldsScanned
    <2>2. PICK w : w = [o.w EXCEPT ![k] = q]
      OBVIOUS
    <2>3. x.kind = o.kind /\ x.tag = o.tag /\ x.w = w
      BY <1>3, <1>8, <2>2 DEF Object
    <2> HIDE DEF o
    <2>4. DOMAIN w = DOMAIN o.w /\ \A h \in 1 .. Len(o.w) : w[h] = IF h = k THEN q ELSE o.w[h]
      BY <2>1, <2>2
    <2>5. Follows(x) = Follows(o)
      BY <2>3, <2>4, SameFollows
    <2> QED
      BY <2>1, <2>3, <2>4, <2>5
  <1>10. /\ mem'[from] = m[from] /\ Len(mem'[to]) = Len(m[to]) /\ mem'[to][scan] = x
         /\ \A j \in 1 .. Len(m[to]) : j # scan => mem'[to][j] = m[to][j]
         /\ m[to][scan] = o /\ scan \in 1 .. Len(m[to])
    <2>1. m[to][scan] = o /\ scan \in 1 .. Len(m[to]) /\ m[to] \in Seq(Object)
      BY <1>3, <1>6
    <2>2. mem' = [m EXCEPT ![to][scan].w[k] = q]
      BY <1>2, <1>7
    <2> HIDE DEF m, o
    <2>3. mem' = [m EXCEPT ![to] = [m[to] EXCEPT ![scan] = x]]
      BY <2>1, <2>2, <1>8
    <2> DEFINE t == [m[to] EXCEPT ![scan] = x]
    <2>5. Len(t) = Len(m[to]) /\ t[scan] = x
          /\ \A j \in 1 .. Len(m[to]) : j # scan => t[j] = m[to][j]
      BY <2>1
    <2>6. mem' = [m EXCEPT ![to] = t]
      BY <2>3
    <2> HIDE DEF t
    <2> QED
      BY <2>1, <2>5, <2>6, <1>3, <1>6
  <1>11. c0 \in Addr /\ c0 \in Objects /\ b[c0] = c0 /\ Obj(mem, c0) = o
    <2>1. c0 \in Addr /\ c0[1] = to /\ c0[2] = scan
      BY <1>3 DEF Addr
    <2>2. Obj(mem, c0) = o
      BY <2>1 DEF Obj
    <2>3. c0 \in Objects
      BY <2>1, <2>2, <1>1, <1>3, MembersFacts DEF Members, InUse
    <2> HIDE DEF m, b, o, p
    <2>4. b[c0] = c0
      <3> HIDE DEF c0
      <3> QED
        BY <2>1, <2>3, <1>5
    <2> QED
      BY <2>1, <2>2, <2>3, <2>4
  <1> HIDE DEF m, b, o, p, n
  <1>12. ASSUME NEW c \in Addr, c[1] \in {from, to}, c[2] <= Len(m[c[1]])
         PROVE  /\ Obj(mem', c).tag = Obj(m, c).tag /\ Obj(mem', c).kind = Obj(m, c).kind
                /\ c # c0 => Obj(mem', c) = Obj(m, c)
    <2>1. c = <<c[1], c[2]>> /\ c[2] \in Nat /\ c[2] > 0
      BY DEF Addr
    <2>2. CASE c[1] = from
      BY <2>2, <1>3, <1>10 DEF Obj
    <2>3. CASE c[1] = to
      <3>1. c[2] \in 1 .. Len(m[to]) /\ (c # c0 => c[2] # scan)
        BY <2>1, <2>3, <1>12, <1>6
      <3>2. CASE c[2] = scan
        <4>1. Obj(mem', c) = x /\ Obj(m, c) = o /\ c = c0
          BY <2>1, <2>3, <3>2, <1>10 DEF Obj
        <4> QED
          BY <4>1, <1>9
      <3>3. CASE c[2] # scan
        BY <3>1, <3>3, <2>3, <1>10 DEF Obj
      <3> QED
        BY <3>2, <3>3
    <2> QED
      BY <2>2, <2>3, <1>12
  <1>13. \A c : (\E a \in Objects : c = b[a]) <=> c \in Objects'
    <2>1. InUse' = {from, to}
      BY <1>1 DEF InUse
    <2>2. \A c : c \in Addr /\ c[1] \in {from, to} => Len(mem'[c[1]]) = Len(m[c[1]])
      BY <1>10
    <2> QED
      BY <2>1, <2>2, <1>5, <1>12, NextObjects DEF Members
  <1>14. ASSUME NEW y, Good(y) PROVE TagIn(mem', y) = TagIn(mem, y)
    <2>1. CASE y \in Fixed
      BY <2>1, FixedFacts DEF TagIn, IsAddr
    <2>2. CASE y \notin Fixed
      <3>1. y \in Addr /\ y[1] \in {from, to} /\ y[2] <= Len(mem[y[1]])
        BY <2>2, <1>1, <1>14 DEF Good, InUse
      <3>2. y[2] <= Len(m[y[1]])
        <4>1. Len(m[from]) = Len(mem[from])
          BY <1>1, <1>4, CopyLemma DEF m, p
        <4>2. y[2] \in Nat /\ n \in Nat /\ Len(m[to]) \in n .. n + 1 /\ n = Len(mem[to])
          BY <3>1, <1>3, <1>6 DEF Addr, n
        <4>3. CASE y[1] = to
          <5>1. y[2] <= n
            BY <4>2, <4>3, <3>1
          <5> QED
            BY <5>1, <4>2, <4>3
        <4> QED
          BY <3>1, <4>1, <4>3
      <3>3. Obj(mem', y).tag = Obj(m, y).tag
        BY <3>1, <3>2, <1>12
      <3>4. TagIn(mem', y) = TagIn(m, y)
        BY <3>1, <3>3 DEF TagIn, IsAddr
      <3> QED
        BY <3>4, <1>5, <1>14
    <2> QED
      BY <2>1, <2>2
  <1>15. TagIn(mem', q) = TagIn(mem, p)
    <2>1. CASE IsAddr(q)
      <3>1. In(q, to, m)
        BY <1>1, <1>4, <1>7, CopyLemma DEF m, p
      <3>2. q \in Addr /\ q[1] = to /\ q[2] <= Len(m[to])
        BY <2>1, <3>1, FixedFacts DEF In, IsAddr, Fixed
      <3>3. Obj(mem', q).tag = Obj(m, q).tag
        BY <3>2, <1>12
      <3> QED
        BY <3>3, <2>1, <1>5, <1>7 DEF TagIn
    <2>2. CASE ~IsAddr(q)
      BY <2>2, <1>5, <1>7 DEF TagIn
    <2> QED
      BY <2>1, <2>2
  <1>16. ASSUME NEW a \in Objects PROVE NodeIn(mem', b[a]) = NodeIn(mem, a)
    <2>1. /\ b[a] \in Addr /\ b[a][1] \in {from, to} /\ b[a][2] <= Len(m[b[a][1]])
          /\ Obj(m, b[a]) = Obj(mem, a)
      BY <1>5
    <2>2. CASE a = c0
      <3>1. Obj(mem', b[a]) = x /\ Obj(mem, a) = o
        <4>1. b[a] = c0 /\ c0[1] = to /\ c0[2] = scan
          BY <2>2, <1>11
        <4> QED
          BY <4>1, <2>2, <1>10, <1>11 DEF Obj
      <3>2. ASSUME NEW h \in Follows(o)
            PROVE  TagIn(mem', x.w[h]) = TagIn(mem, o.w[h])
        <4>1. CASE h = k
          BY <4>1, <1>9, <1>15, <3>2 DEF p
        <4>2. CASE h # k
          <5>1. Good(o.w[h])
            BY <1>11, <3>1, <3>2, GoodWords
          <5> QED
            BY <4>2, <5>1, <1>9, <1>14
        <4> QED
          BY <4>1, <4>2
      <3> QED
        BY <3>1, <3>2, <1>9, SameNode
    <2>3. CASE a # c0
      <3>1. b[a] # c0
        <4>1. SUFFICES ASSUME b[a] = c0 PROVE FALSE
          OBVIOUS
        <4>2. Obj(mem, a) = Obj(mem, c0)
          BY <4>1, <1>5, <1>11
        <4>3. At(a).tag = At(c0).tag
          BY <4>2 DEF At, Obj
        <4> QED
          BY <4>3, <2>3, <1>11 DEF TagInv
      <3>2. Obj(mem', b[a]) = Obj(mem, a)
        BY <2>1, <3>1, <1>12
      <3>3. \A h \in Follows(Obj(mem, a)) : TagIn(mem', Obj(mem, a).w[h]) = TagIn(mem, Obj(mem, a).w[h])
        BY <1>14, GoodWords
      <3> QED
        BY <3>2, <3>3, SameNode
    <2> QED
      BY <2>2, <2>3
  <1>17. Refs' = Refs
    <2>1. Refs = [r \in Slot |-> TagIn(mem, root[r])]
      BY SeesFacts DEF Sees
    <2>2. Refs' = [r \in Slot |-> TagIn(mem', root[r])]
      BY <1>1 DEF Refs, Tag, TagIn, At, Obj
    <2>3. \A r \in Slot : TagIn(mem', root[r]) = TagIn(mem, root[r])
      BY <1>14, GoodFacts
    <2> QED
      BY <2>1, <2>2, <2>3
  <1>18. ASSUME NEW i \in 1 .. Len(mem'[from']), mem'[from'][i].kind = "FWD"
         PROVE  Obj(mem', mem'[from'][i].w[1]).tag = mem'[from'][i].tag
    <2> DEFINE y == m[from][i].w[1]
    <2>1. mem'[from'][i] = m[from][i] /\ i \in 1 .. Len(m[from])
      BY <1>1, <1>10, <1>18
    <2>2. y \in Addr /\ y[1] = to /\ Obj(m, y).tag = m[from][i].tag
      BY <2>1, <1>5, <1>18
    <2>3. y[2] <= Len(m[to])
      <3>1. Forwarded(m[from][i], from, to, m)
        BY <2>1, <1>1, <1>4, CopyLemma DEF m, p
      <3> QED
        BY <3>1, <2>1, <2>2, <1>18, FixedFacts DEF Forwarded, Whole, In, Fixed
    <2> HIDE DEF y
    <2>4. Obj(mem', y).tag = Obj(m, y).tag
      BY <2>2, <2>3, <1>12
    <2> QED
      BY <2>1, <2>2, <2>4 DEF y
  <1>19. Rooted(Objects) /\ Objects' = {b[a] : a \in Objects}
    BY <1>13, SeesFacts DEF Sees
  <1> QED
    BY <1>1, <1>16, <1>17, <1>18, <1>19, KeepsView

\* A step that keeps the spaces S, the roots, and the objects of a rooted set
\* that refers to S alone.
Points(y, S) == y \in Fixed \/ (y \in Addr /\ y[1] \in S)

LEMMA KeptView ==
  ASSUME IInv, TagInv, IInv', born' = born, root' = root, NEW S, \A s \in S : mem'[s] = mem[s],
         \A r \in Slot : Points(root[r], S),
         \A a \in Objects' : /\ a \in Objects /\ a[1] \in S
                             /\ \A k \in Follows(Obj(mem, a)) : Points(Obj(mem, a).w[k], S),
         Rooted(Objects'),
         Copying' => \A i \in 1 .. Len(mem'[from']) :
             mem'[from'][i].kind = "FWD" => Obj(mem', mem'[from'][i].w[1]).tag = mem'[from'][i].tag
  PROVE  TagInv' /\ Seen' = Seen /\ Refs' = Refs
  <1> DEFINE G == Objects'
             b == [a \in G |-> a]
  <1>1. \A a : a[1] \in S => Obj(mem', a) = Obj(mem, a)
    BY DEF Obj
  <1>2. \A y : Points(y, S) => TagIn(mem', y) = TagIn(mem, y)
    BY <1>1, FixedFacts DEF Points, TagIn, IsAddr
  <1>3. ASSUME NEW a \in G PROVE NodeIn(mem', b[a]) = NodeIn(mem, a)
    <2>1. b[a] = a /\ Obj(mem', a) = Obj(mem, a)
      BY <1>1
    <2>2. \A k \in Follows(Obj(mem, a)) : TagIn(mem', Obj(mem, a).w[k]) = TagIn(mem, Obj(mem, a).w[k])
      BY <1>2
    <2> QED
      BY <2>1, <2>2, SameNode
  <1>4. Refs' = Refs
    <2>1. Refs = [r \in Slot |-> TagIn(mem, root[r])]
      BY SeesFacts DEF Sees
    <2>2. Refs' = [r \in Slot |-> TagIn(mem', root[r])]
      BY DEF Refs, Tag, TagIn, At, Obj
    <2> QED
      BY <2>1, <2>2, <1>2
  <1>5. G \in SUBSET Objects /\ Rooted(G) /\ Objects' = {b[a] : a \in G}
    OBVIOUS
  <1> HIDE DEF G, b
  <1> QED
    BY <1>3, <1>4, <1>5, KeepsView

\* What is good refers to the spaces in use.
LEMMA PointsFacts ==
  ASSUME IInv
  PROVE  /\ \A r \in Slot : Points(root[r], InUse)
         /\ \A a \in Objects : /\ a[1] \in InUse
                               /\ \A k \in Follows(Obj(mem, a)) : Points(Obj(mem, a).w[k], InUse)
  BY GoodFacts, GoodWords, MembersFacts DEF Good, Points, Members

LEMMA ReserveView == ASSUME IInv, TagInv, IInv', NEW n \in Needs, Reserve(n)
                     PROVE  TagInv' /\ Seen' = Seen /\ Refs' = Refs
  <1>1. Running /\ UNCHANGED <<mem, root, born, heap>>
    BY DEF Reserve, spaceVars
  <1>2. phase' \in {"run", "begin"} /\ (phase' = "begin" => from' = heap)
    BY <1>1 DEF Reserve, gcVars, Running
  <1>3. InUse = {heap} /\ InUse' = {heap} /\ ~Copying'
    BY <1>1, <1>2, RunFacts DEF InUse, Copying, Current
  <1>4. Objects' = Objects
    BY <1>1, <1>3, MembersFacts, NextObjects DEF Members
  <1>5. Rooted(Objects)
    BY SeesFacts DEF Sees
  <1> QED
    BY <1>1, <1>3, <1>4, <1>5, PointsFacts, KeptView

LEMMA BeginView == ASSUME IInv, TagInv, IInv', Begin PROVE TagInv' /\ Seen' = Seen /\ Refs' = Refs
  <1>1. /\ phase = "begin" /\ phase' = "roots" /\ UNCHANGED <<root, born, from>>
        /\ mem' = [s \in Space |-> IF s \in {spare, to'} THEN <<>> ELSE mem[s]]
    BY DEF Begin, mutVars
  <1>2. ~Copying /\ Copying' /\ Current = from /\ AtRest /\ TypeOK /\ from \in Space
        /\ Ownership /\ Ownership' /\ NULL \notin Space /\ TypeOK'
    BY <1>1, NameAssumption DEF IInv, Copying, Current, Phase
  <1>3. spare # from
    BY <1>2 DEF Ownership
  <1>4. to' # from /\ to' \in Space
    BY <1>1, <1>2 DEF Ownership, IInv, Phase
  <1>5. mem'[from] = mem[from] /\ mem'[to'] = <<>>
    BY <1>1, <1>2, <1>3, <1>4
  <1>6. InUse = {from} /\ InUse' = {from, to'}
    BY <1>1, <1>2 DEF InUse
  <1>7. Objects' = Objects
    <2>1. ASSUME NEW a, a \in Objects' PROVE a \in Objects
      <3>1. a \in Addr /\ a[1] \in {from, to'} /\ a[2] <= Len(mem'[a[1]]) /\ Obj(mem', a).kind # "FWD"
        BY <2>1, <1>6, NextObjects DEF Members
      <3>2. a[1] = from
        BY <3>1, <1>5 DEF Addr
      <3> QED
        BY <3>1, <3>2, <1>5, <1>6, MembersFacts DEF Members, Obj
    <2>2. ASSUME NEW a, a \in Objects PROVE a \in Objects'
      <3>1. a \in Addr /\ a[1] = from /\ a[2] <= Len(mem[a[1]]) /\ Obj(mem, a).kind # "FWD"
        BY <2>2, <1>6, MembersFacts DEF Members
      <3> QED
        BY <3>1, <1>5, <1>6, NextObjects DEF Members, Obj
    <2> QED
      BY <2>1, <2>2
  <1>8. \A i \in 1 .. Len(mem'[from']) : mem'[from'][i].kind # "FWD"
    BY <1>1, <1>2, <1>5 DEF AtRest, Whole
  <1>9. Rooted(Objects)
    BY SeesFacts DEF Sees
  <1> QED
    BY <1>1, <1>5, <1>6, <1>7, <1>8, <1>9, PointsFacts, KeptView

\* A step of the collector that only moves the scan pointer on, or none at all.
LEMMA SameMemoryView ==
  ASSUME IInv, TagInv, IInv', UNCHANGED <<mem, root, born, from, to, heap>>,
         Copying' = Copying, Current' = Current
  PROVE  TagInv' /\ Seen' = Seen /\ Refs' = Refs
  <1>1. InUse' = InUse
    BY DEF InUse
  <1>2. Objects' = Objects
    BY <1>1, MembersFacts, NextObjects DEF Members
  <1>3. Copying' => \A i \in 1 .. Len(mem'[from']) :
             mem'[from'][i].kind = "FWD" => Obj(mem', mem'[from'][i].w[1]).tag = mem'[from'][i].tag
    BY DEF TagInv, At, Obj
  <1>4. Rooted(Objects)
    BY SeesFacts DEF Sees
  <1> QED
    BY <1>2, <1>3, <1>4, PointsFacts, KeptView

\* At the end of a round the to-space holds all that the roots reach.
LEMMA RoundView ==
  ASSUME IInv, TagInv, IInv', Scanned, UNCHANGED <<root, born>>,
         mem'[to] = mem[to], ~Copying', Current' = to
  PROVE  TagInv' /\ Seen' = Seen /\ Refs' = Refs
  <1>1. /\ Copying /\ \A r \in Slot : In(root[r], to, mem)
        /\ \A j \in 1 .. Len(mem[to]) : Whole(mem[to][j], to, mem)
    BY ScannedFacts
  <1>2. InUse = {from, to} /\ InUse' = {to}
    BY <1>1 DEF InUse
  <1>3. ASSUME NEW a \in Objects'
        PROVE  /\ a \in Objects /\ a[1] = to /\ Whole(Obj(mem, a), to, mem)
    <2>1. a \in Addr /\ a[1] = to /\ a[2] <= Len(mem[to])
      BY <1>2, NextObjects DEF Members
    <2>2. a[2] \in 1 .. Len(mem[to]) /\ Obj(mem, a) = mem[to][a[2]]
      BY <2>1, <1>1, CopyFacts DEF Addr, Obj
    <2>3. Whole(Obj(mem, a), to, mem)
      BY <2>2, <1>1
    <2> QED
      BY <2>1, <2>3, <1>2, MembersFacts DEF Members, Whole
  <1>4. ASSUME NEW y, In(y, to, mem)
        PROVE  Points(y, {to}) /\ (y \notin Fixed => y \in Objects' /\ Resolve(y) = y)
    <2>1. CASE y \in Fixed
      BY <2>1 DEF Points
    <2>2. CASE y \notin Fixed
      <3>1. y \in Addr /\ y[1] = to /\ y[2] <= Len(mem[to])
        BY <2>2, <1>4 DEF In, Fixed
      <3>2. Obj(mem, y).kind # "FWD"
        BY <3>1, <1>1, CopyFacts DEF Addr, Obj, Whole
      <3>3. Obj(mem', y).kind # "FWD"
        BY <3>1, <3>2 DEF Obj
      <3>4. y \in Objects'
        BY <3>1, <3>3, <1>2, NextObjects DEF Members
      <3> QED
        BY <3>1, <3>2, <3>4 DEF Points, Resolve, At, Obj
    <2> QED
      BY <2>1, <2>2
  <1>5. Rooted(Objects')
    <2>1. \A p \in Fixed : Resolve(p) = p
      BY FixedFacts DEF Resolve, IsAddr
    <2>2. Starts \subseteq Objects'
      BY <2>1, <1>1, <1>4 DEF Starts
    <2>3. ASSUME NEW a \in Objects' PROVE Successors(a) \subseteq Objects'
      <3>1. \A k \in Follows(At(a)) : In(At(a).w[k], to, mem)
        BY <1>3 DEF Whole, Obj, At
      <3> QED
        BY <3>1, <2>1, <1>4 DEF Successors
    <2> QED
      BY <2>2, <2>3 DEF Rooted
  <1>6. \A a \in Objects' : /\ a \in Objects /\ a[1] \in {to}
                            /\ \A k \in Follows(Obj(mem, a)) : Points(Obj(mem, a).w[k], {to})
    BY <1>3, <1>4 DEF Whole
  <1>7. \A r \in Slot : Points(root[r], {to})
    BY <1>1, <1>4
  <1> QED
    BY <1>5, <1>6, <1>7, KeptView

LEMMA CollectorView == ASSUME IInv, TagInv, IInv', Collector PROVE TagInv' /\ Seen' = Seen /\ Refs' = Refs
  <1>1. CASE StartScan \/ NextObject
    BY <1>1, SameMemoryView DEF StartScan, NextObject, Copying, Current, mutVars, spaceVars
  <1>2. ASSUME Finish \/ Again PROVE TagInv' /\ Seen' = Seen /\ Refs' = Refs
    <2>1. Scanned /\ UNCHANGED <<root, born>>
      BY <1>2 DEF Finish, Again, mutVars
    <2>2. to \in Space /\ from # to /\ mem \in [Space -> Seq(Object)]
      BY <2>1, ScannedFacts, CopyFacts
    <2>3. CASE Finish
      BY <2>1, <2>2, <2>3, RoundView DEF Finish, Copying, Current
    <2>4. CASE Again
      BY <2>1, <2>2, <2>4, RoundView DEF Again, Copying, Current
    <2> QED
      BY <1>2, <2>3, <2>4
  <1> QED
    BY <1>1, <1>2, BeginView, CopyRootView, ScanFieldView DEF Collector

-----------------------------------------------------------------------------
(* The mutator                                                             *)

\* Between collections no pointer is forwarded.
Plain ==
    Running =>
        /\ InUse = {heap} /\ ~Copying
        /\ \A y : Good(y) => y \in Fixed \/ y \in Objects
        /\ Starts = {root[r] : r \in Slot} \ Fixed
        /\ \A a \in Objects :
              Successors(a) = {Obj(mem, a).w[k] : k \in Follows(Obj(mem, a))} \ Fixed

LEMMA PlainFacts == IInv => Plain
  <1> SUFFICES ASSUME IInv, Running
               PROVE  /\ InUse = {heap} /\ ~Copying
                      /\ \A y : Good(y) => y \in Fixed \/ y \in Objects
                      /\ Starts = {root[r] : r \in Slot} \ Fixed
                      /\ \A a \in Objects :
                            Successors(a) = {Obj(mem, a).w[k] : k \in Follows(Obj(mem, a))} \ Fixed
    BY DEF Plain
  <1>1. InUse = {heap} /\ ~Copying
    BY RunFacts DEF InUse
  <1>2. ASSUME NEW y, Good(y)
        PROVE  Resolve(y) = y /\ (y \in Fixed \/ y \in Objects)
    <2>1. CASE y \in Fixed
      BY <2>1, FixedFacts DEF Resolve, IsAddr
    <2>2. CASE y \notin Fixed
      <3>1. y \in Addr /\ y[1] = heap /\ y[2] <= Len(mem[heap])
        BY <2>2, <1>1, <1>2 DEF Good
      <3>2. y[2] \in 1 .. Len(mem[heap]) /\ Obj(mem, y) = mem[heap][y[2]]
        BY <3>1, <1>1, UsedFacts DEF Addr, Obj
      <3>3. Obj(mem, y).kind # "FWD"
        BY <3>2, RunFacts DEF Whole
      <3> QED
        BY <3>1, <3>3, <1>1, MembersFacts DEF Members, Resolve, At, Obj
    <2> QED
      BY <2>1, <2>2
  <1>3. Starts = {root[r] : r \in Slot} \ Fixed
    BY <1>2, GoodFacts DEF Starts
  <1>4. ASSUME NEW a \in Objects
        PROVE  Successors(a) = {Obj(mem, a).w[k] : k \in Follows(Obj(mem, a))} \ Fixed
    <2>1. At(a) = Obj(mem, a)
      BY DEF At, Obj
    <2>2. \A k \in Follows(Obj(mem, a)) : Resolve(Obj(mem, a).w[k]) = Obj(mem, a).w[k]
      BY <1>2, GoodWords
    <2> QED
      BY <2>1, <2>2 DEF Successors
  <1> QED
    BY <1>1, <1>2, <1>3, <1>4

\* What the machine sees, in terms of the memory.
Now ==
    /\ Seen = {NodeIn(mem, a) : a \in Reachable}
    /\ Refs = [r \in Slot |-> TagIn(mem, root[r])]
    /\ Reachable \subseteq Objects /\ Rooted(Reachable)
    /\ \A a \in Objects, c \in Objects : Obj(mem, a).tag = Obj(mem, c).tag => a = c

LEMMA NowFacts == IInv /\ TagInv => Now
  <1> SUFFICES ASSUME IInv, TagInv PROVE Now
    OBVIOUS
  <1>1. Sees /\ Seen = NodesOf(Reachable)
    BY SeesFacts DEF Seen, NodesOf
  <1>2. \A a : At(a) = Obj(mem, a)
    BY DEF At, Obj
  <1> QED
    BY <1>1, <1>2 DEF Sees, ReachableIsLeast, TagInv, Now

\* The next state's graph, from a rooted set of the next state.
LEMMA GraphStep ==
  ASSUME IInv', TagInv', NEW H, H \subseteq Objects', Rooted(H)', NEW g, NEW f,
         g = {NodeIn(mem', a) : a \in H}, f = [r \in Slot |-> TagIn(mem', root'[r])]
  PROVE  Graph!Becomes(g, f) /\ \A a \in Starts' : NodeIn(mem', a) \in Seen'
  <1>1. Sees'
    BY SeesFacts, PTL
  <1>2. SeenFrom(H)'
    BY <1>1 DEF Sees, SeenIsGraph
  <1>3. NodesOf(H)' = g /\ Refs' = f
    BY <1>1 DEF Sees
  <1>4. Seen' = {n \in g : n.tag \in Graph!Reach(g, f)}
    BY <1>2, <1>3 DEF SeenFrom
  <1>5. Graph!Becomes(g, f)
    BY <1>3, <1>4 DEF Graph!Becomes, Refs
  <1>6. \A a \in Starts' : NodeIn(mem', a) \in Seen'
    <2>1. Starts' \subseteq Reachable'
      BY <1>1 DEF Sees, ReachableIsLeast, Rooted
    <2>2. Now'
      BY NowFacts, PTL
    <2>3. \A a \in Reachable' : NodeIn(mem', a) \in Seen'
      BY <2>2 DEF Now
    <2> QED
      BY <2>1, <2>3
  <1> QED
    BY <1>5, <1>6

\* A step of the mutator stays in the current space.
LEMMA RunBoth ==
  ASSUME IInv, TagInv, IInv', Running, phase' = phase, heap' = heap
  PROVE  /\ Now /\ Plain /\ Plain' /\ Running' /\ ~Copying'
         /\ InUse = {heap} /\ InUse' = {heap} /\ Members /\ Members'
  <1>1. Running'
    BY DEF Running
  <1>2. Plain'
    BY PlainFacts, PTL
  <1>3. Now /\ Plain /\ Members /\ Members'
    BY NowFacts, PlainFacts, MembersFacts, NextObjects
  <1> QED
    BY <1>1, <1>2, <1>3 DEF Plain

\* An object that a root refers to is overwritten with one of the same tag that
\* refers to what the roots reach.
LEMMA RewriteGraph ==
  ASSUME IInv, TagInv, IInv', Running, NEW r \in Slot, IsAddr(root[r]),
         NEW o, o.tag = Obj(mem, root[r]).tag, o.kind # "FWD", Rewrite(root[r], o),
         UNCHANGED <<root, born, heap, phase>>,
         \A k \in Follows(o) : o.w[k] \in Reachable \cup Fixed
  PROVE  LET n == NodeIn(mem, root[r])
             m == [tag |-> o.tag, kind |-> o.kind,
                   refs |-> {<<k, TagIn(mem, o.w[k])>> : k \in Follows(o)}]
         IN  TagInv' /\ n \in Seen /\ Graph!Becomes(Graph!Replace(n, m), Refs)
  <1> DEFINE p == root[r]
             n == NodeIn(mem, p)
             m == [tag |-> o.tag, kind |-> o.kind,
                   refs |-> {<<k, TagIn(mem, o.w[k])>> : k \in Follows(o)}]
  <1>1. /\ Now /\ Plain /\ Plain' /\ Running' /\ ~Copying'
        /\ InUse = {heap} /\ InUse' = {heap} /\ Members /\ Members'
    BY RunBoth
  <1>2. p \in Reachable /\ p \in Objects /\ p \in Addr /\ p[1] = heap /\ p[2] <= Len(mem[heap])
    <2>1. p \in Addr /\ p \notin Fixed
      BY FixedFacts DEF IsAddr
    <2>2. p \in Starts
      BY <2>1, <1>1 DEF Plain
    <2>3. p \in Reachable /\ p \in Objects
      BY <2>2, <1>1 DEF Now, Rooted
    <2> QED
      BY <2>1, <2>3, <1>1, MembersFacts DEF Members, Plain
  <1>3. mem \in [Space -> Seq(Object)] /\ heap \in Space /\ p[2] \in 1 .. Len(mem[heap])
    BY <1>2, RunFacts DEF TypeOK, Addr
  <1>4. /\ Len(mem'[heap]) = Len(mem[heap]) /\ mem'[heap][p[2]] = o
        /\ \A i \in 1 .. Len(mem[heap]) : i # p[2] => mem'[heap][i] = mem[heap][i]
    <2> DEFINE t == [mem[heap] EXCEPT ![p[2]] = o]
    <2>1. mem' = [mem EXCEPT ![heap] = t]
      BY <1>2, <1>3 DEF Rewrite
    <2>2. Len(t) = Len(mem[heap]) /\ t[p[2]] = o
          /\ \A i \in 1 .. Len(mem[heap]) : i # p[2] => t[i] = mem[heap][i]
      BY <1>3
    <2> HIDE DEF t
    <2> QED
      BY <2>1, <2>2, <1>3
  <1> HIDE DEF p
  <1>5. Obj(mem', p) = o
    BY <1>2, <1>4 DEF Obj
  <1>6. ASSUME NEW a \in Objects, a # p PROVE Obj(mem', a) = Obj(mem, a)
    <2>1. a \in Addr /\ a[1] = heap /\ a[2] \in 1 .. Len(mem[heap]) /\ a = <<a[1], a[2]>>
      BY <1>1, <1>3, <1>6, MembersFacts DEF Members, Plain, Addr
    <2>2. a[2] # p[2]
      BY <2>1, <1>2, <1>6 DEF Addr
    <2> QED
      BY <2>1, <2>2, <1>4 DEF Obj
  <1>7. Objects' = Objects
    <2>1. ASSUME NEW a \in Addr, a[1] = heap, a[2] <= Len(mem[heap])
          PROVE  Obj(mem', a).kind # "FWD" <=> Obj(mem, a).kind # "FWD"
      <3>1. CASE a = p
        BY <3>1, <1>2, <1>5, MembersFacts DEF Members
      <3>2. CASE a # p
        <4>1. a[2] \in 1 .. Len(mem[heap]) /\ a[2] # p[2]
          BY <2>1, <3>2, <1>2, <1>3 DEF Addr
        <4> QED
          BY <4>1, <2>1, <1>4 DEF Obj
      <3> QED
        BY <3>1, <3>2
    <2>2. \A a : a \in Objects <=> a \in Addr /\ a[1] = heap /\ a[2] <= Len(mem[heap])
                                   /\ Obj(mem, a).kind # "FWD"
      BY <1>1 DEF Members
    <2>3. \A a : a \in Objects' <=> a \in Addr /\ a[1] = heap /\ a[2] <= Len(mem'[heap])
                                    /\ Obj(mem', a).kind # "FWD"
      BY <1>1 DEF Members
    <2>4. \A a : a \in Objects' <=> a \in Objects
      BY <2>1, <2>2, <2>3, <1>4
    <2> QED
      BY <2>4
  <1>8. \A a \in Objects : Obj(mem', a).tag = Obj(mem, a).tag
    BY <1>5, <1>6 DEF p
  <1>9. ASSUME NEW y \in Objects \cup Fixed PROVE TagIn(mem', y) = TagIn(mem, y)
    BY <1>8, FixedFacts DEF TagIn, IsAddr
  <1>10. TagInv'
    <2>1. \A a : At(a) = Obj(mem, a) /\ At(a)' = Obj(mem', a)
      BY DEF At, Obj
    <2>2. ~Copying'
      BY <1>1 DEF Plain
    <2> QED
      BY <2>1, <2>2, <1>7, <1>8 DEF TagInv
  <1>11. \A a \in Reachable : Successors(a)' \subseteq Reachable
    <2> SUFFICES ASSUME NEW a \in Reachable PROVE Successors(a)' \subseteq Reachable
      OBVIOUS
    <2>1. a \in Objects'
      BY <1>1, <1>7 DEF Now
    <2>2. Successors(a)' = {Obj(mem', a).w[k] : k \in Follows(Obj(mem', a))} \ Fixed
      BY <2>1, <1>1 DEF Plain
    <2>3. CASE a = p
      BY <2>2, <2>3, <1>5
    <2>4. CASE a # p
      <3>1. Successors(a)' = Successors(a)
        BY <2>1, <2>2, <2>4, <1>1, <1>6, <1>7 DEF Plain
      <3> QED
        BY <3>1, <1>1 DEF Now, Rooted
    <2> QED
      BY <2>3, <2>4
  <1>12. PICK H : H = Reachable
    OBVIOUS
  <1>13. H \subseteq Objects' /\ Rooted(H)'
    <2>1. Starts' = Starts
      BY <1>1 DEF Plain
    <2> QED
      BY <2>1, <1>1, <1>7, <1>11, <1>12 DEF Rooted, Now
  <1>14. NodeIn(mem', p) = m
    <2>1. \A k \in Follows(o) : TagIn(mem', o.w[k]) = TagIn(mem, o.w[k])
      BY <1>1, <1>9 DEF Now
    <2>2. {<<k, TagIn(mem', o.w[k])>> : k \in Follows(o)} = {<<k, TagIn(mem, o.w[k])>> : k \in Follows(o)}
      BY <2>1
    <2>3. NodeIn(mem', p) = [tag |-> o.tag, kind |-> o.kind,
                             refs |-> {<<k, TagIn(mem', o.w[k])>> : k \in Follows(o)}]
      BY <1>5 DEF NodeIn
    <2> QED
      BY <2>2, <2>3
  <1>15. ASSUME NEW a \in Objects, a # p PROVE NodeIn(mem', a) = NodeIn(mem, a)
    <2>1. Obj(mem', a) = Obj(mem, a)
      BY <1>6, <1>15
    <2>2. \A k \in Follows(Obj(mem, a)) : Obj(mem, a).w[k] \in Objects \cup Fixed
      BY <1>1, <1>15, GoodWords DEF Plain
    <2> QED
      BY <2>1, <2>2, <1>9, SameNode
  <1>16. ASSUME NEW a \in Objects, a # p PROVE NodeIn(mem, a) # n
    <2>1. NodeIn(mem, a).tag = Obj(mem, a).tag /\ n.tag = Obj(mem, p).tag
      BY DEF NodeIn
    <2> QED
      BY <2>1, <1>1, <1>2, <1>16 DEF Now
  <1>17. n \in Seen
    BY <1>1, <1>2 DEF Now
  <1> HIDE DEF m, n
  <1>18. Graph!Replace(n, m) = {NodeIn(mem', a) : a \in H}
    <2>1. Graph!Replace(n, m) = (Seen \ {n}) \cup {m}
      BY DEF Graph!Replace
    <2>2. Seen = {NodeIn(mem, a) : a \in Reachable} /\ Reachable \subseteq Objects
      BY <1>1 DEF Now
    <2>3. n = NodeIn(mem, p)
      BY DEF n
    <2>4. Seen \ {n} = {NodeIn(mem, a) : a \in Reachable \ {p}}
      BY <2>2, <2>3, <1>16
    <2>5. {NodeIn(mem, a) : a \in Reachable \ {p}} = {NodeIn(mem', a) : a \in Reachable \ {p}}
      BY <2>2, <1>15
    <2>6. {NodeIn(mem', a) : a \in Reachable} = {NodeIn(mem', a) : a \in Reachable \ {p}} \cup {m}
      BY <1>2, <1>14
    <2> QED
      BY <2>1, <2>4, <2>5, <2>6, <1>12
  <1>19. Refs = [q \in Slot |-> TagIn(mem', root'[q])]
    <2>1. Refs = [q \in Slot |-> TagIn(mem, root[q])]
      BY <1>1 DEF Now
    <2>2. \A q \in Slot : root[q] \in Objects \cup Fixed
      BY <1>1, GoodFacts DEF Plain
    <2> QED
      BY <2>1, <2>2, <1>9
  <1>20. Graph!Becomes(Graph!Replace(n, m), Refs)
    BY <1>10, <1>13, <1>18, <1>19, GraphStep
  <1> QED
    BY <1>10, <1>17, <1>20 DEF m, n, p

\* What a root refers to, and what that object refers to, is reached.
LEMMA ReachedWords ==
  ASSUME IInv, TagInv, Running
  PROVE  /\ \A v \in Slot : root[v] \in Reachable \cup Fixed
         /\ \A r \in Slot : IsAddr(root[r]) =>
               LET o == Obj(mem, root[r])
               IN  /\ root[r] \in Reachable
                   /\ o = At(root[r]) /\ o \in Object /\ WellFormed(o) /\ o.kind # "FWD"
                   /\ \A k \in Follows(o) : o.w[k] \in Reachable \cup Fixed
  <1>1. Now /\ Plain /\ Reachable \subseteq Objects /\ Rooted(Reachable) /\ Members
    BY NowFacts, PlainFacts, MembersFacts DEF Now
  <1>2. \A v \in Slot : root[v] \in Reachable \cup Fixed
    BY <1>1 DEF Plain, Rooted
  <1>3. ASSUME NEW a \in Reachable
        PROVE  /\ Obj(mem, a) = At(a) /\ At(a) \in Object /\ WellFormed(At(a)) /\ At(a).kind # "FWD"
               /\ \A k \in Follows(Obj(mem, a)) : Obj(mem, a).w[k] \in Reachable \cup Fixed
    <2>1. a \in Objects /\ Obj(mem, a) = At(a)
      BY <1>1 DEF Obj, At
    <2>2. At(a) \in Object /\ WellFormed(At(a)) /\ At(a).kind # "FWD"
      BY <2>1, <1>1, GoodFacts DEF Members
    <2>3. {Obj(mem, a).w[k] : k \in Follows(Obj(mem, a))} \ Fixed \subseteq Reachable
      BY <2>1, <1>1 DEF Plain, Rooted
    <2> QED
      BY <2>1, <2>2, <2>3
  <1>4. \A r \in Slot : IsAddr(root[r]) => root[r] \in Reachable
    BY <1>2, FixedFacts DEF IsAddr
  <1> QED
    BY <1>2, <1>3, <1>4

LEMMA MarkGraph ==
  ASSUME IInv, TagInv, IInv', NEW r \in Slot, Running, IsAddr(root[r]),
         NEW before, NEW after, <<before, after>> \in {<<"THUNK", "BLACKHOLE">>, <<"BLACKHOLE", "THUNK">>},
         At(root[r]).kind = before, Rewrite(root[r], [At(root[r]) EXCEPT !.kind = after]),
         UNCHANGED <<root, born, heap, phase>>
  PROVE  TagInv' /\ Graph!GNext
  <1> DEFINE o == Obj(mem, root[r])
             x == [o EXCEPT !.kind = after]
             n == NodeIn(mem, root[r])
             m == [tag |-> x.tag, kind |-> x.kind,
                   refs |-> {<<k, TagIn(mem, x.w[k])>> : k \in Follows(x)}]
  <1>1. /\ o = At(root[r]) /\ o \in Object /\ \A k \in Follows(o) : o.w[k] \in Reachable \cup Fixed
    BY ReachedWords
  <1>2. Rewrite(root[r], x)
    BY <1>1
  <1>3. o.kind = before
    BY <1>1
  <1> HIDE DEF o
  <1>4. x.kind = after /\ x.w = o.w /\ x.tag = o.tag
    BY <1>1 DEF Object
  <1>5. Follows(x) = Follows(o)
    BY <1>3, <1>4 DEF Follows
  <1> HIDE DEF x
  <1>6. x.tag = Obj(mem, root[r]).tag /\ x.kind # "FWD" /\ \A k \in Follows(x) : x.w[k] \in Reachable \cup Fixed
    BY <1>1, <1>4, <1>5 DEF o
  <1>7. TagInv' /\ n \in Seen /\ Graph!Becomes(Graph!Replace(n, m), Refs)
    BY <1>2, <1>6, RewriteGraph
  <1>8. n = [tag |-> o.tag, kind |-> o.kind, refs |-> {<<k, TagIn(mem, o.w[k])>> : k \in Follows(o)}]
    BY DEF NodeIn, o
  <1> HIDE DEF n
  <1>9. m = [n EXCEPT !.kind = after] /\ n.kind = before
    BY <1>3, <1>4, <1>5, <1>8
  <1> HIDE DEF m
  <1>10. Graph!Mark(n, before, after)
    BY <1>7, <1>9 DEF Graph!Mark, Refs
  <1> QED
    BY <1>7, <1>10 DEF Graph!GNext

LEMMA IndirectGraph ==
  ASSUME IInv, TagInv, IInv', NEW r \in Slot, NEW v \in Slot, Running, IsAddr(root[r]),
         At(root[r]).kind \in {"BLACKHOLE", "STR"},
         NEW x, x.tag = At(root[r]).tag, x.kind = "IND", x.w[1] = root[v], Rewrite(root[r], x),
         UNCHANGED <<root, born, heap, phase>>
  PROVE  TagInv' /\ Graph!GNext
  <1> DEFINE o == Obj(mem, root[r])
             n == NodeIn(mem, root[r])
             m == [tag |-> x.tag, kind |-> x.kind,
                   refs |-> {<<k, TagIn(mem, x.w[k])>> : k \in Follows(x)}]
  <1>1. o = At(root[r]) /\ root[v] \in Reachable \cup Fixed
    BY ReachedWords
  <1>2. Follows(x) = {1}
    BY DEF Follows
  <1>3. TagInv' /\ n \in Seen /\ Graph!Becomes(Graph!Replace(n, m), Refs)
    BY <1>1, <1>2, RewriteGraph
  <1>4. n = [tag |-> o.tag, kind |-> o.kind, refs |-> {<<k, TagIn(mem, o.w[k])>> : k \in Follows(o)}]
    BY DEF NodeIn
  <1>5. Refs[v] = TagIn(mem, root[v]) /\ o.tag = x.tag /\ o.kind \in {"BLACKHOLE", "STR"}
    BY <1>1, NowFacts DEF Now
  <1> HIDE DEF n, o
  <1>6. m = [n EXCEPT !.kind = "IND", !.refs = {<<1, Refs[v]>>}] /\ n.kind \in {"BLACKHOLE", "STR"}
    <2> DEFINE old == {<<k, TagIn(mem, o.w[k])>> : k \in Follows(o)}
               new == {<<k, TagIn(mem, x.w[k])>> : k \in Follows(x)}
    <2>1. new = {<<1, Refs[v]>>}
      BY <1>2, <1>5
    <2>2. n = [tag |-> o.tag, kind |-> o.kind, refs |-> old]
      BY <1>4
    <2>3. m = [tag |-> x.tag, kind |-> x.kind, refs |-> new]
      OBVIOUS
    <2> HIDE DEF old, new, m
    <2>4. o.tag = x.tag /\ x.kind = "IND" /\ o.kind \in {"BLACKHOLE", "STR"}
      BY <1>5
    <2>5. m = [tag |-> o.tag, kind |-> "IND", refs |-> new]
      BY <2>3, <2>4
    <2>6. [n EXCEPT !.kind = "IND", !.refs = new] = [tag |-> o.tag, kind |-> "IND", refs |-> new]
          /\ n.kind = o.kind
      <3> DEFINE y == [n EXCEPT !.kind = "IND"]
      <3>1. y = [tag |-> o.tag, kind |-> "IND", refs |-> old] /\ n.kind = o.kind
        BY <2>2
      <3> HIDE DEF y
      <3>2. [y EXCEPT !.refs = new] = [tag |-> o.tag, kind |-> "IND", refs |-> new]
        BY <3>1
      <3> QED
        BY <3>1, <3>2 DEF y
    <2> QED
      BY <2>1, <2>4, <2>5, <2>6
  <1> HIDE DEF m
  <1>7. Graph!Indirect(n, Refs[v])
    BY <1>3, <1>6 DEF Graph!Indirect, Refs
  <1> QED
    BY <1>3, <1>7 DEF Graph!GNext, Refs

LEMMA AssignGraph ==
  ASSUME IInv, TagInv, IInv', NEW r \in Slot, NEW v \in Slot, NEW i, Store(r, i, v)
  PROVE  TagInv' /\ Graph!GNext
  <1> DEFINE o == Obj(mem, root[r])
             n == NodeIn(mem, root[r])
  <1>1. /\ Running /\ IsAddr(root[r]) /\ At(root[r]).kind \in {"CON", "ENV", "PAP"} /\ i \in Follows(At(root[r]))
        /\ (At(root[r]).kind = "PAP" => i # 1)
        /\ UNCHANGED <<root, born, heap, phase>>
    BY DEF Store, spaceVars, mutVars, gcVars
  <1>2. PICK x : x = [At(root[r]) EXCEPT !.w[i] = root[v]] /\ Rewrite(root[r], x)
    BY Zenon DEF Store
  <1>3. /\ o = At(root[r]) /\ o \in Object /\ WellFormed(o) /\ o.kind # "FWD"
        /\ \A k \in Follows(o) : o.w[k] \in Reachable \cup Fixed
        /\ root[v] \in Reachable \cup Fixed
    BY <1>1, ReachedWords
  <1>4. o.kind \in {"CON", "ENV", "PAP"} /\ (o.kind = "PAP" => i # 1) /\ i \in Follows(o) /\ x = [o EXCEPT !.w[i] = root[v]]
    BY <1>1, <1>2, <1>3
  <1> HIDE DEF o
  <1>5. o.w \in Seq(Word) /\ DOMAIN o.w = 1 .. Len(o.w) /\ Follows(o) \subseteq 1 .. Len(o.w)
    BY <1>3, ObjectParts, FieldsScanned
  <1>6. PICK w : w = [o.w EXCEPT ![i] = root[v]]
    OBVIOUS
  <1>7. x.kind = o.kind /\ x.tag = o.tag /\ x.w = w
    BY <1>3, <1>4, <1>6 DEF Object
  <1>8. DOMAIN w = DOMAIN o.w /\ \A k \in 1 .. Len(o.w) : w[k] = IF k = i THEN root[v] ELSE o.w[k]
    BY <1>5, <1>6
  <1>9. Follows(x) = Follows(o)
    BY <1>7, <1>8, SameFollows
  <1>10. \A k \in Follows(o) : x.w[k] = IF k = i THEN root[v] ELSE o.w[k]
    BY <1>5, <1>7, <1>8
  <1> DEFINE m == [tag |-> x.tag, kind |-> x.kind,
                   refs |-> {<<k, TagIn(mem, x.w[k])>> : k \in Follows(x)}]
  <1>11. x.tag = Obj(mem, root[r]).tag /\ x.kind # "FWD" /\ \A k \in Follows(x) : x.w[k] \in Reachable \cup Fixed
    BY <1>3, <1>7, <1>9, <1>10 DEF o
  <1>12. TagInv' /\ n \in Seen /\ Graph!Becomes(Graph!Replace(n, m), Refs)
    <2>1. Rewrite(root[r], x) /\ Running /\ IsAddr(root[r]) /\ UNCHANGED <<root, born, heap, phase>>
      BY <1>1, <1>2
    <2> QED
      BY <2>1, <1>11, RewriteGraph
  <1>13. n = [tag |-> o.tag, kind |-> o.kind, refs |-> {<<k, TagIn(mem, o.w[k])>> : k \in Follows(o)}]
    BY DEF NodeIn, o
  <1>14. Refs[v] = TagIn(mem, root[v])
    BY NowFacts DEF Now
  <1> HIDE DEF n
  <1> DEFINE f == <<i, TagIn(mem, o.w[i])>>
             old == {<<k, TagIn(mem, o.w[k])>> : k \in Follows(o)}
             new == {<<k, TagIn(mem, x.w[k])>> : k \in Follows(x)}
  <1>15. f \in old /\ new = (old \ {f}) \cup {<<i, Refs[v]>>}
    <2>1. \A k \in Follows(o) : TagIn(mem, x.w[k]) = IF k = i THEN Refs[v] ELSE TagIn(mem, o.w[k])
      BY <1>10, <1>14
    <2>2. new = {<<k, IF k = i THEN Refs[v] ELSE TagIn(mem, o.w[k])>> : k \in Follows(o)}
      BY <2>1, <1>9
    <2>3. ASSUME NEW k \in Follows(o), k # i PROVE <<k, TagIn(mem, o.w[k])>> \in old \ {f}
      BY <2>3
    <2>4. ASSUME NEW p \in old \ {f} PROVE p \in new
      <3>1. PICK k \in Follows(o) : p = <<k, TagIn(mem, o.w[k])>>
        BY <2>4
      <3>2. k # i
        BY <3>1, <2>4
      <3> QED
        BY <3>1, <3>2, <2>2
    <2>5. ASSUME NEW p \in new PROVE p \in (old \ {f}) \cup {<<i, Refs[v]>>}
      <3>1. PICK k \in Follows(o) : p = <<k, IF k = i THEN Refs[v] ELSE TagIn(mem, o.w[k])>>
        BY <2>2, <2>5
      <3> QED
        BY <3>1, <2>3
    <2>6. <<i, Refs[v]>> \in new /\ f \in old
      BY <2>2, <1>4
    <2> HIDE DEF old, new, f
    <2> QED
      BY <2>4, <2>5, <2>6
  <1> HIDE DEF old, new, f
  <1>16. n.refs = old /\ n.kind = o.kind /\ m = [n EXCEPT !.refs = new]
    <2>1. n.refs = old /\ n.kind = o.kind
      BY <1>13 DEF old
    <2>2. m = [tag |-> o.tag, kind |-> o.kind, refs |-> new]
      BY <1>7 DEF new
    <2> HIDE DEF m
    <2> QED
      BY <2>1, <2>2, <1>13
  <1>17. m = [n EXCEPT !.refs = (@ \ {f}) \cup {<<f[1], Refs[v]>>}]
    <2>1. f[1] = i
      BY DEF f
    <2> HIDE DEF m
    <2> QED
      BY <2>1, <1>13, <1>15, <1>16
  <1> HIDE DEF m
  <1>18. Graph!Assign(n, f, Refs[v])
    <2>1. f[1] = i
      BY DEF f
    <2> QED
      BY <2>1, <1>4, <1>12, <1>16, <1>17 DEF Graph!Assign, Refs
  <1>19. f \in n.refs
    BY <1>15, <1>16
  <1> QED
    BY <1>1, <1>12, <1>18, <1>19 DEF Graph!GNext, Refs

LEMMA NodesTargets ==
  ASSUME IInv, TagInv, NEW a \in Objects
  PROVE  /\ NodeIn(mem, a).tag = Obj(mem, a).tag
         /\ Graph!Targets(NodeIn(mem, a)) = {Obj(mem, c).tag : c \in Successors(a)}
  <1>1. NodeOf(At(a)) = NodeIn(mem, a) /\ \A c : At(c) = Obj(mem, c)
    BY DEF NodeOf, NodeIn, At, Obj, Tag, TagIn
  <1>2. Graph!Targets(NodeOf(At(a))) = {At(c).tag : c \in Successors(a)} /\ NodeOf(At(a)).tag = At(a).tag
    BY TargetsFacts
  <1> QED
    BY <1>1, <1>2

LEMMA LoadGraph ==
  ASSUME IInv, TagInv, IInv', NEW r \in Slot, NEW p \in Loadable, Move(r, p)
  PROVE  TagInv' /\ Graph!GNext
  <1>1. Running /\ root' = [root EXCEPT ![r] = p] /\ UNCHANGED <<mem, born, heap, phase>>
    BY DEF Move, spaceVars, mutVars, gcVars
  <1>2. /\ Now /\ Plain /\ Plain' /\ Running' /\ ~Copying'
        /\ InUse = {heap} /\ InUse' = {heap} /\ Members /\ Members'
    BY <1>1, RunBoth
  <1>0. mem' = mem /\ born' = born
    BY <1>1
  <1>3. Objects' = Objects
    <2>1. \A a : a \in Objects <=> a \in Addr /\ a[1] = heap /\ a[2] <= Len(mem[heap])
                                   /\ Obj(mem, a).kind # "FWD"
      BY <1>2 DEF Members
    <2>2. \A a : a \in Objects' <=> a \in Addr /\ a[1] = heap /\ a[2] <= Len(mem'[heap])
                                    /\ Obj(mem', a).kind # "FWD"
      BY <1>2 DEF Members
    <2>3. \A a : a \in Objects' <=> a \in Objects
      BY <2>1, <2>2, <1>0
    <2> QED
      BY <2>3
  <1>4. TagInv'
    <2>1. \A a : At(a)' = At(a)
      BY <1>0 DEF At
    <2> QED
      BY <2>1, <1>0, <1>2, <1>3 DEF TagInv
  <1>5. root \in [Slot -> Ptr]
    BY <1>1, RunFacts DEF TypeOK
  <1>6. p \in {root[q] : q \in Slot} \cup Fixed \/
        \E q \in Slot : IsAddr(root[q]) /\ \E i \in Follows(Obj(mem, root[q])) : p = Obj(mem, root[q]).w[i]
    <2>1. \A a : At(a) = Obj(mem, a)
      BY DEF At, Obj
    <2>2. CASE p \in {NULL} \cup Static \cup {root[q] : q \in Slot}
      BY <2>2 DEF Fixed
    <2>3. CASE p \notin {NULL} \cup Static \cup {root[q] : q \in Slot}
      <3>1. PICK q \in Slot : IsAddr(root[q]) /\ p \in {At(root[q]).w[i] : i \in Follows(At(root[q]))}
        BY <2>3 DEF Loadable
      <3> QED
        BY <3>1, <2>1
    <2> QED
      BY <2>2, <2>3
  <1>7. p \in Reachable \cup Fixed
    BY <1>1, <1>6, ReachedWords
  <1>8. PICK H : H = Reachable
    OBVIOUS
  <1>9. H \subseteq Objects' /\ Rooted(H)'
    <2>1. Starts' \subseteq H
      <3>1. Starts' = {root'[q] : q \in Slot} \ Fixed
        BY <1>2 DEF Plain
      <3>2. \A q \in Slot : root'[q] \in Reachable \cup Fixed
        BY <1>1, <1>5, <1>7, ReachedWords
      <3> QED
        BY <3>1, <3>2, <1>8
    <2>2. ASSUME NEW a \in H PROVE Successors(a)' \subseteq H
      <3>1. a \in Objects /\ a \in Objects'
        BY <1>2, <1>3, <1>8 DEF Now
      <3>2. Successors(a)' = Successors(a)
        <4>1. Successors(a)' = {Obj(mem', a).w[k] : k \in Follows(Obj(mem', a))} \ Fixed
          BY <3>1, <1>2 DEF Plain
        <4>2. Successors(a) = {Obj(mem, a).w[k] : k \in Follows(Obj(mem, a))} \ Fixed
          BY <3>1, <1>1, <1>2 DEF Plain
        <4> QED
          BY <4>1, <4>2, <1>0
      <3> QED
        BY <3>2, <1>2, <1>8 DEF Now, Rooted
    <2> QED
      BY <2>1, <2>2, <1>2, <1>3, <1>8 DEF Rooted, Now
  <1> DEFINE f == [q \in Slot |-> TagIn(mem', root'[q])]
  <1>10. Seen = {NodeIn(mem', a) : a \in H}
    BY <1>1, <1>2, <1>8 DEF Now
  <1>11. Graph!Becomes(Seen, f)
    <2> HIDE DEF f
    <2>1. f = [q \in Slot |-> TagIn(mem', root'[q])]
      BY DEF f
    <2> QED
      BY <2>1, <1>4, <1>9, <1>10, GraphStep
  <1>12. f = [Refs EXCEPT ![r] = f[r]] /\ f[r] = TagIn(mem, p)
    BY <1>1, <1>2, <1>5 DEF Now
  <1>13. f[r] \in Fixed \cup {Refs[q] : q \in Slot}
         \/ \E n \in Seen : f[r] \in Graph!Targets(n) /\ \E q \in Slot : Refs[q] = n.tag
    <2>1. CASE p \in Fixed
      BY <2>1, <1>12, FixedFacts DEF TagIn, IsAddr
    <2>2. CASE p \in {root[q] : q \in Slot}
      BY <2>2, <1>2, <1>12 DEF Now
    <2>3. CASE p \notin Fixed /\ p \notin {root[q] : q \in Slot}
      <3>1. PICK q \in Slot : IsAddr(root[q]) /\ \E i \in Follows(Obj(mem, root[q])) : p = Obj(mem, root[q]).w[i]
        BY <2>3, <1>6
      <3>2. root[q] \in Reachable /\ root[q] \in Objects
        BY <3>1, <1>1, <1>2, ReachedWords DEF Now
      <3>3. p \in Successors(root[q])
        BY <2>3, <3>1, <3>2, <1>1, <1>2 DEF Plain
      <3>4. Obj(mem, p).tag \in Graph!Targets(NodeIn(mem, root[q]))
            /\ NodeIn(mem, root[q]).tag = Obj(mem, root[q]).tag
        BY <3>2, <3>3, NodesTargets
      <3>5. NodeIn(mem, root[q]) \in Seen /\ Refs[q] = Obj(mem, root[q]).tag
        BY <3>1, <3>2, <1>2 DEF Now, TagIn
      <3>6. f[r] = Obj(mem, p).tag
        <4>1. p \in Addr
          BY <2>3, <1>2, <1>7 DEF Now, Members
        <4> QED
          BY <4>1, <1>12 DEF TagIn, IsAddr
      <3> QED
        BY <3>4, <3>5, <3>6
    <2> QED
      BY <2>1, <2>2, <2>3
  <1> HIDE DEF f
  <1>14. Graph!Load(r, f[r])
    BY <1>11, <1>12, <1>13 DEF Graph!Load, Graph!Leaf, Refs, Fixed
  <1>15. Refs' = f
    <2>1. Now'
      BY <1>4, NowFacts, PTL
    <2> QED
      BY <2>1 DEF Now, f
  <1> QED
    BY <1>1, <1>4, <1>14, <1>15 DEF Graph!GNext, Refs

LEMMA NewGraph ==
  ASSUME IInv, TagInv, IInv', NEW s \in Shape, NEW r \in Slot, NEW w \in Payload(s), Alloc(s, w, r)
  PROVE  TagInv' /\ Graph!GNext
  <1> DEFINE o == [kind |-> s.kind, w |-> w, tag |-> born + 1]
             len == Len(mem[heap])
             q == <<heap, len + 1>>
  <1>1. /\ Running /\ born < MaxBorn /\ born' = born + 1
        /\ mem' = [mem EXCEPT ![heap] = Append(@, o)]
        /\ root' = [root EXCEPT ![r] = q]
        /\ UNCHANGED <<heap, phase>>
    BY DEF Alloc, gcVars
  <1>2. /\ Now /\ Plain /\ Plain' /\ Running' /\ ~Copying'
        /\ InUse = {heap} /\ InUse' = {heap} /\ Members /\ Members'
    BY <1>1, RunBoth
  <1>3. /\ mem \in [Space -> Seq(Object)] /\ heap \in Space /\ len \in Nat /\ born \in Nat
        /\ root \in [Slot -> Ptr]
    <2>1. TypeOK
      BY <1>1, RunFacts
    <2>2. mem \in [Space -> Seq(Object)] /\ heap \in Space /\ born \in Nat /\ root \in [Slot -> Ptr]
      BY <2>1 DEF TypeOK
    <2> QED
      BY <2>2
  <1>4. /\ o.kind = s.kind /\ o.w = w /\ o.tag = born + 1
        /\ s.kind \in Kinds /\ s.size \in Nat \ {0} /\ s.kind \notin {"FWD", "IND", "BLACKHOLE"}
        /\ (s.kind \in {"FUN", "THUNK", "STR"} => s.size = 2)
    BY ShapeAssumption
  <1>5. w \in Seq(Word) /\ Len(w) = s.size /\ DOMAIN w = 1 .. s.size
    <2>1. {root[v] : v \in Slot} \cup {NULL, Data} \subseteq Word
      BY <1>3 DEF Word, Ptr
    <2>2. w \in [1 .. s.size -> {root[v] : v \in Slot} \cup {NULL, Data}]
      BY DEF Payload
    <2> QED
      BY <2>1, <2>2, <1>4
  <1>6. o \in Object /\ WellFormed(o)
    BY <1>3, <1>4, <1>5 DEF Object, WellFormed
  <1>7. \A k \in Follows(o) : w[k] \in {root[v] : v \in Slot} \cup {NULL}
    <2> DEFINE blank == [kind |-> s.kind, w |-> [i \in 1 .. s.size |-> Data]]
    <2>1. Follows(o) = Follows(blank)
      BY <1>5, SameFollows
    <2>2. \A i \in 1 .. s.size : (w[i] = Data) <=> (i \notin Follows(blank))
      BY DEF Payload
    <2>3. \A i \in 1 .. s.size : w[i] \in {root[v] : v \in Slot} \cup {NULL, Data}
      BY DEF Payload
    <2>4. Follows(o) \subseteq 1 .. s.size
      BY <1>5, <1>6, FieldsScanned
    <2> HIDE DEF blank, o
    <2> QED
      BY <2>1, <2>2, <2>3, <2>4
  <1> HIDE DEF o
  <1>8. /\ Len(mem'[heap]) = len + 1 /\ mem'[heap][len + 1] = o
        /\ \A i \in 1 .. len : mem'[heap][i] = mem[heap][i]
    BY <1>1, <1>3, <1>6
  <1> HIDE DEF len
  <1>9. q \in Addr /\ q[1] = heap /\ q[2] = len + 1 /\ Obj(mem', q) = o
    BY <1>3, <1>8 DEF Addr, Obj
  <1> HIDE DEF q
  <1>10. ASSUME NEW a \in Addr, a[1] = heap
         PROVE  /\ a[2] <= Len(mem[heap]) => Obj(mem', a) = Obj(mem, a) /\ a[2] <= Len(mem'[heap])
                /\ a[2] <= Len(mem'[heap]) => a[2] <= Len(mem[heap]) \/ a = q
    <2>1. a = <<a[1], a[2]>> /\ a[2] \in Nat /\ a[2] > 0 /\ len = Len(mem[heap])
      BY DEF Addr, len
    <2>2. ASSUME a[2] <= len PROVE Obj(mem', a) = Obj(mem, a) /\ a[2] <= Len(mem'[heap])
      <3>1. a[2] \in 1 .. len
        BY <2>1, <2>2, <1>3
      <3> QED
        BY <3>1, <1>3, <1>8, <1>10 DEF Obj
    <2>3. ASSUME a[2] <= Len(mem'[heap]), ~(a[2] <= len) PROVE a = q
      <3>1. a[2] = len + 1
        BY <2>1, <2>3, <1>3, <1>8
      <3> QED
        BY <3>1, <2>1, <1>10 DEF q
    <2> QED
      BY <2>1, <2>2, <2>3
  <1>11. /\ q \notin Objects /\ Objects' = Objects \cup {q}
         /\ \A a \in Objects : Obj(mem', a) = Obj(mem, a) /\ a # q
    <2>1. \A a : a \in Objects <=> a \in Addr /\ a[1] = heap /\ a[2] <= Len(mem[heap])
                                   /\ Obj(mem, a).kind # "FWD"
      BY <1>2 DEF Members
    <2>2. \A a : a \in Objects' <=> a \in Addr /\ a[1] = heap /\ a[2] <= Len(mem'[heap])
                                    /\ Obj(mem', a).kind # "FWD"
      BY <1>2 DEF Members
    <2>3. q \notin Objects
      BY <2>1, <1>3, <1>9 DEF len
    <2>4. q \in Objects'
      BY <2>2, <1>3, <1>4, <1>8, <1>9
    <2>5. \A a : a \in Objects' <=> a \in Objects \/ a = q
      BY <2>1, <2>2, <2>3, <2>4, <1>10
    <2> QED
      BY <2>1, <2>3, <2>5, <1>10
  <1>12. Obj(mem', q).tag = born + 1 /\ \A a \in Objects : Obj(mem, a).tag \in 1 .. born
    <2>1. \A a : At(a) = Obj(mem, a)
      BY DEF At, Obj
    <2> QED
      BY <2>1, <1>4, <1>9 DEF TagInv
  <1>13. TagInv'
    <2>1. \A a : At(a)' = Obj(mem', a)
      BY DEF At, Obj
    <2>2. born' <= MaxBorn
      BY <1>1, <1>3, SizeAssumption
    <2>3. \A a \in Objects' : Obj(mem', a).tag \in 1 .. born'
      <3> SUFFICES ASSUME NEW a \in Objects' PROVE Obj(mem', a).tag \in 1 .. born'
        OBVIOUS
      <3>1. born' = born + 1 /\ born \in Nat
        BY <1>1, <1>3
      <3>2. CASE a = q
        BY <3>1, <3>2, <1>12
      <3>3. CASE a # q
        <4>1. Obj(mem', a).tag \in 1 .. born
          BY <3>3, <1>11, <1>12
        <4> QED
          BY <3>1, <4>1
      <3> QED
        BY <3>2, <3>3
    <2>4. ASSUME NEW a \in Objects', NEW c \in Objects', Obj(mem', a).tag = Obj(mem', c).tag
          PROVE  a = c
      <3>1. born + 1 \notin 1 .. born
        BY <1>3
      <3> QED
        BY <3>1, <2>4, <1>2, <1>11, <1>12 DEF Now
    <2> QED
      BY <2>1, <2>2, <2>3, <2>4, <1>2 DEF TagInv
  <1>14. \A v \in Slot : root[v] \in Reachable \cup Fixed
    BY <1>1, ReachedWords
  <1>15. PICK H : H = Reachable \cup {q}
    OBVIOUS
  <1>16. \A v \in Slot : root'[v] = IF v = r THEN q ELSE root[v]
    BY <1>1, <1>3
  <1>17. H \subseteq Objects' /\ Rooted(H)' /\ q \in Starts'
    <2>1. Starts' = {root'[v] : v \in Slot} \ Fixed
      BY <1>2 DEF Plain
    <2>2. q \notin Fixed
      BY <1>9, FixedFacts
    <2>3. Starts' \subseteq H /\ q \in Starts'
      BY <2>1, <2>2, <1>14, <1>15, <1>16
    <2>4. ASSUME NEW a \in H PROVE Successors(a)' \subseteq H
      <3>1. a \in Objects'
        BY <1>2, <1>11, <1>15 DEF Now
      <3>2. Successors(a)' = {Obj(mem', a).w[k] : k \in Follows(Obj(mem', a))} \ Fixed
        BY <3>1, <1>2 DEF Plain
      <3>3. CASE a = q
        <4>1. Successors(a)' = {w[k] : k \in Follows(o)} \ Fixed
          BY <3>2, <3>3, <1>4, <1>9
        <4>2. NULL \in Fixed
          BY DEF Fixed
        <4> QED
          BY <4>1, <4>2, <1>7, <1>14, <1>15
      <3>4. CASE a # q
        <4>1. a \in Reachable /\ a \in Objects
          BY <3>4, <1>2, <1>15 DEF Now
        <4>2. Successors(a) = {Obj(mem, a).w[k] : k \in Follows(Obj(mem, a))} \ Fixed
          BY <4>1, <1>1, <1>2 DEF Plain
        <4>3. Successors(a)' = Successors(a)
          BY <3>2, <4>1, <4>2, <1>11
        <4> QED
          BY <4>1, <4>3, <1>2, <1>15 DEF Now, Rooted
      <3> QED
        BY <3>3, <3>4
    <2> QED
      BY <2>3, <2>4, <1>2, <1>11, <1>15 DEF Rooted, Now
  <1>18. ASSUME NEW y \in Objects \cup Fixed PROVE TagIn(mem', y) = TagIn(mem, y)
    BY <1>11, FixedFacts DEF TagIn, IsAddr
  <1> DEFINE n == NodeIn(mem', q)
             f == [v \in Slot |-> TagIn(mem', root'[v])]
             g == Seen \cup {n}
  <1>19. g = {NodeIn(mem', a) : a \in H}
    <2>1. ASSUME NEW a \in Reachable PROVE NodeIn(mem', a) = NodeIn(mem, a)
      <3>1. a \in Objects /\ Obj(mem', a) = Obj(mem, a)
        BY <1>2, <1>11 DEF Now
      <3>2. \A k \in Follows(Obj(mem, a)) : Obj(mem, a).w[k] \in Objects \cup Fixed
        BY <3>1, <1>1, <1>2, GoodWords DEF Plain
      <3> QED
        BY <3>1, <3>2, <1>18, SameNode
    <2>2. Seen = {NodeIn(mem, a) : a \in Reachable}
      BY <1>2 DEF Now
    <2>3. {NodeIn(mem', a) : a \in H} = {NodeIn(mem', a) : a \in Reachable} \cup {NodeIn(mem', q)}
      BY <1>15
    <2>4. {NodeIn(mem', a) : a \in Reachable} = {NodeIn(mem, a) : a \in Reachable}
      BY <2>1
    <2> QED
      BY <2>2, <2>3, <2>4
  <1>20. Graph!Becomes(g, f) /\ n \in Seen'
    <2> HIDE DEF f, g
    <2>1. f = [v \in Slot |-> TagIn(mem', root'[v])]
      BY DEF f
    <2> QED
      BY <2>1, <1>13, <1>17, <1>19, GraphStep
  <1>21. f = [Refs EXCEPT ![r] = born']
    <2>1. Refs = [v \in Slot |-> TagIn(mem, root[v])]
      BY <1>2 DEF Now
    <2>2. ASSUME NEW v \in Slot PROVE f[v] = IF v = r THEN born' ELSE Refs[v]
      <3>1. CASE v = r
        BY <3>1, <1>1, <1>9, <1>12, <1>16 DEF TagIn, IsAddr
      <3>2. CASE v # r
        <4>1. root'[v] = root[v] /\ root[v] \in Objects \cup Fixed
          BY <3>2, <1>2, <1>14, <1>16 DEF Now
        <4> QED
          BY <4>1, <3>2, <2>1, <1>18
      <3> QED
        BY <3>1, <3>2
    <2> QED
      BY <2>1, <2>2
  <1>22. n.tag = born' /\ \A p \in n.refs : p[2] \in {Refs[v] : v \in Slot} \cup {NULL}
    <2>1. n.tag = o.tag /\ n.refs = {<<k, TagIn(mem', o.w[k])>> : k \in Follows(o)}
      BY <1>9 DEF NodeIn
    <2>2. ASSUME NEW k \in Follows(o) PROVE TagIn(mem', o.w[k]) \in {Refs[v] : v \in Slot} \cup {NULL}
      <3>1. CASE w[k] = NULL
        <4>1. NULL \in Fixed
          BY DEF Fixed
        <4> QED
          BY <4>1, <3>1, <1>4, FixedFacts DEF TagIn, IsAddr
      <3>2. CASE w[k] # NULL
        <4>1. PICK v \in Slot : w[k] = root[v]
          BY <3>2, <1>7
        <4>2. TagIn(mem', root[v]) = TagIn(mem, root[v]) /\ Refs[v] = TagIn(mem, root[v])
          BY <1>2, <1>14, <1>18 DEF Now
        <4> QED
          BY <4>1, <4>2, <1>4
      <3> QED
        BY <3>1, <3>2
    <2> HIDE DEF n
    <2>3. n.tag = born'
      BY <2>1, <1>1, <1>4
    <2>4. ASSUME NEW p \in n.refs PROVE p[2] \in {Refs[v] : v \in Slot} \cup {NULL}
      <3>1. PICK k \in Follows(o) : p = <<k, TagIn(mem', o.w[k])>>
        BY <2>1, <2>4
      <3>2. p[2] = TagIn(mem', o.w[k])
        BY <3>1
      <3> QED
        BY <3>2, <2>2
    <2> QED
      BY <2>3, <2>4
  <1> HIDE DEF n, f
  <1>23. Graph!New(r, n)
    BY <1>20, <1>21, <1>22 DEF Graph!New, Refs
  <1> QED
    BY <1>1, <1>13, <1>20, <1>23 DEF Graph!GNext

-----------------------------------------------------------------------------
(* The theorems                                                            *)

\* A step of the mutator is a step of the graph, or keeps what is seen.
LEMMA MutatorGraph ==
  ASSUME IInv, TagInv, IInv', Mutator
  PROVE  TagInv' /\ (Graph!GNext \/ (Seen' = Seen /\ Refs' = Refs /\ born' = born))
  <1>1. ASSUME NEW n \in Needs, Reserve(n)
        PROVE  TagInv' /\ Seen' = Seen /\ Refs' = Refs /\ born' = born
    BY <1>1, ReserveView DEF Reserve
  <1>2. ASSUME NEW s \in Shape, NEW r \in Slot, NEW w \in Payload(s), Alloc(s, w, r)
        PROVE  TagInv' /\ Graph!GNext
    BY <1>2, NewGraph
  <1>3. ASSUME NEW r \in Slot, Enter(r) PROVE TagInv' /\ Graph!GNext
    <2>1. /\ Running /\ IsAddr(root[r]) /\ At(root[r]).kind = "THUNK"
          /\ Rewrite(root[r], [At(root[r]) EXCEPT !.kind = "BLACKHOLE"])
          /\ UNCHANGED <<root, born, heap, phase>>
      BY <1>3 DEF Enter, spaceVars, mutVars, gcVars
    <2> QED
      BY <2>1, MarkGraph
  <1>4. ASSUME NEW r \in Slot, Restore(r) PROVE TagInv' /\ Graph!GNext
    <2>1. /\ Running /\ IsAddr(root[r]) /\ At(root[r]).kind = "BLACKHOLE"
          /\ Rewrite(root[r], [At(root[r]) EXCEPT !.kind = "THUNK"])
          /\ UNCHANGED <<root, born, heap, phase>>
      BY <1>4 DEF Restore, spaceVars, mutVars, gcVars
    <2> QED
      BY <2>1, MarkGraph
  <1>5. ASSUME NEW r \in Slot, NEW v \in Slot, Update(r, v) PROVE TagInv' /\ Graph!GNext
    <2> DEFINE o == At(root[r])
    <2>1. Running /\ IsAddr(root[r]) /\ o.kind = "BLACKHOLE" /\ UNCHANGED <<root, born, heap, phase>>
      BY <1>5 DEF Update, spaceVars, mutVars, gcVars
    <2>2. PICK x : x = [o EXCEPT !.kind = "IND", !.w[1] = root[v], !.w[2] = NULL] /\ Rewrite(root[r], x)
      BY <1>5, Zenon DEF Update
    <2>3. o \in Object /\ WellFormed(o)
      BY <2>1, ReachedWords
    <2> HIDE DEF o
    <2>4. o.w \in Seq(Word) /\ Len(o.w) = 2
      BY <2>1, <2>3, ObjectParts DEF WellFormed
    <2>5. x.kind = "IND" /\ x.tag = o.tag /\ x.w = [[o.w EXCEPT ![1] = root[v]] EXCEPT ![2] = NULL]
      BY <2>2, <2>3 DEF Object
    <2>6. x.w[1] = root[v]
      BY <2>4, <2>5
    <2>7. Rewrite(root[r], x)
      BY <2>2
    <2> QED
      BY <2>1, <2>5, <2>6, <2>7, IndirectGraph DEF o
  <1>6. ASSUME NEW r \in Slot, NEW v \in Slot, Unpack(r, v) PROVE TagInv' /\ Graph!GNext
    <2> DEFINE o == At(root[r])
    <2>1. Running /\ IsAddr(root[r]) /\ o.kind = "STR" /\ UNCHANGED <<root, born, heap, phase>>
      BY <1>6 DEF Unpack, spaceVars, mutVars, gcVars
    <2>2. PICK x : x = [o EXCEPT !.kind = "IND", !.w[1] = root[v]] /\ Rewrite(root[r], x)
      BY <1>6, Zenon DEF Unpack
    <2>3. o \in Object /\ WellFormed(o)
      BY <2>1, ReachedWords
    <2> HIDE DEF o
    <2>4. o.w \in Seq(Word) /\ Len(o.w) = 2
      BY <2>1, <2>3, ObjectParts DEF WellFormed
    <2>5. x.kind = "IND" /\ x.tag = o.tag /\ x.w = [o.w EXCEPT ![1] = root[v]]
      BY <2>2, <2>3 DEF Object
    <2>6. x.w[1] = root[v]
      BY <2>4, <2>5
    <2>7. Rewrite(root[r], x)
      BY <2>2
    <2> QED
      BY <2>1, <2>5, <2>6, <2>7, IndirectGraph DEF o
  <1>7. ASSUME NEW r \in Slot, NEW v \in Slot, NEW i, Store(r, i, v) PROVE TagInv' /\ Graph!GNext
    BY <1>7, AssignGraph
  <1>8. ASSUME NEW r \in Slot, NEW p \in Loadable, Move(r, p) PROVE TagInv' /\ Graph!GNext
    BY <1>8, LoadGraph
  <1> HIDE DEF Graph!GNext
  <1> QED
    BY <1>1, <1>2, <1>3, <1>4, <1>5, <1>6, <1>7, <1>8 DEF Mutator

LEMMA InitGraph == Init => TagInv /\ Graph!GInit
  <1> SUFFICES ASSUME Init PROVE TagInv /\ Graph!GInit
    OBVIOUS
  <1>1. IInv
    BY InitInv
  <1>2. born = 0 /\ phase = "run" /\ heap \in Space /\ mem[heap] = <<>>
        /\ root \in [Slot -> Static \cup {NULL}]
    BY DEF Init
  <1>3. InUse = {heap} /\ ~Copying
    BY <1>2 DEF InUse, Copying, Current
  <1>4. Objects = {}
    <2>1. Len(mem[heap]) = 0
      BY <1>2
    <2>2. \A a : a \in Objects <=> a \in Addr /\ a[1] = heap /\ a[2] <= 0 /\ Obj(mem, a).kind # "FWD"
      BY <2>1, <1>1, <1>3, MembersFacts DEF Members
    <2>3. \A a \in Addr : ~(a[2] <= 0)
      BY DEF Addr
    <2> QED
      BY <2>2, <2>3
  <1>5. TagInv
    BY <1>2, <1>3, <1>4, SizeAssumption DEF TagInv
  <1>6. Seen = {}
    BY <1>1, <1>4, <1>5, NowFacts DEF Now
  <1>7. Refs \in [Slot -> Fixed]
    <2>1. Refs = [r \in Slot |-> TagIn(mem, root[r])]
      BY <1>1, <1>5, NowFacts DEF Now
    <2>2. \A r \in Slot : TagIn(mem, root[r]) \in Fixed
      BY <1>2, FixedFacts DEF TagIn, IsAddr, Fixed
    <2> QED
      BY <2>1, <2>2
  <1> QED
    BY <1>2, <1>5, <1>6, <1>7 DEF Graph!GInit, Graph!Leaf, Refs, Fixed

LEMMA NextGraph == GraphInv /\ [Next]_vars => GraphInv' /\ [Graph!GNext]_(Graph!gvars)
  <1> SUFFICES ASSUME GraphInv, [Next]_vars PROVE GraphInv' /\ [Graph!GNext]_(Graph!gvars)
    OBVIOUS
  <1>1. FullInv' /\ IInv /\ IInv' /\ TagInv
    BY NextFull DEF GraphInv, FullInv
  <1>2. CASE Mutator
    BY <1>1, <1>2, MutatorGraph DEF GraphInv, Graph!gvars, Refs
  <1>3. CASE Collector
    <2>1. TagInv' /\ Seen' = Seen /\ Refs' = Refs
      BY <1>1, <1>3, CollectorView
    <2>2. born' = born
      <3>1. CASE Begin
        BY <3>1 DEF Begin, mutVars
      <3>2. CASE CopyRoot
        BY <3>2 DEF CopyRoot, mutVars
      <3>3. CASE StartScan
        BY <3>3 DEF StartScan, mutVars
      <3>4. CASE ScanField
        BY <3>4 DEF ScanField, mutVars
      <3>5. CASE NextObject
        BY <3>5 DEF NextObject, mutVars
      <3>6. CASE Finish
        BY <3>6 DEF Finish, mutVars
      <3>7. CASE Again
        BY <3>7 DEF Again, mutVars
      <3> QED
        BY <1>3, <3>1, <3>2, <3>3, <3>4, <3>5, <3>6, <3>7 DEF Collector
    <2> QED
      BY <1>1, <2>1, <2>2 DEF GraphInv, Graph!gvars, Refs
  <1>4. CASE UNCHANGED vars
    <2>1. UNCHANGED <<mem, root, born, from, to, heap>> /\ Copying' = Copying /\ Current' = Current
      BY <1>4 DEF vars, Copying, Current
    <2>2. TagInv' /\ Seen' = Seen /\ Refs' = Refs /\ born' = born
      BY <1>1, <2>1, SameMemoryView
    <2> QED
      BY <1>1, <2>2 DEF GraphInv, Graph!gvars, Refs
  <1> QED
    BY <1>2, <1>3, <1>4 DEF Next, Undefined

\* The inductive invariant of the refinement: every object that was made and is
\* still somewhere is in one place, under the tag it was given, and a forwarding
\* pointer leads to the object it was left for (copy, gc).
THEOREM GraphInvariance == Spec => []GraphInv
  <1>1. Init => GraphInv
    BY InitFull, InitGraph DEF GraphInv
  <1> QED
    BY <1>1, NextGraph, PTL DEF Spec

\* The heap implements the object graph, for every number of roots, spaces and
\* objects and every size: what a program can see of its objects is changed by
\* what the program does and never by gc().
THEOREM Refines == Spec => RefinesGraph
  <1>1. Init => GraphInv /\ Graph!GInit
    BY InitFull, InitGraph DEF GraphInv
  <1> QED
    BY <1>1, NextGraph, PTL DEF Spec, RefinesGraph, Graph!GSpec
=============================================================================
