----------------------------- MODULE HeapProofs -----------------------------
(***************************************************************************)
(* Proofs about the heap, for every number of roots, spaces and objects    *)
(* and every size: no pointer dangles, the heap never runs over the block  *)
(* that holds it, a collection copies nothing but what the roots reach,    *)
(* and it ends.                                                            *)
(***************************************************************************)
EXTENDS HeapInv, SequenceTheorems, FiniteSetTheorems, Induction, TLAPS

\* The collector scans exactly what the evaluator follows (pointer_fields).
LEMMA FieldsScanned ==
    ASSUME NEW o \in Object, WellFormed(o)
    PROVE  PointerFields(o) = Follows(o) /\ Follows(o) \subseteq 1 .. Len(o.w)
<1>1. Len(o.w) \in Nat /\ DOMAIN o.w = 1 .. Len(o.w) /\ o.kind \in Kinds
  BY DEF Object
<1>2. CASE o.kind \in {"FUN", "THUNK", "BLACKHOLE"}
  <2>1. Follows(o) = {2}
    BY <1>2 DEF Follows
  <2>2. PointerFields(o) = 2 .. 2
    BY <1>2 DEF PointerFields
  <2>3. Len(o.w) = 2
    BY <1>2 DEF WellFormed
  <2> QED
    BY <2>1, <2>2, <2>3
<1>3. CASE o.kind = "CON"
  BY <1>1, <1>3 DEF WellFormed, PointerFields, Follows
<1>4. CASE o.kind \in {"PAP", "ENV"}
  BY <1>1, <1>4 DEF WellFormed, PointerFields, Follows
<1>5. CASE o.kind = "IND"
  BY <1>1, <1>5 DEF WellFormed, PointerFields, Follows
<1>6. CASE o.kind \in {"INT", "BIG", "CHAR", "PRIM", "STR", "FWD"}
  BY <1>6 DEF PointerFields, Follows
<1> QED
  BY <1>1, <1>2, <1>3, <1>4, <1>5, <1>6 DEF Kinds

\* The parts of an object.
LEMMA ObjectParts ==
    ASSUME NEW o \in Object
    PROVE  /\ o.kind \in Kinds /\ o.w \in Seq(Word) /\ o.tag \in Nat
           /\ Len(o.w) \in Nat /\ DOMAIN o.w = 1 .. Len(o.w)
           /\ \A k \in 1 .. Len(o.w) : o.w[k] \in Word
BY DEF Object

\* An object that is overwritten with a forwarding pointer.
LEMMA ForwardObject ==
    ASSUME NEW o \in Object, Len(o.w) > 0, NEW q \in Addr
    PROVE  /\ Forward(o, q) \in Object /\ Forward(o, q).kind = "FWD"
           /\ Len(Forward(o, q).w) > 0 /\ Forward(o, q).w[1] = q
<1> DEFINE w == [o.w EXCEPT ![1] = q]
<1>1. o.w \in Seq(Word) /\ o.tag \in Nat /\ 1 \in 1 .. Len(o.w) /\ q \in Word
  BY ObjectParts DEF Word, Ptr
<1>2. w \in Seq(Word) /\ Len(w) = Len(o.w) /\ w[1] = q
  BY <1>1, ExceptSeq
<1>3. Forward(o, q) = [kind |-> "FWD", w |-> w, tag |-> o.tag]
  <2>1. Forward(o, q) = [[o EXCEPT !.kind = "FWD"] EXCEPT !.w = w]
    BY DEF Forward
  <2> QED
    BY <2>1 DEF Object
<1> HIDE DEF w
<1> QED
  BY <1>1, <1>2, <1>3 DEF Object, Kinds

\* A space of the memory is a sequence of objects.
LEMMA SpaceIsSeq ==
    ASSUME NEW m \in [Space -> Seq(Object)], NEW s \in Space
    PROVE  /\ m[s] \in Seq(Object) /\ Len(m[s]) \in Nat /\ DOMAIN m[s] = 1 .. Len(m[s])
           /\ \A i \in 1 .. Len(m[s]) : m[s][i] \in Object
OBVIOUS

\* A pointer stays good while its space only grows.
LEMMA InGrows ==
    ASSUME NEW p, NEW s, NEW m, NEW n, In(p, s, m),
           Len(m[s]) \in Nat, Len(n[s]) \in Nat, Len(m[s]) <= Len(n[s])
    PROVE  In(p, s, n)
BY DEF In, Addr

LEMMA WholeGrows ==
    ASSUME NEW o, NEW s, NEW m, NEW n, Whole(o, s, m),
           Len(m[s]) \in Nat, Len(n[s]) \in Nat, Len(m[s]) <= Len(n[s])
    PROVE  Whole(o, s, n)
BY InGrows DEF Whole

\* What copy() does with a pointer to the from-space or out of the heap.
LEMMA CopyLemma ==
    ASSUME IInv, Copying, NEW p, In(p, from, mem)
    PROVE  LET m == CopyMem(p)
               n == Len(mem[to])
           IN  /\ m \in [Space -> Seq(Object)]
               /\ \A s \in Space \ {from, to} : m[s] = mem[s]
               /\ Len(m[from]) = Len(mem[from])
               /\ \A i \in 1 .. Len(m[from]) : Forwarded(m[from][i], from, to, m)
               /\ Len(m[to]) \in n .. n + 1
               /\ \A j \in 1 .. n : m[to][j] = mem[to][j]
               /\ Len(m[to]) > n => Whole(m[to][n + 1], from, m)
               /\ In(CopyPtr(p), to, m) /\ CopyPtr(p) \in Ptr
               /\ CopyHp(p) \in Nat
<1> DEFINE m == CopyMem(p)
           n == Len(mem[to])
<1>1. mem \in [Space -> Seq(Object)] /\ toHp \in Nat
  BY DEF IInv, TypeOK
<1>2. from \in Space /\ to \in Space /\ from # to
  BY DEF IInv, Phase, Ownership, Copying
<1>3. n \in Nat
  BY <1>1, <1>2
<1>4. /\ \A i \in 1 .. Len(mem[from]) : Forwarded(mem[from][i], from, to, mem)
  BY DEF IInv, Between
<1>5. CASE ~Moves(p)
  <2>1. m = mem /\ CopyHp(p) = toHp
    BY <1>5 DEF CopyMem, CopyHp
  <2>2. In(CopyPtr(p), to, m) /\ CopyPtr(p) \in Ptr
    <3>1. CASE InHeap(p, from)
      <4>1. At(p).kind = "FWD" /\ p \in Addr /\ p[1] = from /\ CopyPtr(p) = At(p).w[1]
        BY <1>5, <3>1 DEF Moves, CopyPtr, InHeap, IsAddr
      <4>2. p[2] \in 1 .. Len(mem[from]) /\ At(p) = mem[from][p[2]]
        BY <4>1, <1>2, NameAssumption DEF In, At, Addr
      <4>3. At(p).w[1] \in Addr /\ In(At(p).w[1], to, mem)
        BY <4>1, <4>2, <1>4 DEF Forwarded, Whole
      <4> QED
        BY <4>1, <4>3, <2>1 DEF Ptr
    <3>2. CASE ~InHeap(p, from)
      <4>1. CopyPtr(p) = p
        BY <3>2 DEF CopyPtr, Moves
      <4>2. p \in Static \cup {NULL}
        BY <3>2 DEF In, InHeap, IsAddr
      <4> QED
        BY <4>1, <4>2 DEF In, Ptr
    <3> QED
      BY <3>1, <3>2
  <2> QED
    BY <2>1, <2>2, <1>1, <1>3, <1>4
<1>6. CASE Moves(p)
  <2> DEFINE i == p[2]
             o == mem[from][i]
             q == <<to, n + 1>>
  <2>1. p \in Addr /\ p[1] = from /\ i \in 1 .. Len(mem[from]) /\ At(p) = o /\ o.kind # "FWD"
    BY <1>6, <1>2, NameAssumption DEF Moves, InHeap, IsAddr, In, At, Addr
  <2>2. o \in Object /\ Whole(o, from, mem) /\ Len(o.w) > 0
    BY <2>1, <1>1, <1>2, <1>4, SpaceIsSeq DEF Forwarded, Whole, WellFormed
  <2>3. q \in Addr /\ q[1] = to /\ q[2] = n + 1
    BY <1>2, <1>3 DEF Addr
  <2>4. m = [mem EXCEPT ![to] = Append(@, o), ![from][i] = Forward(o, q)]
    BY <1>6, <2>1 DEF CopyMem
  <2>5. m[to] = Append(mem[to], o) /\ m[from] = [mem[from] EXCEPT ![i] = Forward(o, q)]
    <3> HIDE DEF m, o, i, q
    <3> QED
      BY <2>4, <1>1, <1>2
  <2>6. CopyPtr(p) = q /\ CopyHp(p) = toHp + Size(o)
    BY <1>6, <2>1 DEF CopyPtr, CopyHp, Moves
  <2>7. \A s \in Space \ {from, to} : m[s] = mem[s]
    BY <2>4, <1>1, <1>2
  <2>8. m = [s \in Space |-> m[s]]
    BY <2>4, <1>1, <1>2
  <2>9. m[to] \in Seq(Object) /\ Len(m[to]) = n + 1 /\ m[to][n + 1] = o
        /\ \A j \in 1 .. n : m[to][j] = mem[to][j]
    <3> HIDE DEF m, o
    <3> QED
      BY <2>5, <2>2, <1>1, <1>2
  <2>10. m[from] \in Seq(Object) /\ Len(m[from]) = Len(mem[from]) /\ m[from][i] = Forward(o, q)
        /\ \A j \in 1 .. Len(mem[from]) : j # i => m[from][j] = mem[from][j]
    <3>1. Forward(o, q) \in Object
      BY <2>2, <2>3, ForwardObject
    <3> HIDE DEF m, o, q, i
    <3> QED
      BY <3>1, <2>5, <2>1, <1>1, <1>2
  <2> HIDE DEF m, o, q, i
  <2>11. m \in [Space -> Seq(Object)]
    BY <2>7, <2>8, <2>9, <2>10, <1>1, <1>2
  <2>12. \A j \in 1 .. Len(m[from]) : Forwarded(m[from][j], from, to, m)
    <3> SUFFICES ASSUME NEW j \in 1 .. Len(m[from]) PROVE Forwarded(m[from][j], from, to, m)
      OBVIOUS
    <3>1. CASE j = i
      <4>1. In(q, to, m)
        BY <2>3, <2>9, <1>3 DEF In
      <4> QED
        BY <3>1, <4>1, <2>2, <2>3, <2>10, ForwardObject DEF Forwarded
    <3>2. CASE j # i
      <4>1. Forwarded(mem[from][j], from, to, mem) /\ m[from][j] = mem[from][j]
        BY <3>2, <2>10, <1>4
      <4>2. Len(mem[from]) \in Nat /\ Len(m[from]) \in Nat /\ Len(m[to]) \in Nat
            /\ Len(mem[from]) <= Len(m[from]) /\ Len(mem[to]) <= Len(m[to]) /\ Len(mem[to]) \in Nat
        BY <2>9, <2>10, <1>1, <1>2, <1>3
      <4>3. CASE Whole(mem[from][j], from, mem)
        <5>1. Whole(mem[from][j], from, m)
          BY <4>2, <4>3, WholeGrows
        <5> QED
          BY <5>1, <4>1 DEF Forwarded
      <4>4. CASE ~Whole(mem[from][j], from, mem)
        <5>1. mem[from][j].kind = "FWD" /\ Len(mem[from][j].w) > 0
              /\ mem[from][j].w[1] \in Addr /\ In(mem[from][j].w[1], to, mem)
          BY <4>1, <4>4 DEF Forwarded
        <5>2. In(mem[from][j].w[1], to, m)
          BY <5>1, <4>2, InGrows
        <5> QED
          BY <5>1, <5>2, <4>1 DEF Forwarded
      <4> QED
        BY <4>3, <4>4
    <3> QED
      BY <3>1, <3>2
  <2>13. Whole(m[to][n + 1], from, m)
    BY <2>9, <2>10, <2>2, <1>1, <1>2, WholeGrows
  <2>14. In(CopyPtr(p), to, m) /\ CopyPtr(p) \in Ptr
    BY <2>6, <2>3, <2>9, <1>3 DEF In, Ptr
  <2>15. CopyHp(p) \in Nat
    BY <2>6, <2>2, <1>1, ObjectParts DEF Size
  <2>16. Len(m[from]) = Len(mem[from]) /\ Len(m[to]) \in n .. n + 1
    BY <2>9, <2>10, <1>3
  <2> QED
    BY <2>7, <2>9, <2>11, <2>12, <2>13, <2>14, <2>15, <2>16, Zenon DEF m
<1> QED
  BY <1>5, <1>6

-----------------------------------------------------------------------------
(* The mutator                                                             *)

\* What the invariant says while the mutator runs.
LEMMA RunFacts ==
    ASSUME IInv, Running
    PROVE  /\ TypeOK /\ Current = heap /\ from = NULL /\ ~Copying
           /\ \A r \in Slot : In(root[r], heap, mem)
           /\ \A i \in 1 .. Len(mem[heap]) :
                 mem[heap][i] \in Object /\ Whole(mem[heap][i], heap, mem)
<1>1. TypeOK /\ AtRest /\ Current = heap /\ from = NULL /\ ~Copying
  BY DEF IInv, Running, Copying, Current, Phase
<1> QED
  BY <1>1, SpaceIsSeq DEF AtRest, TypeOK

\* A step of the mutator keeps the invariant when the roots and the objects
\* stay good.
LEMMA MutatorStep ==
    ASSUME IInv, Running, TypeOK',
           UNCHANGED <<cap, heap, heapSize, spare, spareSize, gcVars>>,
           \A r \in Slot : In(root'[r], heap, mem'),
           \A i \in 1 .. Len(mem'[heap]) : Whole(mem'[heap][i], heap, mem')
    PROVE  IInv'
<1>1. Ownership'
  BY DEF IInv, Ownership, gcVars
<1>2. Phase'
  BY DEF IInv, Phase, Running, Copying, gcVars
<1>3. AtRest' /\ ~Copying'
  BY RunFacts DEF AtRest, Current, gcVars, Running, Copying
<1> QED
  BY <1>1, <1>2, <1>3 DEF IInv

\* An object of the heap is overwritten with a whole one.
LEMMA RewriteStep ==
    ASSUME IInv, Running, NEW p \in Addr, In(p, heap, mem),
           NEW o \in Object, Whole(o, heap, mem), Rewrite(p, o),
           UNCHANGED <<cap, spaceVars, root, mutVars, gcVars>>
    PROVE  IInv'
<1>1. TypeOK /\ heap \in Space /\ mem \in [Space -> Seq(Object)]
  BY RunFacts DEF TypeOK
<1>2. p[1] = heap /\ p[2] \in 1 .. Len(mem[heap])
  BY NameAssumption, <1>1 DEF In, Addr
<1>3. mem' = [mem EXCEPT ![heap] = [mem[heap] EXCEPT ![p[2]] = o]]
  BY <1>2 DEF Rewrite
<1> DEFINE h == [mem[heap] EXCEPT ![p[2]] = o]
<1>4. h \in Seq(Object) /\ Len(h) = Len(mem[heap])
      /\ \A i \in 1 .. Len(mem[heap]) : h[i] = IF i = p[2] THEN o ELSE mem[heap][i]
  BY <1>1, <1>2, ExceptSeq
<1> HIDE DEF h
<1>5. mem' \in [Space -> Seq(Object)] /\ mem'[heap] = h
  BY <1>1, <1>3, <1>4 DEF h
<1>6. TypeOK'
  BY <1>1, <1>5 DEF TypeOK, spaceVars, mutVars, gcVars
<1>7. Len(mem[heap]) \in Nat /\ Len(mem'[heap]) = Len(mem[heap])
  BY <1>1, <1>4, <1>5
<1>8. \A r \in Slot : In(root'[r], heap, mem')
  BY <1>7, RunFacts, InGrows
<1>9. \A i \in 1 .. Len(mem'[heap]) : Whole(mem'[heap][i], heap, mem')
  <2> SUFFICES ASSUME NEW i \in 1 .. Len(mem[heap]) PROVE Whole(h[i], heap, mem')
    BY <1>5, <1>7
  <2>1. Whole(h[i], heap, mem)
    BY <1>4, RunFacts
  <2> QED
    BY <2>1, <1>7, WholeGrows
<1> QED
  BY <1>6, <1>8, <1>9, MutatorStep DEF spaceVars

\* The object a root leads to.
LEMMA RootObject ==
    ASSUME IInv, Running, NEW r \in Slot, IsAddr(root[r])
    PROVE  /\ root[r] \in Addr /\ In(root[r], heap, mem)
           /\ At(root[r]) \in Object /\ Whole(At(root[r]), heap, mem)
<1>1. root[r] \in Addr /\ root[r] \notin Static \cup {NULL}
  BY NameAssumption DEF IsAddr, Addr
<1>2. In(root[r], heap, mem)
  BY RunFacts
<1>3. root[r][1] = heap /\ root[r][2] \in 1 .. Len(mem[heap])
  BY <1>1, <1>2, RunFacts DEF In, Addr, TypeOK
<1> QED
  BY <1>1, <1>2, <1>3, RunFacts DEF At

\* What an object follows is a matter of its kind and its size.
LEMMA SameFollows ==
    ASSUME NEW o, NEW n, n.kind = o.kind, DOMAIN n.w = DOMAIN o.w
    PROVE  Follows(n) = Follows(o)
BY DEF Follows

\* What the evaluator writes into an object leaves the object whole.
LEMMA EnterKeeps ==
    ASSUME IInv, NEW r \in Slot, Enter(r)
    PROVE IInv'
<1> DEFINE o == At(root[r])
           n == [o EXCEPT !.kind = "BLACKHOLE"]
<1>1. Running /\ IsAddr(root[r]) /\ o.kind = "THUNK" /\ Rewrite(root[r], n)
      /\ UNCHANGED <<cap, spaceVars, root, mutVars, gcVars>>
  BY DEF Enter
<1>2. o \in Object /\ Whole(o, heap, mem) /\ root[r] \in Addr /\ In(root[r], heap, mem)
  BY <1>1, RootObject
<1> HIDE DEF o
<1>3. n = [kind |-> "BLACKHOLE", w |-> o.w, tag |-> o.tag]
  BY <1>2 DEF Object
<1> HIDE DEF n
<1>4. n \in Object
  BY <1>2, <1>3 DEF Object, Kinds
<1>5. Whole(n, heap, mem)
  BY <1>1, <1>2, <1>3 DEF Whole, WellFormed, Follows
<1> QED
  BY <1>1, <1>2, <1>4, <1>5, RewriteStep

LEMMA RestoreKeeps ==
    ASSUME IInv, NEW r \in Slot, Restore(r)
    PROVE IInv'
<1> DEFINE o == At(root[r])
           n == [o EXCEPT !.kind = "THUNK"]
<1>1. Running /\ IsAddr(root[r]) /\ o.kind = "BLACKHOLE" /\ Rewrite(root[r], n)
      /\ UNCHANGED <<cap, spaceVars, root, mutVars, gcVars>>
  BY DEF Restore
<1>2. o \in Object /\ Whole(o, heap, mem) /\ root[r] \in Addr /\ In(root[r], heap, mem)
  BY <1>1, RootObject
<1> HIDE DEF o
<1>3. n = [kind |-> "THUNK", w |-> o.w, tag |-> o.tag]
  BY <1>2 DEF Object
<1> HIDE DEF n
<1>4. n \in Object
  BY <1>2, <1>3 DEF Object, Kinds
<1>5. Whole(n, heap, mem)
  BY <1>1, <1>2, <1>3 DEF Whole, WellFormed, Follows
<1> QED
  BY <1>1, <1>2, <1>4, <1>5, RewriteStep

LEMMA UpdateKeeps ==
    ASSUME IInv, NEW r \in Slot, NEW v \in Slot, Update(r, v)
    PROVE IInv'
<1> DEFINE o == At(root[r])
<1>1. Running /\ IsAddr(root[r]) /\ o.kind = "BLACKHOLE"
      /\ UNCHANGED <<cap, spaceVars, root, mutVars, gcVars>>
  BY DEF Update
<1>2. PICK n : n = [o EXCEPT !.kind = "IND", !.w[1] = root[v], !.w[2] = NULL] /\ Rewrite(root[r], n)
  BY Zenon DEF Update
<1>3. o \in Object /\ Whole(o, heap, mem) /\ root[r] \in Addr /\ In(root[r], heap, mem)
  BY <1>1, RootObject
<1>4. root[v] \in Word /\ NULL \in Word /\ In(root[v], heap, mem)
  BY <1>1, RunFacts DEF TypeOK, Word, Ptr
<1>5. o.w \in Seq(Word) /\ Len(o.w) = 2 /\ o.tag \in Nat
  BY <1>1, <1>3, ObjectParts DEF Whole, WellFormed
<1> HIDE DEF o
<1>6. PICK w : w = [o.w EXCEPT ![1] = root[v], ![2] = NULL]
  OBVIOUS
<1>7. w \in Seq(Word) /\ Len(w) = 2 /\ w[1] = root[v]
  BY <1>4, <1>5, <1>6
<1>8. n.kind = "IND" /\ n.w = w /\ n.tag = o.tag /\ n = [kind |-> n.kind, w |-> n.w, tag |-> n.tag]
  BY <1>2, <1>3, <1>6 DEF Object
<1>9. n \in Object
  BY <1>5, <1>7, <1>8 DEF Object, Kinds
<1>10. Whole(n, heap, mem)
  <2>1. Follows(n) = {1} /\ WellFormed(n) /\ n.w[1] = root[v]
    <3>1. Follows(n) = {1}
      BY <1>8 DEF Follows
    <3>2. Len(n.w) = 2 /\ n.w[1] = root[v]
      BY <1>7, <1>8
    <3>3. WellFormed(n)
      BY <3>2 DEF WellFormed
    <3> QED
      BY <3>1, <3>2, <3>3
  <2> QED
    BY <2>1, <1>4, <1>8 DEF Whole
<1> QED
  BY <1>1, <1>2, <1>3, <1>9, <1>10, RewriteStep

LEMMA UnpackKeeps ==
    ASSUME IInv, NEW r \in Slot, NEW v \in Slot, Unpack(r, v)
    PROVE IInv'
<1> DEFINE o == At(root[r])
<1>1. Running /\ IsAddr(root[r]) /\ o.kind = "STR"
      /\ UNCHANGED <<cap, spaceVars, root, mutVars, gcVars>>
  BY DEF Unpack
<1>2. PICK n : n = [o EXCEPT !.kind = "IND", !.w[1] = root[v]] /\ Rewrite(root[r], n)
  BY Zenon DEF Unpack
<1>3. o \in Object /\ Whole(o, heap, mem) /\ root[r] \in Addr /\ In(root[r], heap, mem)
  BY <1>1, RootObject
<1>4. root[v] \in Word /\ NULL \in Word /\ In(root[v], heap, mem)
  BY <1>1, RunFacts DEF TypeOK, Word, Ptr
<1>5. o.w \in Seq(Word) /\ Len(o.w) = 2 /\ o.tag \in Nat
  BY <1>1, <1>3, ObjectParts DEF Whole, WellFormed
<1> HIDE DEF o
<1>6. PICK w : w = [o.w EXCEPT ![1] = root[v]]
  OBVIOUS
<1>7. w \in Seq(Word) /\ Len(w) = 2 /\ w[1] = root[v]
  BY <1>4, <1>5, <1>6
<1>8. n.kind = "IND" /\ n.w = w /\ n.tag = o.tag /\ n = [kind |-> n.kind, w |-> n.w, tag |-> n.tag]
  BY <1>2, <1>3, <1>6 DEF Object
<1>9. n \in Object
  BY <1>5, <1>7, <1>8 DEF Object, Kinds
<1>10. Whole(n, heap, mem)
  <2>1. Follows(n) = {1} /\ WellFormed(n) /\ n.w[1] = root[v]
    <3>1. Follows(n) = {1}
      BY <1>8 DEF Follows
    <3>2. Len(n.w) = 2 /\ n.w[1] = root[v]
      BY <1>7, <1>8
    <3>3. WellFormed(n)
      BY <3>2 DEF WellFormed
    <3> QED
      BY <3>1, <3>2, <3>3
  <2> QED
    BY <2>1, <1>4, <1>8 DEF Whole
<1> QED
  BY <1>1, <1>2, <1>3, <1>9, <1>10, RewriteStep

LEMMA StoreKeeps ==
    ASSUME IInv, NEW r \in Slot, NEW v \in Slot, NEW i, Store(r, i, v)
    PROVE IInv'
<1> DEFINE o == At(root[r])
<1>1. Running /\ IsAddr(root[r]) /\ o.kind \in {"CON", "ENV", "PAP"}
      /\ i \in Follows(o) /\ UNCHANGED <<cap, spaceVars, root, mutVars, gcVars>>
  BY DEF Store
<1>2. PICK n : n = [o EXCEPT !.w[i] = root[v]] /\ Rewrite(root[r], n)
  BY Zenon DEF Store
<1>3. o \in Object /\ Whole(o, heap, mem) /\ root[r] \in Addr /\ In(root[r], heap, mem)
  BY <1>1, RootObject
<1>4. root[v] \in Word /\ In(root[v], heap, mem)
  BY <1>1, RunFacts DEF TypeOK, Word, Ptr
<1> HIDE DEF o
<1>5. o.w \in Seq(Word) /\ o.tag \in Nat /\ o.kind \in Kinds
  BY <1>3, ObjectParts
<1>6. i \in 1 .. Len(o.w) /\ Follows(o) \subseteq 1 .. Len(o.w) /\ Len(o.w) > 0
  BY <1>1, <1>3, FieldsScanned DEF Whole, WellFormed
<1>7. PICK w : w = [o.w EXCEPT ![i] = root[v]]
  OBVIOUS
<1>8. w \in Seq(Word) /\ Len(w) = Len(o.w) /\ DOMAIN w = DOMAIN o.w
      /\ \A j \in 1 .. Len(o.w) : w[j] = IF j = i THEN root[v] ELSE o.w[j]
  BY <1>4, <1>5, <1>6, <1>7
<1>9. n.kind = o.kind /\ n.w = w /\ n.tag = o.tag /\ n = [kind |-> n.kind, w |-> n.w, tag |-> n.tag]
  BY <1>2, <1>3, <1>7 DEF Object
<1>10. n \in Object
  BY <1>5, <1>8, <1>9 DEF Object
<1>11. Follows(n) = Follows(o)
  BY <1>8, <1>9, SameFollows
<1>12. Whole(n, heap, mem)
  <2>1. WellFormed(n) /\ n.kind # "FWD"
    BY <1>1, <1>6, <1>8, <1>9 DEF WellFormed
  <2> QED
    BY <2>1, <1>3, <1>4, <1>6, <1>8, <1>9, <1>11 DEF Whole
<1> QED
  BY <1>1, <1>2, <1>3, <1>10, <1>12, RewriteStep

LEMMA MoveKeeps ==
    ASSUME IInv, NEW r \in Slot, NEW p \in Loadable, Move(r, p) PROVE IInv'
<1>1. Running /\ root' = [root EXCEPT ![r] = p]
      /\ UNCHANGED <<mem, cap, spaceVars, mutVars, gcVars>>
  BY DEF Move
<1>2. p \in Ptr /\ In(p, heap, mem)
  <2>1. CASE p \in {NULL} \cup Static
    BY <2>1 DEF In, Ptr
  <2>2. CASE p \in {root[q] : q \in Slot}
    BY <2>2, <1>1, RunFacts DEF TypeOK
  <2>3. CASE p \notin {NULL} \cup Static /\ p \notin {root[q] : q \in Slot}
    <3>1. PICK q \in Slot : IsAddr(root[q]) /\ p \in {At(root[q]).w[i] : i \in Follows(At(root[q]))}
      BY <2>3 DEF Loadable
    <3>2. PICK i \in Follows(At(root[q])) : p = At(root[q]).w[i]
      BY <3>1
    <3>3. At(root[q]) \in Object /\ Whole(At(root[q]), heap, mem)
      BY <1>1, <3>1, RootObject
    <3> QED
      BY <3>2, <3>3 DEF Whole, In, Ptr
  <2> QED
    BY <2>1, <2>2, <2>3
<1>3. TypeOK'
  BY <1>1, <1>2, RunFacts DEF TypeOK, spaceVars, mutVars, gcVars
<1>4. \A q \in Slot : In(root'[q], heap, mem')
  BY <1>1, <1>2, RunFacts DEF TypeOK
<1>5. \A i \in 1 .. Len(mem'[heap]) : Whole(mem'[heap][i], heap, mem')
  BY <1>1, RunFacts
<1> QED
  BY <1>1, <1>3, <1>4, <1>5, MutatorStep DEF spaceVars

LEMMA AllocKeeps ==
    ASSUME IInv, NEW s \in Shape, NEW r \in Slot, NEW w \in Payload(s), Alloc(s, w, r)
    PROVE  IInv'
<1> DEFINE n == [kind |-> s.kind, w |-> w, tag |-> born + 1]
           len == Len(mem[heap])
<1>1. /\ Running
      /\ mem' = [mem EXCEPT ![heap] = Append(@, n)]
      /\ hp' = hp + 1 + s.size
      /\ reserved' = reserved - (1 + s.size)
      /\ root' = [root EXCEPT ![r] = <<heap, len + 1>>]
      /\ born' = born + 1
      /\ UNCHANGED <<cap, heap, heapSize, spare, spareSize, gcVars>>
  BY DEF Alloc
<1> HIDE DEF n
<1>2. TypeOK /\ mem \in [Space -> Seq(Object)] /\ heap \in Space /\ len \in Nat
  <2>1. TypeOK
    BY <1>1, RunFacts
  <2>2. mem \in [Space -> Seq(Object)] /\ heap \in Space
    BY <2>1 DEF TypeOK
  <2> QED
    BY <2>1, <2>2
<1>3. s.kind \in Kinds /\ s.size \in Nat \ {0} /\ s.kind \notin {"FWD", "IND", "BLACKHOLE"}
      /\ (s.kind \in {"FUN", "THUNK", "STR"} => s.size = 2)
  BY ShapeAssumption
<1>4. w \in [1 .. s.size -> Word] /\ w \in Seq(Word) /\ Len(w) = s.size
  <2>1. {root[q] : q \in Slot} \cup {NULL, Data} \subseteq Word
    BY <1>2 DEF TypeOK, Word, Ptr
  <2>2. w \in [1 .. s.size -> {root[q] : q \in Slot} \cup {NULL, Data}]
    BY DEF Payload
  <2> QED
    BY <2>1, <2>2, <1>3
<1>5. n \in Object
  BY <1>2, <1>3, <1>4 DEF Object, TypeOK, n
<1>6. WellFormed(n)
  BY <1>3, <1>4 DEF WellFormed, n
<1>7. \A k \in Follows(n) : In(w[k], heap, mem)
  <2> DEFINE blank == [kind |-> s.kind, w |-> [i \in 1 .. s.size |-> Data]]
  <2>1. Follows(n) = Follows(blank)
    BY <1>4, SameFollows DEF n
  <2>2. \A i \in 1 .. s.size : (w[i] = Data) <=> (i \notin Follows(blank))
    BY DEF Payload
  <2>3. \A i \in 1 .. s.size : w[i] \in {root[q] : q \in Slot} \cup {NULL, Data}
    BY DEF Payload
  <2> HIDE DEF blank
  <2>4. Follows(n) \subseteq 1 .. s.size
    BY <1>4, <1>5, <1>6, FieldsScanned DEF n
  <2>5. \A q \in Slot : In(root[q], heap, mem)
    BY <1>1, RunFacts
  <2> QED
    BY <2>1, <2>2, <2>3, <2>4, <2>5 DEF In
<1>8. Whole(n, heap, mem)
  BY <1>3, <1>6, <1>7 DEF Whole, n
<1>9. /\ mem' \in [Space -> Seq(Object)] /\ Len(mem'[heap]) = len + 1 /\ mem'[heap][len + 1] = n
      /\ \A i \in 1 .. len : mem'[heap][i] = mem[heap][i]
  BY <1>1, <1>2, <1>5
<1>10. TypeOK'
  <2>1. reserved' \in Int /\ born' \in Nat /\ hp' \in Nat
    <3>1. reserved \in Int /\ born \in Nat /\ hp \in Nat
      BY <1>2 DEF TypeOK
    <3> QED
      BY <3>1, <1>1, <1>3
  <2>2. root' \in [Slot -> Ptr]
    <3>1. <<heap, len + 1>> \in Ptr
      BY <1>2 DEF Ptr, Addr
    <3>2. root \in [Slot -> Ptr]
      BY <1>2 DEF TypeOK
    <3> QED
      BY <3>1, <3>2, <1>1
  <2> QED
    BY <1>1, <1>2, <1>9, <2>1, <2>2 DEF TypeOK, gcVars
<1>11. \A q \in Slot : In(root'[q], heap, mem')
  <2>1. \A q \in Slot : In(root[q], heap, mem')
    <3>1. \A q \in Slot : In(root[q], heap, mem)
      BY <1>1, RunFacts
    <3> QED
      BY <3>1, <1>2, <1>9, InGrows
  <2>2. In(<<heap, len + 1>>, heap, mem')
    BY <1>2, <1>9 DEF In, Addr
  <2> QED
    BY <2>1, <2>2, <1>1, <1>2 DEF TypeOK
<1>12. \A i \in 1 .. Len(mem'[heap]) : Whole(mem'[heap][i], heap, mem')
  <2> SUFFICES ASSUME NEW i \in 1 .. len + 1 PROVE Whole(mem'[heap][i], heap, mem')
    BY <1>9
  <2>1. Whole(mem'[heap][i], heap, mem)
    BY <1>1, <1>2, <1>8, <1>9, RunFacts
  <2> QED
    BY <2>1, <1>2, <1>9, WholeGrows
<1> QED
  BY <1>1, <1>10, <1>11, <1>12, MutatorStep

LEMMA ReserveKeeps == ASSUME IInv, NEW n \in Needs, Reserve(n) PROVE IInv'
<1>1. Running /\ UNCHANGED <<mem, cap, spaceVars, root, born>>
  BY DEF Reserve
<1>2. TypeOK /\ n \in Nat /\ from = NULL
  BY <1>1, RunFacts, SizeAssumption
<1>3. CASE hp + n > heapSize
  <2>1. phase' = "begin" /\ need' = n /\ from' = heap /\ newSize' = heapSize /\ reserved' = 0
        /\ UNCHANGED <<to, toHp, todo, scan, field>>
    BY <1>3 DEF Reserve
  <2>2. TypeOK'
    BY <1>1, <1>2, <2>1 DEF TypeOK, spaceVars, Phases
  <2>3. Ownership'
    BY <1>1, <1>2, <2>1 DEF IInv, Ownership, spaceVars, Running
  <2>4. Phase'
    BY <1>1, <1>2, <2>1 DEF IInv, Phase, TypeOK, spaceVars, Running, Copying
  <2>5. AtRest' /\ ~Copying'
    BY <1>1, <2>1, RunFacts DEF AtRest, Current, spaceVars, Copying
  <2> QED
    BY <2>2, <2>3, <2>4, <2>5 DEF IInv
<1>4. CASE ~(hp + n > heapSize)
  <2>1. reserved' = n /\ UNCHANGED gcVars
    BY <1>4 DEF Reserve
  <2>2. TypeOK'
    BY <1>1, <1>2, <2>1 DEF TypeOK, spaceVars, gcVars
  <2> QED
    BY <1>1, <2>1, <2>2, RunFacts, MutatorStep DEF spaceVars
<1> QED
  BY <1>3, <1>4

-----------------------------------------------------------------------------
(* The collector                                                           *)

\* What the invariant says during a round.
LEMMA CopyFacts ==
    ASSUME IInv, Copying
    PROVE  /\ TypeOK /\ Between /\ mem \in [Space -> Seq(Object)]
           /\ from \in Space /\ to \in Space /\ from # to /\ heap \in Space /\ to # heap
           /\ spare = NULL /\ newSize = cap[to] /\ newSize > 0 /\ heapSize = cap[heap]
           /\ Len(mem[to]) \in Nat /\ Len(mem[from]) \in Nat
<1>1. TypeOK /\ Between /\ Phase /\ Ownership /\ mem \in [Space -> Seq(Object)] /\ heap \in Space
  BY DEF IInv, TypeOK
<1>2. from \in Space /\ to \in Space /\ from # to /\ to # heap
  BY <1>1 DEF Phase, Ownership, Copying
<1> QED
  BY <1>1, <1>2 DEF Phase, Copying

LEMMA BeginKeeps == ASSUME IInv, Begin PROVE IInv'
<1>1. /\ phase = "begin" /\ phase' = "roots" /\ spare' = NULL /\ toHp' = 0 /\ todo' = Slot
      /\ mem' = [s \in Space |-> IF s \in {spare, to'} THEN <<>> ELSE mem[s]]
      /\ UNCHANGED <<heap, hp, heapSize, spareSize, root, mutVars, need, from, newSize, scan, field>>
  BY DEF Begin, SpareTaken
<1>2. /\ TypeOK /\ AtRest /\ Ownership /\ Phase /\ Current = from /\ from \in Space
      /\ newSize > 0 /\ scan = 0 /\ field = {}
  BY <1>1 DEF IInv, Copying, Current, Phase
<1>3. /\ to' \in Space /\ to' \notin {heap, from}
      /\ cap' \in [Space -> Nat] /\ cap'[heap] = cap[heap] /\ cap'[to'] = newSize
      /\ \A s \in Space : cap'[s] > 0 <=> s \in {heap, from, to'}
  <2>1. /\ cap \in [Space -> Nat] /\ newSize \in Nat /\ heap \in Space /\ spare \in Space \cup {NULL}
        /\ NULL \notin Space
    BY <1>2, NameAssumption DEF TypeOK
  <2>2. /\ \A s \in Space : cap[s] > 0 <=> s \in {heap} \cup ({spare, from} \ {NULL})
        /\ spare # NULL => spare \notin {heap, from} /\ spareSize = cap[spare]
    BY <1>1, <1>2 DEF Ownership
  <2>3. CASE spare # NULL /\ spareSize = newSize
    <3>1. to' = spare /\ cap' = cap
      BY <2>3 DEF Begin
    <3> QED
      BY <3>1, <2>1, <2>2, <2>3, <1>2
  <2>4. CASE spare = NULL
    <3>1. PICK s \in Space : cap[s] = 0 /\ to' = s /\ cap' = [cap EXCEPT ![s] = newSize]
      BY <2>4 DEF Begin
    <3> QED
      BY <3>1, <2>1, <2>2, <2>4, <1>2
  <2>5. CASE spare # NULL /\ spareSize # newSize
    <3> DEFINE c == [cap EXCEPT ![spare] = 0]
    <3>1. PICK s \in Space : c[s] = 0 /\ to' = s /\ cap' = [c EXCEPT ![s] = newSize]
      BY <2>5 DEF Begin, Freed
    <3>2. c \in [Space -> Nat] /\ c[heap] = cap[heap]
          /\ \A q \in Space : c[q] > 0 <=> q \in {heap, from}
      BY <2>1, <2>2, <2>5, <1>2
    <3> HIDE DEF c
    <3> QED
      BY <3>1, <3>2, <2>1, <1>2
  <2> QED
    BY <2>3, <2>4, <2>5
<1>4. mem' \in [Space -> Seq(Object)] /\ mem'[from] = mem[from] /\ mem'[to'] = <<>>
  <2>1. mem \in [Space -> Seq(Object)] /\ NULL \notin Space
    BY <1>2, NameAssumption DEF TypeOK
  <2>2. from # spare /\ from # to'
    BY <1>2, <1>3, <2>1 DEF Ownership
  <2> QED
    BY <1>1, <1>2, <1>3, <2>1, <2>2
<1>5. TypeOK'
  BY <1>1, <1>2, <1>3, <1>4 DEF TypeOK, Phases, mutVars
<1>6. Ownership'
  BY <1>1, <1>2, <1>3, NameAssumption DEF Ownership, TypeOK
<1>7. Phase'
  BY <1>1, <1>2, <1>3 DEF Phase, Copying
<1>8. Between'
  <2>1. \A r \in Slot : In(root[r], from, mem')
    BY <1>2, <1>4 DEF AtRest, In
  <2>2. \A i \in 1 .. Len(mem'[from]) : Whole(mem'[from][i], from, mem')
    BY <1>2, <1>4 DEF AtRest, Whole, In
  <2>3. Len(mem'[to']) = 0 /\ from' = from /\ root' = root /\ \A r \in Slot : r \in todo'
    BY <1>1, <1>4
  <2>4. 1 .. Len(mem'[to']) = {}
    BY <2>3
  <2> QED
    BY <2>1, <2>2, <2>3, <2>4 DEF Between, Forwarded
<1> QED
  BY <1>1, <1>5, <1>6, <1>7, <1>8 DEF IInv, Copying

LEMMA CopyRootKeeps == ASSUME IInv, CopyRoot PROVE IInv'
<1>1. /\ phase = "roots" /\ Copying
      /\ UNCHANGED <<cap, spaceVars, mutVars, phase, need, from, to, newSize, scan, field>>
  BY DEF CopyRoot, Copying
<1>2. PICK r \in todo : /\ mem' = CopyMem(root[r]) /\ toHp' = CopyHp(root[r])
                        /\ root' = [root EXCEPT ![r] = CopyPtr(root[r])]
                        /\ todo' = todo \ {r}
  BY DEF CopyRoot
<1> DEFINE n == Len(mem[to])
<1>3. /\ TypeOK /\ Between /\ mem \in [Space -> Seq(Object)] /\ from \in Space /\ to \in Space
      /\ r \in Slot /\ In(root[r], from, mem) /\ scan = 0 /\ n \in Nat /\ Len(mem[from]) \in Nat
  <2>1. TypeOK /\ Between /\ Phase
    BY <1>1, CopyFacts DEF IInv
  <2>2. r \in Slot
    BY <1>2, <2>1 DEF TypeOK
  <2> QED
    BY <1>1, <1>2, <2>1, <2>2, CopyFacts DEF Between, Phase
<1>4. /\ mem' \in [Space -> Seq(Object)]
      /\ Len(mem'[from]) = Len(mem[from])
      /\ \A i \in 1 .. Len(mem'[from]) : Forwarded(mem'[from][i], from, to, mem')
      /\ Len(mem'[to]) \in n .. n + 1
      /\ \A j \in 1 .. n : mem'[to][j] = mem[to][j]
      /\ Len(mem'[to]) > n => Whole(mem'[to][n + 1], from, mem')
      /\ In(CopyPtr(root[r]), to, mem') /\ CopyPtr(root[r]) \in Ptr
      /\ toHp' \in Nat
  BY <1>1, <1>2, <1>3, CopyLemma
<1>5. \A p : In(p, from, mem) => In(p, from, mem')
  BY <1>3, <1>4, InGrows
<1>6. \A p : In(p, to, mem) => In(p, to, mem')
  BY <1>3, <1>4, InGrows
<1>7. TypeOK'
  BY <1>1, <1>2, <1>3, <1>4 DEF TypeOK, spaceVars, mutVars
<1>8. Ownership'
  BY <1>1 DEF IInv, Ownership, spaceVars
<1>9. Phase'
  BY <1>1, <1>2 DEF IInv, Phase, spaceVars, Copying
<1>10. \A q \in Slot : In(root'[q], IF q \in todo' THEN from ELSE to, mem')
  <2> SUFFICES ASSUME NEW q \in Slot PROVE In(root'[q], IF q \in todo' THEN from ELSE to, mem')
    OBVIOUS
  <2>1. CASE q = r
    BY <2>1, <1>2, <1>3, <1>4 DEF TypeOK
  <2>2. CASE q # r
    <3>1. root'[q] = root[q] /\ (q \in todo' <=> q \in todo)
      BY <2>2, <1>2, <1>3 DEF TypeOK
    <3> QED
      BY <3>1, <1>3, <1>5, <1>6 DEF Between
  <2> QED
    BY <2>1, <2>2
<1>11. \A j \in 1 .. Len(mem'[to]) :
          Whole(mem'[to][j], from, mem')
  <2> SUFFICES ASSUME NEW j \in 1 .. Len(mem'[to]) PROVE Whole(mem'[to][j], from, mem')
    OBVIOUS
  <2>1. CASE j \in 1 .. n
    <3>1. \A k : ~Behind(j, k)
      BY <2>1, <1>3 DEF Behind
    <3>2. Whole(mem[to][j], from, mem)
      BY <2>1, <3>1, <1>3 DEF Between, Whole, Side
    <3> QED
      BY <2>1, <3>2, <1>4, <1>5 DEF Whole
  <2>2. CASE j = n + 1
    BY <2>2, <1>3, <1>4
  <2> QED
    BY <2>1, <2>2, <1>3, <1>4
<1>12. Between'
  <2>1. \A j \in 1 .. Len(mem'[to]) : \A k : ~Behind(j, k)'
    BY <1>1, <1>3, <1>4 DEF Behind
  <2> QED
    BY <2>1, <1>1, <1>4, <1>10, <1>11 DEF Between, Side, Whole
<1> QED
  BY <1>1, <1>7, <1>8, <1>9, <1>12 DEF IInv, Copying

LEMMA StartScanKeeps == ASSUME IInv, StartScan PROVE IInv'
<1>1. /\ phase = "roots" /\ Copying /\ todo = {} /\ phase' = "scan" /\ scan' = 1
      /\ field' = IF mem[to] = <<>> THEN {} ELSE PointerFields(mem[to][1])
      /\ UNCHANGED <<mem, cap, spaceVars, root, mutVars, need, from, to, toHp, newSize, todo>>
  BY DEF StartScan, Copying
<1>2. /\ TypeOK /\ Between /\ Phase /\ Ownership /\ scan = 0
      /\ mem \in [Space -> Seq(Object)] /\ to \in Space
  BY <1>1, CopyFacts DEF IInv, Phase
<1>3. \A j \in 1 .. Len(mem[to]) : mem[to][j] \in Object /\ WellFormed(mem[to][j])
  BY <1>2, SpaceIsSeq DEF Between
<1>4. mem[to] # <<>> => field' = Follows(mem[to][1]) /\ field' \subseteq Nat
  <2> SUFFICES ASSUME mem[to] # <<>> PROVE field' = Follows(mem[to][1]) /\ field' \subseteq Nat
    OBVIOUS
  <2>1. 1 \in 1 .. Len(mem[to])
    BY <1>2
  <2>2. PointerFields(mem[to][1]) = Follows(mem[to][1])
        /\ Follows(mem[to][1]) \subseteq 1 .. Len(mem[to][1].w)
    BY <2>1, <1>3, FieldsScanned
  <2> QED
    BY <2>2, <1>1
<1>5. TypeOK'
  BY <1>1, <1>2, <1>4 DEF TypeOK, spaceVars, mutVars, Phases
<1>6. Ownership'
  BY <1>1, <1>2 DEF Ownership, spaceVars
<1>7. Phase'
  <2>1. 1 <= Len(mem[to]) <=> mem[to] # <<>>
    BY <1>2
  <2> QED
    BY <1>1, <1>2, <1>4, <2>1 DEF Phase, spaceVars, Copying
<1>8. \A j \in 1 .. Len(mem[to]) : \A k \in Follows(mem[to][j]) : ~Behind(j, k) /\ ~Behind(j, k)'
  <2> SUFFICES ASSUME NEW j \in 1 .. Len(mem[to]), NEW k \in Follows(mem[to][j])
               PROVE  ~Behind(j, k) /\ ~Behind(j, k)'
    OBVIOUS
  <2>1. mem[to] # <<>>
    OBVIOUS
  <2> QED
    BY <2>1, <1>1, <1>2, <1>4 DEF Behind
<1>9. Between'
  BY <1>1, <1>2, <1>8 DEF Between, Side
<1> QED
  BY <1>1, <1>5, <1>6, <1>7, <1>9 DEF IInv, Copying

LEMMA NextObjectKeeps == ASSUME IInv, NextObject PROVE IInv'
<1>1. /\ phase = "scan" /\ Copying /\ scan <= Len(mem[to]) /\ field = {} /\ scan' = scan + 1
      /\ field' = IF scan + 1 <= Len(mem[to]) THEN PointerFields(mem[to][scan + 1]) ELSE {}
      /\ UNCHANGED <<mem, cap, spaceVars, root, mutVars, phase, need, from, to, toHp, newSize, todo>>
  BY DEF NextObject, Copying
<1>2. /\ TypeOK /\ Between /\ Phase /\ Ownership /\ scan \in Nat
      /\ mem \in [Space -> Seq(Object)] /\ to \in Space
  BY <1>1, CopyFacts DEF IInv, TypeOK
<1>3. \A j \in 1 .. Len(mem[to]) : mem[to][j] \in Object /\ WellFormed(mem[to][j])
  BY <1>2, SpaceIsSeq DEF Between
<1>4. scan + 1 <= Len(mem[to]) => field' = Follows(mem[to][scan + 1])
  <2> SUFFICES ASSUME scan + 1 <= Len(mem[to]) PROVE field' = Follows(mem[to][scan + 1])
    OBVIOUS
  <2>1. scan + 1 \in 1 .. Len(mem[to])
    BY <1>2
  <2> QED
    BY <2>1, <1>1, <1>3, FieldsScanned
<1>5. field' \subseteq Nat
  <2>1. CASE scan + 1 <= Len(mem[to])
    <3>1. scan + 1 \in 1 .. Len(mem[to])
      BY <1>2, <2>1
    <3>2. Follows(mem[to][scan + 1]) \subseteq 1 .. Len(mem[to][scan + 1].w)
      BY <3>1, <1>3, FieldsScanned
    <3> QED
      BY <3>2, <2>1, <1>4
  <2>2. CASE ~(scan + 1 <= Len(mem[to]))
    BY <2>2, <1>1
  <2> QED
    BY <2>1, <2>2
<1>6. TypeOK'
  BY <1>1, <1>2, <1>5 DEF TypeOK, spaceVars, mutVars
<1>7. Ownership'
  BY <1>1, <1>2 DEF Ownership, spaceVars
<1>8. Phase'
  BY <1>1, <1>2, <1>4 DEF Phase, spaceVars, Copying
<1>9. \A j \in 1 .. Len(mem[to]) : \A k \in Follows(mem[to][j]) : Behind(j, k)' <=> Behind(j, k)
  <2> SUFFICES ASSUME NEW j \in 1 .. Len(mem[to]), NEW k \in Follows(mem[to][j])
               PROVE  Behind(j, k)' <=> Behind(j, k)
    OBVIOUS
  <2>1. CASE j = scan + 1
    BY <2>1, <1>1, <1>2, <1>4 DEF Behind
  <2>2. CASE j # scan + 1
    BY <2>2, <1>1, <1>2 DEF Behind
  <2> QED
    BY <2>1, <2>2
<1>10. Between'
  BY <1>1, <1>2, <1>9 DEF Between, Side
<1> QED
  BY <1>1, <1>6, <1>7, <1>8, <1>10 DEF IInv, Copying

\* At the end of a round everything is in the to-space.
LEMMA ScannedFacts ==
    ASSUME IInv, Scanned
    PROVE  /\ Copying /\ \A r \in Slot : In(root[r], to, mem)
           /\ \A j \in 1 .. Len(mem[to]) : Whole(mem[to][j], to, mem)
<1>1. Copying /\ Between /\ Phase /\ todo = {} /\ scan > Len(mem[to]) /\ scan \in Nat
      /\ Len(mem[to]) \in Nat
  BY CopyFacts DEF Scanned, Copying, IInv, Phase, TypeOK
<1>2. \A j \in 1 .. Len(mem[to]) : \A k : Side(j, k) = to
  BY <1>1 DEF Side, Behind
<1> QED
  BY <1>1, <1>2 DEF Between, Whole

LEMMA FinishKeeps == ASSUME IInv, Finish PROVE IInv'
<1>1. /\ Copying /\ TypeOK /\ Phase /\ Ownership
      /\ \A r \in Slot : In(root[r], to, mem)
      /\ \A j \in 1 .. Len(mem[to]) : Whole(mem[to][j], to, mem)
  BY ScannedFacts DEF Finish, IInv
<1> DEFINE c1 == IF from # heap THEN Freed(from) ELSE cap
           keep == newSize = heapSize
<1>2. /\ cap' = IF keep THEN c1 ELSE [c1 EXCEPT ![heap] = 0]
      /\ spare' = IF keep THEN heap ELSE spare
      /\ spareSize' = IF keep THEN heapSize ELSE spareSize
      /\ mem' = [s \in Space |-> IF s = to THEN mem[s] ELSE <<>>]
      /\ heap' = to /\ hp' = toHp /\ heapSize' = newSize /\ phase' = "run" /\ reserved' = need
      /\ from' = NULL /\ to' = NULL /\ need' = 0 /\ toHp' = 0 /\ newSize' = 0 /\ scan' = 0
      /\ UNCHANGED <<root, born, todo, field>>
  BY DEF Finish
<1>3. /\ mem \in [Space -> Seq(Object)] /\ cap \in [Space -> Nat]
      /\ from \in Space /\ to \in Space /\ heap \in Space /\ from # to /\ to # heap
      /\ spare = NULL /\ newSize = cap[to] /\ newSize > 0 /\ heapSize = cap[heap] /\ todo = {}
      /\ heapSize \in Nat /\ newSize \in Nat /\ NULL \notin Space /\ phase = "scan"
      /\ scan > Len(mem[to])
  BY <1>1, CopyFacts, NameAssumption DEF Phase, TypeOK, Finish, Scanned
<1>4. \A s \in Space : cap[s] > 0 <=> s \in {heap, from, to}
  BY <1>1, <1>3 DEF Ownership, Copying
<1>5. c1 \in [Space -> Nat] /\ c1[to] = cap[to] /\ c1[heap] = cap[heap]
      /\ \A s \in Space : c1[s] > 0 <=> s \in {heap, to}
  BY <1>3, <1>4 DEF Freed
<1> HIDE DEF c1
<1>6. cap' \in [Space -> Nat] /\ cap'[to] = newSize /\ (keep => cap'[heap] = heapSize)
      /\ \A s \in Space : cap'[s] > 0 <=> s \in (IF keep THEN {heap, to} ELSE {to})
  BY <1>2, <1>3, <1>5
<1>7. mem' \in [Space -> Seq(Object)] /\ mem'[to] = mem[to]
  BY <1>2, <1>3
<1>8. field = {}
  BY <1>1, <1>3 DEF Phase, TypeOK
<1>9. TypeOK'
  BY <1>1, <1>2, <1>3, <1>6, <1>7 DEF TypeOK, Phases
<1>10. Ownership'
  BY <1>2, <1>3, <1>6 DEF Ownership
<1>11. AtRest'
  <2>1. Current' = to
    BY <1>2 DEF Current
  <2>2. \A r \in Slot : In(root[r], to, mem')
    BY <1>1, <1>7 DEF In
  <2>3. \A j \in 1 .. Len(mem'[to]) : Whole(mem'[to][j], to, mem')
    BY <1>1, <1>7 DEF Whole, In
  <2> QED
    BY <2>1, <2>2, <2>3, <1>2 DEF AtRest
<1>12. Phase'
  BY <1>1, <1>2, <1>3, <1>6, <1>8 DEF Phase, Copying
<1> QED
  BY <1>2, <1>9, <1>10, <1>11, <1>12 DEF IInv, Copying

LEMMA AgainKeeps == ASSUME IInv, Again PROVE IInv'
<1>1. /\ Copying /\ TypeOK /\ Phase /\ Ownership /\ phase = "scan" /\ scan > Len(mem[to])
      /\ \A r \in Slot : In(root[r], to, mem)
      /\ \A j \in 1 .. Len(mem[to]) : Whole(mem[to][j], to, mem)
  BY ScannedFacts DEF Again, IInv, Scanned
<1>2. /\ from' = to /\ newSize' = newSize * 2 /\ phase' = "begin" /\ scan' = 0
      /\ UNCHANGED <<spaceVars, root, mutVars, need, to, toHp, todo, field>>
  BY DEF Again, Grown
<1>3. /\ mem \in [Space -> Seq(Object)] /\ cap \in [Space -> Nat]
      /\ from \in Space /\ to \in Space /\ heap \in Space /\ from # to /\ to # heap
      /\ spare = NULL /\ newSize > 0 /\ newSize \in Nat /\ todo = {} /\ field = {}
      /\ heapSize = cap[heap] /\ NULL \notin Space
  BY <1>1, CopyFacts, NameAssumption DEF Phase, TypeOK
<1>4. \A s \in Space : cap[s] > 0 <=> s \in {heap, from, to}
  BY <1>1, <1>3 DEF Ownership, Copying
<1>5. /\ mem' \in [Space -> Seq(Object)] /\ mem'[to] = mem[to]
      /\ cap' \in [Space -> Nat] /\ cap'[heap] = cap[heap]
      /\ \A s \in Space : cap'[s] > 0 <=> s \in {heap, to}
  <2>1. CASE from = heap
    BY <2>1, <1>3, <1>4 DEF Again
  <2>2. CASE from # heap
    <3>1. cap' = [cap EXCEPT ![from] = 0] /\ mem' = [mem EXCEPT ![from] = <<>>]
      BY <2>2 DEF Again, Freed
    <3> QED
      BY <3>1, <2>2, <1>3, <1>4
  <2> QED
    BY <2>1, <2>2
<1>6. TypeOK'
  BY <1>1, <1>2, <1>3, <1>5 DEF TypeOK, Phases, spaceVars, mutVars
<1>7. Ownership'
  BY <1>2, <1>3, <1>5 DEF Ownership, spaceVars
<1>8. Phase'
  BY <1>1, <1>2, <1>3, <1>5 DEF Phase, Copying, spaceVars
<1>9. AtRest'
  <2>1. Current' = to
    BY <1>2 DEF Current
  <2>2. \A r \in Slot : In(root[r], to, mem')
    BY <1>1, <1>5 DEF In
  <2>3. \A j \in 1 .. Len(mem'[to]) : Whole(mem'[to][j], to, mem')
    BY <1>1, <1>5 DEF Whole, In
  <2> QED
    BY <2>1, <2>2, <2>3, <1>2 DEF AtRest
<1> QED
  BY <1>2, <1>6, <1>7, <1>8, <1>9 DEF IInv, Copying

LEMMA ScanFieldKeeps == ASSUME IInv, ScanField PROVE IInv'
<1> DEFINE n == Len(mem[to])
           o == mem[to][scan]
<1>1. /\ phase = "scan" /\ Copying /\ scan <= n
      /\ UNCHANGED <<cap, spaceVars, root, mutVars, phase, need, from, to, newSize, todo, scan>>
  BY DEF ScanField, Copying
<1>2. PICK k \in field : /\ mem' = [CopyMem(o.w[k]) EXCEPT ![to][scan].w[k] = CopyPtr(o.w[k])]
                         /\ toHp' = CopyHp(o.w[k])
                         /\ field' = field \ {k}
  BY DEF ScanField
<1>3. /\ TypeOK /\ Between /\ Phase /\ Ownership /\ mem \in [Space -> Seq(Object)]
      /\ from \in Space /\ to \in Space /\ from # to /\ n \in Nat /\ Len(mem[from]) \in Nat
  BY <1>1, CopyFacts DEF IInv
<1>4. scan \in 1 .. n /\ field \subseteq Follows(o) /\ todo = {}
  <2>1. scan \in Nat /\ scan > 0
    BY <1>1, <1>3 DEF TypeOK, Phase
  <2> QED
    BY <2>1, <1>1, <1>3 DEF Phase
<1>5. o \in Object /\ o.kind # "FWD" /\ WellFormed(o) /\ Follows(o) \subseteq 1 .. Len(o.w)
  <2>1. o \in Object /\ o.kind # "FWD" /\ WellFormed(o)
    BY <1>3, <1>4, SpaceIsSeq DEF Between
  <2> QED
    BY <2>1, FieldsScanned
<1>6. \A h \in Follows(o) : In(o.w[h], IF h \in field THEN from ELSE to, mem)
  BY <1>3, <1>4 DEF Between, Side, Behind, TypeOK
<1>7. k \in Follows(o) /\ k \in 1 .. Len(o.w) /\ In(o.w[k], from, mem)
  BY <1>2, <1>4, <1>5, <1>6
<1> DEFINE p == o.w[k]
           m == CopyMem(p)
           q == CopyPtr(p)
<1>8. /\ m \in [Space -> Seq(Object)]
      /\ Len(m[from]) = Len(mem[from])
      /\ \A i \in 1 .. Len(m[from]) : Forwarded(m[from][i], from, to, m)
      /\ Len(m[to]) \in n .. n + 1
      /\ \A j \in 1 .. n : m[to][j] = mem[to][j]
      /\ Len(m[to]) > n => Whole(m[to][n + 1], from, m)
      /\ In(q, to, m) /\ q \in Ptr
      /\ toHp' \in Nat
  BY <1>1, <1>2, <1>7, CopyLemma
<1>9. PICK x : x = [o EXCEPT !.w[k] = q]
  OBVIOUS
<1>10. mem' = [m EXCEPT ![to] = [m[to] EXCEPT ![scan] = x]]
  <2>1. m[to][scan] = o
    BY <1>4, <1>8
  <2>2. mem' = [m EXCEPT ![to][scan].w[k] = q]
    BY <1>2
  <2> HIDE DEF m, q, o
  <2> QED
    BY <2>1, <2>2, <1>9
<1> HIDE DEF m, q
<1>11. PICK w : w = [o.w EXCEPT ![k] = q]
  OBVIOUS
<1>12. /\ w \in Seq(Word) /\ Len(w) = Len(o.w) /\ DOMAIN w = DOMAIN o.w
       /\ \A h \in 1 .. Len(o.w) : w[h] = IF h = k THEN q ELSE o.w[h]
  <2>1. o.w \in Seq(Word)
    BY <1>5, ObjectParts
  <2>2. q \in Word
    BY <1>8 DEF Word
  <2> HIDE DEF o
  <2> QED
    BY <2>1, <2>2, <1>7, <1>11
<1>13. x.kind = o.kind /\ x.w = w /\ x.tag = o.tag /\ x = [kind |-> x.kind, w |-> x.w, tag |-> x.tag]
  BY <1>5, <1>9, <1>11 DEF Object
<1>14. x \in Object /\ x.kind # "FWD" /\ WellFormed(x) /\ Follows(x) = Follows(o)
  <2>1. Follows(x) = Follows(o)
    BY <1>12, <1>13, SameFollows
  <2>2. x \in Object
    BY <1>5, <1>12, <1>13, ObjectParts DEF Object
  <2> QED
    BY <2>1, <2>2, <1>5, <1>12, <1>13 DEF WellFormed
<1> HIDE DEF o
<1>15. /\ mem' \in [Space -> Seq(Object)] /\ mem'[from] = m[from]
       /\ Len(mem'[to]) = Len(m[to]) /\ mem'[to][scan] = x
       /\ \A j \in 1 .. Len(m[to]) : j # scan => mem'[to][j] = m[to][j]
  <2>1. m[to] \in Seq(Object) /\ scan \in 1 .. Len(m[to])
    BY <1>3, <1>4, <1>8
  <2>2. PICK t : t = [m[to] EXCEPT ![scan] = x]
    OBVIOUS
  <2>3. t \in Seq(Object) /\ Len(t) = Len(m[to]) /\ t[scan] = x
        /\ \A j \in 1 .. Len(m[to]) : j # scan => t[j] = m[to][j]
    BY <2>1, <2>2, <1>14
  <2>4. mem' = [m EXCEPT ![to] = t]
    BY <2>2, <1>10
  <2> QED
    BY <2>3, <2>4, <1>3, <1>8
<1>16. Len(m[to]) \in Nat /\ Len(m[from]) \in Nat
  BY <1>3, <1>8
<1>17. \A y : In(y, from, mem) => In(y, from, mem')
  BY <1>3, <1>8, <1>15, <1>16, InGrows
<1>18. \A y : In(y, to, mem) => In(y, to, mem')
  BY <1>3, <1>8, <1>15, <1>16, InGrows
<1>19. \A y : (In(y, to, m) => In(y, to, mem')) /\ (In(y, from, m) => In(y, from, mem'))
  BY <1>15, <1>16, InGrows
<1>20. TypeOK'
  BY <1>1, <1>2, <1>3, <1>8, <1>15 DEF TypeOK, spaceVars, mutVars
<1>21. Ownership'
  BY <1>1, <1>3 DEF Ownership, spaceVars
<1>22. Phase'
  <2>1. field' \subseteq Follows(mem'[to][scan])
    BY <1>2, <1>4, <1>14, <1>15
  <2>2. scan <= Len(mem'[to])
    <3>1. scan \in Nat /\ scan <= n /\ n <= Len(m[to])
      BY <1>3, <1>4, <1>8
    <3>2. Len(mem'[to]) = Len(m[to])
      BY <1>15
    <3> HIDE DEF n
    <3> QED
      BY <3>1, <3>2, <1>3, <1>16
  <2> QED
    BY <2>1, <2>2, <1>1, <1>3 DEF Phase, spaceVars, Copying
<1>23. \A i \in 1 .. Len(mem'[from]) : Forwarded(mem'[from][i], from, to, mem')
  BY <1>8, <1>15, <1>19 DEF Forwarded, Whole
<1>24. ASSUME NEW j \in 1 .. Len(mem'[to])
       PROVE  /\ mem'[to][j].kind # "FWD" /\ WellFormed(mem'[to][j])
              /\ \A h \in Follows(mem'[to][j]) :
                    In(mem'[to][j].w[h], IF Behind(j, h)' THEN to ELSE from, mem')
  <2>1. CASE j = scan
    <3>1. \A h : Behind(j, h)' <=> (h \notin field \/ h = k)
      BY <2>1, <1>1, <1>2, <1>4 DEF Behind
    <3>2. \A h \in Follows(o) : In(w[h], IF h \notin field \/ h = k THEN to ELSE from, mem')
      <4> SUFFICES ASSUME NEW h \in Follows(o)
                   PROVE  In(w[h], IF h \notin field \/ h = k THEN to ELSE from, mem')
        OBVIOUS
      <4>1. CASE h = k
        BY <4>1, <1>5, <1>8, <1>12, <1>19 DEF o
      <4>2. CASE h # k
        <5>1. w[h] = o.w[h] /\ In(o.w[h], IF h \in field THEN from ELSE to, mem)
          BY <4>2, <1>5, <1>6, <1>12
        <5> QED
          BY <5>1, <4>2, <1>17, <1>18
      <4> QED
        BY <4>1, <4>2
    <3> QED
      BY <2>1, <3>1, <3>2, <1>13, <1>14, <1>15
  <2>2. CASE j # scan /\ j \in 1 .. n
    <3>1. mem'[to][j] = mem[to][j]
      BY <2>2, <1>8, <1>15
    <3>2. \A h : Behind(j, h)' <=> Behind(j, h)
      BY <2>2, <1>1 DEF Behind
    <3> QED
      BY <2>2, <3>1, <3>2, <1>3, <1>17, <1>18 DEF Between, Side
  <2>3. CASE j = n + 1
    <3>1. mem'[to][j] = m[to][j] /\ Whole(m[to][j], from, m)
      BY <2>3, <1>1, <1>3, <1>4, <1>8, <1>15
    <3>2. \A h : ~Behind(j, h)'
      BY <2>3, <1>1, <1>4, <1>3 DEF Behind
    <3> QED
      BY <3>1, <3>2, <1>19 DEF Whole
  <2> QED
    BY <2>1, <2>2, <2>3, <1>3, <1>8, <1>15
<1>25. \A r \in Slot : In(root'[r], IF r \in todo' THEN from' ELSE to', mem')
  BY <1>1, <1>3, <1>4, <1>18 DEF Between
<1>26. Between'
  BY <1>1, <1>23, <1>24, <1>25 DEF Between, Side
<1> QED
  BY <1>1, <1>20, <1>21, <1>22, <1>26 DEF IInv, Copying

-----------------------------------------------------------------------------
(* The theorems                                                            *)

LEMMA InitInv == Init => IInv
<1> SUFFICES ASSUME Init PROVE IInv
  OBVIOUS
<1>1. mem[heap] = <<>> /\ Len(mem[heap]) = 0 /\ heap \in Space /\ ~Copying /\ Current = heap
  BY DEF Init, Copying, Current
<1>2. TypeOK
  BY SizeAssumption DEF Init, TypeOK, Phases, Ptr
<1>3. Ownership
  BY SizeAssumption, NameAssumption DEF Init, Ownership
<1>4. Phase
  BY DEF Init, Phase, Copying
<1>5. AtRest
  <2>1. \A r \in Slot : In(root[r], heap, mem)
    BY DEF Init, In
  <2> QED
    BY <1>1, <2>1 DEF AtRest
<1> QED
  BY <1>1, <1>2, <1>3, <1>4, <1>5 DEF IInv

LEMMA NextInv == IInv /\ [Next]_vars => IInv'
<1> SUFFICES ASSUME IInv, [Next]_vars PROVE IInv'
  OBVIOUS
<1>1. CASE Mutator
  <2>1. CASE \E n \in Needs : Reserve(n)
    BY <2>1, ReserveKeeps
  <2>2. CASE \E s \in Shape, r \in Slot : \E w \in Payload(s) : Alloc(s, w, r)
    BY <2>2, AllocKeeps
  <2>3. CASE \E r \in Slot : Enter(r)
    BY <2>3, EnterKeeps
  <2>4. CASE \E r, v \in Slot : Update(r, v) \/ Unpack(r, v)
    BY <2>4, UpdateKeeps, UnpackKeeps
  <2>5. CASE \E r \in Slot : Restore(r)
    BY <2>5, RestoreKeeps
  <2>6. CASE \E r, v \in Slot :
               \E i \in 1 .. (IF IsAddr(root[r]) THEN Len(At(root[r]).w) ELSE 0) : Store(r, i, v)
    BY <2>6, StoreKeeps
  <2>7. CASE \E r \in Slot, p \in Loadable : Move(r, p)
    BY <2>7, MoveKeeps
  <2> QED
    BY <1>1, <2>1, <2>2, <2>3, <2>4, <2>5, <2>6, <2>7 DEF Mutator
<1>2. CASE Collector
  BY <1>2, BeginKeeps, CopyRootKeeps, StartScanKeeps, ScanFieldKeeps, NextObjectKeeps,
     FinishKeeps, AgainKeeps DEF Collector
<1>3. CASE UNCHANGED vars
  <2>1. TypeOK' /\ Ownership' /\ Phase'
    BY <1>3 DEF IInv, TypeOK, Ownership, Phase, Copying, vars
  <2>2. IF Copying' THEN Between' ELSE AtRest'
    BY <1>3 DEF IInv, Copying, Between, AtRest, Current, Side, Behind, vars
  <2> QED
    BY <2>1, <2>2 DEF IInv
<1> QED
  BY <1>1, <1>2, <1>3 DEF Next, Undefined

\* The inductive invariant: whatever the mutator does between collections,
\* and at every step of gc().
THEOREM Invariance == Spec => []IInv
BY InitInv, NextInv, PTL DEF Spec

\* The variables of the heap keep their types (src/eval.c: heap registers, gc).
THEOREM TypeCorrect == Spec => []TypeOK
<1>1. IInv => TypeOK
  BY DEF IInv
<1> QED
  BY <1>1, Invariance, PTL

\* No pointer that the mutator can follow leads out of the current space,
\* for every heap, program and size (copy, pointer_fields, gc).
THEOREM NothingDangles == Spec => []NoDangling
<1>1. IInv => NoDangling
  <2> SUFFICES ASSUME IInv, Running PROVE NoDangling
    BY DEF NoDangling
  <2>1. \A p : In(p, heap, mem) => Live(p, heap)
    BY DEF In, Live, IsAddr
  <2>2. DOMAIN mem[heap] = 1 .. Len(mem[heap])
    BY RunFacts DEF TypeOK
  <2> QED
    BY <2>1, <2>2, RunFacts DEF NoDangling, Whole
<1> QED
  BY <1>1, Invariance, PTL

\* Every block that malloc returned has one role until free gets it (gc).
THEOREM BlocksOwned == Spec => []Ownership
<1>1. IInv => Ownership
  BY DEF IInv
<1> QED
  BY <1>1, Invariance, PTL

-----------------------------------------------------------------------------
(* The words of the objects of a space, added up: what SumSizes and        *)
(* SumUnmoved return for every sequence of objects.                        *)

\* The weights of the objects of a space.
Sizes(m) == [i \in 1 .. Len(m) |-> Size(m[i])]
Unmoved(m) == [i \in 1 .. Len(m) |-> IF m[i].kind = "FWD" THEN 0 ELSE Size(m[i])]

LEMMA SizesTypes ==
    ASSUME NEW m \in Seq(Object)
    PROVE  Sizes(m) \in [1 .. Len(m) -> Nat] /\ Unmoved(m) \in [1 .. Len(m) -> Nat]
<1>1. ASSUME NEW i \in 1 .. Len(m)
      PROVE  Size(m[i]) \in Nat
  <2>1. m[i] \in Object
    OBVIOUS
  <2>2. Len(m[i].w) \in Nat
    BY <2>1 DEF Object
  <2> QED
    BY <2>2 DEF Size
<1> QED
  BY <1>1 DEF Sizes, Unmoved

\* SumSizes and SumUnmoved are the last sums.
LEMMA SumSizesTotal ==
    ASSUME NEW m \in Seq(Object)
    PROVE  \E f : Totals(f, Sizes(m), Len(m)) /\ SumSizes(m) = f[Len(m)]
<1>1. PICK g : Totals(g, Sizes(m), Len(m))
  <2>1. Len(m) \in Nat /\ Sizes(m) \in [1 .. Len(m) -> Nat]
    BY SizesTypes
  <2> QED
    BY <2>1, TotalsExist
<1>2. g = [i \in 0 .. Len(m) |-> IF i = 0 THEN 0 ELSE g[i - 1] + Size(m[i])]
  <2>1. ASSUME NEW i \in 0 .. Len(m)
        PROVE  g[i] = IF i = 0 THEN 0 ELSE g[i - 1] + Size(m[i])
    BY <1>1 DEF Totals, Sizes
  <2>2. g = [i \in 0 .. Len(m) |-> g[i]]
    BY <1>1 DEF Totals
  <2> QED
    BY <2>1, <2>2
<1> DEFINE f == CHOOSE f : f = [i \in 0 .. Len(m) |-> IF i = 0 THEN 0 ELSE f[i - 1] + Size(m[i])]
<1>3. f = [i \in 0 .. Len(m) |-> IF i = 0 THEN 0 ELSE f[i - 1] + Size(m[i])]
  BY <1>2
<1>4. SumSizes(m) = f[Len(m)]
  BY DEF SumSizes
<1> HIDE DEF f
<1>5. Totals(f, Sizes(m), Len(m))
  <2> DEFINE S == {k \in Nat : k <= Len(m) => f[k] = g[k]}
  <2>1. 0 \in S
    BY <1>1, <1>3 DEF Totals
  <2>2. ASSUME NEW k \in Nat, k \in S
        PROVE  k + 1 \in S
    <3>1. CASE k + 1 <= Len(m)
      <4>1. k + 1 \in 0 .. Len(m) /\ (k + 1) - 1 = k /\ k + 1 # 0 /\ k <= Len(m)
        BY <3>1
      <4>2. f[k + 1] = f[k] + Size(m[k + 1])
        BY <4>1, <1>3
      <4>3. g[k + 1] = g[k] + Size(m[k + 1])
        BY <4>1, <1>2
      <4> QED
        BY <4>1, <4>2, <4>3, <2>2
    <3> QED
      BY <3>1
  <2> HIDE DEF S
  <2>3. \A k \in Nat : k \in S
    BY <2>1, <2>2, SetInduction
  <2>4. \A k \in 0 .. Len(m) : f[k] = g[k]
    BY <2>3 DEF S
  <2>5. f = g
    BY <2>4, <1>1, <1>3 DEF Totals
  <2> QED
    BY <2>5, <1>1
<1> QED
  BY <1>4, <1>5

LEMMA SumUnmovedTotal ==
    ASSUME NEW m \in Seq(Object)
    PROVE  \E f : Totals(f, Unmoved(m), Len(m)) /\ SumUnmoved(m) = f[Len(m)]
<1> DEFINE W(i) == IF m[i].kind = "FWD" THEN 0 ELSE Size(m[i])
<1>1. PICK g : Totals(g, Unmoved(m), Len(m))
  <2>1. Len(m) \in Nat /\ Unmoved(m) \in [1 .. Len(m) -> Nat]
    BY SizesTypes
  <2> QED
    BY <2>1, TotalsExist
<1>2. g = [i \in 0 .. Len(m) |-> IF i = 0 THEN 0 ELSE g[i - 1] + W(i)]
  <2>1. ASSUME NEW i \in 0 .. Len(m)
        PROVE  g[i] = IF i = 0 THEN 0 ELSE g[i - 1] + W(i)
    BY <1>1 DEF Totals, Unmoved
  <2>2. g = [i \in 0 .. Len(m) |-> g[i]]
    BY <1>1 DEF Totals
  <2> HIDE DEF W
  <2> QED
    BY <2>1, <2>2
<1> DEFINE f == CHOOSE f : f = [i \in 0 .. Len(m) |-> IF i = 0 THEN 0 ELSE f[i - 1] + W(i)]
<1>3. f = [i \in 0 .. Len(m) |-> IF i = 0 THEN 0 ELSE f[i - 1] + W(i)]
  BY <1>2
<1>4. SumUnmoved(m) = f[Len(m)]
  BY DEF SumUnmoved
<1> HIDE DEF f, W
<1>5. Totals(f, Unmoved(m), Len(m))
  <2> DEFINE S == {k \in Nat : k <= Len(m) => f[k] = g[k]}
  <2>1. 0 \in S
    BY <1>1, <1>3 DEF Totals
  <2>2. ASSUME NEW k \in Nat, k \in S
        PROVE  k + 1 \in S
    <3>1. CASE k + 1 <= Len(m)
      <4>1. k + 1 \in 0 .. Len(m) /\ (k + 1) - 1 = k /\ k + 1 # 0 /\ k <= Len(m)
        BY <3>1
      <4>2. f[k + 1] = f[k] + W(k + 1)
        BY <4>1, <1>3
      <4>3. g[k + 1] = g[k] + W(k + 1)
        BY <4>1, <1>2
      <4> QED
        BY <4>1, <4>2, <4>3, <2>2
    <3> QED
      BY <3>1
  <2> HIDE DEF S
  <2>3. \A k \in Nat : k \in S
    BY <2>1, <2>2, SetInduction
  <2>4. \A k \in 0 .. Len(m) : f[k] = g[k]
    BY <2>3 DEF S
  <2>5. f = g
    BY <2>4, <1>1, <1>3 DEF Totals
  <2> QED
    BY <2>5, <1>1
<1> QED
  BY <1>4, <1>5

-----------------------------------------------------------------------------
\* An empty space uses no words.
LEMMA SumEmpty == SumSizes(<<>>) = 0
<1>1. <<>> \in Seq(Object) /\ Len(<<>>) = 0
  OBVIOUS
<1>2. PICK f : Totals(f, Sizes(<<>>), Len(<<>>)) /\ SumSizes(<<>>) = f[Len(<<>>)]
  BY <1>1, SumSizesTotal
<1> QED
  BY <1>1, <1>2 DEF Totals

\* What is left to move is at most what there is.
LEMMA SumBounds ==
    ASSUME NEW m \in Seq(Object)
    PROVE  SumSizes(m) \in Nat /\ SumUnmoved(m) \in Nat /\ SumUnmoved(m) <= SumSizes(m)
<1>1. PICK f : Totals(f, Sizes(m), Len(m)) /\ SumSizes(m) = f[Len(m)]
  BY SumSizesTotal
<1>2. PICK g : Totals(g, Unmoved(m), Len(m)) /\ SumUnmoved(m) = g[Len(m)]
  BY SumUnmovedTotal
<1>3. Len(m) \in Nat /\ Len(m) \in 0 .. Len(m)
  OBVIOUS
<1>4. ASSUME NEW i \in 1 .. Len(m)
      PROVE  Unmoved(m)[i] <= Sizes(m)[i]
  <2>1. Sizes(m)[i] \in Nat
    BY SizesTypes
  <2> QED
    BY <2>1 DEF Sizes, Unmoved
<1>5. g[Len(m)] <= f[Len(m)]
  BY <1>1, <1>2, <1>3, <1>4, SizesTypes, TotalsLess
<1> QED
  BY <1>1, <1>2, <1>3, <1>5 DEF Totals

\* An object at the end adds its size.
LEMMA SumAppend ==
    ASSUME NEW m \in Seq(Object), NEW o \in Object
    PROVE  SumSizes(Append(m, o)) = SumSizes(m) + Size(o)
<1> DEFINE n == Append(m, o)
<1>1. /\ n \in Seq(Object) /\ Len(n) = Len(m) + 1 /\ Len(m) \in Nat /\ n[Len(m) + 1] = o
      /\ \A i \in 1 .. Len(m) : n[i] = m[i]
  OBVIOUS
<1> HIDE DEF n
<1>2. PICK f : Totals(f, Sizes(m), Len(m)) /\ SumSizes(m) = f[Len(m)]
  BY SumSizesTotal
<1>3. PICK g : Totals(g, Sizes(n), Len(n)) /\ SumSizes(n) = g[Len(n)]
  BY <1>1, SumSizesTotal
<1>4. \A i \in 1 .. Len(m) : Sizes(m)[i] = Sizes(n)[i]
  BY <1>1 DEF Sizes
<1>5. Sizes(n)[Len(m) + 1] = Size(o)
  BY <1>1 DEF Sizes
<1>6. Sizes(m) \in [1 .. Len(m) -> Nat] /\ Sizes(n) \in [1 .. Len(m) + 1 -> Nat]
  BY <1>1, SizesTypes
<1>7. g[Len(m) + 1] = f[Len(m)] + Sizes(n)[Len(m) + 1]
  BY <1>1, <1>2, <1>3, <1>4, <1>6, TotalsMore
<1> QED
  BY <1>1, <1>2, <1>3, <1>5, <1>7 DEF n

\* Objects that are rewritten in place keep their size.
LEMMA SumSame ==
    ASSUME NEW m \in Seq(Object), NEW n \in Seq(Object), Len(n) = Len(m),
           \A i \in 1 .. Len(m) : Len(n[i].w) = Len(m[i].w)
    PROVE  SumSizes(n) = SumSizes(m)
<1>1. Sizes(m) = Sizes(n)
  BY DEF Sizes, Size
<1>2. PICK f : Totals(f, Sizes(m), Len(m)) /\ SumSizes(m) = f[Len(m)]
  BY SumSizesTotal
<1>3. PICK g : Totals(g, Sizes(n), Len(n)) /\ SumSizes(n) = g[Len(n)]
  BY SumSizesTotal
<1>4. Len(m) \in Nat /\ Len(m) \in 0 .. Len(m) /\ \A i \in 1 .. Len(m) : Sizes(m)[i] <= Sizes(m)[i]
  BY SizesTypes
<1>5. f[Len(m)] <= g[Len(m)] /\ g[Len(m)] <= f[Len(m)]
  BY <1>1, <1>2, <1>3, <1>4, SizesTypes, TotalsLess
<1> QED
  BY <1>1, <1>2, <1>3, <1>4, <1>5 DEF Totals

\* An object that is forwarded need not be moved any more.
LEMMA SumForwarded ==
    ASSUME NEW m \in Seq(Object), NEW c \in 1 .. Len(m), NEW o \in Object,
           m[c].kind # "FWD", o.kind = "FWD"
    PROVE  SumUnmoved([m EXCEPT ![c] = o]) = SumUnmoved(m) - Size(m[c])
<1> DEFINE n == [m EXCEPT ![c] = o]
<1>1. /\ n \in Seq(Object) /\ Len(n) = Len(m) /\ Len(m) \in Nat /\ n[c] = o
      /\ \A i \in (1 .. Len(m)) \ {c} : n[i] = m[i]
  BY ExceptSeq
<1> HIDE DEF n
<1>2. PICK f : Totals(f, Unmoved(m), Len(m)) /\ SumUnmoved(m) = f[Len(m)]
  BY SumUnmovedTotal
<1>3. PICK g : Totals(g, Unmoved(n), Len(n)) /\ SumUnmoved(n) = g[Len(n)]
  BY <1>1, SumUnmovedTotal
<1>4. \A i \in (1 .. Len(m)) \ {c} : Unmoved(m)[i] = Unmoved(n)[i]
  BY <1>1 DEF Unmoved
<1>5. Unmoved(m)[c] = Size(m[c]) /\ Unmoved(n)[c] = 0
  BY <1>1 DEF Unmoved
<1>6. Unmoved(m) \in [1 .. Len(m) -> Nat] /\ Unmoved(n) \in [1 .. Len(m) -> Nat]
  BY <1>1, SizesTypes
<1>7. g[Len(m)] + Unmoved(m)[c] = f[Len(m)] + Unmoved(n)[c]
  <2> DEFINE k == Len(m)
             v == Unmoved(m)
             w == Unmoved(n)
  <2>1. /\ k \in Nat /\ c \in 1 .. k /\ \A i \in (1 .. k) \ {c} : v[i] = w[i]
        /\ \A i \in 1 .. k : v[i] \in Nat /\ w[i] \in Nat
        /\ Totals(f, v, k) /\ Totals(g, w, k)
    BY <1>1, <1>2, <1>3, <1>4, <1>6
  <2> HIDE DEF k, v, w
  <2>2. g[k] + v[c] = f[k] + w[c]
    BY <2>1, TotalsChanged
  <2> QED
    BY <2>2 DEF k, v, w
<1>8. f[Len(m)] \in Nat /\ Unmoved(m)[c] \in Nat
  <2>1. Len(m) \in 0 .. Len(m)
    BY <1>1
  <2> QED
    BY <2>1, <1>2, <1>6 DEF Totals
<1>9. g[Len(m)] \in Nat
  <2>1. Len(m) \in 0 .. Len(m)
    BY <1>1
  <2> QED
    BY <2>1, <1>1, <1>3 DEF Totals
<1>10. g[Len(m)] = f[Len(m)] - Size(m[c])
  BY <1>5, <1>7, <1>8, <1>9
<1> QED
  BY <1>1, <1>2, <1>3, <1>10 DEF n

-----------------------------------------------------------------------------
(* The steps of the heap.                                                  *)


\* What copy() does to the words in use: the to-space grows by what the
\* from-space has less to move, and objects keep their size.
LEMMA CopySums ==
    ASSUME IInv, Copying, NEW p, In(p, from, mem)
    PROVE  LET m == CopyMem(p)
           IN  /\ CopyHp(p) + SumSizes(mem[to]) = toHp + SumSizes(m[to])
               /\ SumSizes(m[to]) + SumUnmoved(m[from]) = SumSizes(mem[to]) + SumUnmoved(mem[from])
               /\ \A s \in Space \ {to} : SumSizes(m[s]) = SumSizes(mem[s])
               /\ Len(m[to]) > Len(mem[to]) => CopyPtr(p) = <<to, Len(mem[to]) + 1>>
<1> DEFINE m == CopyMem(p)
           n == Len(mem[to])
<1>1. /\ mem \in [Space -> Seq(Object)] /\ toHp \in Nat /\ from \in Space /\ to \in Space
      /\ from # to /\ n \in Nat
      /\ \A i \in 1 .. Len(mem[from]) : Forwarded(mem[from][i], from, to, mem)
  BY CopyFacts DEF TypeOK, Between
<1>2. CASE ~Moves(p)
  <2>1. m = mem /\ CopyHp(p) = toHp
    BY <1>2 DEF CopyMem, CopyHp
  <2> QED
    BY <2>1, <1>1
<1>3. CASE Moves(p)
  <2> DEFINE i == p[2]
             o == mem[from][i]
             q == <<to, n + 1>>
             x == Forward(o, q)
  <2>1. i \in 1 .. Len(mem[from]) /\ At(p) = o /\ o.kind # "FWD"
    BY <1>1, <1>3, NameAssumption DEF Moves, InHeap, IsAddr, In, At, Addr
  <2>2. o \in Object /\ Len(o.w) \in Nat /\ Len(o.w) > 0
    BY <2>1, <1>1, SpaceIsSeq, ObjectParts DEF Forwarded, Whole, WellFormed
  <2>3. x \in Object /\ x.kind = "FWD" /\ Len(x.w) = Len(o.w)
    <3>1. q \in Addr
      BY <1>1 DEF Addr
    <3>2. x \in Object /\ x.kind = "FWD"
      BY <2>2, <3>1, ForwardObject
    <3>3. x.w = [o.w EXCEPT ![1] = q]
      <4> HIDE DEF o, q
      <4> QED
        BY <2>2 DEF Forward, Object
    <3>4. DOMAIN x.w = DOMAIN o.w /\ x.w \in Seq(Word) /\ o.w \in Seq(Word)
      BY <3>2, <3>3, <2>2, ObjectParts
    <3> HIDE DEF o, x
    <3> QED
      BY <3>2, <3>4
  <2>4. CopyHp(p) = toHp + Size(o) /\ CopyPtr(p) = q
    BY <1>3, <2>1 DEF CopyHp, CopyPtr, Moves
  <2>5. m = [mem EXCEPT ![to] = Append(@, o), ![from][i] = x]
    BY <1>3, <2>1 DEF CopyMem
  <2> HIDE DEF o, x, m, q, i
  <2>6. /\ m[to] = Append(mem[to], o)
        /\ m[from] = [mem[from] EXCEPT ![i] = x]
        /\ \A s \in Space \ {from, to} : m[s] = mem[s]
    BY <2>5, <1>1
  <2>7. mem[to] \in Seq(Object) /\ mem[from] \in Seq(Object)
    BY <1>1
  <2>8. SumSizes(m[to]) = SumSizes(mem[to]) + Size(o)
    BY <2>2, <2>6, <2>7, SumAppend
  <2>9. SumUnmoved(m[from]) = SumUnmoved(mem[from]) - Size(o)
    BY <2>1, <2>3, <2>6, <2>7, SumForwarded DEF o
  <2>10. SumSizes(m[from]) = SumSizes(mem[from])
    <3>1. m[from] \in Seq(Object) /\ Len(m[from]) = Len(mem[from])
          /\ \A j \in 1 .. Len(mem[from]) : m[from][j] = IF j = i THEN x ELSE mem[from][j]
      BY <2>1, <2>3, <2>6, <2>7, ExceptSeq
    <3>2. \A j \in 1 .. Len(mem[from]) : Len(m[from][j].w) = Len(mem[from][j].w)
      BY <3>1, <2>3 DEF o
    <3> QED
      BY <3>1, <3>2, <2>7, SumSame
  <2>11. Size(o) \in Nat /\ SumSizes(mem[to]) \in Nat /\ SumUnmoved(mem[from]) \in Nat
    BY <2>2, <2>7, SumBounds DEF Size
  <2>12. CopyHp(p) + SumSizes(mem[to]) = toHp + SumSizes(m[to])
    BY <2>4, <2>8, <2>11, <1>1
  <2>13. SumSizes(m[to]) + SumUnmoved(m[from]) = SumSizes(mem[to]) + SumUnmoved(mem[from])
    BY <2>8, <2>9, <2>11
  <2>14. \A s \in Space \ {to} : SumSizes(m[s]) = SumSizes(mem[s])
    BY <2>6, <2>10
  <2> QED
    BY <2>4, <2>12, <2>13, <2>14 DEF m, q
<1> QED
  BY <1>2, <1>3

-----------------------------------------------------------------------------
(* The mutator                                                             *)

\* What FullInv says while the mutator runs.
LEMMA RunRoom ==
    ASSUME FullInv, Running
    PROVE  /\ IInv /\ TypeOK /\ heap \in Space /\ mem \in [Space -> Seq(Object)]
           /\ mem[heap] \in Seq(Object) /\ hp \in Nat /\ reserved \in Int /\ heapSize \in Nat
           /\ heapSize = cap[heap] /\ hp = SumSizes(mem[heap]) /\ hp + reserved <= cap[heap]
BY RunFacts DEF FullInv, Room, TypeOK

\* A step of the mutator between collections.
LEMMA MutatorRoom ==
    ASSUME FullInv, Running, UNCHANGED <<cap, heap, heapSize, phase>>,
           hp' = SumSizes(mem'[heap]), hp' + reserved' <= heapSize
    PROVE  Room' /\ Fits' /\ Sourced'
BY RunRoom DEF Room, Fits, Sourced, Copying, Running

\* An object is overwritten with one of its size.
LEMMA RewriteRoom ==
    ASSUME FullInv, IInv', NEW r \in Slot, IsAddr(root[r]), Running,
           NEW o, Len(o.w) = Len(At(root[r]).w), Rewrite(root[r], o),
           UNCHANGED <<cap, spaceVars, root, mutVars, gcVars>>
    PROVE  Room' /\ Fits' /\ Sourced'
<1> DEFINE p == root[r]
<1>1. p[1] = heap /\ p[2] \in 1 .. Len(mem[heap]) /\ At(p) = mem[heap][p[2]]
  <2>1. p \in Addr /\ In(p, heap, mem) /\ p \notin Static \cup {NULL}
    BY RunRoom, RootObject, NameAssumption DEF IsAddr, Addr
  <2>2. p[1] = heap /\ p[2] \in 1 .. Len(mem[heap])
    BY <2>1, RunRoom DEF In, Addr
  <2> QED
    BY <2>2 DEF At
<1>2. mem' = [mem EXCEPT ![p[1]][p[2]] = o]
  BY DEF Rewrite
<1> HIDE DEF p
<1>3. mem'[heap] = [mem[heap] EXCEPT ![p[2]] = o]
  BY <1>1, <1>2, RunRoom
<1>4. mem'[heap] \in Seq(Object) /\ heap' = heap
  BY RunRoom DEF IInv, TypeOK, spaceVars
<1>5. Len(mem'[heap]) = Len(mem[heap])
      /\ \A i \in 1 .. Len(mem[heap]) : mem'[heap][i] = IF i = p[2] THEN o ELSE mem[heap][i]
  <2>1. mem[heap] \in Seq(Object) /\ Len(mem[heap]) \in Nat /\ DOMAIN mem[heap] = 1 .. Len(mem[heap])
    BY RunRoom
  <2>2. DOMAIN mem'[heap] = DOMAIN mem[heap]
    BY <1>3
  <2>3. Len(mem'[heap]) = Len(mem[heap])
    BY <2>1, <2>2, <1>4
  <2> QED
    BY <2>1, <2>3, <1>3
<1>6. \A i \in 1 .. Len(mem[heap]) : Len(mem'[heap][i].w) = Len(mem[heap][i].w)
  BY <1>1, <1>5 DEF p
<1>7. SumSizes(mem'[heap]) = SumSizes(mem[heap])
  BY <1>4, <1>5, <1>6, RunRoom, SumSame
<1> QED
  BY <1>7, RunRoom, MutatorRoom DEF spaceVars, mutVars, gcVars

\* alloc() fills the words that it takes.
LEMMA AllocRoom ==
    ASSUME FullInv, NEW s \in Shape, NEW r \in Slot, NEW w \in Payload(s), Alloc(s, w, r)
    PROVE  Room' /\ Fits' /\ Sourced'
<1> DEFINE n == [kind |-> s.kind, w |-> w, tag |-> born + 1]
<1>1. /\ Running
      /\ mem' = [mem EXCEPT ![heap] = Append(@, n)]
      /\ hp' = hp + 1 + s.size
      /\ reserved' = reserved - (1 + s.size)
      /\ UNCHANGED <<cap, heap, heapSize, spare, spareSize, gcVars>>
  BY DEF Alloc
<1> HIDE DEF n
<1>2. s.kind \in Kinds /\ s.size \in Nat \ {0}
  BY ShapeAssumption
<1>3. w \in Seq(Word) /\ Len(w) = s.size
  <2>1. {root[q] : q \in Slot} \cup {NULL, Data} \subseteq Word
    BY <1>1, RunRoom DEF TypeOK, Word, Ptr
  <2>2. w \in [1 .. s.size -> {root[q] : q \in Slot} \cup {NULL, Data}]
    BY DEF Payload
  <2> QED
    BY <2>1, <2>2, <1>2
<1>4. n \in Object /\ Size(n) = 1 + s.size
  <2>1. born \in Nat
    BY <1>1, RunRoom DEF TypeOK
  <2> QED
    BY <2>1, <1>2, <1>3 DEF Object, Size, n
<1>5. mem'[heap] = Append(mem[heap], n)
  BY <1>1, RunRoom
<1>6. SumSizes(mem'[heap]) = SumSizes(mem[heap]) + (1 + s.size)
  BY <1>1, <1>4, <1>5, RunRoom, SumAppend
<1>7. hp' = SumSizes(mem'[heap]) /\ hp' + reserved' <= heapSize
  <2>1. hp \in Nat /\ reserved \in Int /\ hp = SumSizes(mem[heap]) /\ hp + reserved <= heapSize
    BY <1>1, RunRoom
  <2>2. hp' = SumSizes(mem'[heap])
    <3>1. hp' = hp + (1 + s.size)
      <4>1. hp \in Nat /\ s.size \in Nat /\ hp' = hp + 1 + s.size
        BY <2>1, <1>1, <1>2
      <4> QED
        BY <4>1
    <3>2. SumSizes(mem'[heap]) = hp + (1 + s.size)
      BY <2>1, <1>6
    <3> QED
      BY <3>1, <3>2
  <2>3. hp' + reserved' = hp + reserved
    <3>1. hp \in Nat /\ reserved \in Int /\ s.size \in Nat
      BY <2>1, <1>2
    <3>2. hp' = hp + 1 + s.size /\ reserved' = reserved - (1 + s.size)
      BY <1>1
    <3> QED
      BY <3>1, <3>2, SMTT(30)
  <2> QED
    BY <2>1, <2>2, <2>3
<1> QED
  BY <1>1, <1>7, MutatorRoom DEF gcVars

\* reserve() starts a collection with a space for all that the heap holds.
LEMMA ReserveRoom ==
    ASSUME FullInv, IInv', NEW n \in Needs, Reserve(n), ~Overrun
    PROVE  Room' /\ Fits' /\ Sourced'
<1>1. Running /\ UNCHANGED <<mem, cap, spaceVars, root, born>> /\ n \in Nat
  BY SizeAssumption DEF Reserve
<1>2. CASE hp + n > heapSize
  <2>1. phase' = "begin" /\ from' = heap /\ newSize' = heapSize /\ reserved' = 0
    BY <1>2 DEF Reserve
  <2>2. Room'
    BY <1>1, <2>1, RunRoom DEF Room, spaceVars, Overrun
  <2>3. Fits' /\ Sourced'
    <3>1. mem' = mem /\ hp' = hp /\ SumSizes(mem[heap]) <= heapSize /\ SumSizes(mem[heap]) <= hp
      BY <1>1, RunRoom DEF spaceVars, Overrun
    <3> QED
      BY <2>1, <3>1 DEF Fits, Sourced, Copying
  <2> QED
    BY <2>2, <2>3
<1>3. CASE ~(hp + n > heapSize)
  <2>1. reserved' = n /\ UNCHANGED gcVars
    BY <1>3 DEF Reserve
  <2>2. hp' = SumSizes(mem'[heap]) /\ hp' + reserved' <= heapSize
    BY <1>1, <1>3, <2>1, RunRoom DEF spaceVars
  <2> QED
    BY <1>1, <2>1, <2>2, MutatorRoom DEF spaceVars, gcVars
<1> QED
  BY <1>2, <1>3

\* Every step of the mutator.
LEMMA MutatorKeepsRoom ==
    ASSUME FullInv, IInv', Mutator
    PROVE  Room' /\ Fits' /\ Sourced'
<1>1. ASSUME NEW r \in Slot, Enter(r) PROVE Room' /\ Fits' /\ Sourced'
  <2> DEFINE o == [At(root[r]) EXCEPT !.kind = "BLACKHOLE"]
  <2>1. Running /\ IsAddr(root[r]) /\ Rewrite(root[r], o)
        /\ UNCHANGED <<cap, spaceVars, root, mutVars, gcVars>>
    BY <1>1 DEF Enter
  <2>2. Len(o.w) = Len(At(root[r]).w)
    BY <2>1, RunRoom, RootObject DEF Object
  <2> HIDE DEF o
  <2> QED
    BY <2>1, <2>2, RewriteRoom
<1>2. ASSUME NEW r \in Slot, NEW v \in Slot, Update(r, v) PROVE Room' /\ Fits' /\ Sourced'
  <2> DEFINE o == [At(root[r]) EXCEPT !.kind = "IND", !.w[1] = root[v], !.w[2] = NULL]
  <2>1. Running /\ IsAddr(root[r]) /\ Rewrite(root[r], o)
        /\ UNCHANGED <<cap, spaceVars, root, mutVars, gcVars>>
    BY <1>2 DEF Update
  <2>2. At(root[r]) \in Object /\ At(root[r]).w \in Seq(Word)
    BY <2>1, RunRoom, RootObject, ObjectParts
  <2>3. o.w = [[At(root[r]).w EXCEPT ![1] = root[v]] EXCEPT ![2] = NULL]
    BY <2>2 DEF Object
  <2>4. Len(o.w) = Len(At(root[r]).w)
    BY <2>2, <2>3
  <2> HIDE DEF o
  <2> QED
    BY <2>1, <2>4, RewriteRoom
<1>3. ASSUME NEW r \in Slot, NEW v \in Slot, Unpack(r, v) PROVE Room' /\ Fits' /\ Sourced'
  <2> DEFINE o == [At(root[r]) EXCEPT !.kind = "IND", !.w[1] = root[v]]
  <2>1. Running /\ IsAddr(root[r]) /\ Rewrite(root[r], o)
        /\ UNCHANGED <<cap, spaceVars, root, mutVars, gcVars>>
    BY <1>3 DEF Unpack
  <2>2. At(root[r]) \in Object /\ At(root[r]).w \in Seq(Word)
    BY <2>1, RunRoom, RootObject, ObjectParts
  <2>3. o.w = [At(root[r]).w EXCEPT ![1] = root[v]]
    BY <2>2 DEF Object
  <2>4. Len(o.w) = Len(At(root[r]).w)
    BY <2>2, <2>3
  <2> HIDE DEF o
  <2> QED
    BY <2>1, <2>4, RewriteRoom
<1>4. ASSUME NEW r \in Slot, Restore(r) PROVE Room' /\ Fits' /\ Sourced'
  <2> DEFINE o == [At(root[r]) EXCEPT !.kind = "THUNK"]
  <2>1. Running /\ IsAddr(root[r]) /\ Rewrite(root[r], o)
        /\ UNCHANGED <<cap, spaceVars, root, mutVars, gcVars>>
    BY <1>4 DEF Restore
  <2>2. Len(o.w) = Len(At(root[r]).w)
    BY <2>1, RunRoom, RootObject DEF Object
  <2> HIDE DEF o
  <2> QED
    BY <2>1, <2>2, RewriteRoom
<1>5. ASSUME NEW r \in Slot, NEW v \in Slot, NEW i, Store(r, i, v)
      PROVE  Room' /\ Fits' /\ Sourced'
  <2> DEFINE o == [At(root[r]) EXCEPT !.w[i] = root[v]]
  <2>1. Running /\ IsAddr(root[r]) /\ Rewrite(root[r], o)
        /\ UNCHANGED <<cap, spaceVars, root, mutVars, gcVars>>
    BY <1>5 DEF Store
  <2>2. At(root[r]) \in Object /\ At(root[r]).w \in Seq(Word)
    BY <2>1, RunRoom, RootObject, ObjectParts
  <2>3. o.w = [At(root[r]).w EXCEPT ![i] = root[v]]
    BY <2>2 DEF Object
  <2>4. Len(o.w) = Len(At(root[r]).w)
    BY <2>2, <2>3
  <2> HIDE DEF o
  <2> QED
    BY <2>1, <2>4, RewriteRoom
<1>6. ASSUME NEW r \in Slot, NEW p \in Loadable, Move(r, p) PROVE Room' /\ Fits' /\ Sourced'
  <2>1. Running /\ UNCHANGED <<mem, cap, spaceVars, mutVars, gcVars>>
    BY <1>6 DEF Move
  <2>2. hp' = SumSizes(mem'[heap]) /\ hp' + reserved' <= heapSize
    BY <2>1, RunRoom DEF spaceVars, mutVars
  <2> QED
    BY <2>1, <2>2, MutatorRoom DEF spaceVars, gcVars
<1> QED
  BY <1>1, <1>2, <1>3, <1>4, <1>5, <1>6, AllocRoom, ReserveRoom DEF Mutator

-----------------------------------------------------------------------------
(* The collector                                                           *)

\* What FullInv says during a round.
LEMMA RoundRoom ==
    ASSUME FullInv, Copying
    PROVE  /\ IInv /\ TypeOK /\ mem \in [Space -> Seq(Object)]
           /\ from \in Space /\ to \in Space /\ from # to /\ heap \in Space /\ to # heap
           /\ mem[to] \in Seq(Object) /\ mem[from] \in Seq(Object) /\ mem[heap] \in Seq(Object)
           /\ Len(mem[to]) \in Nat
           /\ hp = SumSizes(mem[heap]) /\ hp + reserved <= heapSize
           /\ toHp = SumSizes(mem[to]) /\ toHp \in Nat /\ newSize \in Nat
           /\ SumUnmoved(mem[from]) \in Nat /\ toHp + SumUnmoved(mem[from]) <= newSize
           /\ hp \in Nat /\ toHp + SumUnmoved(mem[from]) <= hp
           /\ \A j \in 1 .. Len(mem[to]) : HasSource(j)
<1>1. IInv /\ Room /\ Fits /\ Sourced /\ heapSize = cap[heap]
  BY CopyFacts DEF FullInv
<1>2. toHp \in Nat /\ newSize \in Nat /\ hp \in Nat
  BY <1>1, CopyFacts DEF TypeOK
<1> QED
  BY <1>1, <1>2, CopyFacts, SumBounds DEF Room, Fits, Sourced, Copying

\* The sums of a round still fit after a step that copies, or does not.
LEMMA RoundFits ==
    ASSUME FullInv, Copying, IInv', Copying',
           UNCHANGED <<heap, hp, heapSize, reserved, from, to, newSize>>,
           SumSizes(mem'[heap]) = SumSizes(mem[heap]),
           toHp' = SumSizes(mem'[to]),
           SumSizes(mem'[to]) + SumUnmoved(mem'[from]) = SumSizes(mem[to]) + SumUnmoved(mem[from])
    PROVE  Room' /\ Fits'
<1>1. /\ mem'[to] \in Seq(Object) /\ mem'[from] \in Seq(Object)
      /\ heapSize' = cap'[heap'] /\ newSize' = cap'[to']
  <2>1. TypeOK' /\ Phase'
    BY DEF IInv
  <2>2. mem' \in [Space -> Seq(Object)]
    BY <2>1 DEF TypeOK
  <2> QED
    BY <2>1, <2>2, RoundRoom DEF Phase
<1>2. SumSizes(mem'[to]) \in Nat /\ SumUnmoved(mem'[from]) \in Nat
  BY <1>1, SumBounds
<1>3. /\ SumSizes(mem'[to]) + SumUnmoved(mem'[from]) <= newSize
      /\ SumSizes(mem'[to]) + SumUnmoved(mem'[from]) <= hp
  BY RoundRoom
<1>4. SumSizes(mem'[to]) <= newSize
  BY <1>2, <1>3, RoundRoom
<1>5. Room'
  BY <1>1, <1>4, RoundRoom DEF Room
<1>6. Fits'
  BY <1>3 DEF Fits, Copying
<1> QED
  BY <1>5, <1>6

\* A round starts with an empty to-space and nothing moved.
LEMMA BeginRoom == ASSUME FullInv, IInv', Begin PROVE Room' /\ Fits' /\ Sourced'
<1>1. /\ phase = "begin" /\ phase' = "roots" /\ toHp' = 0
      /\ mem' = [s \in Space |-> IF s \in {spare, to'} THEN <<>> ELSE mem[s]]
      /\ UNCHANGED <<heap, hp, heapSize, reserved, from, newSize>>
  BY DEF Begin, mutVars
<1>2. /\ TypeOK /\ Ownership /\ Phase /\ Room /\ Fits /\ from \in Space /\ heap \in Space
      /\ mem \in [Space -> Seq(Object)] /\ NULL \notin Space /\ heapSize = cap[heap]
  BY <1>1, NameAssumption DEF FullInv, IInv, Phase, TypeOK
<1>3. Copying' /\ to' \in Space /\ to' # from /\ to' # heap /\ heapSize' = cap'[heap']
      /\ newSize' = cap'[to']
  <2>1. Ownership' /\ Phase' /\ Copying'
    BY <1>1 DEF IInv, Copying
  <2> QED
    BY <2>1, <1>1 DEF Ownership, Phase, Copying
<1>4. spare \notin {heap, from}
  BY <1>2 DEF Ownership
<1>5. mem'[heap] = mem[heap] /\ mem'[from] = mem[from] /\ mem'[to'] = <<>>
  BY <1>1, <1>2, <1>3, <1>4
<1>6. /\ mem[from] \in Seq(Object) /\ newSize \in Nat /\ hp \in Nat
      /\ SumSizes(mem[from]) <= newSize /\ SumSizes(mem[from]) <= hp
  BY <1>1, <1>2 DEF Fits, TypeOK
<1>7. SumUnmoved(mem[from]) <= newSize /\ SumUnmoved(mem[from]) <= hp /\ SumUnmoved(mem[from]) \in Nat
  BY <1>6, SumBounds
<1>8. Room'
  BY <1>1, <1>2, <1>3, <1>5, <1>6, SumEmpty DEF Room
<1>9. Fits'
  BY <1>1, <1>3, <1>5, <1>7, SumEmpty DEF Fits
<1>10. Sourced'
  <2>1. 1 .. Len(mem'[to']) = {}
    BY <1>5
  <2> QED
    BY <2>1 DEF Sourced
<1> QED
  BY <1>8, <1>9, <1>10

\* Copying a root.
LEMMA CopyRootRoom == ASSUME FullInv, IInv', CopyRoot PROVE Room' /\ Fits' /\ Sourced'
<1>1. /\ phase = "roots" /\ Copying /\ Copying'
      /\ UNCHANGED <<cap, spaceVars, mutVars, phase, need, from, to, newSize, scan, field>>
  BY DEF CopyRoot, Copying
<1>2. PICK r \in todo : /\ mem' = CopyMem(root[r]) /\ toHp' = CopyHp(root[r])
                        /\ root' = [root EXCEPT ![r] = CopyPtr(root[r])]
                        /\ todo' = todo \ {r}
  BY DEF CopyRoot
<1> DEFINE n == Len(mem[to])
<1>3. r \in Slot /\ In(root[r], from, mem) /\ scan = 0 /\ n \in Nat /\ root \in [Slot -> Ptr]
  <2>1. TypeOK /\ Between /\ Phase
    BY <1>1, RoundRoom, CopyFacts DEF IInv
  <2> QED
    BY <1>1, <1>2, <2>1, RoundRoom DEF Between, Phase, TypeOK
<1>4. /\ toHp' + SumSizes(mem[to]) = toHp + SumSizes(mem'[to])
      /\ SumSizes(mem'[to]) + SumUnmoved(mem'[from]) = SumSizes(mem[to]) + SumUnmoved(mem[from])
      /\ SumSizes(mem'[heap]) = SumSizes(mem[heap])
      /\ Len(mem'[to]) > n => CopyPtr(root[r]) = <<to, n + 1>>
  BY <1>1, <1>2, <1>3, RoundRoom, CopySums
<1>5. Len(mem'[to]) \in n .. n + 1
  BY <1>1, <1>2, <1>3, RoundRoom, CopyLemma
<1>6. mem'[to] \in Seq(Object)
  BY <1>1, RoundRoom DEF IInv, TypeOK
<1>7. toHp' = SumSizes(mem'[to])
  <2>1. toHp' \in Nat /\ SumSizes(mem'[to]) \in Nat
    BY <1>6, SumBounds DEF IInv, TypeOK
  <2> QED
    BY <1>1, <1>4, <2>1, RoundRoom
<1>8. Room' /\ Fits'
  BY <1>1, <1>4, <1>7, RoundFits DEF spaceVars, mutVars
<1>9. ASSUME NEW j \in 1 .. Len(mem'[to])
      PROVE  \E q \in Slot \ todo' : root'[q] = <<to, j>>
  <2>1. CASE j \in 1 .. n
    <3>1. \A i \in 1 .. j - 1 : \A k : ~Behind(i, k)
      BY <1>3 DEF Behind
    <3>2. PICK q \in Slot \ todo : root[q] = <<to, j>>
      BY <1>1, <2>1, <3>1, RoundRoom DEF HasSource
    <3> QED
      BY <3>2, <1>2, <1>3
  <2>2. CASE j = n + 1
    BY <2>2, <1>2, <1>3, <1>4, <1>5
  <2> QED
    BY <2>1, <2>2, <1>3, <1>5
<1>10. Sourced'
  BY <1>1, <1>9 DEF Sourced, HasSource
<1> QED
  BY <1>8, <1>10

\* A step that copies nothing and moves the scan pointer on.
LEMMA AdvanceRoom ==
    ASSUME FullInv, IInv', Copying, Copying',
           UNCHANGED <<mem, heap, hp, heapSize, reserved, root, from, to, toHp, newSize, todo>>,
           scan' > scan
    PROVE  Room' /\ Fits' /\ Sourced'
<1>1. Room' /\ Fits'
  BY RoundRoom, RoundFits
<1>2. scan \in Nat /\ scan' \in Nat
  BY RoundRoom DEF IInv, TypeOK
<1>3. \A i \in Nat : \A k : Behind(i, k) => Behind(i, k)'
  BY <1>2 DEF Behind
<1>4. ASSUME NEW j \in 1 .. Len(mem[to])
      PROVE  HasSource(j)'
  <2>1. CASE \E r \in Slot \ todo : root[r] = <<to, j>>
    BY <2>1 DEF HasSource
  <2>2. CASE \E i \in 1 .. j - 1 : \E k \in Follows(mem[to][i]) :
                Behind(i, k) /\ mem[to][i].w[k] = <<to, j>>
    BY <2>2, <1>3 DEF HasSource
  <2> QED
    BY <2>1, <2>2, RoundRoom DEF HasSource
<1> QED
  BY <1>1, <1>4 DEF Sourced

\* Copying what a field of an object of the to-space refers to.
LEMMA ScanFieldRoom == ASSUME FullInv, IInv', ScanField PROVE Room' /\ Fits' /\ Sourced'
<1> DEFINE n == Len(mem[to])
           o == mem[to][scan]
<1>1. /\ phase = "scan" /\ Copying /\ Copying' /\ scan <= n
      /\ UNCHANGED <<cap, spaceVars, root, mutVars, phase, need, from, to, newSize, todo, scan>>
  BY DEF ScanField, Copying
<1>2. PICK k \in field : /\ mem' = [CopyMem(o.w[k]) EXCEPT ![to][scan].w[k] = CopyPtr(o.w[k])]
                         /\ toHp' = CopyHp(o.w[k])
                         /\ field' = field \ {k}
  BY DEF ScanField
<1>3. scan \in 1 .. n /\ field \subseteq Follows(o) /\ n \in Nat
  <2>1. Phase /\ scan \in Nat
    BY <1>1, RoundRoom DEF IInv, TypeOK
  <2> QED
    BY <2>1, <1>1, RoundRoom DEF Phase
<1>4. In(o.w[k], from, mem) /\ o \in Object /\ k \in Follows(o)
  <2>1. Between
    BY <1>1, RoundRoom, CopyFacts
  <2>2. ~Behind(scan, k)
    BY <1>2, <1>3 DEF Behind
  <2>3. o \in Object /\ k \in Follows(o)
    BY <1>1, <1>2, <1>3, RoundRoom
  <2>4. In(o.w[k], Side(scan, k), mem)
    BY <2>1, <2>3, <1>3 DEF Between
  <2> QED
    BY <2>2, <2>3, <2>4 DEF Side
<1> DEFINE p == o.w[k]
           m == CopyMem(p)
           q == CopyPtr(p)
<1>5. /\ toHp' + SumSizes(mem[to]) = toHp + SumSizes(m[to])
      /\ SumSizes(m[to]) + SumUnmoved(m[from]) = SumSizes(mem[to]) + SumUnmoved(mem[from])
      /\ \A s \in Space \ {to} : SumSizes(m[s]) = SumSizes(mem[s])
      /\ Len(m[to]) > n => q = <<to, n + 1>>
  BY <1>1, <1>2, <1>4, RoundRoom, CopySums
<1>6. /\ m \in [Space -> Seq(Object)]
      /\ Len(m[to]) \in n .. n + 1
      /\ \A j \in 1 .. n : m[to][j] = mem[to][j]
  BY <1>1, <1>4, RoundRoom, CopyLemma
<1> DEFINE x == [o EXCEPT !.w[k] = q]
<1>7. mem' = [m EXCEPT ![to] = [m[to] EXCEPT ![scan] = x]]
  <2>1. m[to][scan] = o
    BY <1>3, <1>6
  <2>2. mem' = [m EXCEPT ![to][scan].w[k] = q]
    BY <1>2
  <2> HIDE DEF m, q, o
  <2> QED
    BY <2>1, <2>2
<1>8. /\ x.kind = o.kind /\ Len(x.w) = Len(o.w) /\ DOMAIN x.w = DOMAIN o.w
      /\ \A h \in DOMAIN o.w : x.w[h] = IF h = k THEN q ELSE o.w[h]
  <2>1. o.w \in Seq(Word)
    BY <1>4, ObjectParts
  <2>2. x.kind = o.kind /\ x.w = [o.w EXCEPT ![k] = q]
    BY <1>4 DEF Object
  <2> HIDE DEF o, q, x
  <2> QED
    BY <2>1, <2>2
<1> HIDE DEF m, q, p, x
<1>9. /\ mem'[to] \in Seq(Object) /\ mem'[from] = m[from] /\ mem'[heap] = m[heap]
      /\ Len(mem'[to]) = Len(m[to])
      /\ \A j \in 1 .. Len(m[to]) : mem'[to][j] = IF j = scan THEN x ELSE m[to][j]
  <2>1. mem' \in [Space -> Seq(Object)]
    BY DEF IInv, TypeOK
  <2>2. mem'[to] = [m[to] EXCEPT ![scan] = x] /\ mem'[from] = m[from] /\ mem'[heap] = m[heap]
    BY <1>1, <1>6, <1>7, RoundRoom
  <2>3. m[to] \in Seq(Object) /\ mem'[to] \in Seq(Object)
    BY <2>1, <1>1, <1>6, RoundRoom
  <2>4. Len(mem'[to]) = Len(m[to])
    BY <2>2, <2>3
  <2> QED
    BY <2>2, <2>3, <2>4
<1>10. SumSizes(mem'[to]) = SumSizes(m[to])
  <2>1. m[to] \in Seq(Object)
    BY <1>1, <1>6, RoundRoom
  <2>2. m[to][scan] = o
    BY <1>3, <1>6
  <2>3. \A j \in 1 .. Len(m[to]) : Len(mem'[to][j].w) = Len(m[to][j].w)
    BY <2>2, <1>8, <1>9
  <2> QED
    BY <2>1, <2>3, <1>9, SumSame
<1>11. Room' /\ Fits'
  <2>1. toHp' \in Nat /\ SumSizes(mem'[to]) \in Nat
    BY <1>9, SumBounds DEF IInv, TypeOK
  <2>2. toHp' = SumSizes(mem'[to])
    BY <2>1, <1>1, <1>5, <1>10, RoundRoom
  <2>3. SumSizes(mem'[heap]) = SumSizes(mem[heap])
    BY <1>1, <1>5, <1>9, RoundRoom
  <2> QED
    BY <2>2, <2>3, <1>1, <1>5, <1>9, <1>10, RoundFits DEF spaceVars, mutVars
<1>12. \A i \in 1 .. n : Follows(mem'[to][i]) = Follows(mem[to][i])
  <2> SUFFICES ASSUME NEW i \in 1 .. n PROVE Follows(mem'[to][i]) = Follows(mem[to][i])
    OBVIOUS
  <2>1. i \in 1 .. Len(m[to]) /\ m[to][i] = mem[to][i]
    BY <1>3, <1>6
  <2>2. CASE i = scan
    BY <2>1, <2>2, <1>8, <1>9, SameFollows
  <2>3. CASE i # scan
    BY <2>1, <2>3, <1>9
  <2> QED
    BY <2>2, <2>3
<1>13. \A h \in Follows(o) : h \in DOMAIN o.w
  <2>1. WellFormed(o)
    BY <1>1, <1>3, RoundRoom, CopyFacts DEF Between
  <2> QED
    BY <2>1, <1>4, FieldsScanned, ObjectParts
<1>14. ASSUME NEW j \in 1 .. Len(mem'[to])
       PROVE  HasSource(j)'
  <2>1. CASE j \in 1 .. n
    <3>1. CASE \E r \in Slot \ todo : root[r] = <<to, j>>
      BY <3>1, <1>1 DEF HasSource
    <3>2. CASE \E i \in 1 .. j - 1 : \E h \in Follows(mem[to][i]) :
                  Behind(i, h) /\ mem[to][i].w[h] = <<to, j>>
      <4>0. PICK i \in 1 .. j - 1 : \E h \in Follows(mem[to][i]) :
                    Behind(i, h) /\ mem[to][i].w[h] = <<to, j>>
        BY <3>2
      <4>1. PICK h \in Follows(mem[to][i]) : Behind(i, h) /\ mem[to][i].w[h] = <<to, j>>
        BY <4>0
      <4>2. i \in 1 .. n /\ i \in 1 .. Len(m[to]) /\ m[to][i] = mem[to][i]
        BY <2>1, <1>3, <1>6
      <4>3. h \in Follows(mem'[to][i]) /\ Behind(i, h)'
        BY <4>1, <4>2, <1>1, <1>2, <1>12 DEF Behind
      <4>4. mem'[to][i].w[h] = mem[to][i].w[h]
        <5>1. CASE i = scan
          <6>1. h # k
            <7>1. i = scan /\ scan \in Nat /\ k \in field
              BY <5>1, <1>2, <1>3
            <7> QED
              BY <7>1, <4>1 DEF Behind
          <6> QED
            BY <5>1, <6>1, <4>1, <4>2, <1>8, <1>9, <1>13
        <5>2. CASE i # scan
          BY <5>2, <4>2, <1>9
        <5> QED
          BY <5>1, <5>2
      <4> QED
        BY <4>1, <4>3, <4>4, <1>1 DEF HasSource
    <3> QED
      BY <2>1, <3>1, <3>2, <1>1, RoundRoom DEF HasSource
  <2>2. CASE j = n + 1
    <3>1. q = <<to, j>> /\ Len(m[to]) = n + 1
      BY <2>2, <1>3, <1>5, <1>6, <1>9
    <3>2. scan \in 1 .. j - 1 /\ scan \in 1 .. Len(m[to])
      BY <2>2, <3>1, <1>3
    <3>3. mem'[to][scan].w[k] = <<to, j>> /\ k \in Follows(mem'[to][scan])
      BY <3>1, <3>2, <1>3, <1>4, <1>8, <1>9, <1>12, <1>13
    <3>4. Behind(scan, k)'
      BY <1>1, <1>2 DEF Behind
    <3> QED
      BY <3>2, <3>3, <3>4, <1>1 DEF HasSource
  <2> QED
    BY <2>1, <2>2, <1>3, <1>6, <1>9
<1>15. Sourced'
  BY <1>1, <1>14 DEF Sourced
<1> QED
  BY <1>11, <1>15

\* The to-space becomes the heap.
LEMMA FinishRoom == ASSUME FullInv, IInv', Finish PROVE Room' /\ Fits' /\ Sourced'
<1>1. /\ Copying /\ (toHp + need) * 2 <= newSize
      /\ mem' = [s \in Space |-> IF s = to THEN mem[s] ELSE <<>>]
      /\ heap' = to /\ hp' = toHp /\ heapSize' = newSize /\ phase' = "run" /\ reserved' = need
  BY DEF Finish, Enough, Scanned, Copying
<1>2. need \in Nat /\ heapSize' = cap'[heap']
  BY <1>1, RoundRoom DEF TypeOK, IInv, Phase
<1>3. mem'[to] = mem[to] /\ hp' + reserved' <= heapSize'
  BY <1>1, <1>2, RoundRoom
<1>4. Room'
  BY <1>1, <1>2, <1>3, RoundRoom DEF Room
<1> QED
  BY <1>1, <1>4 DEF Fits, Sourced, Copying

\* The next round copies into a space twice as large.
LEMMA AgainRoom == ASSUME FullInv, IInv', Again PROVE Room' /\ Fits' /\ Sourced'
<1>1. /\ Copying /\ from' = to /\ newSize' = newSize * 2 /\ phase' = "begin"
      /\ UNCHANGED <<heap, hp, heapSize, reserved>>
  BY DEF Again, Grown, Scanned, Copying, spaceVars, mutVars
<1>2. mem'[to] = mem[to] /\ mem'[heap] = mem[heap]
  <2>1. CASE from = heap
    BY <2>1 DEF Again
  <2>2. CASE from # heap
    <3>1. mem' = [mem EXCEPT ![from] = <<>>]
      BY <2>2 DEF Again
    <3> QED
      BY <3>1, <2>2, <1>1, RoundRoom
  <2> QED
    BY <2>1, <2>2
<1>3. heapSize' = cap'[heap']
  BY DEF IInv, Phase
<1>4. Room'
  BY <1>1, <1>2, <1>3, RoundRoom DEF Room
<1>5. SumSizes(mem'[from']) <= newSize' /\ SumSizes(mem'[from']) <= hp'
  BY <1>1, <1>2, RoundRoom
<1> QED
  BY <1>1, <1>4, <1>5 DEF Fits, Sourced, Copying

\* Every step of the collector.
LEMMA CollectorKeepsRoom ==
    ASSUME FullInv, IInv', Collector
    PROVE  Room' /\ Fits' /\ Sourced'
<1>1. CASE StartScan
  <2>1. /\ Copying /\ Copying' /\ scan' = 1 /\ phase = "roots"
        /\ UNCHANGED <<mem, heap, hp, heapSize, reserved, root, from, to, toHp, newSize, todo>>
    BY <1>1 DEF StartScan, Copying, spaceVars, mutVars
  <2>2. scan = 0
    BY <2>1 DEF FullInv, IInv, Phase
  <2> QED
    BY <2>1, <2>2, AdvanceRoom
<1>2. CASE NextObject
  <2>1. /\ Copying /\ Copying' /\ scan' = scan + 1
        /\ UNCHANGED <<mem, heap, hp, heapSize, reserved, root, from, to, toHp, newSize, todo>>
    BY <1>2 DEF NextObject, Copying, spaceVars, mutVars
  <2>2. scan \in Nat
    BY DEF FullInv, IInv, TypeOK
  <2> QED
    BY <2>1, <2>2, AdvanceRoom
<1> QED
  BY <1>1, <1>2, BeginRoom, CopyRootRoom, ScanFieldRoom, FinishRoom, AgainRoom DEF Collector

-----------------------------------------------------------------------------
(* The objects that were moved                                             *)

\* What copy() does to the forwarding pointers of the from-space.
LEMMA CopyGone ==
    ASSUME IInv, Copying, NEW p, In(p, from, mem)
    PROVE  LET m == CopyMem(p)
           IN  /\ Len(m[from]) = Len(mem[from])
               /\ \/ Len(m[to]) = Len(mem[to]) /\ Gone(m[from]) = Gone(mem[from])
                  \/ /\ Len(m[to]) = Len(mem[to]) + 1
                     /\ \E i : i \notin Gone(mem[from]) /\ Gone(m[from]) = Gone(mem[from]) \cup {i}
<1> DEFINE m == CopyMem(p)
           n == Len(mem[to])
           i == p[2]
           o == mem[from][i]
           x == Forward(o, <<to, n + 1>>)
<1>1. /\ mem \in [Space -> Seq(Object)] /\ from \in Space /\ to \in Space
      /\ from # to /\ n \in Nat /\ mem[to] \in Seq(Object) /\ mem[from] \in Seq(Object)
  BY CopyFacts
<1>2. CASE ~Moves(p)
  BY <1>2 DEF CopyMem
<1>3. CASE Moves(p)
  <2>1. i \in 1 .. Len(mem[from]) /\ At(p) = o /\ o.kind # "FWD"
    BY <1>1, <1>3, NameAssumption DEF Moves, InHeap, IsAddr, In, At, Addr
  <2>2. o \in Object
    BY <2>1, <1>1
  <2>3. x.kind = "FWD"
    <3> HIDE DEF o
    <3> QED
      BY <2>2 DEF Forward, Object
  <2>4. m = [mem EXCEPT ![to] = Append(@, o), ![from][i] = x]
    BY <1>3, <2>1 DEF CopyMem
  <2> HIDE DEF o, x, m, i, n
  <2>5. m[to] = Append(mem[to], o) /\ m[from] = [mem[from] EXCEPT ![i] = x]
    BY <2>4, <1>1
  <2>6. Len(m[to]) = n + 1
    BY <2>5, <2>2, <1>1 DEF n
  <2>7. Len(m[from]) = Len(mem[from])
        /\ \A j \in 1 .. Len(mem[from]) : m[from][j] = IF j = i THEN x ELSE mem[from][j]
    <3>1. DOMAIN m[from] = DOMAIN mem[from] /\ Len(mem[from]) \in Nat
          /\ DOMAIN mem[from] = 1 .. Len(mem[from])
      BY <2>5, <1>1
    <3>2. m[from] \in Seq(Object)
      BY <1>1, CopyLemma DEF m
    <3> QED
      BY <3>1, <3>2, <2>5
  <2>8. i \notin Gone(mem[from]) /\ Gone(m[from]) = Gone(mem[from]) \cup {i}
    BY <2>1, <2>3, <2>7 DEF Gone, o
  <2> QED
    BY <2>6, <2>7, <2>8 DEF m, n
<1> QED
  BY <1>2, <1>3

\* The forwarding pointers of a space are finitely many.
LEMMA GoneFinite ==
    ASSUME NEW m \in Seq(Object)
    PROVE  IsFiniteSet(Gone(m)) /\ Cardinality(Gone(m)) \in Nat /\ Cardinality(Gone(m)) <= Len(m)
<1>1. Len(m) \in Nat /\ IsFiniteSet(1 .. Len(m)) /\ Cardinality(1 .. Len(m)) = Len(m)
  <2>1. Len(m) \in Nat /\ 1 \in Int /\ Len(m) \in Int
    OBVIOUS
  <2>2. IsFiniteSet(1 .. Len(m))
        /\ Cardinality(1 .. Len(m)) = IF 1 > Len(m) THEN 0 ELSE Len(m) - 1 + 1
    BY <2>1, FS_Interval
  <2> QED
    BY <2>1, <2>2
<1>2. Gone(m) \subseteq 1 .. Len(m)
  BY DEF Gone
<1> QED
  BY <1>1, <1>2, FS_Subset, FS_CardinalityType

\* A step of a round that calls copy() for p.
LEMMA CountedStep ==
    ASSUME FullInv, Copying, NEW p, In(p, from, mem), UNCHANGED <<from, to>>,
           Len(mem'[to]) = Len(CopyMem(p)[to]), mem'[from] = CopyMem(p)[from]
    PROVE  Counted' /\ Len(mem'[from]) = Len(mem[from])
<1>1. /\ IInv /\ Len(mem[to]) = Cardinality(Gone(mem[from])) /\ mem[from] \in Seq(Object)
      /\ Len(mem[to]) \in Nat
  BY RoundRoom DEF FullInv, Counted
<1>2. IsFiniteSet(Gone(mem[from]))
  BY <1>1, GoneFinite
<1>3. CASE Len(mem'[to]) = Len(mem[to]) /\ Gone(mem'[from]) = Gone(mem[from])
  BY <1>1, <1>3, CopyGone DEF Counted
<1>4. ASSUME Len(mem'[to]) = Len(mem[to]) + 1,
             NEW i, i \notin Gone(mem[from]), Gone(mem'[from]) = Gone(mem[from]) \cup {i}
      PROVE  Counted' /\ Len(mem'[from]) = Len(mem[from])
  <2>1. Cardinality(Gone(mem'[from])) = Cardinality(Gone(mem[from])) + 1
    BY <1>2, <1>4, FS_AddElement
  <2> QED
    BY <1>1, <1>4, <2>1, CopyGone DEF Counted
<1> QED
  BY <1>1, <1>3, <1>4, CopyGone

\* Copying a root.
LEMMA CopyRootCounted ==
    ASSUME FullInv, CopyRoot
    PROVE  Counted' /\ Len(mem'[from]) = Len(mem[from])
<1>1. Copying /\ UNCHANGED <<from, to>> /\ phase = "roots"
  BY DEF CopyRoot, Copying
<1>2. PICK r \in todo : mem' = CopyMem(root[r])
  BY DEF CopyRoot
<1>3. In(root[r], from, mem)
  BY <1>1, RoundRoom, CopyFacts DEF TypeOK, Between
<1> QED
  BY <1>1, <1>2, <1>3, CountedStep

\* Copying what a field refers to.
LEMMA ScanFieldCounted ==
    ASSUME FullInv, ScanField
    PROVE  Counted' /\ Len(mem'[from]) = Len(mem[from])
<1> DEFINE o == mem[to][scan]
<1>1. Copying /\ UNCHANGED <<from, to>> /\ phase = "scan" /\ scan <= Len(mem[to])
  BY DEF ScanField, Copying
<1>2. PICK k \in field : mem' = [CopyMem(o.w[k]) EXCEPT ![to][scan].w[k] = CopyPtr(o.w[k])]
  BY DEF ScanField
<1>3. scan \in 1 .. Len(mem[to]) /\ field \subseteq Follows(o)
  <2>1. Phase /\ scan \in Nat
    BY <1>1, RoundRoom DEF IInv, TypeOK
  <2> QED
    BY <2>1, <1>1, RoundRoom DEF Phase
<1>4. In(o.w[k], from, mem)
  <2>1. ~Behind(scan, k)
    BY <1>2, <1>3 DEF Behind
  <2>2. In(o.w[k], Side(scan, k), mem)
    BY <1>1, <1>2, <1>3, RoundRoom, CopyFacts DEF Between
  <2> QED
    BY <2>1, <2>2 DEF Side
<1> DEFINE m == CopyMem(o.w[k])
           q == CopyPtr(o.w[k])
<1>5. m \in [Space -> Seq(Object)] /\ from \in Space /\ to \in Space /\ from # to
  BY <1>1, <1>4, RoundRoom, CopyLemma
<1>6. mem' = [m EXCEPT ![to] = [m[to] EXCEPT ![scan] = [@ EXCEPT !.w[k] = q]]]
  <2> HIDE DEF m, q
  <2> QED
    BY <1>2 DEF m, q
<1> HIDE DEF m, q
<1>7. mem'[from] = m[from] /\ DOMAIN mem'[to] = DOMAIN m[to] /\ m[to] \in Seq(Object)
  BY <1>5, <1>6
<1>8. Len(mem'[to]) = Len(m[to])
  BY <1>5, <1>6
<1> QED
  BY <1>1, <1>4, <1>7, <1>8, CountedStep DEF m

\* Every step.
LEMMA NextCounted == ASSUME FullInv, Next PROVE Counted'
<1>0. CASE Undefined
  BY <1>0 DEF Undefined, FullInv, Counted, Copying, vars
<1>1. CASE Mutator
  <2>1. Running
    BY <1>1 DEF Mutator, Reserve, Alloc, Enter, Update, Unpack, Restore, Store, Move
  <2>2. ~Copying'
    BY <1>1, <2>1 DEF Mutator, Reserve, Alloc, Enter, Update, Unpack, Restore, Store, Move,
                     Running, Copying, gcVars
  <2> QED
    BY <2>2 DEF Counted
<1>2. CASE Begin
  <2>1. /\ phase = "begin" /\ from' = from
        /\ mem' = [s \in Space |-> IF s \in {spare, to'} THEN <<>> ELSE mem[s]]
        /\ IInv /\ IInv'
    BY <1>2, NextInv DEF Begin, FullInv, Next, Collector
  <2>2. /\ AtRest /\ Current = from /\ from \in Space /\ spare # from /\ mem[from] \in Seq(Object)
    BY <2>1, NameAssumption DEF IInv, Phase, Ownership, Copying, Current, TypeOK
  <2>3. to' \in Space /\ to' # from
    <3>1. phase' = "roots"
      BY <1>2 DEF Begin
    <3> QED
      BY <2>1, <3>1 DEF IInv, Phase, Ownership, Copying
  <2>4. mem'[from'] = mem[from] /\ mem'[to'] = <<>>
    BY <2>1, <2>2, <2>3
  <2>5. Gone(mem[from]) = {}
    BY <2>2 DEF Gone, AtRest, Whole
  <2> QED
    BY <2>4, <2>5, FS_EmptySet DEF Counted
<1>3. CASE StartScan \/ NextObject
  <2>1. UNCHANGED <<mem, from, to>> /\ Copying
    BY <1>3 DEF StartScan, NextObject, Copying
  <2> QED
    BY <2>1 DEF Counted, FullInv
<1>4. CASE Finish \/ Again
  BY <1>4 DEF Finish, Again, Counted, Copying
<1> QED
  BY <1>0, <1>1, <1>2, <1>3, <1>4, CopyRootCounted, ScanFieldCounted DEF Next, Collector

-----------------------------------------------------------------------------
(* The theorems                                                            *)

\* The initial heap is empty.
LEMMA InitFull == Init => FullInv
<1> SUFFICES ASSUME Init PROVE FullInv
  OBVIOUS
<1>1. IInv
  BY InitInv
<1>2. /\ phase = "run" /\ heap \in Space /\ hp = 0 /\ heapSize = InitSize /\ reserved = 0
      /\ mem[heap] = <<>> /\ cap[heap] = InitSize /\ InitSize \in Nat
  BY SizeAssumption DEF Init
<1>3. Room
  BY <1>2, SumEmpty DEF Room
<1>4. Fits /\ Sourced /\ Counted
  BY <1>2 DEF Fits, Sourced, Counted, Copying
<1> QED
  BY <1>1, <1>3, <1>4 DEF FullInv

\* The induction step.
LEMMA NextFull == FullInv /\ [Next]_vars => FullInv'
<1> SUFFICES ASSUME FullInv, [Next]_vars PROVE FullInv'
  OBVIOUS
<1>1. IInv'
  BY NextInv DEF FullInv
<1>2. CASE Mutator
  BY <1>1, <1>2, MutatorKeepsRoom, NextCounted DEF FullInv, Next
<1>3. CASE Collector
  BY <1>1, <1>3, CollectorKeepsRoom, NextCounted DEF FullInv, Next
<1>4. CASE UNCHANGED vars
  <2>1. Room' /\ Fits' /\ Sourced' /\ Counted'
    BY <1>4 DEF FullInv, Room, Fits, Sourced, Counted, HasSource, Behind, Copying, vars
  <2> QED
    BY <1>1, <2>1 DEF FullInv
<1> QED
  BY <1>2, <1>3, <1>4 DEF Next, Undefined

\* The inductive invariant with the sums and the sources.
THEOREM FullInvariance == Spec => []FullInv
BY InitFull, NextFull, PTL DEF Spec

\* The collector's half of the rule of allocation, for every size, program and
\* sharing of objects: a copy fits in its block and leaves the room that was
\* asked for, and the heap passes the end of its block by at most the words the
\* mutator allocated beyond its reservation (reserve, copy, gc).
THEOREM CollectionsKeepRoom == Spec => []Room
<1>1. FullInv => Room
  BY DEF FullInv
<1> QED
  BY <1>1, FullInvariance, PTL

\* At the end of a round, gc() has copied what the roots reach and nothing
\* else: following sources back from an object ends at a root, because a
\* source comes before what it leads to.
THEOREM NothingCopiedInVain == Spec => []NoGarbage
<1>1. FullInv => NoGarbage
  <2> SUFFICES ASSUME FullInv, Scanned PROVE Reached = DOMAIN mem[to]
    BY DEF NoGarbage
  <2> DEFINE D == DOMAIN mem[to]
             R == {q \in D : \E r \in Slot : root[r] = <<to, q>>}
             succ(S) == S \cup {q \in D : \E i \in S : \E k \in Follows(mem[to][i]) :
                                              mem[to][i].w[k] = <<to, q>>}
  <2>1. Copying /\ D = 1 .. Len(mem[to]) /\ Len(mem[to]) \in Nat
        /\ \A j \in 1 .. Len(mem[to]) : HasSource(j)
    BY RoundRoom DEF Scanned, Copying
  <2> DEFINE F == [n \in Nat |-> [S \in SUBSET D |-> succ(S)]]
  <2>2. PICK g \in [Nat -> SUBSET D] : Recurs(g, R, F)
    <3>1. R \in SUBSET D /\ F \in [Nat -> [SUBSET D -> SUBSET D]]
      OBVIOUS
    <3> HIDE DEF R, F, D
    <3> QED
      BY <3>1, Recursion
  <2>3. g[0] = R /\ \A n \in Nat : g[n + 1] = succ(g[n])
    <3>1. ASSUME NEW n \in Nat
          PROVE  g[n + 1] = succ(g[n])
      <4>1. n + 1 \in Nat /\ g[n] \in SUBSET D
        BY <2>2
      <4>2. g[n + 1] = F[n + 1][g[n]]
        BY <2>2 DEF Recurs
      <4>3. F[n + 1] = [S \in SUBSET D |-> succ(S)]
        BY <4>1
      <4> HIDE DEF F, D
      <4> QED
        BY <4>1, <4>2, <4>3
    <3> HIDE DEF F, D, R, succ
    <3> QED
      BY <3>1, <2>2 DEF Recurs
  <2> HIDE DEF F
  <2>4. g = [n \in Nat |-> IF n = 0 THEN R ELSE succ(g[n - 1])]
    <3>1. ASSUME NEW n \in Nat
          PROVE  g[n] = IF n = 0 THEN R ELSE succ(g[n - 1])
      <4>1. CASE n = 0
        BY <4>1, <2>3
      <4>2. CASE n # 0
        <5>1. n - 1 \in Nat /\ (n - 1) + 1 = n
          BY <4>2
        <5>2. g[(n - 1) + 1] = succ(g[n - 1])
          BY <5>1, <2>3
        <5> QED
          BY <5>1, <5>2, <4>2
      <4> QED
        BY <4>1, <4>2
    <3> HIDE DEF R, succ
    <3> QED
      BY <3>1, <2>2
  <2> DEFINE f == CHOOSE f : f = [n \in Nat |-> IF n = 0 THEN R ELSE succ(f[n - 1])]
  <2>5. f = [n \in Nat |-> IF n = 0 THEN R ELSE succ(f[n - 1])]
    <3> HIDE DEF R, succ
    <3> QED
      BY <2>4
  <2>6. Reached = f[Len(mem[to])]
    BY DEF Reached
  <2> HIDE DEF f
  <2>7. f[0] = R /\ \A n \in Nat : f[n + 1] = succ(f[n])
    <3>1. \A n \in Nat : n + 1 \in Nat /\ n + 1 # 0 /\ (n + 1) - 1 = n
      OBVIOUS
    <3> HIDE DEF R, succ
    <3> QED
      BY <3>1, <2>5
  <2> DEFINE T == {n \in Nat : f[n] \subseteq D /\ f[0] \subseteq f[n] /\ D \cap (1 .. n) \subseteq f[n]}
  <2>8. 0 \in T
    BY <2>7
  <2>9. ASSUME NEW n \in Nat, n \in T
        PROVE  n + 1 \in T
    <3>1. /\ f[n] \subseteq D /\ f[0] \subseteq f[n] /\ D \cap (1 .. n) \subseteq f[n]
          /\ f[n + 1] = succ(f[n])
      BY <2>7, <2>9
    <3>2. f[n + 1] \subseteq D /\ f[n] \subseteq f[n + 1] /\ f[0] \subseteq f[n + 1]
      BY <3>1
    <3>3. ASSUME n + 1 \in D
          PROVE  n + 1 \in f[n + 1]
      <4>1. HasSource(n + 1)
        BY <2>1, <3>3
      <4>2. CASE \E r \in Slot \ todo : root[r] = <<to, n + 1>>
        <5>1. n + 1 \in f[0]
          BY <4>2, <3>3, <2>7
        <5> QED
          BY <5>1, <3>2
      <4>3. CASE \E i \in 1 .. (n + 1) - 1 : \E k \in Follows(mem[to][i]) :
                    Behind(i, k) /\ mem[to][i].w[k] = <<to, n + 1>>
        <5>1. PICK i \in 1 .. n : \E k \in Follows(mem[to][i]) : mem[to][i].w[k] = <<to, n + 1>>
          BY <4>3
        <5>2. i \in f[n]
          BY <3>1, <3>3, <2>1
        <5> QED
          BY <5>1, <5>2, <3>1, <3>3
      <4> QED
        BY <4>1, <4>2, <4>3 DEF HasSource
    <3>4. D \cap (1 .. n + 1) \subseteq f[n + 1]
      BY <3>1, <3>2, <3>3
    <3> QED
      BY <3>2, <3>4
  <2>10. \A n \in Nat : n \in T
    <3> HIDE DEF T
    <3> QED
      BY <2>8, <2>9, SetInduction
  <2> QED
    BY <2>1, <2>6, <2>10
<1> QED
  BY <1>1, FullInvariance, PTL

\* A step of a round that looks at a field has one field less to look at, and
\* one that looks at a root one root less.
LEMMA FewerLeft ==
    ASSUME FullInv
    PROVE  /\ phase = "roots" => \A r \in todo : Cardinality(todo \ {r}) < Cardinality(todo)
           /\ phase = "scan" => \A k \in field : Cardinality(field \ {k}) < Cardinality(field)
<1>1. TypeOK /\ Phase
  BY DEF FullInv, IInv
<1>2. ASSUME NEW S, IsFiniteSet(S), NEW x \in S
      PROVE  Cardinality(S \ {x}) < Cardinality(S)
  <2>1. Cardinality(S \ {x}) = Cardinality(S) - 1 /\ Cardinality(S) \in Nat
    BY <1>2, FS_RemoveElement, FS_CardinalityType
  <2> QED
    BY <2>1
<1>3. IsFiniteSet(todo)
  BY <1>1, SlotAssumption, FS_Subset DEF TypeOK
<1>4. ASSUME phase = "scan" PROVE IsFiniteSet(field)
  <2>1. CASE scan <= Len(mem[to])
    <3> DEFINE o == mem[to][scan]
    <3>1. Copying /\ scan \in 1 .. Len(mem[to]) /\ field \subseteq Follows(o)
      BY <1>1, <1>4, <2>1, RoundRoom DEF Copying, Phase, TypeOK
    <3>2. WellFormed(o) /\ o \in Object
      BY <3>1, RoundRoom, CopyFacts DEF Between
    <3>3. Follows(o) \subseteq 1 .. Len(o.w) /\ Len(o.w) \in Nat
      BY <3>2, FieldsScanned, ObjectParts
    <3>4. IsFiniteSet(1 .. Len(o.w))
      BY <3>3, FS_Interval
    <3> QED
      BY <3>1, <3>3, <3>4, FS_Subset
  <2>2. CASE ~(scan <= Len(mem[to]))
    <3>1. field = {}
      BY <1>1, <1>4, <2>2 DEF Phase
    <3> QED
      BY <3>1, FS_EmptySet
  <2> QED
    BY <2>1, <2>2
<1> QED
  BY <1>2, <1>3, <1>4

\* A step of a collection gets ahead: gc() doubles the space only while what
\* the heap held and the reservation fill more than half of it, because a copy
\* is never larger than its source, and a round has as many objects to scan as
\* it moved, which are no more than there were.
THEOREM CollectionsAdvance == Spec => Advances
<1> DEFINE Ahead ==
         \/ newSize' = 2 * newSize /\ newSize < 2 * (hp + need)
         \/ Stage[phase'] < Stage[phase]
         \/ /\ phase' = phase
            /\ \/ Cardinality(todo') < Cardinality(todo)
               \/ /\ todo' = todo
                  /\ \/ Unscanned' < Unscanned /\ Unscanned' >= 0
                     \/ Unscanned' = Unscanned /\ Cardinality(field') < Cardinality(field)
<1>1. ASSUME FullInv, ~Running, Next, ~UNCHANGED vars PROVE Ahead
  <2>1. CASE Mutator
    BY <2>1, <1>1 DEF Mutator, Reserve, Alloc, Enter, Update, Unpack, Restore, Store, Move
  <2>2. CASE Begin
    BY <2>2 DEF Begin, Stage
  <2>3. CASE CopyRoot
    <3>1. phase = "roots" /\ phase' = phase
      BY <2>3 DEF CopyRoot
    <3>2. PICK r \in todo : todo' = todo \ {r}
      BY <2>3 DEF CopyRoot
    <3> QED
      BY <1>1, <3>1, <3>2, FewerLeft
  <2>4. CASE StartScan
    BY <2>4 DEF StartScan, Stage
  <2>5. CASE ScanField
    <3>1. phase = "scan" /\ phase' = phase /\ UNCHANGED <<from, scan, todo>>
      BY <2>5 DEF ScanField
    <3>2. PICK k \in field : field' = field \ {k}
      BY <2>5 DEF ScanField
    <3>3. Unscanned' = Unscanned
      BY <1>1, <2>5, <3>1, ScanFieldCounted DEF Unscanned
    <3> QED
      BY <1>1, <3>1, <3>2, <3>3, FewerLeft
  <2>6. CASE NextObject
    <3>1. /\ phase = "scan" /\ phase' = phase /\ UNCHANGED <<mem, from, todo>>
          /\ scan' = scan + 1 /\ scan <= Len(mem[to]) /\ Copying
      BY <2>6 DEF NextObject, Copying
    <3>2. /\ Len(mem[to]) = Cardinality(Gone(mem[from])) /\ Len(mem[to]) \in Nat
          /\ mem[from] \in Seq(Object) /\ scan \in Nat
      BY <1>1, <3>1, RoundRoom DEF FullInv, Counted, TypeOK
    <3>3. Len(mem[to]) <= Len(mem[from]) /\ Len(mem[from]) \in Nat
      BY <3>2, GoneFinite
    <3>4. /\ Unscanned = Len(mem[from]) + 1 - scan
          /\ Unscanned' = Len(mem[from]) + 1 - (scan + 1)
      BY <3>1 DEF Unscanned
    <3>5. Unscanned' < Unscanned /\ Unscanned' >= 0
      <4>1. \A n, i \in Nat : i <= n => n + 1 - (i + 1) < n + 1 - i /\ n + 1 - (i + 1) >= 0
        OBVIOUS
      <4>2. scan <= Len(mem[from])
        <5>1. \A a, b, c \in Nat : a <= b /\ b <= c => a <= c
          OBVIOUS
        <5> QED
          BY <3>1, <3>2, <3>3, <5>1
      <4> QED
        BY <3>2, <3>3, <3>4, <4>1, <4>2
    <3> QED
      BY <3>1, <3>5
  <2>7. CASE Finish
    BY <2>7 DEF Finish, Scanned, Stage
  <2>8. CASE Again
    <3>1. Copying /\ newSize' = 2 * newSize /\ (toHp + need) * 2 > newSize
      <4>1. Copying /\ newSize' = newSize * 2 /\ ~((toHp + need) * 2 <= newSize)
        BY <2>8 DEF Again, Scanned, Enough, Grown, Copying
      <4>2. newSize \in Nat /\ toHp \in Nat /\ need \in Nat
        BY <1>1, <4>1, RoundRoom DEF TypeOK
      <4> QED
        BY <4>1, <4>2
    <3>2. /\ newSize \in Nat /\ toHp \in Nat /\ need \in Nat /\ hp \in Nat
          /\ SumUnmoved(mem[from]) \in Nat /\ toHp + SumUnmoved(mem[from]) <= hp
      BY <1>1, <3>1, RoundRoom DEF TypeOK
    <3>3. newSize < 2 * (hp + need)
      BY <3>1, <3>2
    <3> QED
      BY <3>1, <3>3
  <2> QED
    BY <1>1, <2>1, <2>2, <2>3, <2>4, <2>5, <2>6, <2>7, <2>8 DEF Next, Collector, Undefined
<1>2. FullInv /\ [Next]_vars => [~Running => Ahead]_vars
  BY <1>1
<1> QED
  BY <1>2, FullInvariance, PTL DEF Spec, Advances
=============================================================================
