------------------------------ MODULE HeapInv ------------------------------
(***************************************************************************)
(* The heap implements the object graph: the collector's steps change      *)
(* nothing that the machine can see, in any of its rounds.                 *)
(*                                                                         *)
(* Below the refinement mapping are the inductive invariants: what is true *)
(* of every object and every root at every point of a collection.  Module  *)
(* HeapProofs proves that every step keeps IInv, from which NoDangling and *)
(* Ownership follow, and that every step keeps FullInv, from               *)
(* which Room, NoGarbage and Advances follow; HeapGraph proves that every  *)
(* step keeps GraphInv, from which the refinement follows.                 *)
(***************************************************************************)
EXTENDS Heap

\* An object's tag is no static object's name.
ASSUME TagAssumption == \A p \in Static \cup {NULL} : p \notin Nat

\* Where the object a pointer leads to is now: a forwarded object has moved.
Resolve(p) == IF IsAddr(p) /\ At(p).kind = "FWD" THEN At(p).w[1] ELSE p

Tag(p) == IF IsAddr(p) THEN At(p).tag ELSE p

NodeOf(o) == [tag |-> o.tag, kind |-> o.kind, refs |-> {<<k, Tag(o.w[k])>> : k \in Follows(o)}]

\* The addresses the roots reach, through forwarding pointers.
Reachable ==
    LET start == {Resolve(root[r]) : r \in Slot} \ (Static \cup {NULL})
        next(S) == UNION {{Resolve(At(a).w[k]) : k \in Follows(At(a))} : a \in S}
        reach[n \in Nat] == IF n = 0 THEN start
                            ELSE LET S == reach[n - 1]
                                 IN  S \cup (next(S) \ (Static \cup {NULL}))
    IN  reach[MaxBorn]

Seen == {NodeOf(At(a)) : a \in Reachable}

Graph == INSTANCE ObjectGraph
            WITH node <- Seen, ref <- [r \in Slot |-> Tag(root[r])], made <- born

\* Every step of the heap is a step of the graph of objects that the roots
\* reach, or leaves it as it is: a collection keeps the kinds, the fields and
\* the sharing of all live objects, so that a thunk is updated for all who hold
\* it (gc, copy, pointer_fields).
RefinesGraph == Graph!GSpec

-----------------------------------------------------------------------------
(* The inductive invariants                                                *)

Copying == phase \in {"roots", "scan"}

\* p leads to an object of the space s of the memory m, or never moves.
In(p, s, m) == p \in Static \cup {NULL} \/ (p \in Addr /\ p[1] = s /\ p[2] <= Len(m[s]))

\* An object has the words that the evaluator and the collector read.
WellFormed(o) ==
    /\ Len(o.w) > 0
    /\ o.kind \in {"FUN", "THUNK", "BLACKHOLE", "STR", "IND"} => Len(o.w) = 2

\* The object o is whole and all it refers to is in the space s.
Whole(o, s, m) ==
    /\ o.kind # "FWD" /\ WellFormed(o)
    /\ \A k \in Follows(o) : In(o.w[k], s, m)

\* An object of the from-space is whole, or forwards to the to-space.
Forwarded(o, s, t, m) ==
    \/ Whole(o, s, m)
    \/ o.kind = "FWD" /\ Len(o.w) > 0 /\ o.w[1] \in Addr /\ In(o.w[1], t, m)

\* Field k of the j-th object of the to-space is behind the scan pointer.
Behind(j, k) == j < scan \/ (j = scan /\ k \notin field)
Side(j, k) == IF Behind(j, k) THEN to ELSE from

\* Outside a round of copying, one space holds all that is used.
Current == IF phase = "run" THEN heap ELSE from

AtRest ==
    /\ \A r \in Slot : In(root[r], Current, mem)
    /\ \A i \in 1 .. Len(mem[Current]) : Whole(mem[Current][i], Current, mem)

\* In a round, what was copied and scanned refers to the to-space, all else
\* still to the from-space.
Between ==
    /\ \A r \in Slot : In(root[r], IF r \in todo THEN from ELSE to, mem)
    /\ \A i \in 1 .. Len(mem[from]) : Forwarded(mem[from][i], from, to, mem)
    /\ \A j \in 1 .. Len(mem[to]) :
          LET o == mem[to][j]
          IN  /\ o.kind # "FWD" /\ WellFormed(o)
              /\ \A k \in Follows(o) : In(o.w[k], Side(j, k), mem)

\* Where the steps of gc() are when a phase begins.
Phase ==
    /\ phase = "run" => from = NULL
    /\ phase # "run" => from \in Space /\ newSize > 0
    /\ Copying => to \in Space /\ spare = NULL
    /\ phase # "roots" => todo = {}
    /\ phase # "scan" => scan = 0 /\ field = {}
    /\ phase = "scan" =>
          /\ scan > 0
          /\ field \subseteq IF scan <= Len(mem[to]) THEN Follows(mem[to][scan]) ELSE {}
    /\ heapSize = cap[heap]
    /\ Copying => newSize = cap[to]

IInv ==
    /\ TypeOK
    /\ Ownership
    /\ Phase
    /\ IF Copying THEN Between ELSE AtRest

-----------------------------------------------------------------------------
(* What Room, NoGarbage and Advances need beyond IInv (module HeapProofs).   *)

\* The words of the objects of a space that have not been moved out of it.
SumUnmoved(m) ==
    LET f[i \in 0 .. Len(m)] ==
            IF i = 0 THEN 0 ELSE f[i - 1] + (IF m[i].kind = "FWD" THEN 0 ELSE Size(m[i]))
    IN  f[Len(m)]

\* What is copied and what may still be copied fit in the to-space together,
\* and are no more than what the heap held: an object counts on one side only,
\* because copy() leaves a forwarding pointer where it was.
Fits ==
    LET fit(n) == n <= newSize /\ n <= hp
    IN  /\ phase = "begin" => fit(SumSizes(mem[from]))
        /\ Copying => fit(SumSizes(mem[to]) + SumUnmoved(mem[from]))

\* There is one object in the to-space for each forwarding pointer.
Gone(m) == {i \in 1 .. Len(m) : m[i].kind = "FWD"}
Counted == Copying => Len(mem[to]) = Cardinality(Gone(mem[from]))

\* Every object of the to-space is the target of a root that was copied, or
\* of a field behind the scan pointer of an object before it.
HasSource(j) ==
    \/ \E r \in Slot \ todo : root[r] = <<to, j>>
    \/ \E i \in 1 .. j - 1 : \E k \in Follows(mem[to][i]) :
          Behind(i, k) /\ mem[to][i].w[k] = <<to, j>>

Sourced == Copying => \A j \in 1 .. Len(mem[to]) : HasSource(j)

FullInv == IInv /\ Room /\ Fits /\ Sourced /\ Counted

-----------------------------------------------------------------------------
(* What the refinement needs beyond FullInv (module HeapGraph).            *)

\* The objects that were not moved away, in the spaces that are in use.
InUse == IF Copying THEN {from, to} ELSE {Current}
Objects == {a \in UNION {{s} \X (1 .. Len(mem[s])) : s \in InUse} : At(a).kind # "FWD"}

\* No two objects have one tag: the copy of an object takes its tag over, and
\* the forwarding pointer it leaves behind leads to that copy.
TagInv ==
    /\ born <= MaxBorn
    /\ \A a \in Objects : At(a).tag \in 1 .. born
    /\ \A a, b \in Objects : At(a).tag = At(b).tag => a = b
    /\ Copying => \A i \in 1 .. Len(mem[from]) :
          mem[from][i].kind = "FWD" => At(mem[from][i].w[1]).tag = mem[from][i].tag

\* At every step of a collection each object that was made and not yet lost is
\* in one place, whole or behind a forwarding pointer, and its space has room
\* for it (gc, copy).
GraphInv == FullInv /\ TagInv
=============================================================================
