-------------------------------- MODULE Heap --------------------------------
(***************************************************************************)
(* The heap of the evaluator and its copying collector (src/eval.c).       *)
(*                                                                         *)
(* The heap is one semispace that holds objects one after the other.  A    *)
(* mutator (the machine and its primitives) reserves room, allocates,      *)
(* rewrites objects in place and moves pointers between the roots.  When a *)
(* reservation does not fit, gc() copies what the roots reach to another   *)
(* space (Cheney's algorithm); while the result is more than half full it  *)
(* collects again into a space twice as large.  One space is kept spare.   *)
(*                                                                         *)
(* An address is a pair <<space, index>>: the index-th object of a space.  *)
(* Sizes are counted in words, headers included, as in the code.           *)
(***************************************************************************)
EXTENDS Integers, Sequences, FiniteSets

CONSTANTS
    Slot,      \* the root slots: globals, stack fields, registered locals, registers
    Space,     \* names of memory blocks that malloc can return
    Static,    \* objects outside the heap (alloc_static)
    NULL,      \* the null pointer
    Data,      \* a payload word that is not a pointer
    Shape,     \* the objects the mutator allocates: records [kind, size]
    InitSize,  \* the initial size of the heap, in words
    Needs,     \* the reservations the mutator makes, in words
    MaxSize,   \* bound: no reservation is tried once the heap has this size
    MaxBorn    \* bound: how many objects a behaviour allocates

Kinds == {"INT", "BIG", "CHAR", "CON", "FUN", "PAP", "PRIM", "THUNK", "IND",
          "BLACKHOLE", "ENV", "STR", "FWD"}

ASSUME SizeAssumption ==
    /\ InitSize \in Nat \ {0}
    /\ Needs \subseteq Nat /\ MaxSize \in Nat /\ MaxBorn \in Nat

\* The stack and the array of registered locals have finitely many entries.
ASSUME SlotAssumption == IsFiniteSet(Slot)

\* Every object has a payload word, which a forwarding pointer can overwrite,
\* and the objects the evaluator rewrites have the two words it rewrites.
ASSUME ShapeAssumption ==
    /\ Shape \subseteq [kind : Kinds \ {"FWD", "IND", "BLACKHOLE"}, size : Nat \ {0}]
    /\ \A s \in Shape : s.kind \in {"FUN", "THUNK", "STR"} => s.size = 2

ASSUME NameAssumption ==
    /\ NULL \notin Static
    /\ NULL \notin Space
    /\ Data \notin Static \cup {NULL}
    /\ (Space \X (Nat \ {0})) \cap (Static \cup {NULL, Data}) = {}

VARIABLES
    mem,       \* what each block in use holds: a sequence of objects
    cap,       \* the size of each block in words; 0 when it is not allocated
    heap,      \* the current space
    hp,        \* words used in the current space
    heapSize,  \* its size
    spare,     \* the other semispace, or NULL
    spareSize, \* the size gc() remembers for it
    root,      \* the pointer in each root slot
    reserved,  \* words the last reserve() made room for and nobody used yet;
               \* below 0 when the mutator allocated more than it reserved
    born,      \* how many objects were allocated (a history counter)
    phase,     \* "run", or where gc() is
    need,      \* the argument of gc()
    from,      \* the space gc() copies from
    to,        \* the space it copies to
    toHp,      \* words used there
    newSize,   \* the size of the to-space
    todo,      \* the root slots not copied yet
    scan,      \* the object being scanned
    field      \* its pointer fields not copied yet

mutVars == <<reserved, born>>
gcVars  == <<phase, need, from, to, toHp, newSize, todo, scan, field>>
spaceVars == <<heap, hp, heapSize, spare, spareSize>>
vars == <<mem, cap, heap, hp, heapSize, spare, spareSize, root, reserved, born, phase,
          need, from, to, toHp, newSize, todo, scan, field>>

-----------------------------------------------------------------------------
(* Objects                                                                 *)

Addr == Space \X (Nat \ {0})
Ptr  == Addr \cup Static \cup {NULL}
Word == Ptr \cup {Data}

\* An object: its kind, its payload words, and a tag that names it for ever.
Object == [kind : Kinds, w : Seq(Word), tag : Nat]

NoBlackholeFields(o) ==
    CASE o.kind = "CON"               -> 2 .. Len(o.w)
      [] o.kind \in {"FUN", "THUNK"}  -> 2 .. 2
      [] o.kind \in {"PAP", "ENV"}    -> 1 .. Len(o.w)
      [] o.kind = "IND"               -> 1 .. 1
      [] OTHER                        -> {}

\* The payload words that hold pointers, as the collector sees them.
PointerFields(o) ==
    CASE o.kind = "CON"                           -> 2 .. Len(o.w)
      [] o.kind \in {"FUN", "THUNK", "BLACKHOLE"} -> 2 .. 2
      [] o.kind \in {"PAP", "ENV"}                -> 1 .. Len(o.w)
      [] o.kind = "IND"                           -> 1 .. 1
      [] OTHER                                    -> {}

\* The payload words that the evaluator follows: a closure's environment
\* (a black hole's too, once an exception has made it a thunk again), the
\* target of an indirection, the fields of the others.
Follows(o) ==
    CASE o.kind \in {"FUN", "THUNK", "BLACKHOLE"} -> {2}
      [] o.kind = "IND"                           -> {1}
      [] o.kind \in {"PAP", "ENV"}                -> DOMAIN o.w
      [] o.kind = "CON"                           -> DOMAIN o.w \ {1}
      [] o.kind \in {"INT", "BIG", "CHAR", "PRIM", "STR", "FWD"} -> {}

Size(o) == 1 + Len(o.w)

IsAddr(p) == p \in Addr
At(p) == mem[p[1]][p[2]]
InHeap(p, s) == IsAddr(p) /\ p[1] = s

-----------------------------------------------------------------------------
(* The mutator.  It runs only while no collection does.  alloc() checks    *)
(* nothing: a mutator that allocates more than it reserved may write past  *)
(* the end of the block.  What the program does from there on is           *)
(* undefined, and the model ends there.                                    *)

Overrun == hp > heapSize
Undefined == Overrun /\ UNCHANGED vars

Running == phase = "run"

\* Room for n words: the fast path, or a collection that makes it.
Reserve(n) ==
    /\ Running /\ heapSize < MaxSize
    /\ IF hp + n > heapSize
       THEN /\ phase' = "begin"
            /\ need' = n
            /\ from' = heap
            /\ newSize' = heapSize
            /\ reserved' = 0
            /\ UNCHANGED <<to, toHp, todo, scan, field>>
       ELSE /\ reserved' = n
            /\ UNCHANGED gcVars
    /\ UNCHANGED <<mem, cap, spaceVars, root, born>>

\* A new object with the payload w; r is where the caller keeps it.
Alloc(s, w, r) ==
    /\ Running /\ born < MaxBorn
    /\ mem' = [mem EXCEPT ![heap] = Append(@, [kind |-> s.kind, w |-> w, tag |-> born + 1])]
    /\ hp' = hp + 1 + s.size
    /\ reserved' = reserved - (1 + s.size)
    /\ root' = [root EXCEPT ![r] = <<heap, Len(mem[heap]) + 1>>]
    /\ born' = born + 1
    /\ UNCHANGED <<cap, heap, heapSize, spare, spareSize, gcVars>>

\* The payloads a caller can give: data where the collector sees no pointer,
\* a pointer it holds in a root elsewhere.
Payload(s) ==
    LET blank == [kind |-> s.kind, w |-> [i \in 1 .. s.size |-> Data]]
    IN  {w \in [1 .. s.size -> {root[r] : r \in Slot} \cup {NULL, Data}] :
            \A i \in 1 .. s.size : (w[i] = Data) <=> (i \notin Follows(blank))}

Rewrite(p, o) == mem' = [mem EXCEPT ![p[1]][p[2]] = o]

\* Entering a thunk turns it into a black hole; it keeps its environment.
Enter(r) ==
    /\ Running /\ IsAddr(root[r]) /\ At(root[r]).kind = "THUNK"
    /\ Rewrite(root[r], [At(root[r]) EXCEPT !.kind = "BLACKHOLE"])
    /\ UNCHANGED <<cap, spaceVars, root, mutVars, gcVars>>

\* An update frame overwrites the black hole with an indirection.
Update(r, v) ==
    /\ Running /\ IsAddr(root[r]) /\ At(root[r]).kind = "BLACKHOLE"
    /\ Rewrite(root[r], [At(root[r]) EXCEPT !.kind = "IND", !.w[1] = root[v], !.w[2] = NULL])
    /\ UNCHANGED <<cap, spaceVars, root, mutVars, gcVars>>

\* A packed string becomes an indirection to its first cell.  The second word
\* keeps the length.
Unpack(r, v) ==
    /\ Running /\ IsAddr(root[r]) /\ At(root[r]).kind = "STR"
    /\ Rewrite(root[r], [At(root[r]) EXCEPT !.kind = "IND", !.w[1] = root[v]])
    /\ UNCHANGED <<cap, spaceVars, root, mutVars, gcVars>>

\* An exception makes the black hole a thunk again.
Restore(r) ==
    /\ Running /\ IsAddr(root[r]) /\ At(root[r]).kind = "BLACKHOLE"
    /\ Rewrite(root[r], [At(root[r]) EXCEPT !.kind = "THUNK"])
    /\ UNCHANGED <<cap, spaceVars, root, mutVars, gcVars>>

\* A store into a field: a frame's slot, a mutable variable, a new cell, a
\* strict argument of a primitive (its block, a PAP, has the primitive first).
Store(r, i, v) ==
    /\ Running /\ IsAddr(root[r]) /\ At(root[r]).kind \in {"CON", "ENV", "PAP"}
    /\ i \in Follows(At(root[r])) /\ (At(root[r]).kind = "PAP" => i # 1)
    /\ Rewrite(root[r], [At(root[r]) EXCEPT !.w[i] = root[v]])
    /\ UNCHANGED <<cap, spaceVars, root, mutVars, gcVars>>

\* A root slot is overwritten: a register moves, a frame is pushed or popped,
\* a field is loaded.
LoadableWords ==
    {NULL} \cup Static \cup {root[r] : r \in Slot}
    \cup UNION {{At(root[r]).w[i] : i \in DOMAIN At(root[r]).w} :
                   r \in {q \in Slot : IsAddr(root[q])}}
Loadable ==
    {NULL} \cup Static \cup {root[r] : r \in Slot}
    \cup UNION {{At(root[r]).w[i] : i \in Follows(At(root[r]))} :
                   r \in {q \in Slot : IsAddr(root[q])}}

Move(r, p) ==
    /\ Running
    /\ root' = [root EXCEPT ![r] = p]
    /\ UNCHANGED <<mem, cap, spaceVars, mutVars, gcVars>>

Mutator ==
    /\ ~Overrun
    /\ \/ \E n \in Needs : Reserve(n)
       \/ \E s \in Shape, r \in Slot : \E w \in Payload(s) : Alloc(s, w, r)
       \/ \E r \in Slot : Enter(r)
       \/ \E r, v \in Slot : Update(r, v) \/ Unpack(r, v)
       \/ \E r \in Slot : Restore(r)
       \/ \E r, v \in Slot :
             \E i \in 1 .. (IF IsAddr(root[r]) THEN Len(At(root[r]).w) ELSE 0) : Store(r, i, v)
       \/ \E r \in Slot, p \in Loadable : Move(r, p)

-----------------------------------------------------------------------------
(* The collector: gc(), one loop iteration per step.                       *)

ForwardUnmarked(o, q) == [o EXCEPT !.w[1] = q]
Forward(o, q) == [o EXCEPT !.kind = "FWD", !.w[1] = q]

\* What copy() does to the memory: the object at p moves to the end of the
\* to-space and its header and first word become a forwarding pointer.
Moves(p) == InHeap(p, from) /\ At(p).kind # "FWD"

CopyMem(p) ==
    IF Moves(p)
    THEN [mem EXCEPT ![to] = Append(@, At(p)),
                     ![from][p[2]] = Forward(At(p), <<to, Len(mem[to]) + 1>>)]
    ELSE mem

PointsBefore(p) ==
    CASE ~InHeap(p, from) -> p
      [] Moves(p)         -> <<to, Len(mem[to])>>
      [] OTHER            -> At(p).w[1]

\* What copy() returns: pointers out of the from-space stay as they are.
CopyPtr(p) ==
    CASE ~InHeap(p, from) -> p
      [] Moves(p)         -> <<to, Len(mem[to]) + 1>>
      [] OTHER            -> At(p).w[1]

HpWithoutHeader(p) == IF Moves(p) THEN toHp + Len(At(p).w) ELSE toHp
CopyHp(p) == IF Moves(p) THEN toHp + Size(At(p)) ELSE toHp

\* A round starts with an empty to-space: the spare one when it has the right
\* size, else a new block.
Freed(s) == [cap EXCEPT ![s] = 0]

SpareKept == spare
SpareTaken == NULL

Begin ==
    /\ phase = "begin"
    /\ IF spare # NULL /\ spareSize = newSize
       THEN to' = spare /\ UNCHANGED cap
       ELSE LET c == IF spare = NULL THEN cap ELSE Freed(spare)
            IN  \E s \in Space : /\ c[s] = 0
                                 /\ to' = s
                                 /\ cap' = [c EXCEPT ![s] = newSize]
    /\ mem' = [s \in Space |-> IF s \in {spare, to'} THEN <<>> ELSE mem[s]]
    /\ spare' = SpareTaken
    /\ toHp' = 0
    /\ todo' = Slot
    /\ phase' = "roots"
    /\ UNCHANGED <<heap, hp, heapSize, spareSize, root, mutVars, need, from, newSize, scan, field>>

\* The roots are copied in the order the code lists them; no property depends
\* on the order, so any root may be next.
CopyRoot ==
    /\ phase = "roots"
    /\ \E r \in todo :
          /\ mem' = CopyMem(root[r])
          /\ toHp' = CopyHp(root[r])
          /\ root' = [root EXCEPT ![r] = CopyPtr(root[r])]
          /\ todo' = todo \ {r}
    /\ UNCHANGED <<cap, spaceVars, mutVars, phase, need, from, to, newSize, scan, field>>

StartScan ==
    /\ phase = "roots" /\ todo = {}
    /\ phase' = "scan"
    /\ scan' = 1
    /\ field' = IF mem[to] = <<>> THEN {} ELSE PointerFields(mem[to][1])
    /\ UNCHANGED <<mem, cap, spaceVars, root, mutVars, need, from, to, toHp, newSize, todo>>

\* One pointer field of the object at the scan pointer, lowest first.
ScanField ==
    /\ phase = "scan" /\ scan <= Len(mem[to]) /\ field # {}
    /\ \E k \in field :
          LET p == mem[to][scan].w[k]
              m == CopyMem(p)
          IN  /\ \A j \in field : k <= j
              /\ mem' = [m EXCEPT ![to][scan].w[k] = CopyPtr(p)]
              /\ toHp' = CopyHp(p)
              /\ field' = field \ {k}
    /\ UNCHANGED <<cap, spaceVars, root, mutVars, phase, need, from, to, newSize, todo, scan>>

NextObject ==
    /\ phase = "scan" /\ scan <= Len(mem[to]) /\ field = {}
    /\ scan' = scan + 1
    /\ field' = IF scan + 1 <= Len(mem[to]) THEN PointerFields(mem[to][scan + 1]) ELSE {}
    /\ UNCHANGED <<mem, cap, spaceVars, root, mutVars, phase, need, from, to, toHp, newSize, todo>>

Scanned == phase = "scan" /\ scan > Len(mem[to])

\* Less than half full with the reservation: the to-space becomes the heap.
\* The old heap is kept as the spare space when the size did not change.
Enough == (toHp + need) * 2 <= newSize

Finish ==
    /\ Scanned /\ Enough
    /\ LET c1 == IF from # heap THEN Freed(from) ELSE cap
           keep == newSize = heapSize
       IN  /\ cap' = IF keep THEN c1 ELSE [c1 EXCEPT ![heap] = 0]
           /\ spare' = IF keep THEN heap ELSE spare
           /\ spareSize' = IF keep THEN heapSize ELSE spareSize
    /\ mem' = [s \in Space |-> IF s = to THEN mem[s] ELSE <<>>]
    /\ heap' = to
    /\ hp' = toHp
    /\ heapSize' = newSize
    /\ phase' = "run"
    /\ reserved' = need
    /\ from' = NULL /\ to' = NULL
    /\ need' = 0 /\ toHp' = 0 /\ newSize' = 0 /\ scan' = 0
    /\ UNCHANGED <<root, born, todo, field>>

NotGrown(n) == n
Grown(n) == n * 2

\* Too full: collect again, from the space just filled to one twice as large.
Again ==
    /\ Scanned /\ ~Enough
    /\ IF from = heap THEN UNCHANGED <<cap, mem>>
       ELSE /\ cap' = Freed(from)
            /\ mem' = [mem EXCEPT ![from] = <<>>]
    /\ from' = to
    /\ newSize' = Grown(newSize)
    /\ phase' = "begin"
    /\ scan' = 0
    /\ UNCHANGED <<spaceVars, root, mutVars, need, to, toHp, todo, field>>

Collector ==
    Begin \/ CopyRoot \/ StartScan \/ ScanField \/ NextObject \/ Finish \/ Again

-----------------------------------------------------------------------------
Init ==
    /\ heap \in Space
    /\ mem = [s \in Space |-> <<>>]
    /\ cap = [s \in Space |-> IF s = heap THEN InitSize ELSE 0]
    /\ hp = 0 /\ heapSize = InitSize
    /\ spare = NULL /\ spareSize = 0
    /\ root \in [Slot -> Static \cup {NULL}]
    /\ reserved = 0 /\ born = 0
    /\ phase = "run" /\ need = 0
    /\ from = NULL /\ to = NULL
    /\ toHp = 0 /\ newSize = 0
    /\ todo = {} /\ scan = 0 /\ field = {}

Next == Mutator \/ Collector \/ Undefined

Spec == Init /\ [][Next]_vars

-----------------------------------------------------------------------------
(* Properties                                                              *)

\* A pointer to an object that is in the space s, or that never moves.
Live(p, s) == p \in Static \cup {NULL} \/ (IsAddr(p) /\ p[1] = s /\ p[2] <= Len(mem[s]))

Phases == {"run", "begin", "roots", "scan"}

\* The types of the variables.
TypeOK ==
    /\ mem \in [Space -> Seq(Object)]
    /\ cap \in [Space -> Nat]
    /\ heap \in Space /\ hp \in Nat /\ heapSize \in Nat \ {0}
    /\ spare \in Space \cup {NULL} /\ spareSize \in Nat
    /\ root \in [Slot -> Ptr]
    /\ reserved \in Int /\ born \in Nat
    /\ phase \in Phases /\ need \in Nat
    /\ from \in Space \cup {NULL} /\ to \in Space \cup {NULL}
    /\ toHp \in Nat /\ newSize \in Nat
    /\ todo \subseteq Slot /\ scan \in Nat /\ field \subseteq Nat

\* While the mutator runs, every pointer it can follow, from a root or from
\* an object of the heap, leads to an object of the current space: no object
\* is left behind in a space that gc() gave back or keeps as the spare one.
NoDangling ==
    Running =>
        /\ \A r \in Slot : Live(root[r], heap)
        /\ \A i \in DOMAIN mem[heap] :
              LET o == mem[heap][i]
              IN  o.kind # "FWD" /\ \A k \in Follows(o) : Live(o.w[k], heap)

\* The words in use are the words of the objects, and the words promised by
\* the last reserve() are there: the heap goes past the end of the block that
\* malloc returned by at most what the mutator allocated beyond its reservation,
\* and a collection copies at most what it found, also when it shares objects.
SumSizes(m) ==
    LET f[i \in 0 .. Len(m)] == IF i = 0 THEN 0 ELSE f[i - 1] + Size(m[i]) IN f[Len(m)]

Room ==
    /\ heapSize = cap[heap]
    /\ hp = SumSizes(mem[heap])
    /\ hp + reserved <= cap[heap]
    /\ phase \in {"roots", "scan"} =>
          toHp = SumSizes(mem[to]) /\ toHp <= newSize /\ newSize = cap[to]

\* The blocks that malloc returned and free did not get are the heap, the
\* spare space and the spaces of a collection, each in one role: nothing
\* leaks, nothing is freed twice, and a copy never overwrites its source.  A
\* spare space always has the size of the heap: it is used in the first round
\* of the next collection.
Ownership ==
    LET owned == {heap} \cup ({spare, from} \ {NULL})
                        \cup (IF phase \in {"roots", "scan"} THEN {to} ELSE {})
    IN  /\ \A s \in Space : cap[s] > 0 <=> s \in owned
        /\ spare # NULL => spare \notin {heap, from} /\ spareSize = cap[spare] /\ spareSize = heapSize
        /\ phase \in {"roots", "scan"} => to \notin {heap, from, spare}

\* Only what the roots reach is copied: at the end of a round every object of
\* the to-space is reached from a root.
Reached ==
    LET succ(S) == S \cup {q \in DOMAIN mem[to] :
                              \E i \in S : \E k \in Follows(mem[to][i]) :
                                  mem[to][i].w[k] = <<to, q>>}
        f[n \in Nat] == IF n = 0
                        THEN {q \in DOMAIN mem[to] : \E r \in Slot : root[r] = <<to, q>>}
                        ELSE succ(f[n - 1])
    IN  f[Len(mem[to])]

NoGarbage == Scanned => Reached = DOMAIN mem[to]

\* A collection gets ahead: it starts a round in a space twice as large only
\* while what the heap held and the reservation fill more than half of the
\* space, and within a round there is less to do after each step: phases,
\* roots, objects to scan, fields of the object.
Stage == [begin |-> 3, roots |-> 2, scan |-> 1, run |-> 0]
Unscanned == Len(mem[from]) + 1 - scan

Advances ==
    [][~Running =>
         \/ newSize' = 2 * newSize /\ newSize < 2 * (hp + need)
         \/ Stage[phase'] < Stage[phase]
         \/ /\ phase' = phase
            /\ \/ Cardinality(todo') < Cardinality(todo)
               \/ /\ todo' = todo
                  /\ \/ Unscanned' < Unscanned /\ Unscanned' >= 0
                     \/ Unscanned' = Unscanned /\ Cardinality(field') < Cardinality(field)]_vars
=============================================================================
