------------------------------ MODULE Objects ------------------------------
(***************************************************************************)
(* The objects of the evaluator and how expressions are built into them    *)
(* (src/eval.c, "Objects" to "Primitives"), over the part of the machine's *)
(* state that the collector sees: a record v with the fields               *)
(*   space   "A" or "B": which semispace is in use                         *)
(*   mem     its objects, in allocation order                              *)
(*   globals the values of the globals                                     *)
(*   stack   the frames [kind, a, b, code, n]                              *)
(*   env, val, exc   the registers                                         *)
(*   roots   the C locals that primitives registered                       *)
(*                                                                         *)
(* A pointer is a pair: <<space, index>>, or a static object named by its  *)
(* kind and value, or Null.  An object is [kind, code, ptr]: code stands   *)
(* for the words that are no pointers (an expression, a constructor, a     *)
(* number, the characters of a string), ptr holds the pointers.            *)
(***************************************************************************)
EXTENDS Integers, Sequences, FiniteSets, SequencesExt

CONSTANTS
    SmallInt,   \* the integers that have a static object (-16..255 in the code)
    SmallChar,  \* the characters that have a static object (below 256)
    MaxNest     \* bound: how deep constructors nest in an atom

ASSUME MaxNestAssumption == MaxNest \in Nat

Null == <<"null", 0>>
Spaces == {"A", "B"}
OnHeap(p) == p[1] \in Spaces

ConObject(c) == <<"CON", c>>
IntObject(n) == <<"INT", n>>
CharObject(c) == <<"CHAR", c>>
PrimObject(f) == <<"PRIM", f>>
Unit == ConObject("Unit")
Nil == ConObject("Nil")

Thing(kind, code, ptr) == [kind |-> kind, code |-> code, ptr |-> ptr]
Frame(kind, a, b, c, n) == [kind |-> kind, a |-> a, b |-> b, code |-> c, n |-> n]

\* The object a pointer leads to; a static object is its own description.
Obj(v, p) == IF OnHeap(p) THEN v.mem[p[2]] ELSE Thing(p[1], p[2], <<>>)

\* The words an object takes, its header included.
Words(o) ==
    CASE o.kind \in {"INT", "CHAR"}                 -> 2
      [] o.kind \in {"FUN", "THUNK", "BLACKHOLE", "IND", "STR"} -> 3
      [] o.kind = "CON"                             -> 2 + Len(o.ptr)
      [] o.kind \in {"PAP", "ENV"}                  -> 1 + Len(o.ptr)

\* The sum of a sequence of numbers.
Total(s) == LET sum[i \in 0 .. Len(s)] == IF i = 0 THEN 0 ELSE sum[i - 1] + s[i] IN sum[Len(s)]

\* The words from one allocation to another.
WordsSince(v, mem) == Total([i \in 1 .. Len(mem) - Len(v.mem) |-> Words(mem[Len(v.mem) + i])])

NewPtr(v, mem) == <<v.space, Len(mem) + 1>>

-----------------------------------------------------------------------------
(* Atoms: the arguments of applications and constructors.                  *)

\* What atom() looks at: the atom and the arguments of constructors.
Arguments(e) == IF e.k = "CON" THEN ToSet(e.args) ELSE {}

Parts(e) ==
    LET within[d \in 0 .. MaxNest] ==
            IF d = 0 THEN {e} ELSE UNION {{a} \cup Arguments(a) : a \in within[d - 1]}
    IN  within[MaxNest]

\* A constructor with fields is built; so is each field.
Built(a, d) == a.k = "CON" /\ a.args # <<>> /\ d > 0

\* atom_size(): the words that building an atom takes, when below[x] are those of
\* its fields.
PartSize(a, d, below) ==
    CASE a.k \in {"VAR", "GLOBAL", "PRIM"} -> 0
      [] a.k \in {"INT", "CHAR"} -> 2
      [] a.k = "CON" /\ a.args = <<>> -> 0
      [] Built(a, d) -> 2 + Len(a.args) + Total([i \in DOMAIN a.args |-> below[a.args[i]]])
      [] OTHER -> 3

AtomSize(e) ==
    LET size[d \in 0 .. MaxNest] == [a \in Parts(e) |-> PartSize(a, d, size[d - 1])]
    IN  size[MaxNest][e]

\* The environment `up` levels out of env, and the variable that is one of its
\* slots: lookup_var().
FrameOut(mem, env, up) ==
    LET frame[n \in 0 .. up] == IF n = 0 THEN env ELSE mem[frame[n - 1][2]].ptr[1]
    IN  frame[up]

Lookup(mem, e, env) == mem[FrameOut(mem, env, e.up)[2]].ptr[1 + e.slot]

\* make_int() and make_char() in reserved room.
Boxed(v, mem, kind, n, static) ==
    IF static THEN [mem |-> mem, p |-> <<kind, n>>]
    ELSE [mem |-> Append(mem, Thing(kind, n, <<>>)), p |-> NewPtr(v, mem)]

\* An atom that is no constructor with fields, when n objects were made before:
\* the new objects and the pointer.  A variable is its value; a literal is
\* static or new; a lambda is a closure; any other expression becomes a thunk.
Simple(v, mem, env, a, n) ==
    LET old(p) == [objs |-> <<>>, p |-> p]
        new(kind, code, ptr) ==
            [objs |-> <<Thing(kind, code, ptr)>>, p |-> <<v.space, Len(mem) + n + 1>>]
    IN  CASE a.k = "VAR"    -> old(Lookup(mem, a, env))
          [] a.k = "GLOBAL" -> old(v.globals[a.g])
          [] a.k = "PRIM"   -> old(PrimObject(a.f))
          [] a.k = "INT"    -> IF a.n \in SmallInt THEN old(IntObject(a.n)) ELSE new("INT", a.n, <<>>)
          [] a.k = "CHAR"   -> IF a.n \in SmallChar THEN old(CharObject(a.n)) ELSE new("CHAR", a.n, <<>>)
          [] a.k = "STR"    -> new("STR", a.s, <<>>)
          [] a.k = "LAM"    -> new("FUN", a, <<env>>)
          [] a.k = "CON" /\ a.args = <<>> -> old(ConObject(a.c))
          [] OTHER          -> new("THUNK", a, <<env>>)

\* The first i fields of the constructor a, when n objects were made before;
\* make[x][k] is the atom x after k objects.
FieldsOf(a, n, i, make) ==
    LET fields[j \in 0 .. i] ==
            IF j = 0 THEN [objs |-> <<>>, ptr |-> <<>>]
            ELSE LET r == fields[j - 1]
                     f == make[a.args[j]][n + Len(r.objs)]
                 IN  [objs |-> r.objs \o f.objs, ptr |-> Append(r.ptr, f.p)]
    IN  fields[i]

\* A constructor is allocated before its fields.
Constructed(v, mem, a, n, make) ==
    LET r == FieldsOf(a, n + 1, Len(a.args), make)
    IN  [objs |-> <<Thing("CON", a.c, r.ptr)>> \o r.objs, p |-> <<v.space, Len(mem) + n + 1>>]

\* atom(): what is appended to the heap, and the pointer.
Atom(v, mem, e, env) ==
    LET make[d \in 0 .. MaxNest] == [a \in Parts(e) |-> [n \in Nat |->
            IF Built(a, d) THEN Constructed(v, mem, a, n, make[d - 1])
            ELSE Simple(v, mem, env, a, n)]]
        r == make[MaxNest][e][0]
    IN  [mem |-> mem \o r.objs, p |-> r.p]

\* reads_own_frame(): the atom reads a slot of the let group it is bound in.
ReadsOwnFrame(e) == \E a \in Parts(e) : a.k = "VAR" /\ a.up = 0

\* bind_size(): the words of a binder.
BindSizeOfAtom(e) == AtomSize(e)
BindSize(e) == IF ReadsOwnFrame(e) THEN 3 ELSE AtomSize(e)

\* bind_atom(): such a binder becomes a thunk, for the slot may be empty yet.
BindAtom(v, mem, e, frame) ==
    IF ReadsOwnFrame(e)
    THEN [mem |-> Append(mem, Thing("THUNK", e, <<frame>>)), p |-> NewPtr(v, mem)]
    ELSE Atom(v, mem, e, frame)

\* The heap of v with the frame of a let group, after its first i binders: the
\* slots are empty until their binder is built.
GroupFrame(v, binds) == Thing("ENV", <<>>, <<v.env>> \o [i \in DOMAIN binds |-> Null])

Group(v, binds, i) ==
    LET mem[j \in 0 .. i] ==
            IF j = 0 THEN Append(v.mem, GroupFrame(v, binds))
            ELSE LET before == mem[j - 1]
                     b == BindAtom(v, before, binds[j], NewPtr(v, v.mem))
                 IN  [b.mem EXCEPT ![Len(v.mem) + 1].ptr[1 + j] = b.p]
    IN  mem[i]

-----------------------------------------------------------------------------
(* The collector, as the machine sees it (module Heap has the details):    *)
(* the objects that the roots reach move to the other space, everything    *)
(* that is not a root keeps its old value.                                 *)

\* The two pointers of a frame are roots.
FirstPtr(f) == {f.a}
FramePtrs(f) == {f.a, f.b}

RootSet(v) == {v.env, v.val, v.exc} \cup ToSet(v.globals) \cup ToSet(v.roots)
              \cup UNION {FramePtrs(v.stack[i]) : i \in DOMAIN v.stack}

\* The objects that the pointers in P lead to.
Targets(v, P) == {p[2] : p \in {q \in P : q[1] = v.space}}

Survivors(v) ==
    LET reach[n \in Nat] ==
            IF n = 0 THEN Targets(v, RootSet(v))
            ELSE UNION {{i} \cup Targets(v, ToSet(v.mem[i].ptr)) : i \in reach[n - 1]}
    IN  reach[Len(v.mem)]

\* The objects of S in the order of their addresses.
InOrder(S) == [k \in 1 .. Cardinality(S) |->
                  CHOOSE i \in S : Cardinality({j \in S : j <= i}) = k]

\* Where a collection that leaves the objects of `order` moves a pointer of v.
\* One that is no root, or that leads to an object that is not reached, keeps
\* its old value.
OtherSpace(v) == IF v.space = "A" THEN "B" ELSE "A"

Move(v, order, p) ==
    IF p[1] = v.space /\ \E k \in DOMAIN order : order[k] = p[2]
    THEN <<OtherSpace(v), CHOOSE k \in DOMAIN order : order[k] = p[2]>> ELSE p

MoveAll(v, order, s) == [i \in DOMAIN s |-> Move(v, order, s[i])]

Moved(v, order) ==
    [space |-> OtherSpace(v),
     mem |-> [k \in DOMAIN order |->
                 Thing(v.mem[order[k]].kind, v.mem[order[k]].code,
                       MoveAll(v, order, v.mem[order[k]].ptr))],
     globals |-> MoveAll(v, order, v.globals),
     stack |-> [i \in DOMAIN v.stack |->
                  LET f == v.stack[i]
                  IN  Frame(f.kind, Move(v, order, f.a), Move(v, order, f.b), f.code, f.n)],
     env |-> Move(v, order, v.env), val |-> Move(v, order, v.val), exc |-> Move(v, order, v.exc),
     roots |-> MoveAll(v, order, v.roots)]

\* gc(): the one machine that it makes of v.
Collections(v) == {Moved(v, order) : order \in {InOrder(live) : live \in {Survivors(v)}}}
=============================================================================
