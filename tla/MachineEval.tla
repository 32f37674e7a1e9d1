---------------------------- MODULE MachineEval ----------------------------
(***************************************************************************)
(* Proofs about the machine, for every program whose expressions are       *)
(* scoped and any number of collections at any reservations: the           *)
(* invariant, what a collection and a reservation keep of it, what atoms   *)
(* and let groups become, and the steps of eval: and enter:.               *)
(*                                                                         *)
(* Everything is said of a machine v and its heap, so that it holds of vm, *)
(* of vm after a reservation, and of vm'.  One lemma for each action ends  *)
(* in Keeps: the action keeps MachineInv, and the values (Stays).          *)
(***************************************************************************)
EXTENDS Machine, Induction, SequenceTheorems

-----------------------------------------------------------------------------
(* What the pointers, the objects and the frames of a running program are. *)
(* pg is the program, sp the space in use and m its objects.               *)

StaticValue(p) ==
    \/ p[1] \in {"INT", "CHAR"}
    \/ p[1] = "CON" /\ p[2] \in DOMAIN ConArity /\ ConArity[p[2]] = 0
    \/ p[1] = "PRIM" /\ p[2] \in DOMAIN Arity

\* p leads to an object of the heap; it is a value to be entered; it is an
\* environment, or none.
At(sp, m, p) == p = <<sp, p[2]>> /\ p[2] \in DOMAIN m
Value(sp, m, p) == StaticValue(p) \/ (At(sp, m, p) /\ m[p[2]].kind # "ENV")
Maybe(sp, m, p) == p = Null \/ Value(sp, m, p)
IsEnv(sp, m, p) == At(sp, m, p) /\ m[p[2]].kind = "ENV"

\* The environment p has the frames of the scope s, and e may run in it.
EnvFits(sp, m, p, s) ==
    \A i \in 1 .. Len(s) : LET q == FrameOut(m, p, i - 1)
                           IN  IsEnv(sp, m, q) /\ Len(m[q[2]].ptr) >= 1 + s[i]

Fits(pg, sp, m, e, p) ==
    /\ p = Null \/ IsEnv(sp, m, p)
    /\ \E c \in Code[pg] : c[1] = e /\ EnvFits(sp, m, p, c[2])

\* A primitive or a function that may have n arguments already.
Callee(sp, m, p, n) ==
    \/ p[1] = "PRIM" /\ p[2] \in DOMAIN Arity /\ n <= Arity[p[2]]
    \/ At(sp, m, p) /\ m[p[2]].kind = "FUN" /\ n <= m[p[2]].code.arity

\* All pointers of the object from the first-th on are values.
Values(sp, m, s, first) == \A i \in first .. Len(s) : Value(sp, m, s[i])

Good(pg, sp, m, o) ==
    /\ o = Thing(o.kind, o.code, o.ptr)
    /\ IsList(o.ptr)
    /\ \/ o.kind \in {"INT", "CHAR", "STR"} /\ Len(o.ptr) = 0
       \/ /\ o.kind \in {"FUN", "THUNK", "BLACKHOLE"} /\ Len(o.ptr) = 1
          /\ Fits(pg, sp, m, o.code, o.ptr[1])
          /\ o.kind = "FUN" => o.code.k = "LAM"
       \/ o.kind = "IND" /\ Len(o.ptr) = 1 /\ Values(sp, m, o.ptr, 1)
       \/ /\ o.kind = "CON" /\ o.code \in DOMAIN ConArity /\ Len(o.ptr) = ConArity[o.code]
          /\ Values(sp, m, o.ptr, 1)
       \/ o.kind = "CON" /\ o.code = "MutVar" /\ Len(o.ptr) = 1 /\ Values(sp, m, o.ptr, 1)
       \/ o.kind = "CON" /\ o.code = "MVar" /\ Len(o.ptr) = 1 /\ Maybe(sp, m, o.ptr[1])
       \/ /\ o.kind = "PAP" /\ Len(o.ptr) >= 1 /\ Values(sp, m, o.ptr, 2)
          /\ Callee(sp, m, o.ptr[1], Len(o.ptr) - 1)
       \/ /\ o.kind = "ENV" /\ Len(o.ptr) >= 1 /\ Values(sp, m, o.ptr, 2)
          /\ (o.ptr[1] = Null \/ IsEnv(sp, m, o.ptr[1]))

FrameOK(pg, sp, m, f) ==
    /\ f = Frame(f.kind, f.a, f.b, f.code, f.n)
    /\ \/ f.kind = "STOP" /\ f.a = Null /\ f.b = Null
       \/ f.kind = "ARG" /\ Value(sp, m, f.a) /\ f.b = Null
       \/ f.kind = "UPDATE" /\ At(sp, m, f.a) /\ f.b = Null
       \/ f.kind = "CASE" /\ f.a = Null /\ f.code.k = "CASE" /\ Fits(pg, sp, m, f.code, f.b)
       \/ /\ f.kind = "PRIM" /\ f.code \in DOMAIN Arity /\ f.n \in Nat \ {0} /\ f.b = Null
          /\ At(sp, m, f.a) /\ m[f.a[2]].kind = "PAP" /\ Len(m[f.a[2]].ptr) = 1 + Arity[f.code]
       \/ f.kind = "CATCH" /\ Value(sp, m, f.a) /\ Value(sp, m, f.b)

\* Exactly the objects under an update frame are black holes.
Updates(s) == {i \in DOMAIN s : s[i].kind = "UPDATE"}

HolesMatch(sp, m, s) ==
    /\ \A i \in Updates(s) : s[i].a[2] \in DOMAIN m /\ m[s[i].a[2]].kind = "BLACKHOLE"
    /\ \A i, j \in Updates(s) : s[i].a = s[j].a => i = j
    /\ \A k \in DOMAIN m : m[k].kind = "BLACKHOLE" => \E i \in Updates(s) : s[i].a = <<sp, k>>

Shape(v) ==
    /\ v = [space |-> v.space, mem |-> v.mem, globals |-> v.globals, stack |-> v.stack,
            env |-> v.env, val |-> v.val, exc |-> v.exc, roots |-> v.roots]
    /\ v.space \in Spaces
    /\ IsList(v.mem) /\ IsList(v.globals) /\ IsList(v.stack) /\ IsList(v.roots)

MachineOK(pg, v) ==
    LET sp == v.space
        m == v.mem
    IN  /\ Shape(v)
        /\ \A i \in DOMAIN m : Good(pg, sp, m, m[i])
        /\ \A i \in DOMAIN v.stack : FrameOK(pg, sp, m, v.stack[i])
        /\ DOMAIN v.globals = DOMAIN pg.globals /\ \A i \in DOMAIN v.globals : Value(sp, m, v.globals[i])
        /\ \A i \in DOMAIN v.roots : Maybe(sp, m, v.roots[i])
        /\ Maybe(sp, m, v.val) /\ Maybe(sp, m, v.exc)
        /\ v.env = Null \/ IsEnv(sp, m, v.env)
        /\ HolesMatch(sp, m, v.stack)

\* The runs that C code waits for: each has its stop frame, what it stands on
\* and what its caller registered.
Stops(s) == {i \in DOMAIN s : s[i].kind = "STOP"}

RunOK(s, rs, i) ==
    LET r == rs[i]
    IN  /\ r.prev = i - 1 /\ r.base \in Nat /\ r.roots \in Nat
        /\ \/ r.caller \in {"main", "report"} /\ i = 1
           \/ r.caller = "token" /\ i = 1 /\ r.roots >= 1
           \/ r.caller \in {"cell", "head"} /\ i = 1 /\ r.at = 0 /\ r.roots >= 1
           \/ /\ r.caller \in {"cell", "head"} /\ i > 1 /\ r.roots = rs[i - 1].roots + 1
              /\ r.at = r.base /\ r.at \in DOMAIN s /\ s[r.at].kind = "PRIM"

RunsOK(s, rs, j, n) ==
    /\ IsList(rs) /\ Len(rs) > 0 /\ j = Len(rs)
    /\ \A i \in DOMAIN rs : RunOK(s, rs, i)
    /\ Stops(s) = {rs[i].base + 1 : i \in DOMAIN rs}
    /\ \A i, k \in DOMAIN rs : i < k => rs[i].base < rs[k].base /\ rs[i].roots <= rs[k].roots
    /\ n = rs[Len(rs)].roots

PcOK(pg, v, l, e, o, t) ==
    LET sp == v.space
        m == v.mem
    IN  \/ l = "eval" /\ Fits(pg, sp, m, e, v.env)
        \/ l = "args" /\ e.k = "APP" /\ t \in 0 .. Len(e.args) /\ Fits(pg, sp, m, e, v.env)
        \/ l = "enter" /\ Value(sp, m, o)
        \/ l = "ret" /\ Value(sp, m, v.val)
        \/ l = "call" /\ v.stack # <<>> /\ Top(v.stack).kind = "PRIM"
        \/ l = "unwind" /\ Value(sp, m, v.exc)

MachineInv ==
    /\ prog \in Program
    /\ gcs \in Nat
    /\ MachineOK(prog, vm)
    /\ \A i \in DOMAIN vm.roots : Value(vm.space, vm.mem, vm.roots[i])
    /\ Running => PcOK(prog, vm, pc, code, obj, todo)
    /\ Running => RunsOK(vm.stack, runs, jump, Len(vm.roots))

-----------------------------------------------------------------------------
(* Lists.                                                                  *)

\* A list is the function of its places.
LEMMA ListFacts ==
  ASSUME NEW s, IsList(s)
  PROVE  Len(s) \in Nat /\ DOMAIN s = 1 .. Len(s) /\ s = [i \in 1 .. Len(s) |-> s[i]]
  BY DEF IsList

\* A sequence over any set is a list.
LEMMA ListSeq ==
  ASSUME NEW T, NEW s \in Seq(T)
  PROVE  IsList(s) /\ Len(s) \in Nat /\ DOMAIN s = 1 .. Len(s)
  <1>1. Len(s) \in Nat /\ DOMAIN s = 1 .. Len(s) /\ s \in [1 .. Len(s) -> T]
    BY LenProperties
  <1>2. s \in [1 .. Len(s) -> ToSet(s)]
    BY <1>1 DEF ToSet
  <1> QED BY <1>1, <1>2 DEF IsList

\* A function on 1 .. n is a list of length n.
LEMMA ListOf ==
  ASSUME NEW n \in Nat, NEW s, s = [i \in 1 .. n |-> s[i]]
  PROVE  IsList(s) /\ Len(s) = n /\ DOMAIN s = 1 .. n
  <1>1. s \in [1 .. n -> ToSet(s)]
    BY DEF ToSet
  <1> QED BY <1>1 DEF IsList

LEMMA EmptyList == IsList(<<>>) /\ Len(<<>>) = 0 /\ DOMAIN <<>> = {}
  BY DEF IsList

\* What Append, \o, SubSeq, Tail and EXCEPT make of lists.
LEMMA ListAppend ==
  ASSUME NEW s, IsList(s), NEW x
  PROVE  /\ IsList(Append(s, x)) /\ Len(Append(s, x)) = Len(s) + 1
         /\ DOMAIN Append(s, x) = 1 .. Len(s) + 1
         /\ \A i \in 1 .. Len(s) : Append(s, x)[i] = s[i]
         /\ Append(s, x)[Len(s) + 1] = x
  <1> DEFINE T == ToSet(s) \cup {x}
  <1>1. s \in Seq(T)
    <2>1. s \in Seq(ToSet(s)) /\ ToSet(s) \subseteq T
      BY DEF IsList
    <2> HIDE DEF T
    <2> QED BY <2>1
  <1>2. x \in T
    OBVIOUS
  <1> HIDE DEF T
  <1>3. Append(s, x) \in Seq(T) /\ Len(s) \in Nat /\ Len(Append(s, x)) = Len(s) + 1
    BY <1>1, <1>2
  <1>4. DOMAIN Append(s, x) = 1 .. Len(s) + 1
    BY <1>3
  <1>6. IsList(Append(s, x))
    BY <1>3, ListSeq
  <1> QED BY <1>1, <1>2, <1>3, <1>4, <1>6

LEMMA ListConcat ==
  ASSUME NEW s, IsList(s), NEW t, IsList(t)
  PROVE  /\ IsList(s \o t) /\ Len(s \o t) = Len(s) + Len(t)
         /\ DOMAIN (s \o t) = 1 .. Len(s) + Len(t)
         /\ \A i \in 1 .. Len(s) : (s \o t)[i] = s[i]
         /\ \A i \in 1 .. Len(t) : (s \o t)[Len(s) + i] = t[i]
         /\ \A i \in Len(s) + 1 .. Len(s) + Len(t) : (s \o t)[i] = t[i - Len(s)]
  <1> DEFINE T == ToSet(s) \cup ToSet(t)
  <1>1. s \in Seq(T) /\ t \in Seq(T)
    <2>1. s \in Seq(ToSet(s)) /\ ToSet(s) \subseteq T
      BY DEF IsList
    <2>2. t \in Seq(ToSet(t)) /\ ToSet(t) \subseteq T
      BY DEF IsList
    <2> HIDE DEF T
    <2> QED BY <2>1, <2>2
  <1> HIDE DEF T
  <1>2. /\ s \o t \in Seq(T) /\ Len(s) \in Nat /\ Len(t) \in Nat /\ Len(s \o t) = Len(s) + Len(t)
        /\ \A i \in 1 .. Len(s) + Len(t) : (s \o t)[i] = IF i <= Len(s) THEN s[i] ELSE t[i - Len(s)]
    BY <1>1, ConcatProperties
  <1>3. DOMAIN (s \o t) = 1 .. Len(s) + Len(t)
    BY <1>2
  <1>5. IsList(s \o t)
    BY <1>2, ListSeq
  <1>6. \A i \in 1 .. Len(s) : (s \o t)[i] = s[i]
    BY <1>2
  <1>7. \A i \in Len(s) + 1 .. Len(s) + Len(t) : (s \o t)[i] = t[i - Len(s)]
    BY <1>2
  <1>8. \A i \in 1 .. Len(t) : (s \o t)[Len(s) + i] = t[i]
    <2>1. ASSUME NEW i \in 1 .. Len(t) PROVE (s \o t)[Len(s) + i] = t[i]
      <3>1. Len(s) + i \in Len(s) + 1 .. Len(s) + Len(t) /\ (Len(s) + i) - Len(s) = i
        BY <1>2
      <3> QED BY <3>1, <1>7
    <2> QED BY <2>1
  <1> QED BY <1>2, <1>3, <1>5, <1>6, <1>7, <1>8

LEMMA ListPrefix ==
  ASSUME NEW s, IsList(s), NEW k \in 0 .. Len(s)
  PROVE  /\ IsList(SubSeq(s, 1, k)) /\ Len(SubSeq(s, 1, k)) = k
         /\ DOMAIN SubSeq(s, 1, k) = 1 .. k
         /\ \A i \in 1 .. k : SubSeq(s, 1, k)[i] = s[i]
  <1>1. s \in Seq(ToSet(s)) /\ Len(s) \in Nat
    BY DEF IsList
  <1>2. SubSeq(s, 1, k) = [i \in 1 .. k |-> s[i]]
    BY <1>1
  <1>3. k \in Nat
    BY <1>1
  <1> DEFINE t == SubSeq(s, 1, k)
  <1>4. t = [i \in 1 .. k |-> t[i]]
    BY <1>2
  <1> HIDE DEF t
  <1>5. IsList(t) /\ Len(t) = k /\ DOMAIN t = 1 .. k
    BY <1>3, <1>4, ListOf
  <1> QED BY <1>2, <1>5 DEF t

LEMMA ListTail ==
  ASSUME NEW s, IsList(s), Len(s) >= 1
  PROVE  /\ IsList(Tail(s)) /\ Len(Tail(s)) = Len(s) - 1
         /\ \A i \in 1 .. Len(s) - 1 : Tail(s)[i] = s[i + 1]
  <1>1. s \in Seq(ToSet(s)) /\ Len(s) \in Nat /\ s # <<>>
    BY DEF IsList
  <1>2. /\ Tail(s) \in Seq(ToSet(s)) /\ Len(Tail(s)) = Len(s) - 1
        /\ \A i \in 1 .. Len(Tail(s)) : Tail(s)[i] = s[i + 1]
    BY <1>1, HeadTailProperties
  <1>3. IsList(Tail(s))
    BY <1>2, ListSeq
  <1> QED BY <1>2, <1>3

LEMMA ListExcept ==
  ASSUME NEW s, IsList(s), NEW i \in DOMAIN s, NEW x
  PROVE  /\ IsList([s EXCEPT ![i] = x]) /\ Len([s EXCEPT ![i] = x]) = Len(s)
         /\ DOMAIN [s EXCEPT ![i] = x] = DOMAIN s
         /\ [s EXCEPT ![i] = x][i] = x
         /\ \A j \in DOMAIN s : j # i => [s EXCEPT ![i] = x][j] = s[j]
  <1> DEFINE t == [s EXCEPT ![i] = x]
  <1>1. Len(s) \in Nat /\ DOMAIN s = 1 .. Len(s)
    BY ListFacts
  <1>2. t = [j \in 1 .. Len(s) |-> t[j]]
    BY <1>1
  <1>3. t[i] = x /\ \A j \in DOMAIN s : j # i => t[j] = s[j]
    OBVIOUS
  <1> HIDE DEF t
  <1>4. IsList(t) /\ Len(t) = Len(s) /\ DOMAIN t = 1 .. Len(s)
    BY <1>1, <1>2, ListOf
  <1> QED BY <1>1, <1>3, <1>4 DEF t

\* The first elements of a list, and others behind them.
LEMMA ListReplaced ==
  ASSUME NEW s, IsList(s), NEW k \in 0 .. Len(s), NEW t, IsList(t)
  PROVE  LET u == SubSeq(s, 1, k) \o t
         IN  /\ IsList(u) /\ Len(u) = k + Len(t) /\ DOMAIN u = 1 .. k + Len(t)
             /\ \A i \in 1 .. k : u[i] = s[i]
             /\ \A i \in k + 1 .. k + Len(t) : u[i] = t[i - k]
  <1> DEFINE r == SubSeq(s, 1, k)
  <1>1. IsList(r) /\ Len(r) = k /\ \A i \in 1 .. k : r[i] = s[i]
    BY ListPrefix
  <1> HIDE DEF r
  <1>2. /\ IsList(r \o t) /\ Len(r \o t) = Len(r) + Len(t) /\ DOMAIN (r \o t) = 1 .. Len(r) + Len(t)
        /\ \A i \in 1 .. Len(r) : (r \o t)[i] = r[i]
        /\ \A i \in Len(r) + 1 .. Len(r) + Len(t) : (r \o t)[i] = t[i - Len(r)]
    BY <1>1, ListConcat, ZenonT(30)
  <1> QED BY <1>1, <1>2 DEF r

-----------------------------------------------------------------------------
(* Environments.                                                           *)

\* The frame that is one level further out.
LEMMA FrameOutSteps ==
  ASSUME NEW m, NEW p
  PROVE  /\ FrameOut(m, p, 0) = p
         /\ \A n \in Nat : FrameOut(m, p, n + 1) = m[FrameOut(m, p, n)[2]].ptr[1]
  <1> DEFINE Step(i, x) == m[x[2]].ptr[1]
             Is(f, n) == f = [i \in 0 .. n |-> IF i = 0 THEN p ELSE Step(i, f[i - 1])]
             F(n) == CHOOSE f : Is(f, n)
             S == {n \in Nat : \E f : Is(f, n)}
  <1>0. \A n \in Nat : FrameOut(m, p, n) = F(n)[n]
    BY DEF FrameOut
  <1>s. \A n : Step(n + 1, F(n)[n]) = m[F(n)[n][2]].ptr[1]
    OBVIOUS
  <1> HIDE DEF Step
  <1>1. 0 \in S
    <2>1. Is([i \in 0 .. 0 |-> p], 0)
      OBVIOUS
    <2> QED BY <2>1
  <1>2. ASSUME NEW n \in Nat, n \in S PROVE n + 1 \in S
    <2>1. PICK f : Is(f, n)
      BY <1>2
    <2> DEFINE g == [i \in 0 .. n + 1 |-> IF i = n + 1 THEN Step(n + 1, f[n]) ELSE f[i]]
    <2>2. \A i \in 0 .. n : g[i] = f[i]
      OBVIOUS
    <2>3. \A i \in 0 .. n : i = 0 => f[i] = p
      BY <2>1
    <2>4. \A i \in 0 .. n : i # 0 => f[i] = Step(i, f[i - 1])
      BY <2>1
    <2>5. ASSUME NEW i \in 0 .. n + 1
          PROVE  g[i] = IF i = 0 THEN p ELSE Step(i, g[i - 1])
      <3>1. CASE i = n + 1
        <4>1. g[i] = Step(n + 1, f[n]) /\ i - 1 = n /\ g[n] = f[n] /\ i # 0
          BY <3>1, <2>2
        <4> QED BY <4>1, <3>1
      <3>2. CASE i \in 0 .. n /\ i # 0
        <4>1. g[i] = f[i] /\ i - 1 \in 0 .. n /\ g[i - 1] = f[i - 1]
          BY <3>2, <2>2
        <4> QED BY <4>1, <3>2, <2>4
      <3>3. CASE i = 0
        BY <3>3, <2>2, <2>3
      <3> QED BY <3>1, <3>2, <3>3
    <2>6. g = [i \in 0 .. n + 1 |-> IF i = 0 THEN p ELSE Step(i, g[i - 1])]
      <3>1. g = [i \in 0 .. n + 1 |-> g[i]]
        OBVIOUS
      <3> HIDE DEF g
      <3> QED BY <3>1, <2>5
    <2>7. \E h : Is(h, n + 1)
      BY <2>6
    <2> QED BY <2>7
  <1>3. \A n \in Nat : n \in S
    <2> HIDE DEF S
    <2> QED BY <1>1, <1>2, SetInduction
  <1>4. ASSUME NEW n \in Nat
        PROVE  F(n)[0] = p /\ \A i \in 1 .. n : F(n)[i] = Step(i, F(n)[i - 1])
    <2>1. Is(F(n), n)
      BY <1>3
    <2> HIDE DEF F
    <2> QED BY <2>1
  <1> HIDE DEF F
  <1>5. ASSUME NEW n \in Nat PROVE F(n + 1)[n] = F(n)[n]
    <2> DEFINE T == {i \in Nat : i <= n => F(n + 1)[i] = F(n)[i]}
    <2>1. 0 \in T
      BY <1>4
    <2>2. ASSUME NEW i \in Nat, i \in T PROVE i + 1 \in T
      <3>1. CASE i + 1 <= n
        <4>1. i + 1 \in 1 .. n /\ i + 1 \in 1 .. n + 1 /\ (i + 1) - 1 = i
          BY <3>1
        <4>2. F(n + 1)[i] = F(n)[i]
          BY <2>2, <3>1
        <4> QED BY <4>1, <4>2, <1>4
      <3> QED BY <3>1
    <2>3. \A i \in Nat : i \in T
      <3> HIDE DEF T
      <3> QED BY <2>1, <2>2, SetInduction
    <2> QED BY <2>3
  <1>6. ASSUME NEW n \in Nat PROVE F(n + 1)[n + 1] = Step(n + 1, F(n)[n])
    <2>1. n + 1 \in 1 .. n + 1 /\ (n + 1) - 1 = n
      OBVIOUS
    <2> QED BY <2>1, <1>4, <1>5
  <1>7. ASSUME NEW n \in Nat PROVE FrameOut(m, p, n + 1) = m[FrameOut(m, p, n)[2]].ptr[1]
    BY <1>6, <1>0, <1>s
  <1> QED BY <1>0, <1>4, <1>7

\* Each of the two facts alone.
LEMMA FrameOutBase == ASSUME NEW m, NEW p PROVE FrameOut(m, p, 0) = p
  BY FrameOutSteps

LEMMA FrameOutNext ==
  ASSUME NEW m, NEW p, NEW n \in Nat
  PROVE  FrameOut(m, p, n + 1) = m[FrameOut(m, p, n)[2]].ptr[1]
  BY FrameOutSteps

-----------------------------------------------------------------------------
(* How the objects of one space change: what is an environment, a function *)
(* or a partial application stays what it is, all others are entered.      *)

Evolves(o, q) ==
    /\ q.kind = "ENV" <=> o.kind = "ENV"
    /\ o.kind \in {"ENV", "PAP", "FUN"} =>
          q.kind = o.kind /\ q.code = o.code /\ Len(q.ptr) = Len(o.ptr) /\ q.ptr[1] = o.ptr[1]

Later(m, n) == DOMAIN m \subseteq DOMAIN n /\ \A i \in DOMAIN m : Evolves(m[i], n[i])

\* Whatever a heap has, it has later: what is known of a pointer stays true.
LEMMA LaterReflexive ==
  ASSUME NEW m
  PROVE  Later(m, m)
  BY DEF Later, Evolves

LEMMA LaterTransitive ==
  ASSUME NEW m, NEW n, NEW u, Later(m, n), Later(n, u)
  PROVE  Later(m, u)
  BY DEF Later, Evolves

\* What a pointer is known to lead to stays true ...
LEMMA ValueLater ==
  ASSUME NEW sp, NEW m, NEW n, Later(m, n), NEW p
  PROVE  /\ At(sp, m, p) => At(sp, n, p)
         /\ Value(sp, m, p) => Value(sp, n, p)
         /\ Maybe(sp, m, p) => Maybe(sp, n, p)
         /\ IsEnv(sp, m, p) => IsEnv(sp, n, p)
  BY DEF Later, Evolves, At, Value, Maybe, IsEnv

\* ... so do the frames of an environment,
LEMMA EnvFitsLater ==
  ASSUME NEW sp, NEW m, NEW n, Later(m, n), NEW p, NEW s, Len(s) \in Nat, EnvFits(sp, m, p, s)
  PROVE  EnvFits(sp, n, p, s) /\ \A i \in 0 .. Len(s) : FrameOut(n, p, i) = FrameOut(m, p, i)
  <1> DEFINE T == {i \in Nat : i <= Len(s) => FrameOut(n, p, i) = FrameOut(m, p, i)}
  <1>1. 0 \in T
    BY FrameOutBase
  <1>2. ASSUME NEW i \in Nat, i \in T PROVE i + 1 \in T
    <2>1. CASE i + 1 <= Len(s)
      <3> DEFINE q == FrameOut(m, p, i)
      <3>1. i + 1 \in 1 .. Len(s) /\ (i + 1) - 1 = i /\ i <= Len(s)
        BY <2>1
      <3>2. IsEnv(sp, m, q)
        BY <3>1 DEF EnvFits
      <3>3. q = FrameOut(n, p, i)
        BY <1>2, <3>1
      <3>4. FrameOut(m, p, i + 1) = m[q[2]].ptr[1] /\ FrameOut(n, p, i + 1) = n[q[2]].ptr[1]
        <4>1. FrameOut(m, p, i + 1) = m[FrameOut(m, p, i)[2]].ptr[1]
          BY FrameOutNext
        <4>2. FrameOut(n, p, i + 1) = n[FrameOut(n, p, i)[2]].ptr[1]
          BY FrameOutNext
        <4> QED BY <3>3, <4>1, <4>2
      <3> HIDE DEF q
      <3>5. n[q[2]].ptr[1] = m[q[2]].ptr[1]
        BY <3>2 DEF IsEnv, At, Later, Evolves
      <3> QED BY <3>4, <3>5
    <2> QED BY <2>1
  <1>3. \A i \in Nat : i \in T
    <2> HIDE DEF T
    <2> QED BY <1>1, <1>2, SetInduction
  <1>4. \A i \in 0 .. Len(s) : FrameOut(n, p, i) = FrameOut(m, p, i)
    BY <1>3
  <1>5. ASSUME NEW i \in 1 .. Len(s), NEW q, q = FrameOut(n, p, i - 1)
        PROVE  IsEnv(sp, n, q) /\ Len(n[q[2]].ptr) >= 1 + s[i]
    <2>1. i - 1 \in 0 .. Len(s) /\ q = FrameOut(m, p, i - 1)
      BY <1>4, <1>5
    <2>2. IsEnv(sp, m, q) /\ Len(m[q[2]].ptr) >= 1 + s[i]
      BY <2>1 DEF EnvFits
    <2>3. Len(n[q[2]].ptr) = Len(m[q[2]].ptr)
      BY <2>2 DEF IsEnv, At, Later, Evolves
    <2>4. IsEnv(sp, n, q)
      BY <2>2, ValueLater
    <2> QED BY <2>2, <2>3, <2>4
  <1> QED BY <1>4, <1>5 DEF EnvFits

\* The programs' assumption in the form that the proofs use.
LEMMA CodeFacts ==
  ASSUME NEW pg \in Program, NEW c \in Code[pg]
  PROVE  /\ c = <<c[1], c[2]>> /\ Scoped(pg, c[1], c[2]) /\ c[2] \in Seq(Nat) /\ Len(c[2]) \in Nat
         /\ \A i \in 1 .. Len(c[2]) : c[2][i] \in Nat
  <1>1. c = <<c[1], c[2]>> /\ Scoped(pg, c[1], c[2])
    BY CodeAssumption
  <1>2. c[2] \in Seq(Nat)
    BY <1>1 DEF Scoped
  <1> QED BY <1>1, <1>2

\* ... what may run in it,
LEMMA FitsLater ==
  ASSUME NEW pg \in Program, NEW sp, NEW m, NEW n, Later(m, n), NEW e, NEW p, Fits(pg, sp, m, e, p)
  PROVE  Fits(pg, sp, n, e, p)
  <1>1. PICK c \in Code[pg] : c[1] = e /\ EnvFits(sp, m, p, c[2])
    BY DEF Fits
  <1>2. EnvFits(sp, n, p, c[2])
    BY <1>1, CodeFacts, EnvFitsLater
  <1>3. p = Null \/ IsEnv(sp, n, p)
    BY ValueLater DEF Fits
  <1> QED BY <1>1, <1>2, <1>3 DEF Fits

\* ... and what objects
LEMMA GoodLater ==
  ASSUME NEW pg \in Program, NEW sp, NEW m, NEW n, Later(m, n), NEW o, Good(pg, sp, m, o)
  PROVE  Good(pg, sp, n, o)
  <1>1. ASSUME NEW k, Callee(sp, m, o.ptr[1], k) PROVE Callee(sp, n, o.ptr[1], k)
    BY <1>1 DEF Callee, At, Later, Evolves
  <1>2. ASSUME NEW k, Values(sp, m, o.ptr, k) PROVE Values(sp, n, o.ptr, k)
    BY <1>2, ValueLater DEF Values
  <1>3. Fits(pg, sp, m, o.code, o.ptr[1]) => Fits(pg, sp, n, o.code, o.ptr[1])
    BY FitsLater
  <1>4. /\ Maybe(sp, m, o.ptr[1]) => Maybe(sp, n, o.ptr[1])
        /\ IsEnv(sp, m, o.ptr[1]) => IsEnv(sp, n, o.ptr[1])
    BY ValueLater
  <1> QED BY <1>1, <1>2, <1>3, <1>4 DEF Good

\* and frames hold.
LEMMA FrameLater ==
  ASSUME NEW pg \in Program, NEW sp, NEW m, NEW n, Later(m, n), NEW f, FrameOK(pg, sp, m, f)
  PROVE  FrameOK(pg, sp, n, f)
  <1>1. Fits(pg, sp, m, f.code, f.b) => Fits(pg, sp, n, f.code, f.b)
    BY FitsLater
  <1>2. /\ Value(sp, m, f.a) => Value(sp, n, f.a)
        /\ Value(sp, m, f.b) => Value(sp, n, f.b)
        /\ At(sp, m, f.a) => At(sp, n, f.a)
    BY ValueLater
  <1>3. At(sp, m, f.a) /\ m[f.a[2]].kind = "PAP" =>
           n[f.a[2]].kind = "PAP" /\ Len(n[f.a[2]].ptr) = Len(m[f.a[2]].ptr)
    BY DEF At, Later, Evolves
  <1> QED BY <1>1, <1>2, <1>3 DEF FrameOK

-----------------------------------------------------------------------------
(* The collector: which objects survive, and in which order.               *)

\* The rank of an element is its place among the elements of the set.
LEMMA InOrderFacts ==
  ASSUME NEW S, S \subseteq Nat, IsFiniteSet(S)
  PROVE  LET order == InOrder(S)
             n == Cardinality(S)
         IN  /\ n \in Nat /\ order \in [1 .. n -> S]
             /\ \A i \in S : \E k \in 1 .. n : order[k] = i
             /\ \A j, k \in 1 .. n : order[j] = order[k] => j = k
  <1> DEFINE n == Cardinality(S)
             below(i) == {j \in S : j <= i}
             r == [i \in S |-> Cardinality(below(i))]
  <1>1. n \in Nat
    BY FS_CardinalityType
  <1>2. ASSUME NEW i \in S
        PROVE  IsFiniteSet(below(i)) /\ r[i] \in 1 .. n
    <2>1. below(i) \in SUBSET S /\ i \in below(i)
      OBVIOUS
    <2>2. IsFiniteSet(below(i)) /\ Cardinality(below(i)) <= n /\ Cardinality(below(i)) \in Nat
      BY <2>1, FS_Subset, FS_CardinalityType
    <2>3. Cardinality(below(i)) # 0
      BY <2>1, <2>2, FS_EmptySet
    <2> QED BY <2>2, <2>3, <1>1
  <1>3. ASSUME NEW i \in S, NEW j \in S, i < j
        PROVE  r[i] # r[j]
    <2>0. i \in Nat /\ j \in Nat /\ \A k \in S : k \in Nat
      OBVIOUS
    <2>1. below(i) \in SUBSET below(j) /\ j \in below(j) /\ j \notin below(i)
      <3>1. \A k \in S : k <= i => k <= j
        BY <1>3, <2>0
      <3>2. j <= j /\ ~ (j <= i)
        BY <1>3, <2>0
      <3> QED BY <3>1, <3>2
    <2>2. IsFiniteSet(below(j))
      BY <1>2
    <2>3. Cardinality(below(j)) # Cardinality(below(i))
      BY <2>1, <2>2, FS_Subset
    <2> QED BY <2>3
  <1>4. r \in [S -> 1 .. n]
    BY <1>2
  <1>5. \A i, j \in S : r[i] = r[j] => i = j
    BY <1>3
  <1> HIDE DEF r
  <1>6. r \in Injection(S, 1 .. n)
    BY <1>4, <1>5 DEF Injection, IsInjective
  <1>7. IsFiniteSet(1 .. n) /\ Cardinality(1 .. n) = n
    BY <1>1, FS_Interval
  <1>8. r \in Surjection(S, 1 .. n)
    BY <1>6, <1>7, FS_Injection
  <1>9. \A k \in 1 .. n : \E i \in S : r[i] = k
    BY <1>8 DEF Surjection
  <1> DEFINE order == [k \in 1 .. n |-> CHOOSE i \in S : Cardinality({j \in S : j <= i}) = k]
  <1>10. ASSUME NEW k \in 1 .. n PROVE order[k] \in S /\ r[order[k]] = k
    <2>1. \E i \in S : Cardinality({j \in S : j <= i}) = k
      BY <1>9 DEF r
    <2>2. order[k] \in S /\ Cardinality({j \in S : j <= order[k]}) = k
      BY <2>1
    <2> HIDE DEF order
    <2> QED BY <2>2 DEF r
  <1>11. order = InOrder(S)
    BY DEF InOrder
  <1>12. order \in [1 .. n -> S]
    BY <1>10
  <1> HIDE DEF order
  <1>13. ASSUME NEW i \in S PROVE \E k \in 1 .. n : order[k] = i
    <2>1. r[i] \in 1 .. n /\ order[r[i]] \in S /\ r[order[r[i]]] = r[i]
      BY <1>4, <1>10
    <2>2. order[r[i]] = i
      BY <2>1, <1>5
    <2> QED BY <2>1, <2>2
  <1>14. \A j, k \in 1 .. n : order[j] = order[k] => j = k
    BY <1>10
  <1> QED BY <1>1, <1>11, <1>12, <1>13, <1>14

\* No pointer of the machine leads to where no object is.
Closed(v) ==
    /\ IsList(v.mem)
    /\ \A p \in RootSet(v) : p[1] = v.space => p[2] \in DOMAIN v.mem
    /\ \A i \in DOMAIN v.mem : \A p \in ToSet(v.mem[i].ptr) : p[1] = v.space => p[2] \in DOMAIN v.mem

\* The survivors are objects, the roots lead to some, and what a survivor leads
\* to is one.
LEMMA SurvivorsClosed ==
  ASSUME NEW v, Closed(v)
  PROVE  /\ Survivors(v) \subseteq DOMAIN v.mem
         /\ Targets(v, RootSet(v)) \subseteq Survivors(v)
         /\ \A i \in Survivors(v) : Targets(v, ToSet(v.mem[i].ptr)) \subseteq Survivors(v)
  <1> DEFINE D == DOMAIN v.mem
             N == Len(v.mem)
             x0 == Targets(v, RootSet(v))
             E == [i \in D |-> Targets(v, ToSet(v.mem[i].ptr))]
             G == [T \in SUBSET D |-> UNION {{i} \cup Targets(v, ToSet(v.mem[i].ptr)) : i \in T}]
  <1>1. N \in Nat /\ D = 1 .. N
    BY ListFacts DEF Closed
  <1>2. IsFiniteSet(D) /\ Cardinality(D) <= N
    <2> HIDE DEF N, D
    <2>1. IsFiniteSet(1 .. N) /\ Cardinality(1 .. N) = IF 1 > N THEN 0 ELSE N - 1 + 1
      BY <1>1, FS_Interval
    <2> QED BY <1>1, <2>1
  <1>3. x0 \subseteq D /\ \A i \in D : Targets(v, ToSet(v.mem[i].ptr)) \subseteq D
    BY DEF Closed, Targets
  <1>4. E \in [D -> SUBSET D]
    BY <1>3
  <1>5. G \in [SUBSET D -> SUBSET D]
    <2>1. ASSUME NEW T \in SUBSET D
          PROVE  UNION {{i} \cup Targets(v, ToSet(v.mem[i].ptr)) : i \in T} \in SUBSET D
      BY <1>3
    <2> QED BY <2>1
  <1>6. PICK g \in [Nat -> SUBSET D] : g = [n \in Nat |-> IF n = 0 THEN x0 ELSE G[g[n - 1]]]
    <2> DEFINE X == SUBSET D
    <2>1. x0 \in X /\ G \in [X -> X]
      BY <1>3, <1>5
    <2> HIDE DEF x0, X, G
    <2>2. \E g \in [Nat -> X] : g = [n \in Nat |-> IF n = 0 THEN x0 ELSE G[g[n - 1]]]
      BY <2>1, Iteration
    <2> QED BY <2>2 DEF X
  <1> DEFINE Is(f) == f = [n \in Nat |-> IF n = 0 THEN Targets(v, RootSet(v))
                           ELSE UNION {{i} \cup Targets(v, ToSet(v.mem[i].ptr)) : i \in f[n - 1]}]
             F == CHOOSE f : Is(f)
  <1>7. Is(g)
    <2>1. ASSUME NEW n \in Nat, n # 0
          PROVE  G[g[n - 1]] = UNION {{i} \cup Targets(v, ToSet(v.mem[i].ptr)) : i \in g[n - 1]}
      <3>1. n - 1 \in Nat
        BY <2>1
      <3>2. g[n - 1] \in SUBSET D
        BY <3>1
      <3> HIDE DEF D
      <3> QED BY <3>2
    <2>2. \A n \in Nat : g[n] = IF n = 0 THEN x0 ELSE G[g[n - 1]]
      <3> HIDE DEF G, x0
      <3> QED BY <1>6
    <2>3. g = [n \in Nat |-> g[n]]
      BY <1>6
    <2> HIDE DEF G
    <2>4. ASSUME NEW n \in Nat
          PROVE  g[n] = IF n = 0 THEN Targets(v, RootSet(v))
                        ELSE UNION {{i} \cup Targets(v, ToSet(v.mem[i].ptr)) : i \in g[n - 1]}
      BY <2>1, <2>2
    <2> QED BY <2>3, <2>4
  <1>8. Is(F)
    <2> HIDE DEF Is
    <2> QED BY <1>7
  <1>9. Survivors(v) = F[N]
    BY DEF Survivors
  <1> HIDE DEF F
  <1>10. F[0] = x0
    BY <1>8
  <1>11. ASSUME NEW n \in Nat, F[n] \subseteq D
         PROVE  F[n + 1] = F[n] \cup UNION {E[i] : i \in F[n]}
    <2>1. F[n + 1] = UNION {{i} \cup Targets(v, ToSet(v.mem[i].ptr)) : i \in F[n]}
      <3>1. n + 1 \in Nat /\ n + 1 # 0 /\ (n + 1) - 1 = n
        OBVIOUS
      <3> QED BY <1>8, <3>1
    <2>2. ASSUME NEW i \in F[n] PROVE E[i] = Targets(v, ToSet(v.mem[i].ptr))
      BY <1>11
    <2> HIDE DEF E
    <2> QED BY <2>1, <2>2
  <1> HIDE DEF E, D, x0, N
  <1>12. /\ F[0] \subseteq F[N] /\ F[N] \subseteq D
         /\ \A a \in F[N] : E[a] \subseteq F[N]
    <2>1. F[0] \subseteq D /\ N \in Nat
      BY <1>1, <1>3, <1>10
    <2> QED BY <1>2, <1>4, <2>1, <1>11, LeastClosure
  <1>13. \A a \in D : E[a] = Targets(v, ToSet(v.mem[a].ptr))
    BY DEF E
  <1> QED BY <1>9, <1>10, <1>12, <1>13 DEF D, x0

-----------------------------------------------------------------------------
(* What a collection makes of the pointers.                                *)

NewPlace(v, p) == Move(v, InOrder(Survivors(v)), p)
Collected(v) == Moved(v, InOrder(Survivors(v)))

\* A pointer that a collection of v moves, if it leads to the heap.
Lives(v, p) == p[1] = v.space => p[2] \in Survivors(v)

\* A collection has one outcome.
LEMMA OneCollection ==
  ASSUME NEW v
  PROVE  Collections(v) = {Collected(v)}
  BY DEF Collections, Collected

\* Each survivor has one place.
LEMMA OrderFacts ==
  ASSUME NEW v, Closed(v), NEW order, order = InOrder(Survivors(v))
  PROVE  /\ Len(order) \in Nat /\ DOMAIN order = 1 .. Len(order)
         /\ \A k \in DOMAIN order : order[k] \in Survivors(v)
         /\ \A i \in Survivors(v) : \E k \in DOMAIN order : order[k] = i
         /\ \A j, k \in DOMAIN order : order[j] = order[k] => j = k
         /\ Survivors(v) \subseteq DOMAIN v.mem
  <1>1. Survivors(v) \subseteq DOMAIN v.mem
    BY SurvivorsClosed
  <1>2. DOMAIN v.mem = 1 .. Len(v.mem) /\ Len(v.mem) \in Nat
    BY ListFacts DEF Closed
  <1>3. IsFiniteSet(DOMAIN v.mem)
    BY <1>2, FS_Interval
  <1>4. IsFiniteSet(Survivors(v)) /\ Survivors(v) \subseteq Nat
    BY <1>1, <1>2, <1>3, FS_Subset
  <1> DEFINE S == Survivors(v)
             n == Cardinality(S)
  <1> HIDE DEF S
  <1>5. /\ n \in Nat /\ order \in [1 .. n -> S]
        /\ \A i \in S : \E k \in 1 .. n : order[k] = i
        /\ \A j, k \in 1 .. n : order[j] = order[k] => j = k
    BY <1>4, InOrderFacts DEF S
  <1> HIDE DEF n
  <1>6. Len(order) = n /\ DOMAIN order = 1 .. n
    BY <1>5
  <1> QED BY <1>1, <1>5, <1>6 DEF S

\* Pointers into the old space lead to that place; others stay.
LEMMA PlaceFacts ==
  ASSUME NEW v, Closed(v), v.space \in Spaces
  PROVE  LET w == Collected(v)
             order == InOrder(Survivors(v))
         IN  /\ w.space \in Spaces /\ w.space # v.space
             /\ w.space = OtherSpace(v)
             /\ \A p : p[1] # v.space => NewPlace(v, p) = p
             /\ \A p : p[1] = v.space /\ p[2] \in Survivors(v) =>
                   /\ NewPlace(v, p) = <<w.space, NewPlace(v, p)[2]>>
                   /\ NewPlace(v, p)[2] \in DOMAIN order /\ order[NewPlace(v, p)[2]] = p[2]
  <1> DEFINE order == InOrder(Survivors(v))
             w == Collected(v)
  <1>1. w.space = OtherSpace(v)
    BY DEF Collected, Moved
  <1>2. w.space \in Spaces /\ w.space # v.space
    BY <1>1 DEF OtherSpace, Spaces
  <1>3. \A p : p[1] # v.space => NewPlace(v, p) = p
    BY DEF NewPlace, Move
  <1>4. ASSUME NEW p, p[1] = v.space, p[2] \in Survivors(v)
        PROVE  /\ NewPlace(v, p) = <<w.space, NewPlace(v, p)[2]>>
               /\ NewPlace(v, p)[2] \in DOMAIN order /\ order[NewPlace(v, p)[2]] = p[2]
    <2> HIDE DEF order, w
    <2>1. \E k \in DOMAIN order : order[k] = p[2]
      BY <1>4, OrderFacts DEF order
    <2>2. NewPlace(v, p) = <<OtherSpace(v), CHOOSE k \in DOMAIN order : order[k] = p[2]>>
      BY <1>4, <2>1 DEF NewPlace, Move, order
    <2>3. PICK k : k = CHOOSE h \in DOMAIN order : order[h] = p[2]
      OBVIOUS
    <2>4. k \in DOMAIN order /\ order[k] = p[2]
      BY <2>1, <2>3
    <2>5. NewPlace(v, p) = <<w.space, k>>
      BY <2>2, <2>3, <1>1
    <2> QED BY <2>4, <2>5
  <1> QED BY <1>1, <1>2, <1>3, <1>4

\* The objects of the new space are the survivors, their pointers moved.
LEMMA CollectedObjects ==
  ASSUME NEW v, Closed(v), v.space \in Spaces, \A i \in DOMAIN v.mem : IsList(v.mem[i].ptr)
  PROVE  LET w == Collected(v)
         IN  /\ IsList(w.mem)
             /\ \A p : At(v.space, v.mem, p) /\ Lives(v, p) =>
                   LET q == NewPlace(v, p)
                       o == v.mem[p[2]]
                   IN  /\ At(w.space, w.mem, q)
                       /\ w.mem[q[2]] = Thing(o.kind, o.code, w.mem[q[2]].ptr)
                       /\ IsList(w.mem[q[2]].ptr) /\ Len(w.mem[q[2]].ptr) = Len(o.ptr)
                       /\ \A i \in 1 .. Len(o.ptr) : /\ w.mem[q[2]].ptr[i] = NewPlace(v, o.ptr[i])
                                                     /\ Lives(v, o.ptr[i])
             /\ \A k \in DOMAIN w.mem : \E p : /\ At(v.space, v.mem, p) /\ Lives(v, p)
                                               /\ NewPlace(v, p) = <<w.space, k>>
  <1> DEFINE order == InOrder(Survivors(v))
             w == Collected(v)
             copied(k) == Thing(v.mem[order[k]].kind, v.mem[order[k]].code,
                             MoveAll(v, order, v.mem[order[k]].ptr))
  <1>1. w.mem = [k \in DOMAIN order |-> copied(k)]
    BY DEF Collected, Moved
  <1>2. IsList(w.mem) /\ DOMAIN w.mem = DOMAIN order
    <2> DEFINE m == w.mem
    <2>1. DOMAIN order = 1 .. Len(order) /\ Len(order) \in Nat
      BY OrderFacts
    <2>2. DOMAIN m = DOMAIN order /\ m = [k \in DOMAIN order |-> m[k]]
      BY <1>1
    <2> HIDE DEF m, order
    <2>3. m = [k \in 1 .. Len(order) |-> m[k]]
      BY <2>1, <2>2
    <2>4. IsList(m)
      BY <2>1, <2>3, ListOf
    <2> QED BY <2>2, <2>4 DEF m
  <1> HIDE DEF order
  <1>3. ASSUME NEW p, At(v.space, v.mem, p), Lives(v, p), NEW q, q = NewPlace(v, p),
               NEW o, o = v.mem[p[2]]
        PROVE  /\ At(w.space, w.mem, q)
               /\ w.mem[q[2]] = Thing(o.kind, o.code, w.mem[q[2]].ptr)
               /\ IsList(w.mem[q[2]].ptr) /\ Len(w.mem[q[2]].ptr) = Len(o.ptr)
               /\ \A i \in 1 .. Len(o.ptr) : /\ w.mem[q[2]].ptr[i] = NewPlace(v, o.ptr[i])
                                             /\ Lives(v, o.ptr[i])
    <2>1. p[1] = v.space /\ p[2] \in DOMAIN v.mem
      BY <1>3 DEF At
    <2>2. p[2] \in Survivors(v)
      BY <1>3, <2>1 DEF Lives
    <2>3. q = <<w.space, q[2]>> /\ q[2] \in DOMAIN order /\ order[q[2]] = p[2]
      BY <1>3, <2>1, <2>2, PlaceFacts DEF order
    <2>4. At(w.space, w.mem, q)
      BY <2>3, <1>2 DEF At
    <2> DEFINE t == MoveAll(v, order, o.ptr)
    <2>5. w.mem[q[2]] = Thing(o.kind, o.code, t)
      BY <2>3, <1>1, <1>3
    <2>6. IsList(o.ptr) /\ Len(o.ptr) \in Nat /\ DOMAIN o.ptr = 1 .. Len(o.ptr)
      BY <2>1, <1>3, ListFacts
    <2>7. t = [i \in 1 .. Len(o.ptr) |-> NewPlace(v, o.ptr[i])]
      BY <2>6 DEF MoveAll, NewPlace, order
    <2> HIDE DEF t
    <2>8. IsList(t) /\ Len(t) = Len(o.ptr)
      <3>1. t = [i \in 1 .. Len(o.ptr) |-> t[i]]
        BY <2>7
      <3> QED BY <3>1, <2>6, ListOf
    <2>9. w.mem[q[2]].ptr = t
      BY <2>5 DEF Thing
    <2>10. ASSUME NEW i \in 1 .. Len(o.ptr) PROVE Lives(v, o.ptr[i])
      <3>1. o.ptr[i] \in ToSet(o.ptr)
        BY <2>6 DEF ToSet
      <3>2. o.ptr[i][1] = v.space => o.ptr[i][2] \in Targets(v, ToSet(v.mem[p[2]].ptr))
        BY <3>1, <1>3 DEF Targets
      <3> QED BY <3>2, <2>2, SurvivorsClosed DEF Lives
    <2>11. ASSUME NEW i \in 1 .. Len(o.ptr) PROVE w.mem[q[2]].ptr[i] = NewPlace(v, o.ptr[i])
      BY <2>7, <2>9
    <2> HIDE DEF w
    <2> QED BY <2>4, <2>5, <2>8, <2>9, <2>10, <2>11
  <1>4. ASSUME NEW k \in DOMAIN w.mem
        PROVE  \E p : At(v.space, v.mem, p) /\ Lives(v, p) /\ NewPlace(v, p) = <<w.space, k>>
    <2> DEFINE p == <<v.space, order[k]>>
    <2>1. k \in DOMAIN order /\ order[k] \in Survivors(v) /\ order[k] \in DOMAIN v.mem
      BY <1>2, OrderFacts DEF order
    <2>2. At(v.space, v.mem, p) /\ Lives(v, p) /\ p[1] = v.space /\ p[2] = order[k]
      BY <2>1 DEF At, Lives
    <2> HIDE DEF p
    <2>3. /\ NewPlace(v, p) = <<w.space, NewPlace(v, p)[2]>>
          /\ NewPlace(v, p)[2] \in DOMAIN order /\ order[NewPlace(v, p)[2]] = p[2]
      BY <2>1, <2>2, PlaceFacts DEF order
    <2>4. NewPlace(v, p)[2] = k
      BY <2>1, <2>2, <2>3, OrderFacts DEF order
    <2> QED BY <2>2, <2>3, <2>4
  <1> HIDE DEF w
  <1> QED BY <1>2, <1>3, <1>4 DEF w

\* Different objects stay different.
LEMMA PlacesDiffer ==
  ASSUME NEW v, Closed(v), v.space \in Spaces, NEW p, NEW q,
         At(v.space, v.mem, p), Lives(v, p), At(v.space, v.mem, q), Lives(v, q),
         NewPlace(v, p) = NewPlace(v, q)
  PROVE  p = q
  <1>1. p = <<v.space, p[2]>> /\ q = <<v.space, q[2]>>
    BY DEF At
  <1>2. p[2] \in Survivors(v) /\ q[2] \in Survivors(v)
    BY <1>1 DEF Lives
  <1>3. p[2] = q[2]
    BY <1>1, <1>2, PlaceFacts
  <1> QED BY <1>1, <1>3

\* What a collection can be about.
Collectable(v) == Closed(v) /\ v.space \in Spaces /\ \A i \in DOMAIN v.mem : IsList(v.mem[i].ptr)

\* A pointer that is moved leads to the same as before.
LEMMA MovedPointer ==
  ASSUME NEW v, Collectable(v), NEW p, Lives(v, p)
  PROVE  LET w == Collected(v)
             q == NewPlace(v, p)
         IN  /\ q = Null <=> p = Null
             /\ StaticValue(p) => q = p
             /\ At(v.space, v.mem, p) =>
                   /\ At(w.space, w.mem, q)
                   /\ w.mem[q[2]].kind = v.mem[p[2]].kind /\ w.mem[q[2]].code = v.mem[p[2]].code
                   /\ Len(w.mem[q[2]].ptr) = Len(v.mem[p[2]].ptr)
             /\ Value(v.space, v.mem, p) => Value(w.space, w.mem, q)
             /\ Maybe(v.space, v.mem, p) => Maybe(w.space, w.mem, q)
             /\ IsEnv(v.space, v.mem, p) => IsEnv(w.space, w.mem, q)
  <1> DEFINE w == Collected(v)
             q == NewPlace(v, p)
  <1>1. v.space \in Spaces /\ Closed(v) /\ \A i \in DOMAIN v.mem : IsList(v.mem[i].ptr)
    BY DEF Collectable
  <1>2. p[1] # v.space => q = p
    BY <1>1, PlaceFacts
  <1>3. p[1] = v.space => q = <<w.space, q[2]>>
    BY <1>1, PlaceFacts DEF Lives
  <1>4. w.space \in Spaces
    BY <1>1, PlaceFacts
  <1>5. At(v.space, v.mem, p) =>
           /\ At(w.space, w.mem, q)
           /\ w.mem[q[2]].kind = v.mem[p[2]].kind /\ w.mem[q[2]].code = v.mem[p[2]].code
           /\ Len(w.mem[q[2]].ptr) = Len(v.mem[p[2]].ptr)
    <2>1. SUFFICES ASSUME At(v.space, v.mem, p)
                   PROVE  /\ At(w.space, w.mem, q)
                          /\ w.mem[q[2]].kind = v.mem[p[2]].kind /\ w.mem[q[2]].code = v.mem[p[2]].code
                          /\ Len(w.mem[q[2]].ptr) = Len(v.mem[p[2]].ptr)
      OBVIOUS
    <2>2. /\ At(w.space, w.mem, q)
          /\ w.mem[q[2]] = Thing(v.mem[p[2]].kind, v.mem[p[2]].code, w.mem[q[2]].ptr)
          /\ Len(w.mem[q[2]].ptr) = Len(v.mem[p[2]].ptr)
      BY <1>1, <2>1, CollectedObjects
    <2> HIDE DEF w, q
    <2> QED BY <2>2 DEF Thing
  <1> HIDE DEF w, q
  <1>6. StaticValue(p) => p[1] # v.space
    BY <1>1 DEF StaticValue, Spaces
  <1>7. Null[1] # v.space /\ Null[1] # w.space
    BY <1>1, <1>4 DEF Null, Spaces
  <1>8. q = Null <=> p = Null
    BY <1>2, <1>3, <1>7
  <1>9. StaticValue(p) => q = p
    BY <1>2, <1>6
  <1>10. Value(v.space, v.mem, p) => Value(w.space, w.mem, q)
    BY <1>5, <1>9 DEF Value
  <1>11. Maybe(v.space, v.mem, p) => Maybe(w.space, w.mem, q)
    BY <1>8, <1>10 DEF Maybe
  <1>12. IsEnv(v.space, v.mem, p) => IsEnv(w.space, w.mem, q)
    BY <1>5 DEF IsEnv
  <1> QED BY <1>5, <1>8, <1>9, <1>10, <1>11, <1>12 DEF w, q

\* So an expression that fits an environment fits the moved one,
LEMMA MovedEnvFits ==
  ASSUME NEW v, Collectable(v), NEW p, Lives(v, p), NEW s, Len(s) \in Nat,
         \A i \in 1 .. Len(s) : s[i] \in Nat,
         EnvFits(v.space, v.mem, p, s)
  PROVE  EnvFits(Collected(v).space, Collected(v).mem, NewPlace(v, p), s)
  <1> DEFINE w == Collected(v)
             before(i) == FrameOut(v.mem, p, i)
             after(i) == FrameOut(w.mem, NewPlace(v, p), i)
             T == {i \in Nat : i <= Len(s) => after(i) = NewPlace(v, before(i)) /\ Lives(v, before(i))}
  <1>1. v.space \in Spaces /\ Closed(v) /\ \A i \in DOMAIN v.mem : IsList(v.mem[i].ptr)
    BY DEF Collectable
  <1>2. 0 \in T
    BY FrameOutBase
  <1>3. ASSUME NEW i \in Nat, i + 1 <= Len(s)
        PROVE  /\ IsEnv(v.space, v.mem, before(i))
               /\ Len(v.mem[before(i)[2]].ptr) >= 1 + s[i + 1] /\ s[i + 1] \in Nat
    <2>1. i + 1 \in 1 .. Len(s) /\ (i + 1) - 1 = i
      BY <1>3
    <2> QED BY <2>1 DEF EnvFits
  <1>4. ASSUME NEW i \in Nat, i \in T PROVE i + 1 \in T
    <2>1. CASE i + 1 <= Len(s)
      <3> DEFINE q == before(i)
      <3>1. IsEnv(v.space, v.mem, q) /\ Len(v.mem[q[2]].ptr) >= 1
        BY <1>3, <2>1
      <3>2. after(i) = NewPlace(v, q) /\ Lives(v, q)
        BY <1>4, <2>1
      <3>3. At(v.space, v.mem, q)
        BY <3>1 DEF IsEnv
      <3>4. before(i + 1) = v.mem[q[2]].ptr[1] /\ after(i + 1) = w.mem[after(i)[2]].ptr[1]
        <4>1. before(i + 1) = v.mem[q[2]].ptr[1]
          BY FrameOutNext
        <4>2. after(i + 1) = w.mem[after(i)[2]].ptr[1]
          BY FrameOutNext
        <4> QED BY <4>1, <4>2
      <3> HIDE DEF q, before, after
      <3>5. Len(v.mem[q[2]].ptr) \in Nat
        BY <3>3, <1>1, ListFacts DEF At
      <3>6. \A j \in 1 .. Len(v.mem[q[2]].ptr) :
               /\ w.mem[NewPlace(v, q)[2]].ptr[j] = NewPlace(v, v.mem[q[2]].ptr[j])
               /\ Lives(v, v.mem[q[2]].ptr[j])
        BY <1>1, <3>2, <3>3, CollectedObjects
      <3>7. 1 \in 1 .. Len(v.mem[q[2]].ptr)
        BY <3>1, <3>5
      <3>8. after(i + 1) = NewPlace(v, before(i + 1)) /\ Lives(v, before(i + 1))
        <4> HIDE DEF w
        <4> QED BY <3>2, <3>4, <3>6, <3>7
      <3> QED BY <3>8
    <2> QED BY <2>1
  <1>5. \A i \in Nat : i \in T
    <2> HIDE DEF T
    <2> QED BY <1>2, <1>4, SetInduction
  <1>6. ASSUME NEW i \in 1 .. Len(s)
        PROVE  LET q == after(i - 1) IN IsEnv(w.space, w.mem, q) /\ Len(w.mem[q[2]].ptr) >= 1 + s[i]
    <2> DEFINE p0 == before(i - 1)
               q == after(i - 1)
    <2>1. i - 1 \in Nat /\ (i - 1) + 1 = i /\ i - 1 <= Len(s) /\ i <= Len(s)
      OBVIOUS
    <2>2. q = NewPlace(v, p0) /\ Lives(v, p0)
      BY <1>5, <2>1
    <2>3. IsEnv(v.space, v.mem, p0) /\ Len(v.mem[p0[2]].ptr) >= 1 + s[i]
      BY <1>3, <2>1
    <2> HIDE DEF p0, q
    <2>4. At(v.space, v.mem, p0)
      BY <2>3 DEF IsEnv
    <2>5. IsEnv(w.space, w.mem, q) /\ Len(w.mem[q[2]].ptr) = Len(v.mem[p0[2]].ptr)
      BY <2>2, <2>3, <2>4, MovedPointer
    <2> HIDE DEF w
    <2>6. IsEnv(w.space, w.mem, q) /\ Len(w.mem[q[2]].ptr) >= 1 + s[i]
      BY <2>3, <2>5
    <2> QED BY <2>6 DEF q
  <1> HIDE DEF w
  <1>7. EnvFits(w.space, w.mem, NewPlace(v, p), s)
    BY <1>6 DEF EnvFits
  <1> QED BY <1>7 DEF w

\* ... as the program has it,
LEMMA MovedFits ==
  ASSUME NEW pg \in Program, NEW v, Collectable(v), NEW p, Lives(v, p), NEW e,
         Fits(pg, v.space, v.mem, e, p)
  PROVE  Fits(pg, Collected(v).space, Collected(v).mem, e, NewPlace(v, p))
  <1>1. PICK c \in Code[pg] : c[1] = e /\ EnvFits(v.space, v.mem, p, c[2])
    BY DEF Fits
  <1>2. EnvFits(Collected(v).space, Collected(v).mem, NewPlace(v, p), c[2])
    BY <1>1, CodeFacts, MovedEnvFits
  <1>3. NewPlace(v, p) = Null \/ IsEnv(Collected(v).space, Collected(v).mem, NewPlace(v, p))
    BY MovedPointer DEF Fits
  <1> QED BY <1>1, <1>2, <1>3 DEF Fits

\* a callee takes as many arguments as before,
LEMMA MovedCallee ==
  ASSUME NEW v, Collectable(v), NEW p, Lives(v, p), NEW n, Callee(v.space, v.mem, p, n)
  PROVE  Callee(Collected(v).space, Collected(v).mem, NewPlace(v, p), n)
  <1> DEFINE w == Collected(v)
             q == NewPlace(v, p)
  <1>1. CASE At(v.space, v.mem, p) /\ v.mem[p[2]].kind = "FUN" /\ n <= v.mem[p[2]].code.arity
    <2>1. At(w.space, w.mem, q) /\ w.mem[q[2]].kind = "FUN" /\ w.mem[q[2]].code = v.mem[p[2]].code
      BY <1>1, MovedPointer
    <2> QED BY <1>1, <2>1 DEF Callee
  <1>2. CASE p[1] = "PRIM" /\ p[2] \in DOMAIN Arity /\ n <= Arity[p[2]]
    <2>1. StaticValue(p)
      BY <1>2 DEF StaticValue
    <2>2. q = p
      BY <2>1, MovedPointer
    <2> QED BY <1>2, <2>2 DEF Callee
  <1> QED BY <1>1, <1>2 DEF Callee

\* and an object and a frame whose pointers are moved are what they were.
LEMMA MovedGood ==
  ASSUME NEW pg \in Program, NEW v, Collectable(v), NEW o, Good(pg, v.space, v.mem, o),
         NEW s, IsList(s), Len(s) = Len(o.ptr),
         \A i \in 1 .. Len(o.ptr) : s[i] = NewPlace(v, o.ptr[i]) /\ Lives(v, o.ptr[i])
  PROVE  Good(pg, Collected(v).space, Collected(v).mem, Thing(o.kind, o.code, s))
  <1> DEFINE w == Collected(v)
             q == Thing(o.kind, o.code, s)
  <1>0. Len(o.ptr) \in Nat
    BY ListFacts DEF Good
  <1>1. q = Thing(q.kind, q.code, q.ptr) /\ q.kind = o.kind /\ q.code = o.code /\ q.ptr = s
    BY DEF Thing
  <1>2. \A k \in 1 .. 2 : Values(v.space, v.mem, o.ptr, k) => Values(w.space, w.mem, s, k)
    <2>1. SUFFICES ASSUME NEW k \in 1 .. 2, Values(v.space, v.mem, o.ptr, k), NEW i \in k .. Len(s)
                   PROVE  Value(w.space, w.mem, s[i])
      BY DEF Values
    <2>2. i \in 1 .. Len(o.ptr) /\ i \in k .. Len(o.ptr)
      BY <1>0
    <2>3. Value(v.space, v.mem, o.ptr[i]) /\ s[i] = NewPlace(v, o.ptr[i]) /\ Lives(v, o.ptr[i])
      BY <2>1, <2>2 DEF Values
    <2> HIDE DEF w
    <2> QED BY <2>3, MovedPointer DEF w
  <1>3. Len(o.ptr) >= 1 => s[1] = NewPlace(v, o.ptr[1]) /\ Lives(v, o.ptr[1])
    BY <1>0
  <1>4. Len(o.ptr) >= 1 =>
          /\ Fits(pg, v.space, v.mem, o.code, o.ptr[1]) => Fits(pg, w.space, w.mem, o.code, s[1])
          /\ Maybe(v.space, v.mem, o.ptr[1]) => Maybe(w.space, w.mem, s[1])
          /\ o.ptr[1] = Null => s[1] = Null
          /\ IsEnv(v.space, v.mem, o.ptr[1]) => IsEnv(w.space, w.mem, s[1])
          /\ Callee(v.space, v.mem, o.ptr[1], Len(o.ptr) - 1) => Callee(w.space, w.mem, s[1], Len(s) - 1)
    <2> SUFFICES ASSUME Len(o.ptr) >= 1
                 PROVE  /\ Fits(pg, v.space, v.mem, o.code, o.ptr[1]) => Fits(pg, w.space, w.mem, o.code, s[1])
                        /\ Maybe(v.space, v.mem, o.ptr[1]) => Maybe(w.space, w.mem, s[1])
                        /\ o.ptr[1] = Null => s[1] = Null
                        /\ IsEnv(v.space, v.mem, o.ptr[1]) => IsEnv(w.space, w.mem, s[1])
                        /\ Callee(v.space, v.mem, o.ptr[1], Len(o.ptr) - 1)
                              => Callee(w.space, w.mem, s[1], Len(s) - 1)
      OBVIOUS
    <2>1. s[1] = NewPlace(v, o.ptr[1]) /\ Lives(v, o.ptr[1])
      BY <1>3
    <2>2. Fits(pg, v.space, v.mem, o.code, o.ptr[1]) => Fits(pg, w.space, w.mem, o.code, s[1])
      BY <2>1, MovedFits
    <2>3. /\ Maybe(v.space, v.mem, o.ptr[1]) => Maybe(w.space, w.mem, s[1])
          /\ o.ptr[1] = Null => s[1] = Null
          /\ IsEnv(v.space, v.mem, o.ptr[1]) => IsEnv(w.space, w.mem, s[1])
      BY <2>1, MovedPointer
    <2>4. Callee(v.space, v.mem, o.ptr[1], Len(o.ptr) - 1) => Callee(w.space, w.mem, s[1], Len(s) - 1)
      BY <2>1, MovedCallee
    <2> QED BY <2>2, <2>3, <2>4
  <1> HIDE DEF w, q
  <1>5. Good(pg, w.space, w.mem, q)
    BY <1>0, <1>1, <1>2, <1>4 DEF Good
  <1> QED BY <1>5 DEF w, q

LEMMA MovedFrame ==
  ASSUME NEW pg \in Program, NEW v, Collectable(v), NEW f, FrameOK(pg, v.space, v.mem, f),
         Lives(v, f.a), Lives(v, f.b),
         NEW g, g = Frame(f.kind, NewPlace(v, f.a), NewPlace(v, f.b), f.code, f.n)
  PROVE  /\ FrameOK(pg, Collected(v).space, Collected(v).mem, g)
         /\ g.kind = f.kind /\ g.code = f.code /\ g.n = f.n
         /\ g.a = NewPlace(v, f.a) /\ g.b = NewPlace(v, f.b)
  <1> DEFINE w == Collected(v)
  <1>1. /\ g = Frame(g.kind, g.a, g.b, g.code, g.n)
        /\ g.kind = f.kind /\ g.code = f.code /\ g.n = f.n
        /\ g.a = NewPlace(v, f.a) /\ g.b = NewPlace(v, f.b)
    BY DEF Frame
  <1>2. /\ f.a = Null => g.a = Null
        /\ f.b = Null => g.b = Null
        /\ Value(v.space, v.mem, f.a) => Value(w.space, w.mem, g.a)
        /\ Value(v.space, v.mem, f.b) => Value(w.space, w.mem, g.b)
        /\ At(v.space, v.mem, f.a) => /\ At(w.space, w.mem, g.a)
                                      /\ w.mem[g.a[2]].kind = v.mem[f.a[2]].kind
                                      /\ Len(w.mem[g.a[2]].ptr) = Len(v.mem[f.a[2]].ptr)
    BY <1>1, MovedPointer
  <1>3. Fits(pg, v.space, v.mem, f.code, f.b) => Fits(pg, w.space, w.mem, g.code, g.b)
    BY <1>1, MovedFits
  <1> HIDE DEF w
  <1>4. FrameOK(pg, w.space, w.mem, g)
    BY <1>1, <1>2, <1>3 DEF FrameOK
  <1> QED BY <1>1, <1>4 DEF w

\* The pointers of a machine lead to objects of its space.
LEMMA PointersHere ==
  ASSUME NEW sp \in Spaces, NEW m, NEW p, p = Null \/ At(sp, m, p) \/ Value(sp, m, p) \/ IsEnv(sp, m, p)
  PROVE  /\ p[1] = sp => p[2] \in DOMAIN m
         /\ p[1] \in Spaces => p[1] = sp
  BY DEF At, Value, IsEnv, StaticValue, Null, Spaces

\* The pointers of an object lead to objects.
LEMMA ObjectPointers ==
  ASSUME NEW pg, NEW sp \in Spaces, NEW m, NEW o, Good(pg, sp, m, o)
  PROVE  /\ IsList(o.ptr) /\ DOMAIN o.ptr = 1 .. Len(o.ptr)
         /\ \A i \in DOMAIN o.ptr : LET p == o.ptr[i] IN p[1] \in Spaces => p[1] = sp /\ p[2] \in DOMAIN m
  <1>1. IsList(o.ptr) /\ Len(o.ptr) \in Nat /\ DOMAIN o.ptr = 1 .. Len(o.ptr)
    BY ListFacts DEF Good
  <1>2. ASSUME NEW i \in 1 .. Len(o.ptr)
        PROVE  LET p == o.ptr[i] IN p = Null \/ At(sp, m, p) \/ Value(sp, m, p) \/ IsEnv(sp, m, p)
    <2>1. /\ Values(sp, m, o.ptr, 1) => Value(sp, m, o.ptr[i])
          /\ Values(sp, m, o.ptr, 2) => i = 1 \/ Value(sp, m, o.ptr[i])
      BY <1>1 DEF Values
    <2>2. Len(o.ptr) = 1 => i = 1
      OBVIOUS
    <2>3. Callee(sp, m, o.ptr[1], Len(o.ptr) - 1) => Value(sp, m, o.ptr[1])
      BY DEF Callee, Value, StaticValue
    <2>4. Len(o.ptr) # 0
      BY <1>1
    <2> QED BY <2>1, <2>2, <2>3, <2>4 DEF Good, Fits, Maybe
  <1> QED BY <1>1, <1>2, PointersHere

\* All that the machine holds is a root or reached from one.
LEMMA MachineCollectable ==
  ASSUME NEW pg, NEW v, MachineOK(pg, v)
  PROVE  /\ Collectable(v)
         /\ Lives(v, v.env) /\ Lives(v, v.val) /\ Lives(v, v.exc)
         /\ \A i \in DOMAIN v.roots : Lives(v, v.roots[i])
         /\ \A i \in DOMAIN v.globals : Lives(v, v.globals[i])
         /\ \A i \in DOMAIN v.stack : Lives(v, v.stack[i].a) /\ Lives(v, v.stack[i].b)
         /\ \A p \in RootSet(v) : OnHeap(p) => p[1] = v.space /\ p[2] \in DOMAIN v.mem
  <1> DEFINE sp == v.space
             m == v.mem
  <1>1. sp \in Spaces /\ IsList(m)
    BY DEF MachineOK, Shape
  <1>2. /\ \A i \in DOMAIN m : Good(pg, sp, m, m[i])
        /\ \A i \in DOMAIN v.stack : FrameOK(pg, sp, m, v.stack[i])
        /\ \A i \in DOMAIN v.globals : Value(sp, m, v.globals[i])
        /\ \A i \in DOMAIN v.roots : Maybe(sp, m, v.roots[i])
        /\ Maybe(sp, m, v.val) /\ Maybe(sp, m, v.exc)
        /\ v.env = Null \/ IsEnv(sp, m, v.env)
    BY DEF MachineOK
  <1> HIDE DEF sp, m
  <1>3. ASSUME NEW p \in RootSet(v)
        PROVE  p = Null \/ At(sp, m, p) \/ Value(sp, m, p) \/ IsEnv(sp, m, p)
    <2>1. CASE p \in {v.env, v.val, v.exc}
      BY <1>2, <2>1 DEF Maybe
    <2>2. CASE p \in ToSet(v.globals) \cup ToSet(v.roots)
      BY <1>2, <2>2 DEF Maybe, ToSet
    <2>3. CASE \E i \in DOMAIN v.stack : p \in FramePtrs(v.stack[i])
      <3>1. PICK i \in DOMAIN v.stack : p \in {v.stack[i].a, v.stack[i].b}
        BY <2>3 DEF FramePtrs
      <3>2. FrameOK(pg, sp, m, v.stack[i])
        BY <1>2
      <3> QED BY <3>1, <3>2 DEF FrameOK, Fits
    <2> QED BY <2>1, <2>2, <2>3 DEF RootSet
  <1>4. \A p \in RootSet(v) : OnHeap(p) => p[1] = sp /\ p[2] \in DOMAIN m
    BY <1>1, <1>3, PointersHere DEF OnHeap
  <1>5. \A i \in DOMAIN m : \A p \in ToSet(m[i].ptr) : p[1] = sp => p[2] \in DOMAIN m
    <2> SUFFICES ASSUME NEW i \in DOMAIN m, NEW p \in ToSet(m[i].ptr), p[1] = sp
                 PROVE  p[2] \in DOMAIN m
      OBVIOUS
    <2>1. PICK k \in DOMAIN m[i].ptr : p = m[i].ptr[k]
      BY DEF ToSet
    <2>2. Good(pg, sp, m, m[i])
      BY <1>2
    <2> QED BY <1>1, <2>1, <2>2, ObjectPointers
  <1>6. Closed(v)
    BY <1>1, <1>4, <1>5 DEF Closed, OnHeap, sp, m
  <1>7. Collectable(v)
    <2>1. \A i \in DOMAIN m : IsList(m[i].ptr)
      BY <1>2 DEF Good
    <2> QED BY <1>1, <1>6, <2>1 DEF Collectable, sp, m
  <1>8. \A p \in RootSet(v) : Lives(v, p)
    BY <1>6, SurvivorsClosed DEF Lives, Targets
  <1>9. /\ {v.env, v.val, v.exc} \subseteq RootSet(v)
        /\ \A i \in DOMAIN v.roots : v.roots[i] \in RootSet(v)
        /\ \A i \in DOMAIN v.globals : v.globals[i] \in RootSet(v)
    BY DEF RootSet, ToSet
  <1>10. \A i \in DOMAIN v.stack : v.stack[i].a \in RootSet(v) /\ v.stack[i].b \in RootSet(v)
    BY DEF RootSet, FramePtrs
  <1> QED BY <1>4, <1>7, <1>8, <1>9, <1>10 DEF sp, m

-----------------------------------------------------------------------------
(* What a reservation keeps: all that the machine knows about its state    *)
(* before it.                                                              *)

SameObject(o, q) == q.kind = o.kind /\ q.code = o.code /\ Len(q.ptr) = Len(o.ptr)

Alike(v, p, w, q) ==
    /\ q = Null <=> p = Null
    /\ SameObject(Obj(v, p), Obj(w, q))
    /\ Obj(v, p).kind = "PAP" => SameObject(Obj(v, Obj(v, p).ptr[1]), Obj(w, Obj(w, q).ptr[1]))

Kept(pg, v, w) ==
    /\ DOMAIN w.stack = DOMAIN v.stack /\ Len(w.stack) = Len(v.stack)
    /\ \A i \in DOMAIN v.stack : /\ w.stack[i].kind = v.stack[i].kind
                                 /\ w.stack[i].code = v.stack[i].code
    /\ DOMAIN w.roots = DOMAIN v.roots /\ Len(w.roots) = Len(v.roots)
    /\ \A i \in DOMAIN v.roots : Alike(v, v.roots[i], w, w.roots[i])
    /\ Alike(v, v.val, w, w.val)
    /\ w.exc = Null <=> v.exc = Null
    /\ \A e : Fits(pg, v.space, v.mem, e, v.env) => Fits(pg, w.space, w.mem, e, w.env)

\* An object looks the same from outside.
LEMMA MovedObject ==
  ASSUME NEW pg, NEW v, Collectable(v), NEW p, Lives(v, p), Maybe(v.space, v.mem, p)
  PROVE  LET w == Collected(v)
             q == NewPlace(v, p)
         IN  /\ SameObject(Obj(v, p), Obj(w, q))
             /\ \A i \in 1 .. Len(Obj(v, p).ptr) : /\ Obj(w, q).ptr[i] = NewPlace(v, Obj(v, p).ptr[i])
                                                   /\ Lives(v, Obj(v, p).ptr[i])
  <1> DEFINE w == Collected(v)
             q == NewPlace(v, p)
  <1>1. v.space \in Spaces /\ w.space \in Spaces /\ Closed(v) /\ \A i \in DOMAIN v.mem : IsList(v.mem[i].ptr)
    BY PlaceFacts DEF Collectable
  <1>2. CASE At(v.space, v.mem, p)
    <2>1. p[1] = v.space /\ OnHeap(p)
      BY <1>1, <1>2 DEF At, OnHeap
    <2>2. /\ At(w.space, w.mem, q)
          /\ w.mem[q[2]].kind = v.mem[p[2]].kind /\ w.mem[q[2]].code = v.mem[p[2]].code
          /\ Len(w.mem[q[2]].ptr) = Len(v.mem[p[2]].ptr)
      BY <1>2, MovedPointer
    <2>3. \A i \in 1 .. Len(v.mem[p[2]].ptr) : /\ w.mem[q[2]].ptr[i] = NewPlace(v, v.mem[p[2]].ptr[i])
                                               /\ Lives(v, v.mem[p[2]].ptr[i])
      BY <1>1, <1>2, CollectedObjects
    <2> HIDE DEF w, q
    <2>4. OnHeap(q)
      BY <1>1, <2>2 DEF At, OnHeap
    <2>5. Obj(v, p) = v.mem[p[2]] /\ Obj(w, q) = w.mem[q[2]]
      BY <2>1, <2>4 DEF Obj
    <2> QED BY <2>2, <2>3, <2>5 DEF SameObject, w, q
  <1>3. CASE ~ At(v.space, v.mem, p)
    <2>1. ~ OnHeap(p) /\ p[1] # v.space
      BY <1>1, <1>3 DEF Maybe, Value, StaticValue, OnHeap, Spaces, Null
    <2>2. q = p
      BY <2>1, <1>1, PlaceFacts
    <2> HIDE DEF w, q
    <2>3. Obj(v, p) = Thing(p[1], p[2], <<>>) /\ Obj(w, q) = Thing(p[1], p[2], <<>>)
      BY <2>1, <2>2 DEF Obj
    <2>4. Len(Obj(v, p).ptr) = 0
      BY <2>3 DEF Thing
    <2> QED BY <2>3, <2>4 DEF SameObject, w, q
  <1> QED BY <1>2, <1>3

\* A value is an object with pointers to values.
LEMMA ValueObject ==
  ASSUME NEW pg \in Program, NEW v, MachineOK(pg, v), NEW p, Value(v.space, v.mem, p)
  PROVE  \/ /\ OnHeap(p) /\ At(v.space, v.mem, p) /\ Obj(v, p) = v.mem[p[2]]
            /\ Good(pg, v.space, v.mem, Obj(v, p)) /\ Obj(v, p).kind # "ENV"
         \/ /\ ~ OnHeap(p) /\ StaticValue(p) /\ Obj(v, p) = Thing(p[1], p[2], <<>>)
  <1>1. v.space \in Spaces
    BY DEF MachineOK, Shape
  <1>2. StaticValue(p) => ~ OnHeap(p)
    BY DEF StaticValue, OnHeap, Spaces
  <1>3. At(v.space, v.mem, p) => OnHeap(p) /\ Good(pg, v.space, v.mem, v.mem[p[2]])
    BY <1>1 DEF At, OnHeap, MachineOK
  <1>4. StaticValue(p) \/ (At(v.space, v.mem, p) /\ v.mem[p[2]].kind # "ENV")
    BY DEF Value
  <1> QED BY <1>2, <1>3, <1>4 DEF Obj

\* The machine after a collection is one.
LEMMA CollectionKeeps ==
  ASSUME NEW pg \in Program, NEW v, MachineOK(pg, v)
  PROVE  MachineOK(pg, Collected(v)) /\ Kept(pg, v, Collected(v)) /\ Collected(v).space # v.space
  <1> DEFINE w == Collected(v)
             mv(p) == NewPlace(v, p)
  <1>1. /\ Collectable(v)
        /\ Lives(v, v.env) /\ Lives(v, v.val) /\ Lives(v, v.exc)
        /\ \A i \in DOMAIN v.roots : Lives(v, v.roots[i])
        /\ \A i \in DOMAIN v.globals : Lives(v, v.globals[i])
        /\ \A i \in DOMAIN v.stack : Lives(v, v.stack[i].a) /\ Lives(v, v.stack[i].b)
    BY MachineCollectable
  <1>2. /\ Shape(v)
        /\ \A i \in DOMAIN v.mem : Good(pg, v.space, v.mem, v.mem[i])
        /\ \A i \in DOMAIN v.stack : FrameOK(pg, v.space, v.mem, v.stack[i])
        /\ DOMAIN v.globals = DOMAIN pg.globals
        /\ \A i \in DOMAIN v.globals : Value(v.space, v.mem, v.globals[i])
        /\ \A i \in DOMAIN v.roots : Maybe(v.space, v.mem, v.roots[i])
        /\ Maybe(v.space, v.mem, v.val) /\ Maybe(v.space, v.mem, v.exc)
        /\ v.env = Null \/ IsEnv(v.space, v.mem, v.env)
        /\ HolesMatch(v.space, v.mem, v.stack)
    BY DEF MachineOK
  <1>3. Closed(v) /\ v.space \in Spaces /\ w.space \in Spaces /\ w.space # v.space
    BY <1>1, PlaceFacts DEF Collectable
  <1>4. \A i \in DOMAIN v.mem : IsList(v.mem[i].ptr)
    BY <1>1 DEF Collectable
  <1>5. /\ w.globals = [i \in DOMAIN v.globals |-> mv(v.globals[i])]
        /\ w.roots = [i \in DOMAIN v.roots |-> mv(v.roots[i])]
        /\ w.stack = [i \in DOMAIN v.stack |->
                        Frame(v.stack[i].kind, mv(v.stack[i].a), mv(v.stack[i].b),
                              v.stack[i].code, v.stack[i].n)]
        /\ w.env = mv(v.env) /\ w.val = mv(v.val) /\ w.exc = mv(v.exc)
        /\ w = [space |-> w.space, mem |-> w.mem, globals |-> w.globals, stack |-> w.stack,
                env |-> w.env, val |-> w.val, exc |-> w.exc, roots |-> w.roots]
    BY DEF Collected, Moved, NewPlace, MoveAll
  <1>6. /\ IsList(w.mem)
        /\ \A k \in DOMAIN w.mem : \E p : /\ At(v.space, v.mem, p) /\ Lives(v, p)
                                          /\ mv(p) = <<w.space, k>>
    BY <1>3, <1>4, CollectedObjects
  <1>7. IsList(v.globals) /\ IsList(v.roots) /\ IsList(v.stack)
    BY <1>2 DEF Shape
  <1>8. \A k \in DOMAIN w.mem : Good(pg, w.space, w.mem, w.mem[k])
    <2> SUFFICES ASSUME NEW k \in DOMAIN w.mem PROVE Good(pg, w.space, w.mem, w.mem[k])
      OBVIOUS
    <2>1. PICK p : At(v.space, v.mem, p) /\ Lives(v, p) /\ mv(p) = <<w.space, k>>
      BY <1>6
    <2> DEFINE o == v.mem[p[2]]
               s == w.mem[mv(p)[2]].ptr
    <2>2. Good(pg, v.space, v.mem, o)
      BY <1>2, <2>1 DEF At
    <2>3. /\ w.mem[mv(p)[2]] = Thing(o.kind, o.code, s)
          /\ IsList(s) /\ Len(s) = Len(o.ptr)
          /\ \A i \in 1 .. Len(o.ptr) : s[i] = mv(o.ptr[i]) /\ Lives(v, o.ptr[i])
      BY <1>3, <1>4, <2>1, CollectedObjects
    <2>4. mv(p)[2] = k
      BY <2>1
    <2> HIDE DEF o, s
    <2>5. Good(pg, w.space, w.mem, Thing(o.kind, o.code, s))
      BY <1>1, <2>2, <2>3, MovedGood
    <2> HIDE DEF w, mv
    <2> QED BY <2>3, <2>4, <2>5
  <1>9. \A i \in DOMAIN v.stack : /\ FrameOK(pg, w.space, w.mem, w.stack[i])
                                  /\ w.stack[i].kind = v.stack[i].kind
                                  /\ w.stack[i].code = v.stack[i].code
                                  /\ w.stack[i].a = mv(v.stack[i].a)
    <2> SUFFICES ASSUME NEW i \in DOMAIN v.stack
                 PROVE  /\ FrameOK(pg, w.space, w.mem, w.stack[i])
                        /\ w.stack[i].kind = v.stack[i].kind
                        /\ w.stack[i].code = v.stack[i].code
                        /\ w.stack[i].a = mv(v.stack[i].a)
      OBVIOUS
    <2>1. w.stack[i] = Frame(v.stack[i].kind, mv(v.stack[i].a), mv(v.stack[i].b),
                             v.stack[i].code, v.stack[i].n)
      BY <1>5
    <2>2. FrameOK(pg, v.space, v.mem, v.stack[i]) /\ Lives(v, v.stack[i].a) /\ Lives(v, v.stack[i].b)
      BY <1>1, <1>2
    <2> QED BY <1>1, <2>1, <2>2, MovedFrame
  <1>10. /\ \A i \in DOMAIN v.globals : Value(w.space, w.mem, mv(v.globals[i]))
         /\ \A i \in DOMAIN v.roots : Maybe(w.space, w.mem, mv(v.roots[i]))
         /\ Maybe(w.space, w.mem, mv(v.val)) /\ Maybe(w.space, w.mem, mv(v.exc))
         /\ mv(v.env) = Null \/ IsEnv(w.space, w.mem, mv(v.env))
         /\ mv(v.exc) = Null <=> v.exc = Null
    BY <1>1, <1>2, MovedPointer
  <1> HIDE DEF w, mv
  <1>11. /\ DOMAIN w.stack = DOMAIN v.stack /\ Len(w.stack) = Len(v.stack) /\ IsList(w.stack)
         /\ DOMAIN w.roots = DOMAIN v.roots /\ Len(w.roots) = Len(v.roots) /\ IsList(w.roots)
         /\ DOMAIN w.globals = DOMAIN v.globals /\ IsList(w.globals)
    <2>1. ASSUME NEW s, IsList(s), NEW t, DOMAIN t = DOMAIN s, t = [i \in DOMAIN s |-> t[i]]
          PROVE  IsList(t) /\ Len(t) = Len(s)
      <3>1. Len(s) \in Nat /\ DOMAIN s = 1 .. Len(s)
        BY <2>1, ListFacts
      <3> QED BY <2>1, <3>1, ListOf
    <2>2. DOMAIN w.stack = DOMAIN v.stack /\ w.stack = [i \in DOMAIN v.stack |-> w.stack[i]]
      BY <1>5
    <2>3. DOMAIN w.roots = DOMAIN v.roots /\ w.roots = [i \in DOMAIN v.roots |-> w.roots[i]]
      BY <1>5
    <2>4. DOMAIN w.globals = DOMAIN v.globals /\ w.globals = [i \in DOMAIN v.globals |-> w.globals[i]]
      BY <1>5
    <2> QED BY <1>7, <2>1, <2>2, <2>3, <2>4
  <1>12. Shape(w)
    BY <1>3, <1>5, <1>6, <1>11 DEF Shape
  <1>13. Updates(w.stack) = Updates(v.stack)
    BY <1>9, <1>11 DEF Updates
  <1>14. \A i \in Updates(v.stack) : /\ i \in DOMAIN v.stack /\ At(v.space, v.mem, v.stack[i].a)
                                     /\ Lives(v, v.stack[i].a) /\ w.stack[i].a = mv(v.stack[i].a)
    BY <1>1, <1>2, <1>9 DEF Updates, FrameOK
  <1>15. HolesMatch(w.space, w.mem, w.stack)
    <2>1. ASSUME NEW i \in Updates(v.stack)
          PROVE  w.stack[i].a[2] \in DOMAIN w.mem /\ w.mem[w.stack[i].a[2]].kind = "BLACKHOLE"
      <3>1. /\ At(w.space, w.mem, mv(v.stack[i].a))
            /\ w.mem[mv(v.stack[i].a)[2]].kind = v.mem[v.stack[i].a[2]].kind
        BY <1>1, <1>14, MovedPointer DEF w, mv
      <3>2. v.mem[v.stack[i].a[2]].kind = "BLACKHOLE"
        BY <1>2 DEF HolesMatch
      <3> QED BY <1>14, <3>1, <3>2 DEF At
    <2>2. ASSUME NEW i \in Updates(v.stack), NEW j \in Updates(v.stack), w.stack[i].a = w.stack[j].a
          PROVE  i = j
      <3>1. v.stack[i].a = v.stack[j].a
        BY <1>3, <1>14, <2>2, PlacesDiffer DEF mv
      <3> QED BY <1>2, <3>1 DEF HolesMatch
    <2>3. ASSUME NEW k \in DOMAIN w.mem, w.mem[k].kind = "BLACKHOLE"
          PROVE  \E i \in Updates(v.stack) : w.stack[i].a = <<w.space, k>>
      <3>1. PICK p : At(v.space, v.mem, p) /\ Lives(v, p) /\ mv(p) = <<w.space, k>>
        BY <1>6
      <3>2. w.mem[mv(p)[2]].kind = v.mem[p[2]].kind
        BY <1>1, <3>1, MovedPointer DEF w, mv
      <3>3. p = <<v.space, p[2]>> /\ p[2] \in DOMAIN v.mem /\ v.mem[p[2]].kind = "BLACKHOLE"
        BY <2>3, <3>1, <3>2 DEF At
      <3>4. PICK i \in Updates(v.stack) : v.stack[i].a = p
        BY <1>2, <3>3 DEF HolesMatch
      <3> QED BY <1>14, <3>1, <3>4
    <2> QED BY <1>13, <2>1, <2>2, <2>3 DEF HolesMatch
  <1>16. MachineOK(pg, w)
    BY <1>2, <1>5, <1>8, <1>9, <1>10, <1>11, <1>12, <1>15 DEF MachineOK
  <1>17. ASSUME NEW p, Lives(v, p), Maybe(v.space, v.mem, p)
         PROVE  Alike(v, p, w, mv(p))
    <2>1. /\ SameObject(Obj(v, p), Obj(w, mv(p)))
          /\ \A i \in 1 .. Len(Obj(v, p).ptr) : /\ Obj(w, mv(p)).ptr[i] = mv(Obj(v, p).ptr[i])
                                                /\ Lives(v, Obj(v, p).ptr[i])
      BY <1>1, <1>17, MovedObject DEF w, mv
    <2>2. mv(p) = Null <=> p = Null
      BY <1>1, <1>17, MovedPointer DEF mv
    <2>3. ASSUME Obj(v, p).kind = "PAP"
          PROVE  SameObject(Obj(v, Obj(v, p).ptr[1]), Obj(w, Obj(w, mv(p)).ptr[1]))
      <3>1. p # Null
        BY <2>3 DEF Obj, Null, OnHeap, Spaces, Thing
      <3>2. Value(v.space, v.mem, p)
        BY <1>17, <3>1 DEF Maybe
      <3>3. Good(pg, v.space, v.mem, Obj(v, p))
        <4>1. StaticValue(p) => p[1] # "PAP"
          BY DEF StaticValue
        <4> QED BY <2>3, <3>2, <4>1, ValueObject DEF Thing
      <3>4. /\ Len(Obj(v, p).ptr) >= 1 /\ Len(Obj(v, p).ptr) \in Nat
            /\ Value(v.space, v.mem, Obj(v, p).ptr[1])
        BY <2>3, <3>3, ListFacts DEF Good, Callee, Value, StaticValue
      <3>5. 1 \in 1 .. Len(Obj(v, p).ptr)
        BY <3>4
      <3>6. Lives(v, Obj(v, p).ptr[1]) /\ Obj(w, mv(p)).ptr[1] = mv(Obj(v, p).ptr[1])
        BY <2>1, <3>5
      <3>7. Maybe(v.space, v.mem, Obj(v, p).ptr[1])
        BY <3>4 DEF Maybe
      <3> QED BY <1>1, <3>6, <3>7, MovedObject DEF w, mv
    <2> QED BY <2>1, <2>2, <2>3 DEF Alike
  <1>18. \A e : Fits(pg, v.space, v.mem, e, v.env) => Fits(pg, w.space, w.mem, e, w.env)
    BY <1>1, <1>5, MovedFits DEF w, mv
  <1>19. Alike(v, v.val, w, w.val)
    BY <1>1, <1>2, <1>5, <1>17
  <1>20. \A i \in DOMAIN v.roots : Alike(v, v.roots[i], w, w.roots[i])
    BY <1>1, <1>2, <1>5, <1>17
  <1>21. w.exc = Null <=> v.exc = Null
    BY <1>5, <1>10
  <1>22. Kept(pg, v, w)
    BY <1>9, <1>11, <1>18, <1>19, <1>20, <1>21 DEF Kept
  <1> QED BY <1>3, <1>16, <1>22 DEF w

\* A reservation leaves the machine, or what one collection makes of it.
LEMMA ReservationKeeps ==
  ASSUME NEW pg \in Program, NEW v, MachineOK(pg, v), NEW n, NEW w \in Reserved(n, v)
  PROVE  MachineOK(pg, w) /\ Kept(pg, v, w) /\ (w.space = v.space => w = v)
  <1>1. CASE w = v
    BY <1>1 DEF Kept, Alike, SameObject
  <1>2. CASE w \in Collections(v)
    BY <1>2, OneCollection, CollectionKeeps
  <1> QED BY <1>1, <1>2 DEF Reserved

-----------------------------------------------------------------------------
(* How the heap grows and changes.  X are the objects that are not ready:  *)
(* the frame of a let group while its binders are built.                   *)

HeapOK(pg, sp, m, X) == IsList(m) /\ \A i \in DOMAIN m \ X : Good(pg, sp, m, m[i])

BlackHoles(m) == {k \in DOMAIN m : m[k].kind = "BLACKHOLE"}

\* n is m with other objects behind.
Extends(m, n) == DOMAIN m \subseteq DOMAIN n /\ \A i \in DOMAIN m : n[i] = m[i]

\* A heap with more objects is a later one.
LEMMA ExtendsLater ==
  ASSUME NEW m, NEW n, Extends(m, n)
  PROVE  Later(m, n)
  BY DEF Extends, Later, Evolves

\* Good objects may be appended to a heap.
LEMMA HeapExtended ==
  ASSUME NEW pg \in Program, NEW sp, NEW m, NEW X, HeapOK(pg, sp, m, X), NEW objs, IsList(objs),
         \A i \in 1 .. Len(objs) : /\ Good(pg, sp, m \o objs, objs[i])
                                   /\ objs[i].kind # "BLACKHOLE"
  PROVE  /\ HeapOK(pg, sp, m \o objs, X) /\ Extends(m, m \o objs) /\ Later(m, m \o objs)
         /\ Len(m \o objs) = Len(m) + Len(objs)
         /\ BlackHoles(m \o objs) = BlackHoles(m)
  <1> DEFINE n == m \o objs
  <1>1. IsList(m) /\ Len(m) \in Nat /\ DOMAIN m = 1 .. Len(m) /\ Len(objs) \in Nat
    BY ListFacts DEF HeapOK
  <1>2. /\ IsList(n) /\ Len(n) = Len(m) + Len(objs) /\ DOMAIN n = 1 .. Len(m) + Len(objs)
        /\ \A i \in 1 .. Len(m) : n[i] = m[i]
        /\ \A i \in Len(m) + 1 .. Len(m) + Len(objs) : n[i] = objs[i - Len(m)]
    BY <1>1, ListConcat
  <1>3. \A i \in 1 .. Len(objs) : Good(pg, sp, n, objs[i]) /\ objs[i].kind # "BLACKHOLE"
    OBVIOUS
  <1> HIDE DEF n
  <1>4. Extends(m, n)
    BY <1>1, <1>2 DEF Extends
  <1>5. Later(m, n)
    BY <1>4, ExtendsLater
  <1>6. \A i \in DOMAIN n : i \notin DOMAIN m => i - Len(m) \in 1 .. Len(objs) /\ n[i] = objs[i - Len(m)]
    BY <1>1, <1>2
  <1>7. ASSUME NEW i \in DOMAIN n \ X PROVE Good(pg, sp, n, n[i])
    <2>1. CASE i \in DOMAIN m
      BY <2>1, <1>4, <1>5, <1>7, GoodLater DEF HeapOK, Extends
    <2>2. CASE i \notin DOMAIN m
      BY <2>2, <1>3, <1>6
    <2> QED BY <2>1, <2>2
  <1>8. BlackHoles(n) = BlackHoles(m)
    BY <1>3, <1>4, <1>6 DEF BlackHoles, Extends
  <1> QED BY <1>2, <1>4, <1>5, <1>7, <1>8 DEF HeapOK, n

\* One more object, about what is there already.
LEMMA HeapAppended ==
  ASSUME NEW pg \in Program, NEW sp, NEW m, NEW X, HeapOK(pg, sp, m, X), NEW o, Good(pg, sp, m, o),
         o.kind # "BLACKHOLE"
  PROVE  LET n == Append(m, o)
             p == <<sp, Len(m) + 1>>
         IN  /\ HeapOK(pg, sp, n, X) /\ Extends(m, n) /\ Later(m, n) /\ Len(n) = Len(m) + 1
             /\ BlackHoles(n) = BlackHoles(m)
             /\ At(sp, n, p) /\ n[p[2]] = o
             /\ o.kind # "ENV" => Value(sp, n, p)
             /\ o.kind = "ENV" => IsEnv(sp, n, p)
  <1> DEFINE n == Append(m, o)
             p == <<sp, Len(m) + 1>>
  <1>1. IsList(m) /\ Len(m) \in Nat /\ DOMAIN m = 1 .. Len(m)
    BY ListFacts DEF HeapOK
  <1>2. /\ IsList(n) /\ Len(n) = Len(m) + 1 /\ DOMAIN n = 1 .. Len(m) + 1
        /\ \A i \in 1 .. Len(m) : n[i] = m[i]
        /\ n[Len(m) + 1] = o
    BY <1>1, ListAppend
  <1>p. p = <<sp, p[2]>> /\ p[2] = Len(m) + 1
    OBVIOUS
  <1> HIDE DEF n, p
  <1>3. Extends(m, n)
    BY <1>1, <1>2 DEF Extends
  <1>4. Later(m, n)
    BY <1>3, ExtendsLater
  <1>5. \A i \in DOMAIN n : i \notin DOMAIN m => n[i] = o
    BY <1>1, <1>2
  <1>6. ASSUME NEW i \in DOMAIN n \ X PROVE Good(pg, sp, n, n[i])
    <2>1. CASE i \in DOMAIN m
      BY <2>1, <1>3, <1>4, <1>6, GoodLater DEF HeapOK, Extends
    <2>2. CASE i \notin DOMAIN m
      BY <2>2, <1>4, <1>5, GoodLater
    <2> QED BY <2>1, <2>2
  <1>7. BlackHoles(n) = BlackHoles(m)
    BY <1>3, <1>5 DEF BlackHoles, Extends
  <1>8. At(sp, n, p) /\ n[p[2]] = o
    BY <1>1, <1>2, <1>p DEF At
  <1>9. (o.kind # "ENV" => Value(sp, n, p)) /\ (o.kind = "ENV" => IsEnv(sp, n, p))
    BY <1>8 DEF Value, IsEnv
  <1> QED BY <1>2, <1>3, <1>4, <1>6, <1>7, <1>8, <1>9 DEF HeapOK, n, p

\* An object is overwritten.
LEMMA HeapStored ==
  ASSUME NEW pg \in Program, NEW sp, NEW m, NEW X, HeapOK(pg, sp, m, X), NEW i \in DOMAIN m, NEW o,
         Evolves(m[i], o), Good(pg, sp, m, o) \/ i \in X
  PROVE  LET n == [m EXCEPT ![i] = o]
         IN  /\ HeapOK(pg, sp, n, X) /\ Later(m, n) /\ Len(n) = Len(m) /\ DOMAIN n = DOMAIN m
             /\ n[i] = o /\ \A k \in DOMAIN m : k # i => n[k] = m[k]
  <1> DEFINE n == [m EXCEPT ![i] = o]
  <1>1. /\ IsList(n) /\ Len(n) = Len(m) /\ DOMAIN n = DOMAIN m
        /\ n[i] = o /\ \A k \in DOMAIN m : k # i => n[k] = m[k]
    BY ListExcept DEF HeapOK
  <1> HIDE DEF n
  <1>2. Later(m, n)
    BY <1>1 DEF Later, Evolves
  <1>3. \A k \in DOMAIN n \ X : Good(pg, sp, n, n[k])
    BY <1>1, <1>2, GoodLater DEF HeapOK
  <1> QED BY <1>1, <1>2, <1>3 DEF HeapOK, n

-----------------------------------------------------------------------------
(* Scopes and environments.                                                *)

\* The frames around the outer environment of a frame are the next ones out.
LEMMA FrameOutShift ==
  ASSUME NEW m, NEW p, NEW n \in Nat
  PROVE  FrameOut(m, p, n + 1) = FrameOut(m, m[p[2]].ptr[1], n)
  <1> DEFINE q == m[p[2]].ptr[1]
             T == {k \in Nat : FrameOut(m, p, k + 1) = FrameOut(m, q, k)}
  <1>1. 0 \in T
    <2>1. FrameOut(m, p, 0) = p /\ FrameOut(m, p, 0 + 1) = m[FrameOut(m, p, 0)[2]].ptr[1] /\ FrameOut(m, q, 0) = q
      BY FrameOutBase, FrameOutNext
    <2> QED BY <2>1
  <1>2. ASSUME NEW k \in Nat, k \in T PROVE k + 1 \in T
    <2>1. \A i \in Nat : FrameOut(m, p, i + 1) = m[FrameOut(m, p, i)[2]].ptr[1]
      BY FrameOutNext
    <2>2. FrameOut(m, q, k + 1) = m[FrameOut(m, q, k)[2]].ptr[1]
      BY FrameOutNext
    <2>3. k + 1 \in Nat
      OBVIOUS
    <2>4. FrameOut(m, p, (k + 1) + 1) = m[FrameOut(m, p, k + 1)[2]].ptr[1]
      BY <2>1, <2>3
    <2> QED BY <2>2, <2>4, <1>2
  <1>3. \A k \in Nat : k \in T
    <2> HIDE DEF T
    <2> QED BY <1>1, <1>2, SetInduction
  <1> QED BY <1>3

\* A frame with room for n variables on top of an environment.
LEMMA EnvFitsPush ==
  ASSUME NEW sp, NEW m, NEW p, NEW s \in Seq(Nat), EnvFits(sp, m, p, s), NEW q, IsEnv(sp, m, q),
         m[q[2]].ptr[1] = p, NEW n \in Nat, Len(m[q[2]].ptr) >= 1 + n
  PROVE  EnvFits(sp, m, q, <<n>> \o s)
  <1> DEFINE t == <<n>> \o s
  <1>1. Len(t) = Len(s) + 1 /\ t[1] = n /\ Len(s) \in Nat /\ \A i \in 2 .. Len(s) + 1 : t[i] = s[i - 1]
    BY ConcatProperties
  <1> HIDE DEF t
  <1> SUFFICES ASSUME NEW i \in 1 .. Len(t), NEW r, r = FrameOut(m, q, i - 1)
               PROVE  IsEnv(sp, m, r) /\ Len(m[r[2]].ptr) >= 1 + t[i]
    BY DEF EnvFits, t
  <1>2. CASE i = 1
    <2>1. r = q
      BY <1>2, FrameOutBase
    <2> QED BY <1>1, <1>2, <2>1
  <1>3. CASE i # 1
    <2>1. i - 1 \in 1 .. Len(s) /\ t[i] = s[i - 1] /\ i - 2 \in Nat /\ i - 1 = (i - 2) + 1
          /\ i - 2 = (i - 1) - 1
      BY <1>1, <1>3
    <2>4. FrameOut(m, q, (i - 2) + 1) = FrameOut(m, m[q[2]].ptr[1], i - 2)
      BY <2>1, FrameOutShift
    <2>2. r = FrameOut(m, p, i - 2)
      BY <2>1, <2>4
    <2>3. r = FrameOut(m, p, (i - 1) - 1)
      BY <2>1, <2>2
    <2> QED BY <2>1, <2>3 DEF EnvFits
  <1> QED BY <1>2, <1>3

InScope(e, s) == e.up \in 0 .. Len(s) - 1 /\ e.slot \in 1 .. s[e.up + 1]

\* The variable e of the scope s has a value.
LEMMA LookupValue ==
  ASSUME NEW pg \in Program, NEW sp, NEW m, HeapOK(pg, sp, m, {}), NEW p, NEW s \in Seq(Nat),
         EnvFits(sp, m, p, s), NEW e, InScope(e, s)
  PROVE  LET q == FrameOut(m, p, e.up)
         IN  /\ IsEnv(sp, m, q) /\ Len(m[q[2]].ptr) >= 1 + e.slot
             /\ Value(sp, m, Lookup(m, e, p)) /\ Lookup(m, e, p) = m[q[2]].ptr[1 + e.slot]
  <1> DEFINE q == FrameOut(m, p, e.up)
  <1>0. Len(s) \in Nat
    BY LenProperties
  <1> DEFINE u == e.up
             L == Len(s)
  <1>u. u \in 0 .. L - 1 /\ L \in Nat /\ e.slot \in 1 .. s[u + 1]
    BY <1>0 DEF InScope
  <1> HIDE DEF u, L
  <1>v. u \in Nat /\ u + 1 \in 1 .. L /\ (u + 1) - 1 = u
    BY <1>u
  <1>1. e.up \in Nat /\ e.up + 1 \in 1 .. Len(s) /\ (e.up + 1) - 1 = e.up
    BY <1>v DEF u, L
  <1>2. s[e.up + 1] \in Nat
    BY <1>1
  <1>3. IsEnv(sp, m, q) /\ Len(m[q[2]].ptr) >= 1 + s[e.up + 1]
    BY <1>1 DEF EnvFits
  <1>4. Lookup(m, e, p) = m[q[2]].ptr[1 + e.slot]
    BY DEF Lookup
  <1> HIDE DEF q
  <1>5. m[q[2]].kind = "ENV" /\ Good(pg, sp, m, m[q[2]])
    BY <1>3 DEF IsEnv, At, HeapOK
  <1>6. Values(sp, m, m[q[2]].ptr, 2) /\ Len(m[q[2]].ptr) \in Nat
    BY <1>5, ListFacts DEF Good
  <1>a. e.slot \in Nat /\ e.slot >= 1 /\ e.slot <= s[e.up + 1]
    BY <1>2, <1>u DEF u
  <1> DEFINE N == Len(m[q[2]].ptr)
             S == s[e.up + 1]
  <1>b. N \in Nat /\ N >= 1 + S /\ S \in Nat /\ e.slot <= S
    BY <1>2, <1>3, <1>6, <1>a
  <1> HIDE DEF N, S
  <1>7. e.slot \in Nat /\ e.slot >= 1 /\ N >= 1 + e.slot
    BY <1>a, <1>b
  <1>8. 1 + e.slot \in 2 .. N
    BY <1>b, <1>7
  <1>9. Value(sp, m, m[q[2]].ptr[1 + e.slot])
    BY <1>6, <1>8 DEF Values, N
  <1> QED BY <1>3, <1>4, <1>7, <1>9 DEF q, N

\* The parts of an atom that are one level deeper.
Deeper(S) == UNION {{a} \cup Arguments(a) : a \in S}

\* The nested constructors of an atom, level by level.
LEMMA PartsSteps ==
  ASSUME NEW e
  PROVE  \E f : /\ f[0] = {e}
                /\ \A i \in 1 .. MaxNest : f[i] = Deeper(f[i - 1])
                /\ Parts(e) = f[MaxNest]
  <1> DEFINE x0 == {e}
             Step(i, x) == Deeper(x)
             Is(f, n) == f = [i \in 0 .. n |-> IF i = 0 THEN x0 ELSE Step(i, f[i - 1])]
             F == CHOOSE f : Is(f, MaxNest)
             S == {k \in Nat : \E f : Is(f, k)}
  <1>0. Parts(e) = F[MaxNest]
    BY DEF Parts, Deeper
  <1>s. \A i, x : Step(i, x) = Deeper(x)
    OBVIOUS
  <1>x. x0 = {e}
    OBVIOUS
  <1> HIDE DEF Step, x0
  <1>1. 0 \in S
    <2>1. Is([i \in 0 .. 0 |-> x0], 0)
      OBVIOUS
    <2> QED BY <2>1
  <1>2. ASSUME NEW k \in Nat, k \in S PROVE k + 1 \in S
    <2>1. PICK f : Is(f, k)
      BY <1>2
    <2> DEFINE g == [i \in 0 .. k + 1 |-> IF i = k + 1 THEN Step(k + 1, f[k]) ELSE f[i]]
    <2>2. \A i \in 0 .. k : g[i] = f[i] /\ f[i] = IF i = 0 THEN x0 ELSE Step(i, f[i - 1])
      BY <2>1
    <2>3. g[k + 1] = Step(k + 1, g[k])
      BY <2>2
    <2>4. g = [i \in 0 .. k + 1 |-> g[i]]
      OBVIOUS
    <2> HIDE DEF g
    <2>5. ASSUME NEW i \in 0 .. k + 1 PROVE g[i] = IF i = 0 THEN x0 ELSE Step(i, g[i - 1])
      <3>1. CASE i = k + 1
        <4>1. i # 0 /\ i - 1 = k
          BY <3>1
        <4> QED BY <2>3, <3>1, <4>1
      <3>2. CASE i \in 0 .. k
        <4>1. i # 0 => i - 1 \in 0 .. k
          BY <3>2
        <4> QED BY <2>2, <3>2, <4>1
      <3> QED BY <3>1, <3>2
    <2>6. Is(g, k + 1)
      BY <2>4, <2>5
    <2> QED BY <2>6
  <1>3. MaxNest \in S
    <2> HIDE DEF S
    <2>1. MaxNest \in Nat
      BY MaxNestAssumption
    <2> QED BY <1>1, <1>2, <2>1, SetInduction
  <1>4. Is(F, MaxNest)
    BY <1>3
  <1> HIDE DEF F
  <1>5. F[0] = x0 /\ \A i \in 1 .. MaxNest : F[i] = Step(i, F[i - 1])
    <2>1. MaxNest \in Nat
      BY MaxNestAssumption
    <2> QED BY <1>4, <2>1
  <1> QED BY <1>0, <1>5, <1>s, <1>x

\* What an atom consists of is in its scope; W[d] are its parts of depth d.
LEMMA AtomLevels ==
  ASSUME NEW pg \in Program, NEW e, NEW s, <<e, s>> \in Code[pg]
  PROVE  /\ \A a \in Parts(e) : <<a, s>> \in Code[pg]
         /\ \E W : /\ W[0] = {e} /\ \A d \in 0 .. MaxNest : W[d] \subseteq Parts(e)
                   /\ \A d \in 0 .. MaxNest - 1 : \A a \in W[d] : Arguments(a) \subseteq W[d + 1]
  <1>0. MaxNest \in Nat
    BY MaxNestAssumption
  <1>1. PICK W : /\ W[0] = {e}
                 /\ \A i \in 1 .. MaxNest : W[i] = Deeper(W[i - 1])
                 /\ Parts(e) = W[MaxNest]
    BY PartsSteps
  <1>2. ASSUME NEW a, <<a, s>> \in Code[pg], NEW b \in Arguments(a) PROVE <<b, s>> \in Code[pg]
    <2>1. a.k = "CON" /\ b \in ToSet(a.args)
      BY <1>2 DEF Arguments
    <2>2. Scoped(pg, <<a, s>>[1], <<a, s>>[2])
      BY <1>2, CodeFacts
    <2>3. \A i \in DOMAIN a.args : <<a.args[i], s>> \in Code[pg]
      BY <2>1, <2>2 DEF Scoped
    <2> QED BY <2>1, <2>3 DEF ToSet
  <1> DEFINE T == {k \in Nat : k <= MaxNest => \A a \in W[k] : <<a, s>> \in Code[pg]}
             M == {k \in Nat : k <= MaxNest => W[MaxNest - k] \subseteq Parts(e)}
  <1>3. 0 \in T
    BY <1>1
  <1>4. ASSUME NEW k \in Nat, k \in T PROVE k + 1 \in T
    <2>1. CASE k + 1 <= MaxNest
      <3>1. W[k + 1] = Deeper(W[k])
        <4>1. k + 1 \in 1 .. MaxNest /\ (k + 1) - 1 = k
          BY <2>1, <1>0
        <4> QED BY <4>1, <1>1
      <3>2. \A a \in W[k] : <<a, s>> \in Code[pg]
        BY <1>4, <2>1, <1>0
      <3>3. \A b \in W[k + 1] : <<b, s>> \in Code[pg]
        BY <3>1, <3>2, <1>2 DEF Deeper
      <3> QED BY <3>3
    <2> QED BY <2>1
  <1>5. \A k \in Nat : k \in T
    <2> HIDE DEF T
    <2> QED BY <1>3, <1>4, SetInduction
  <1>6. \A a \in Parts(e) : <<a, s>> \in Code[pg]
    BY <1>0, <1>1, <1>5
  <1>7. ASSUME NEW d \in 0 .. MaxNest - 1
        PROVE  W[d] \subseteq W[d + 1] /\ \A a \in W[d] : Arguments(a) \subseteq W[d + 1]
    <2>1. d + 1 \in 1 .. MaxNest /\ (d + 1) - 1 = d
      BY <1>0
    <2>2. W[d + 1] = Deeper(W[d])
      BY <1>1, <2>1
    <2> QED BY <2>2 DEF Deeper
  <1>8. 0 \in M
    BY <1>0, <1>1
  <1>9. ASSUME NEW k \in Nat, k \in M PROVE k + 1 \in M
    <2>1. CASE k + 1 <= MaxNest
      <3>1. MaxNest - (k + 1) \in 0 .. MaxNest - 1 /\ (MaxNest - (k + 1)) + 1 = MaxNest - k
        BY <2>1, <1>0
      <3>2. W[MaxNest - (k + 1)] \subseteq W[MaxNest - k]
        BY <3>1, <1>7
      <3>3. W[MaxNest - k] \subseteq Parts(e)
        BY <1>9, <2>1, <1>0
      <3> QED BY <3>2, <3>3
    <2> QED BY <2>1
  <1>10. \A k \in Nat : k \in M
    <2> HIDE DEF M
    <2> QED BY <1>8, <1>9, SetInduction
  <1>11. ASSUME NEW d \in 0 .. MaxNest PROVE W[d] \subseteq Parts(e)
    <2>1. MaxNest - d \in Nat /\ MaxNest - d <= MaxNest /\ MaxNest - (MaxNest - d) = d
      BY <1>0
    <2> QED BY <2>1, <1>10
  <1> QED BY <1>1, <1>6, <1>7, <1>11

\* An atom without fields is all there is to look at.
LEMMA PartsAlone ==
  ASSUME NEW e, Arguments(e) = {}
  PROVE  Parts(e) = {e}
  <1>1. PICK W : /\ W[0] = {e}
                 /\ \A i \in 1 .. MaxNest : W[i] = Deeper(W[i - 1])
                 /\ Parts(e) = W[MaxNest]
    BY PartsSteps
  <1>2. Deeper({e}) = {e}
    BY DEF Deeper
  <1>3. \A i \in 1 .. MaxNest : W[i - 1] \in {{e}} => W[i] \in {{e}}
    BY <1>1, <1>2
  <1>4. W[0] \in {{e}} /\ MaxNest \in Nat
    BY <1>1, MaxNestAssumption
  <1>5. \A i \in 0 .. MaxNest : W[i] \in {{e}}
    <2> DEFINE X == {{e}}
    <2>1. W[0] \in X /\ \A i \in 1 .. MaxNest : W[i - 1] \in X => W[i] \in X
      BY <1>3, <1>4
    <2> HIDE DEF X
    <2>2. \A i \in 0 .. MaxNest : W[i] \in X
      BY <1>4, <2>1, LoopKeeps
    <2> QED BY <2>2 DEF X
  <1>6. W[MaxNest] = {e}
    BY <1>4, <1>5
  <1> QED BY <1>1, <1>6

-----------------------------------------------------------------------------
(* Atoms.                                                                  *)

\* The objects s are in the heap m behind the first k.
Placed(m, k, s) == k + Len(s) <= Len(m) /\ \A i \in 1 .. Len(s) : m[k + i] = s[i]

\* What may be made in the heap m: no environment, and nothing under evaluation.
New(pg, sp, m, s) ==
    \A i \in 1 .. Len(s) : Good(pg, sp, m, s[i]) /\ s[i].kind \notin {"ENV", "BLACKHOLE"}

\* r.objs can stand behind the first k objects of m, and r.p is a value then.
Makes(pg, sp, m, k, r) ==
    Placed(m, k, r.objs) => New(pg, sp, m, r.objs) /\ Value(sp, m, r.p)

\* Where two lists of objects are placed, each is placed.
LEMMA PlacedConcat ==
  ASSUME NEW m, NEW k \in Nat, NEW s, IsList(s), NEW t, IsList(t), Placed(m, k, s \o t), IsList(m)
  PROVE  Placed(m, k, s) /\ Placed(m, k + Len(s), t)
  <1>1. Len(s) \in Nat /\ Len(t) \in Nat /\ Len(m) \in Nat
    BY ListFacts
  <1>2. /\ Len(s \o t) = Len(s) + Len(t)
        /\ \A i \in 1 .. Len(s) : (s \o t)[i] = s[i]
        /\ \A i \in 1 .. Len(t) : (s \o t)[Len(s) + i] = t[i]
    BY ListConcat
  <1>3. k + (Len(s) + Len(t)) <= Len(m) /\ \A i \in 1 .. Len(s) + Len(t) : m[k + i] = (s \o t)[i]
    BY <1>2 DEF Placed
  <1>7. k + Len(s) <= Len(m)
    BY <1>1, <1>3
  <1>8. \A i \in 1 .. Len(s) : i \in 1 .. Len(s) + Len(t)
    BY <1>1
  <1>4. Placed(m, k, s)
    BY <1>2, <1>3, <1>7, <1>8 DEF Placed
  <1>5. ASSUME NEW i \in 1 .. Len(t) PROVE m[(k + Len(s)) + i] = t[i]
    <2>1. Len(s) + i \in 1 .. Len(s) + Len(t) /\ k + (Len(s) + i) = (k + Len(s)) + i
      BY <1>1
    <2>2. m[k + (Len(s) + i)] = (s \o t)[Len(s) + i]
      BY <1>3, <2>1
    <2> QED BY <1>2, <2>1, <2>2
  <1>6. (k + Len(s)) + Len(t) <= Len(m)
    BY <1>1, <1>3
  <1> QED BY <1>4, <1>5, <1>6 DEF Placed

\* Two lists of new objects are one.
LEMMA NewConcat ==
  ASSUME NEW pg, NEW sp, NEW m, NEW s, IsList(s), NEW t, IsList(t), New(pg, sp, m, s), New(pg, sp, m, t)
  PROVE  New(pg, sp, m, s \o t)
  <1>1. Len(s) \in Nat /\ Len(t) \in Nat
    BY ListFacts
  <1>2. /\ Len(s \o t) = Len(s) + Len(t)
        /\ \A i \in 1 .. Len(s) : (s \o t)[i] = s[i]
        /\ \A i \in Len(s) + 1 .. Len(s) + Len(t) : (s \o t)[i] = t[i - Len(s)]
    BY ListConcat
  <1>3. \A i \in 1 .. Len(s) + Len(t) : i \in 1 .. Len(s) \/ (i \in Len(s) + 1 .. Len(s) + Len(t)
                                                               /\ i - Len(s) \in 1 .. Len(t))
    BY <1>1
  <1>4. \A i \in 1 .. Len(s) + Len(t) :
           \/ \E j \in 1 .. Len(s) : (s \o t)[i] = s[j]
           \/ \E j \in 1 .. Len(t) : (s \o t)[i] = t[j]
    BY <1>2, <1>3
  <1> QED BY <1>2, <1>4 DEF New

\* One object is made, or none.
LEMMA OneNew ==
  ASSUME NEW pg, NEW sp, NEW m, IsList(m), NEW k \in Nat, NEW o, Good(pg, sp, m, o),
         o.kind \notin {"ENV", "BLACKHOLE"}
  PROVE  LET r == [objs |-> <<o>>, p |-> <<sp, k + 1>>]
         IN  IsList(r.objs) /\ Len(r.objs) = 1 /\ Makes(pg, sp, m, k, r)
  <1> DEFINE r == [objs |-> <<o>>, p |-> <<sp, k + 1>>]
  <1>1. r.objs = <<o>> /\ r.p = <<sp, k + 1>> /\ r.p[2] = k + 1 /\ r.p = <<sp, r.p[2]>>
    OBVIOUS
  <1> HIDE DEF r
  <1>2. <<o>> \in Seq({o}) /\ Len(<<o>>) = 1 /\ <<o>>[1] = o
    OBVIOUS
  <1>3. IsList(<<o>>)
    BY <1>2, ListSeq
  <1>4. New(pg, sp, m, <<o>>)
    BY <1>2 DEF New
  <1>5. ASSUME Placed(m, k, <<o>>) PROVE Value(sp, m, r.p)
    <2>1. k + 1 <= Len(m) /\ m[k + 1] = o
      BY <1>2, <1>5 DEF Placed
    <2>2. k + 1 \in DOMAIN m
      BY <2>1, ListFacts
    <2> QED BY <1>1, <2>1, <2>2 DEF Value, At
  <1> QED BY <1>1, <1>2, <1>3, <1>4, <1>5 DEF Makes, r

LEMMA NothingNew ==
  ASSUME NEW pg, NEW sp, NEW m, NEW k, NEW p, Value(sp, m, p)
  PROVE  LET r == [objs |-> <<>>, p |-> p]
         IN  IsList(r.objs) /\ Makes(pg, sp, m, k, r)
  <1>1. Len(<<>>) = 0 /\ IsList(<<>>)
    BY EmptyList
  <1>2. New(pg, sp, m, <<>>)
    BY <1>1 DEF New
  <1> QED BY <1>1, <1>2 DEF Makes

\* What the atom a of the scope s needs: its environment, and the values that
\* it names.
Ready(pg, v, m, a, env, s) ==
    /\ <<a, s>> \in Code[pg]
    /\ env = Null \/ IsEnv(v.space, m, env)
    /\ EnvFits(v.space, m, env, s)
    /\ a.k = "VAR" => Value(v.space, m, Lookup(m, a, env))
    /\ a.k = "GLOBAL" => Value(v.space, m, v.globals[a.g])

\* An atom without fields is made ...
LEMMA SimpleMade ==
  ASSUME NEW pg \in Program, NEW v, NEW m, IsList(m), NEW a, NEW env, NEW s, Ready(pg, v, m, a, env, s),
         NEW n \in Nat, NEW M, IsList(M), Later(m, M)
  PROVE  LET r == Simple(v, m, env, a, n)
         IN  IsList(r.objs) /\ Makes(pg, v.space, M, Len(m) + n, r)
  <1> DEFINE r == Simple(v, m, env, a, n)
             sp == v.space
             k == Len(m) + n
             old(p) == [objs |-> <<>>, p |-> p]
             new(kind, c, ptr) == [objs |-> <<Thing(kind, c, ptr)>>, p |-> <<sp, k + 1>>]
             Goal == IsList(r.objs) /\ Makes(pg, sp, M, k, r)
  <1>1. k \in Nat
    BY ListFacts
  <1>2. Scoped(pg, a, s)
    BY CodeFacts DEF Ready
  <1>3. Fits(pg, sp, M, a, env)
    <2>1. Fits(pg, sp, m, a, env)
      BY DEF Ready, Fits
    <2> QED BY <2>1, FitsLater
  <1>4. ASSUME NEW p, Value(sp, M, p), r = old(p) PROVE Goal
    BY <1>4, NothingNew
  <1>5. ASSUME NEW kind, NEW c, NEW ptr, r = new(kind, c, ptr), Good(pg, sp, M, Thing(kind, c, ptr)),
               kind \notin {"ENV", "BLACKHOLE"}
        PROVE  Goal
    <2>1. Thing(kind, c, ptr).kind = kind
      BY DEF Thing
    <2> QED BY <1>1, <1>5, <2>1, OneNew
  <1>6. ASSUME NEW kind \in {"INT", "CHAR", "STR"}, NEW c PROVE Good(pg, sp, M, Thing(kind, c, <<>>))
    BY EmptyList DEF Good, Thing
  <1>7. ASSUME NEW kind \in {"FUN", "THUNK"}, kind = "FUN" => a.k = "LAM"
        PROVE  Good(pg, sp, M, Thing(kind, a, <<env>>))
    <2>1. <<env>> \in Seq({env}) /\ Len(<<env>>) = 1 /\ <<env>>[1] = env
      OBVIOUS
    <2>2. IsList(<<env>>)
      BY <2>1, ListSeq
    <2> QED BY <2>1, <2>2, <1>3, <1>7 DEF Good, Thing
  <1>8. ASSUME NEW p, Value(sp, m, p) PROVE Value(sp, M, p)
    BY <1>8, ValueLater
  <1>9. CASE a.k = "VAR"
    <2>1. r = old(Lookup(m, a, env))
      BY <1>9 DEF Simple
    <2> QED BY <1>4, <1>8, <1>9, <2>1 DEF Ready
  <1>10. CASE a.k = "GLOBAL"
    <2>1. r = old(v.globals[a.g])
      BY <1>10 DEF Simple
    <2> QED BY <1>4, <1>8, <1>10, <2>1 DEF Ready
  <1>11. CASE a.k = "PRIM"
    <2>1. r = old(PrimObject(a.f))
      BY <1>11 DEF Simple
    <2>2. Value(sp, M, PrimObject(a.f))
      BY <1>2, <1>11 DEF Scoped, Value, StaticValue, PrimObject
    <2> QED BY <1>4, <2>1, <2>2
  <1>12. CASE a.k = "INT"
    <2>1. r = old(IntObject(a.n)) \/ r = new("INT", a.n, <<>>)
      BY <1>12 DEF Simple
    <2>2. Value(sp, M, IntObject(a.n))
      BY DEF Value, StaticValue, IntObject
    <2> QED BY <1>4, <1>5, <1>6, <2>1, <2>2
  <1>13. CASE a.k = "CHAR"
    <2>1. r = old(CharObject(a.n)) \/ r = new("CHAR", a.n, <<>>)
      BY <1>13 DEF Simple
    <2>2. Value(sp, M, CharObject(a.n))
      BY DEF Value, StaticValue, CharObject
    <2> QED BY <1>4, <1>5, <1>6, <2>1, <2>2
  <1>14. CASE a.k = "STR"
    <2>1. r = new("STR", a.s, <<>>)
      BY <1>14 DEF Simple
    <2> QED BY <1>5, <1>6, <2>1
  <1>15. CASE a.k = "LAM"
    <2>1. r = new("FUN", a, <<env>>)
      BY <1>15 DEF Simple
    <2> QED BY <1>5, <1>7, <1>15, <2>1
  <1>16. CASE a.k = "CON" /\ a.args = <<>>
    <2>1. r = old(ConObject(a.c))
      BY <1>16 DEF Simple
    <2>2. a.c \in DOMAIN ConArity /\ Len(a.args) = ConArity[a.c] /\ Len(a.args) = 0
      BY <1>2, <1>16, EmptyList DEF Scoped
    <2>3. Value(sp, M, ConObject(a.c))
      BY <2>2 DEF Value, StaticValue, ConObject
    <2> QED BY <1>4, <2>1, <2>3
  <1>17. CASE a.k \notin {"VAR", "GLOBAL", "PRIM", "INT", "CHAR", "STR", "LAM"}
              /\ ~ (a.k = "CON" /\ a.args = <<>>)
    <2>1. r = new("THUNK", a, <<env>>)
      BY <1>17 DEF Simple
    <2> QED BY <1>5, <1>7, <2>1
  <1> QED BY <1>9, <1>10, <1>11, <1>12, <1>13, <1>14, <1>15, <1>16, <1>17

NoFields == [objs |-> <<>>, ptr |-> <<>>]

NextField(a, n, make, i, r) ==
    LET h == make[a.args[i]][n + Len(r.objs)]
    IN  [objs |-> r.objs \o h.objs, ptr |-> Append(r.ptr, h.p)]

FieldLoop(a, n, l, make, f) ==
    /\ f[0] = NoFields
    /\ \A i \in 1 .. l : f[i] = NextField(a, n, make, i, f[i - 1])
    /\ FieldsOf(a, n, l, make) = f[l]

\* The fields of a constructor, one after the other.
LEMMA FieldsSteps ==
  ASSUME NEW a, NEW n, NEW l \in Nat, NEW make
  PROVE  \E f : FieldLoop(a, n, l, make, f)
  <1> DEFINE x0 == NoFields
             Step(i, x) == NextField(a, n, make, i, x)
             Is(f, d) == f = [i \in 0 .. d |-> IF i = 0 THEN x0 ELSE Step(i, f[i - 1])]
             F == CHOOSE f : Is(f, l)
             S == {k \in Nat : \E f : Is(f, k)}
  <1>0. FieldsOf(a, n, l, make) = F[l]
    BY DEF FieldsOf, NextField, NoFields
  <1>s. \A i, x : Step(i, x) = NextField(a, n, make, i, x)
    OBVIOUS
  <1>x. x0 = NoFields
    OBVIOUS
  <1> HIDE DEF Step, x0
  <1>1. 0 \in S
    <2>1. Is([i \in 0 .. 0 |-> x0], 0)
      OBVIOUS
    <2> QED BY <2>1
  <1>2. ASSUME NEW k \in Nat, k \in S PROVE k + 1 \in S
    <2>1. PICK f : Is(f, k)
      BY <1>2
    <2> DEFINE g == [i \in 0 .. k + 1 |-> IF i = k + 1 THEN Step(k + 1, f[k]) ELSE f[i]]
    <2>2. \A i \in 0 .. k : g[i] = f[i] /\ f[i] = IF i = 0 THEN x0 ELSE Step(i, f[i - 1])
      BY <2>1
    <2>3. g[k + 1] = Step(k + 1, g[k])
      BY <2>2
    <2>4. g = [i \in 0 .. k + 1 |-> g[i]]
      OBVIOUS
    <2> HIDE DEF g
    <2>5. ASSUME NEW i \in 0 .. k + 1 PROVE g[i] = IF i = 0 THEN x0 ELSE Step(i, g[i - 1])
      <3>1. CASE i = k + 1
        <4>1. i # 0 /\ i - 1 = k
          BY <3>1
        <4> QED BY <2>3, <3>1, <4>1
      <3>2. CASE i \in 0 .. k
        <4>1. i # 0 => i - 1 \in 0 .. k
          BY <3>2
        <4> QED BY <2>2, <3>2, <4>1
      <3> QED BY <3>1, <3>2
    <2>6. Is(g, k + 1)
      BY <2>4, <2>5
    <2> QED BY <2>6
  <1>3. l \in S
    <2> HIDE DEF S
    <2>1. l \in Nat
      OBVIOUS
    <2> QED BY <1>1, <1>2, <2>1, SetInduction
  <1>4. Is(F, l)
    BY <1>3
  <1> HIDE DEF F
  <1>5. F[0] = x0 /\ \A i \in 1 .. l : F[i] = Step(i, F[i - 1])
    <2>1. l \in Nat
      OBVIOUS
    <2> QED BY <1>4, <2>1
  <1> QED BY <1>0, <1>5, <1>s, <1>x DEF FieldLoop

AtomLevel(v, mem, e, env, d, below) ==
    [a \in Parts(e) |-> [n \in Nat |->
        IF Built(a, d) THEN Constructed(v, mem, a, n, below) ELSE Simple(v, mem, env, a, n)]]

\* An atom, by the depth to which constructors nest.
LEMMA AtomSteps ==
  ASSUME NEW v, NEW mem, NEW e, NEW env
  PROVE  \E f : /\ f[0] = AtomLevel(v, mem, e, env, 0, <<>>)
                /\ \A i \in 1 .. MaxNest : f[i] = AtomLevel(v, mem, e, env, i, f[i - 1])
                /\ Atom(v, mem, e, env) = [mem |-> mem \o f[MaxNest][e][0].objs, p |-> f[MaxNest][e][0].p]
  <1> DEFINE x0 == AtomLevel(v, mem, e, env, 0, <<>>)
             Step(i, x) == AtomLevel(v, mem, e, env, i, x)
             Is(f, d) == f = [i \in 0 .. d |-> Step(i, f[i - 1])]
             F == CHOOSE f : Is(f, MaxNest)
             S == {k \in Nat : \E f : Is(f, k)}
  <1>0. Atom(v, mem, e, env) = [mem |-> mem \o F[MaxNest][e][0].objs, p |-> F[MaxNest][e][0].p]
    BY DEF Atom, AtomLevel
  <1>s. \A i, x : Step(i, x) = AtomLevel(v, mem, e, env, i, x)
    OBVIOUS
  <1>y. \A x : Step(0, x) = x0
    BY DEF Built, AtomLevel
  <1>x. x0 = AtomLevel(v, mem, e, env, 0, <<>>)
    OBVIOUS
  <1> HIDE DEF Step, x0
  <1>1. 0 \in S
    <2> DEFINE h == [i \in 0 .. 0 |-> x0]
    <2>2. h = [i \in 0 .. 0 |-> h[i]] /\ h[0] = x0 /\ \A i \in 0 .. 0 : i = 0
      OBVIOUS
    <2> HIDE DEF h
    <2>3. \A i \in 0 .. 0 : h[i] = Step(i, h[i - 1])
      BY <2>2, <1>y
    <2>1. Is(h, 0)
      BY <2>2, <2>3
    <2> QED BY <2>1
  <1>2. ASSUME NEW k \in Nat, k \in S PROVE k + 1 \in S
    <2>1. PICK f : Is(f, k)
      BY <1>2
    <2> DEFINE g == [i \in 0 .. k + 1 |-> IF i = k + 1 THEN Step(k + 1, f[k]) ELSE f[i]]
    <2>2. \A i \in 0 .. k : g[i] = f[i] /\ f[i] = IF i = 0 THEN x0 ELSE Step(i, f[i - 1])
      BY <2>1, <1>y
    <2>3. g[k + 1] = Step(k + 1, g[k])
      BY <2>2
    <2>4. g = [i \in 0 .. k + 1 |-> g[i]]
      OBVIOUS
    <2> HIDE DEF g
    <2>5. ASSUME NEW i \in 0 .. k + 1 PROVE g[i] = IF i = 0 THEN x0 ELSE Step(i, g[i - 1])
      <3>1. CASE i = k + 1
        <4>1. i # 0 /\ i - 1 = k
          BY <3>1
        <4> QED BY <2>3, <3>1, <4>1
      <3>2. CASE i \in 0 .. k
        <4>1. i # 0 => i - 1 \in 0 .. k
          BY <3>2
        <4> QED BY <2>2, <3>2, <4>1
      <3> QED BY <3>1, <3>2
    <2>6. Is(g, k + 1)
      BY <2>4, <2>5, <1>y
    <2> QED BY <2>6
  <1>3. MaxNest \in S
    <2> HIDE DEF S
    <2>1. MaxNest \in Nat
      BY MaxNestAssumption
    <2> QED BY <1>1, <1>2, <2>1, SetInduction
  <1>4. Is(F, MaxNest)
    BY <1>3
  <1> HIDE DEF F
  <1>5. F[0] = x0 /\ \A i \in 1 .. MaxNest : F[i] = Step(i, F[i - 1])
    <2>1. MaxNest \in Nat
      BY MaxNestAssumption
    <2> QED BY <1>4, <1>y, <2>1
  <1> QED BY <1>0, <1>5, <1>s, <1>x

\* The fields of a constructor, when each of them can be made.
LEMMA FieldsMade ==
  ASSUME NEW pg \in Program, NEW sp, NEW M, IsList(M), NEW b \in Nat,
         NEW a, IsList(a.args), NEW make, NEW n \in Nat,
         \A i \in 1 .. Len(a.args) : \A k \in Nat :
            LET h == make[a.args[i]][k] IN IsList(h.objs) /\ Makes(pg, sp, M, b + k, h)
  PROVE  LET r == FieldsOf(a, n, Len(a.args), make)
         IN  /\ IsList(r.objs) /\ IsList(r.ptr) /\ Len(r.ptr) = Len(a.args)
             /\ Placed(M, b + n, r.objs) => New(pg, sp, M, r.objs) /\ Values(sp, M, r.ptr, 1)
  <1> DEFINE L == Len(a.args)
             OK(i, r) == /\ IsList(r.objs) /\ IsList(r.ptr) /\ Len(r.ptr) = i
                         /\ Placed(M, b + n, r.objs) => New(pg, sp, M, r.objs) /\ Values(sp, M, r.ptr, 1)
  <1>0. L \in Nat
    BY ListFacts
  <1>1. PICK f : /\ f[0] = NoFields
                 /\ \A i \in 1 .. L : f[i] = NextField(a, n, make, i, f[i - 1])
                 /\ FieldsOf(a, n, L, make) = f[L]
    <2> HIDE DEF L
    <2>1. PICK f : FieldLoop(a, n, L, make, f)
      BY <1>0, FieldsSteps
    <2> QED BY <2>1 DEF FieldLoop
  <1>2. OK(0, f[0])
    <2>1. f[0].objs = <<>> /\ f[0].ptr = <<>>
      BY <1>1 DEF NoFields
    <2>2. IsList(<<>>) /\ Len(<<>>) = 0
      BY EmptyList
    <2> QED BY <2>1, <2>2 DEF New, Values
  <1>3. ASSUME NEW i \in 1 .. L, OK(i - 1, f[i - 1]) PROVE OK(i, f[i])
    <2> DEFINE c == b + n
               r == f[i - 1]
               k == n + Len(r.objs)
               h == make[a.args[i]][k]
    <2>1. /\ IsList(r.objs) /\ IsList(r.ptr) /\ Len(r.ptr) = i - 1
          /\ Placed(M, c, r.objs) => New(pg, sp, M, r.objs) /\ Values(sp, M, r.ptr, 1)
      BY <1>3
    <2>2. f[i].objs = r.objs \o h.objs /\ f[i].ptr = Append(r.ptr, h.p)
      <3>1. f[i] = NextField(a, n, make, i, r)
        BY <1>1
      <3> HIDE DEF r
      <3>2. f[i] = [objs |-> r.objs \o h.objs, ptr |-> Append(r.ptr, h.p)]
        BY <3>1 DEF NextField
      <3> DEFINE s == r.objs \o h.objs
                 t == Append(r.ptr, h.p)
      <3>3. f[i] = [objs |-> s, ptr |-> t]
        BY <3>2
      <3> HIDE DEF s, t
      <3>4. f[i].objs = s /\ f[i].ptr = t
        BY <3>3
      <3> QED BY <3>4 DEF s, t
    <2> HIDE DEF h, r
    <2> DEFINE l == Len(r.objs)
    <2>l. l \in Nat
      BY <2>1, ListFacts
    <2>3. k \in Nat /\ b + k = c + l /\ c \in Nat
      <3>1. k = n + l
        OBVIOUS
      <3> HIDE DEF l, k
      <3> QED BY <2>l, <3>1
    <2> HIDE DEF k, c
    <2>4. IsList(h.objs) /\ Makes(pg, sp, M, b + k, h)
      BY <2>3 DEF h
    <2>5. IsList(f[i].objs)
      BY <2>1, <2>2, <2>4, ListConcat
    <2>6. /\ IsList(f[i].ptr) /\ Len(f[i].ptr) = i
          /\ \A j \in 1 .. i - 1 : f[i].ptr[j] = r.ptr[j]
          /\ f[i].ptr[i] = h.p
      <3>1. Len(r.ptr) + 1 = i /\ 1 .. Len(r.ptr) = 1 .. i - 1
        BY <2>1
      <3>2. /\ IsList(f[i].ptr) /\ Len(f[i].ptr) = Len(r.ptr) + 1
            /\ \A j \in 1 .. Len(r.ptr) : f[i].ptr[j] = r.ptr[j]
            /\ f[i].ptr[Len(r.ptr) + 1] = h.p
        BY <2>1, <2>2, ListAppend
      <3> QED BY <3>1, <3>2
    <2>7. ASSUME Placed(M, c, f[i].objs)
          PROVE  New(pg, sp, M, f[i].objs) /\ Values(sp, M, f[i].ptr, 1)
      <3>1. Placed(M, c, r.objs) /\ Placed(M, c + l, h.objs)
        <4> DEFINE s == r.objs
                   t == h.objs
        <4>1. IsList(s) /\ IsList(t) /\ Len(s) = l /\ Placed(M, c, s \o t) /\ IsList(M)
          BY <2>1, <2>2, <2>4, <2>7
        <4> HIDE DEF s, t, l
        <4>2. Placed(M, c, s) /\ Placed(M, c + Len(s), t)
          BY <2>3, <4>1, PlacedConcat
        <4> QED BY <4>1, <4>2 DEF s, t
      <3>2. New(pg, sp, M, r.objs) /\ Values(sp, M, r.ptr, 1)
        BY <2>1, <3>1
      <3>3. New(pg, sp, M, h.objs) /\ Value(sp, M, h.p)
        BY <2>3, <2>4, <3>1 DEF Makes
      <3>4. New(pg, sp, M, f[i].objs)
        BY <2>1, <2>2, <2>4, <3>2, <3>3, NewConcat
      <3>5. ASSUME NEW j \in 1 .. i PROVE Value(sp, M, f[i].ptr[j])
        <4>1. CASE j = i
          BY <4>1, <2>6, <3>3
        <4>2. CASE j # i
          <5>1. j \in 1 .. i - 1 /\ i \in Nat
            BY <4>2, <1>0
          <5>2. f[i].ptr[j] = r.ptr[j] /\ Value(sp, M, r.ptr[j])
            BY <5>1, <2>1, <2>6, <3>2 DEF Values
          <5> QED BY <5>2
        <4> QED BY <4>1, <4>2
      <3> QED BY <2>6, <3>4, <3>5 DEF Values
    <2> QED BY <2>5, <2>6, <2>7 DEF c
  <1>o. OK(L, f[L]) => /\ IsList(f[L].objs) /\ IsList(f[L].ptr) /\ Len(f[L].ptr) = Len(a.args)
                       /\ Placed(M, b + n, f[L].objs) => New(pg, sp, M, f[L].objs) /\ Values(sp, M, f[L].ptr, 1)
    OBVIOUS
  <1>m. \A i \in 1 .. L : OK(i - 1, f[i - 1]) => OK(i, f[i])
    BY <1>3
  <1> HIDE DEF OK, L
  <1> DEFINE T == {i \in Nat : i <= L => OK(i, f[i])}
  <1>4. 0 \in T
    BY <1>2
  <1>5. ASSUME NEW i \in Nat, i \in T PROVE i + 1 \in T
    <2>1. i + 1 <= L => i + 1 \in 1 .. L /\ (i + 1) - 1 = i /\ i <= L
      BY <1>0
    <2> QED BY <2>1, <1>m, <1>5
  <1>6. \A i \in Nat : i \in T
    <2> HIDE DEF T
    <2> QED BY <1>4, <1>5, SetInduction
  <1>7. OK(L, f[L])
    BY <1>0, <1>6
  <1> QED BY <1>1, <1>7, <1>o DEF L

\* and so is a constructor, if its fields are,
LEMMA ConstructedMade ==
  ASSUME NEW pg \in Program, NEW v, NEW m, IsList(m), NEW M, IsList(M),
         NEW a, a.k = "CON", IsList(a.args), a.c \in DOMAIN ConArity, Len(a.args) = ConArity[a.c],
         NEW make, NEW n \in Nat,
         \A i \in 1 .. Len(a.args) : \A k \in Nat :
            LET h == make[a.args[i]][k] IN IsList(h.objs) /\ Makes(pg, v.space, M, Len(m) + k, h)
  PROVE  LET r == Constructed(v, m, a, n, make)
         IN  IsList(r.objs) /\ Makes(pg, v.space, M, Len(m) + n, r)
  <1> DEFINE f == FieldsOf(a, n + 1, Len(a.args), make)
             r == Constructed(v, m, a, n, make)
             o == Thing("CON", a.c, f.ptr)
             k == Len(m) + n
             sp == v.space
             one == [objs |-> <<o>>, p |-> <<sp, k + 1>>]
  <1>1. Len(m) \in Nat /\ n + 1 \in Nat /\ Len(m) + (n + 1) = k + 1 /\ k \in Nat
    BY ListFacts
  <1>2. r.objs = <<o>> \o f.objs /\ r.p = one.p /\ one.objs = <<o>>
    BY DEF Constructed
  <1>3. /\ IsList(f.objs) /\ IsList(f.ptr) /\ Len(f.ptr) = Len(a.args)
        /\ Placed(M, k + 1, f.objs) => New(pg, sp, M, f.objs) /\ Values(sp, M, f.ptr, 1)
    <2>1. /\ IsList(f.objs) /\ IsList(f.ptr) /\ Len(f.ptr) = Len(a.args)
          /\ Placed(M, Len(m) + (n + 1), f.objs) => New(pg, sp, M, f.objs) /\ Values(sp, M, f.ptr, 1)
      BY <1>1, FieldsMade
    <2> HIDE DEF f, k
    <2> QED BY <1>1, <2>1
  <1>4. o.kind = "CON" /\ o.code = a.c /\ o.ptr = f.ptr /\ o = Thing(o.kind, o.code, o.ptr)
    BY DEF Thing
  <1> HIDE DEF f, r, o, k
  <1>5. <<o>> \in Seq({o}) /\ Len(<<o>>) = 1
    OBVIOUS
  <1>6. IsList(<<o>>)
    BY <1>5, ListSeq
  <1> USE DEF k
  <1> DEFINE s == <<o>>
             t == f.objs
  <1> HIDE DEF s, k
  <1>a. r.objs = s \o f.objs /\ IsList(s) /\ Len(s) = 1
    BY <1>2, <1>5, <1>6 DEF s
  <1>7. IsList(r.objs)
    BY <1>a, <1>3, ListConcat
  <1>8. ASSUME Placed(M, k, r.objs) PROVE New(pg, sp, M, r.objs) /\ Value(sp, M, r.p)
    <2>1. Placed(M, k, <<o>>) /\ Placed(M, k + 1, f.objs)
      <3>1. r.objs = s \o t /\ IsList(t) /\ k \in Nat
        BY <1>1, <1>a, <1>3 DEF k
      <3> HIDE DEF t
      <3>2. Placed(M, k, s) /\ Placed(M, k + Len(s), t)
        BY <1>a, <3>1, <1>8, PlacedConcat
      <3> QED BY <1>a, <3>2 DEF s, t
    <2>2. New(pg, sp, M, f.objs) /\ Values(sp, M, f.ptr, 1)
      BY <1>3, <2>1
    <2>3. Good(pg, sp, M, o)
      BY <1>3, <1>4, <2>2 DEF Good
    <2>4. Makes(pg, sp, M, k, one)
      BY <1>1, <1>4, <2>3, OneNew
    <2>5. New(pg, sp, M, <<o>>) /\ Value(sp, M, one.p)
      BY <1>2, <2>1, <2>4 DEF Makes
    <2> QED BY <1>2, <1>3, <1>6, <2>2, <2>5, NewConcat
  <1> QED BY <1>7, <1>8 DEF Makes, r, k

\* What atom() needs and makes.
AtomReady(pg, v, m, e, env, s) == \A a \in Parts(e) : Ready(pg, v, m, a, env, s)

\* however deep they nest.
LEMMA AtomLevelsMade ==
  ASSUME NEW pg \in Program, NEW v, NEW m, IsList(m), NEW e, NEW env, NEW s,
         <<e, s>> \in Code[pg], AtomReady(pg, v, m, e, env, s)
  PROVE  LET r == Atom(v, m, e, env)
         IN  \E objs : /\ r.mem = m \o objs /\ IsList(objs)
                       /\ \A M : IsList(M) /\ Later(m, M) =>
                                    Makes(pg, v.space, M, Len(m), [objs |-> objs, p |-> r.p])
  <1> DEFINE sp == v.space
  <1>0. MaxNest \in Nat /\ Len(m) \in Nat
    BY MaxNestAssumption, ListFacts
  <1>1. PICK f : /\ f[0] = AtomLevel(v, m, e, env, 0, <<>>)
                 /\ \A i \in 1 .. MaxNest : f[i] = AtomLevel(v, m, e, env, i, f[i - 1])
                 /\ Atom(v, m, e, env) = [mem |-> m \o f[MaxNest][e][0].objs, p |-> f[MaxNest][e][0].p]
    BY AtomSteps
  <1>2. /\ \A a \in Parts(e) : <<a, s>> \in Code[pg]
        /\ \E W : /\ W[0] = {e} /\ \A d \in 0 .. MaxNest : W[d] \subseteq Parts(e)
                  /\ \A d \in 0 .. MaxNest - 1 : \A a \in W[d] : Arguments(a) \subseteq W[d + 1]
    BY AtomLevels
  <1>3. PICK W : /\ W[0] = {e} /\ \A d \in 0 .. MaxNest : W[d] \subseteq Parts(e)
                 /\ \A d \in 0 .. MaxNest - 1 : \A a \in W[d] : Arguments(a) \subseteq W[d + 1]
    BY <1>2
  <1> DEFINE OK(h, k) == /\ IsList(h.objs)
                         /\ \A M : IsList(M) /\ Later(m, M) => Makes(pg, sp, M, Len(m) + k, h)
             T == {d \in Nat : d <= MaxNest => \A a \in W[MaxNest - d] : \A k \in Nat : OK(f[d][a][k], k)}
  <1>4. ASSUME NEW d \in 0 .. MaxNest, NEW below, f[d] = AtomLevel(v, m, e, env, d, below),
               NEW a \in W[MaxNest - d], NEW k \in Nat,
               d > 0 => \A b \in Arguments(a) : \A j \in Nat : OK(below[b][j], j)
        PROVE  OK(f[d][a][k], k)
    <2>1. MaxNest - d \in 0 .. MaxNest
      BY <1>0
    <2>2. a \in Parts(e)
      BY <1>3, <2>1
    <2>3. Ready(pg, v, m, a, env, s)
      BY <2>2 DEF AtomReady
    <2>4. f[d][a][k] = IF Built(a, d) THEN Constructed(v, m, a, k, below) ELSE Simple(v, m, env, a, k)
      BY <1>4, <2>2 DEF AtomLevel
    <2>5. CASE ~ Built(a, d)
      <3>1. /\ IsList(Simple(v, m, env, a, k).objs)
            /\ \A M : IsList(M) /\ Later(m, M) => Makes(pg, sp, M, Len(m) + k, Simple(v, m, env, a, k))
        BY <2>3, SimpleMade, LaterReflexive
      <3> QED BY <2>4, <2>5, <3>1
    <2>6. CASE Built(a, d)
      <3>1. Scoped(pg, a, s)
        BY <2>3, CodeFacts DEF Ready
      <3>2. /\ a.k = "CON" /\ d > 0 /\ IsList(a.args) /\ a.c \in DOMAIN ConArity
            /\ Len(a.args) = ConArity[a.c]
        BY <2>6, <3>1 DEF Built, Scoped
      <3>3. \A i \in 1 .. Len(a.args) : a.args[i] \in Arguments(a)
        BY <3>2, ListFacts DEF Arguments, ToSet
      <3>4. \A i \in 1 .. Len(a.args) : \A j \in Nat : OK(below[a.args[i]][j], j)
        BY <1>4, <3>2, <3>3
      <3>5. ASSUME NEW M, IsList(M), Later(m, M)
            PROVE  LET r == Constructed(v, m, a, k, below)
                   IN  IsList(r.objs) /\ Makes(pg, sp, M, Len(m) + k, r)
        <4>1. \A i \in 1 .. Len(a.args) : \A j \in Nat :
                 LET h == below[a.args[i]][j] IN IsList(h.objs) /\ Makes(pg, v.space, M, Len(m) + j, h)
          BY <3>4, <3>5
        <4> QED BY <3>2, <4>1, <3>5, ConstructedMade
      <3>6. IsList(Constructed(v, m, a, k, below).objs)
        BY <3>5, LaterReflexive
      <3> QED BY <2>4, <2>6, <3>5, <3>6
    <2> QED BY <2>5, <2>6
  <1>5. 0 \in T
    <2>1. ASSUME NEW a \in W[MaxNest - 0], NEW k \in Nat PROVE OK(f[0][a][k], k)
      <3>1. 0 \in 0 .. MaxNest
        BY <1>0
      <3> HIDE DEF OK
      <3> QED BY <3>1, <2>1, <1>1, <1>4
    <2> HIDE DEF OK
    <2> QED BY <2>1
  <1>6. ASSUME NEW d \in Nat, d \in T PROVE d + 1 \in T
    <2> HIDE DEF OK
    <2>1. ASSUME d + 1 <= MaxNest, NEW a \in W[MaxNest - (d + 1)], NEW k \in Nat
          PROVE  OK(f[d + 1][a][k], k)
      <3>1. /\ d + 1 \in 0 .. MaxNest /\ d + 1 \in 1 .. MaxNest /\ (d + 1) - 1 = d /\ d <= MaxNest
            /\ MaxNest - (d + 1) \in 0 .. MaxNest - 1 /\ (MaxNest - (d + 1)) + 1 = MaxNest - d
        BY <1>0, <2>1
      <3>2. f[d + 1] = AtomLevel(v, m, e, env, d + 1, f[d])
        BY <1>1, <3>1
      <3>3. Arguments(a) \subseteq W[MaxNest - d]
        BY <1>3, <2>1, <3>1
      <3>4. \A b \in W[MaxNest - d] : \A j \in Nat : OK(f[d][b][j], j)
        BY <1>6, <3>1
      <3>5. \A b \in Arguments(a) : \A j \in Nat : OK(f[d][b][j], j)
        BY <3>3, <3>4
      <3> QED BY <3>1, <3>2, <3>5, <2>1, <1>4
    <2> QED BY <2>1
  <1>7. \A d \in Nat : d \in T
    <2> HIDE DEF T
    <2> QED BY <1>5, <1>6, SetInduction
  <1>8. OK(f[MaxNest][e][0], 0)
    <2> HIDE DEF OK
    <2>1. MaxNest - MaxNest = 0 /\ e \in W[0]
      BY <1>0, <1>3
    <2> QED BY <1>0, <1>7, <2>1
  <1> DEFINE objs == f[MaxNest][e][0].objs
             r == Atom(v, m, e, env)
  <1>9. r.mem = m \o objs /\ r.p = f[MaxNest][e][0].p
    BY <1>1
  <1>10. IsList(objs) /\ \A M : IsList(M) /\ Later(m, M) =>
                            Makes(pg, sp, M, Len(m), [objs |-> objs, p |-> r.p])
    <2>1. Len(m) + 0 = Len(m)
      BY <1>0
    <2> QED BY <1>8, <1>9, <2>1 DEF Makes
  <1> HIDE DEF objs, r
  <1> QED BY <1>9, <1>10 DEF r

\* atom() extends the heap by good objects, and its pointer is a value.
LEMMA AtomMade ==
  ASSUME NEW pg \in Program, NEW v, NEW m, NEW X, HeapOK(pg, v.space, m, X), NEW e, NEW env, NEW s,
         <<e, s>> \in Code[pg], AtomReady(pg, v, m, e, env, s)
  PROVE  LET r == Atom(v, m, e, env)
         IN  /\ HeapOK(pg, v.space, r.mem, X) /\ Extends(m, r.mem) /\ Later(m, r.mem)
             /\ BlackHoles(r.mem) = BlackHoles(m)
             /\ Value(v.space, r.mem, r.p)
  <1> DEFINE r == Atom(v, m, e, env)
  <1>1. IsList(m) /\ Len(m) \in Nat /\ DOMAIN m = 1 .. Len(m)
    BY ListFacts DEF HeapOK
  <1>2. PICK objs : /\ r.mem = m \o objs /\ IsList(objs)
                    /\ \A M : IsList(M) /\ Later(m, M) =>
                                 Makes(pg, v.space, M, Len(m), [objs |-> objs, p |-> r.p])
    BY <1>1, AtomLevelsMade
  <1> DEFINE M == m \o objs
  <1> HIDE DEF r
  <1>3. /\ IsList(M) /\ Len(M) = Len(m) + Len(objs) /\ DOMAIN M = 1 .. Len(m) + Len(objs)
        /\ \A i \in 1 .. Len(m) : M[i] = m[i]
        /\ \A i \in 1 .. Len(objs) : M[Len(m) + i] = objs[i]
    BY <1>1, <1>2, ListConcat
  <1>l. Len(objs) \in Nat
    BY <1>2, ListFacts
  <1> HIDE DEF M
  <1>4. Extends(m, M)
    BY <1>1, <1>3, <1>l DEF Extends
  <1>5. Later(m, M)
    BY <1>4, ExtendsLater
  <1>6. Makes(pg, v.space, M, Len(m), [objs |-> objs, p |-> r.p])
    BY <1>2, <1>3, <1>5
  <1>7. Placed(M, Len(m), objs)
    BY <1>1, <1>3, <1>l DEF Placed
  <1>8. New(pg, v.space, M, objs) /\ Value(v.space, M, r.p)
    BY <1>6, <1>7 DEF Makes
  <1>9. /\ HeapOK(pg, v.space, M, X) /\ BlackHoles(M) = BlackHoles(m)
    BY <1>2, <1>8, HeapExtended DEF New, M
  <1> QED BY <1>2, <1>4, <1>5, <1>8, <1>9 DEF M, r

\* In a machine, an atom that is in the scope of the environment can be made.
LEMMA VarReady ==
  ASSUME NEW pg \in Program, NEW v, MachineOK(pg, v), NEW a, NEW s, <<a, s>> \in Code[pg],
         EnvFits(v.space, v.mem, v.env, s)
  PROVE  Ready(pg, v, v.mem, a, v.env, s)
  <1>1. Scoped(pg, a, s) /\ s \in Seq(Nat)
    BY CodeFacts
  <1>2. /\ HeapOK(pg, v.space, v.mem, {})
        /\ v.env = Null \/ IsEnv(v.space, v.mem, v.env)
        /\ DOMAIN v.globals = DOMAIN pg.globals
        /\ \A i \in DOMAIN v.globals : Value(v.space, v.mem, v.globals[i])
    BY DEF MachineOK, HeapOK, Shape
  <1>3. a.k = "VAR" => Value(v.space, v.mem, Lookup(v.mem, a, v.env))
    <2>1. a.k = "VAR" => InScope(a, s)
      BY <1>1 DEF Scoped, InScope
    <2> QED BY <1>1, <1>2, <2>1, LookupValue
  <1>4. a.k = "GLOBAL" => Value(v.space, v.mem, v.globals[a.g])
    BY <1>1, <1>2 DEF Scoped
  <1> QED BY <1>2, <1>3, <1>4 DEF Ready, MachineOK

\* What EVAL makes of an atom in its own environment.
LEMMA MachineAtom ==
  ASSUME NEW pg \in Program, NEW v, MachineOK(pg, v), NEW e, Fits(pg, v.space, v.mem, e, v.env)
  PROVE  LET r == Atom(v, v.mem, e, v.env)
         IN  /\ HeapOK(pg, v.space, r.mem, {}) /\ Extends(v.mem, r.mem) /\ Later(v.mem, r.mem)
             /\ BlackHoles(r.mem) = BlackHoles(v.mem)
             /\ Value(v.space, r.mem, r.p)
  <1>1. PICK c \in Code[pg] : c[1] = e /\ EnvFits(v.space, v.mem, v.env, c[2])
    BY DEF Fits
  <1>2. <<e, c[2]>> \in Code[pg]
    BY <1>1, CodeFacts
  <1>3. \A a \in Parts(e) : <<a, c[2]>> \in Code[pg]
    BY <1>2, AtomLevels
  <1>4. AtomReady(pg, v, v.mem, e, v.env, c[2])
    BY <1>1, <1>3, VarReady DEF AtomReady
  <1>5. HeapOK(pg, v.space, v.mem, {})
    BY DEF MachineOK, HeapOK, Shape
  <1> QED BY <1>2, <1>4, <1>5, AtomMade

-----------------------------------------------------------------------------
(* Let groups.                                                             *)

\* The heap h, when the first i binders of a group of n are there; its frame is
\* the object behind those of v.
GroupOK(pg, v, n, i, h) ==
    LET f == Len(v.mem) + 1
    IN  /\ HeapOK(pg, v.space, h, {f}) /\ Extends(v.mem, h) /\ BlackHoles(h) = BlackHoles(v.mem)
        /\ f \in DOMAIN h /\ h[f] = Thing("ENV", <<>>, h[f].ptr)
        /\ IsList(h[f].ptr) /\ Len(h[f].ptr) = 1 + n /\ h[f].ptr[1] = v.env
        /\ \A k \in 1 .. i : Value(v.space, h, h[f].ptr[1 + k])

\* In the frame of a let group a binder finds its scope.
LEMMA GroupScope ==
  ASSUME NEW pg \in Program, NEW v, MachineOK(pg, v), NEW s \in Seq(Nat),
         EnvFits(v.space, v.mem, v.env, s), NEW n \in Nat, NEW i, NEW h, GroupOK(pg, v, n, i, h)
  PROVE  LET p == NewPtr(v, v.mem)
         IN  /\ IsEnv(v.space, h, p) /\ EnvFits(v.space, h, p, <<n>> \o s)
             /\ \A k \in 0 .. Len(s) : FrameOut(h, p, k + 1) = FrameOut(v.mem, v.env, k)
  <1> DEFINE p == NewPtr(v, v.mem)
             f == Len(v.mem) + 1
  <1>1. /\ f \in DOMAIN h /\ h[f] = Thing("ENV", <<>>, h[f].ptr)
        /\ IsList(h[f].ptr) /\ Len(h[f].ptr) = 1 + n /\ h[f].ptr[1] = v.env /\ Extends(v.mem, h)
    BY DEF GroupOK
  <1>2. p = <<v.space, p[2]>> /\ p[2] = f
    BY DEF NewPtr
  <1> HIDE DEF p, f
  <1>3. IsEnv(v.space, h, p)
    BY <1>1, <1>2 DEF IsEnv, At, Thing
  <1>4. Later(v.mem, h) /\ Len(s) \in Nat
    BY <1>1, ExtendsLater, LenProperties
  <1>5. /\ EnvFits(v.space, h, v.env, s)
        /\ \A k \in 0 .. Len(s) : FrameOut(h, v.env, k) = FrameOut(v.mem, v.env, k)
    BY <1>4, EnvFitsLater
  <1>6. EnvFits(v.space, h, p, <<n>> \o s)
    BY <1>1, <1>2, <1>3, <1>5, EnvFitsPush
  <1>7. ASSUME NEW k \in 0 .. Len(s) PROVE FrameOut(h, p, k + 1) = FrameOut(v.mem, v.env, k)
    <2>1. k \in Nat
      BY <1>4
    <2>2. FrameOut(h, p, k + 1) = FrameOut(h, h[p[2]].ptr[1], k)
      BY <2>1, FrameOutShift
    <2> QED BY <1>1, <1>2, <1>5, <2>2
  <1> QED BY <1>3, <1>6, <1>7 DEF p

\* A binder that does not read its own group can be made.
LEMMA BinderReady ==
  ASSUME NEW pg \in Program, NEW v, MachineOK(pg, v), NEW s \in Seq(Nat),
         EnvFits(v.space, v.mem, v.env, s), NEW n \in Nat, NEW i, NEW h, GroupOK(pg, v, n, i, h),
         NEW a, <<a, <<n>> \o s>> \in Code[pg], ~ (a.k = "VAR" /\ a.up = 0)
  PROVE  Ready(pg, v, h, a, NewPtr(v, v.mem), <<n>> \o s)
  <1> DEFINE p == NewPtr(v, v.mem)
             t == <<n>> \o s
             m == v.mem
             sp == v.space
  <1>1. Scoped(pg, a, t)
    BY CodeFacts
  <1>2. /\ IsEnv(sp, h, p) /\ EnvFits(sp, h, p, t)
        /\ \A k \in 0 .. Len(s) : FrameOut(h, p, k + 1) = FrameOut(m, v.env, k)
    BY GroupScope
  <1>3. Extends(m, h) /\ Later(m, h)
    BY ExtendsLater DEF GroupOK
  <1>4. a.k = "GLOBAL" => Value(sp, h, v.globals[a.g])
    <2>1. a.k = "GLOBAL" => Value(sp, m, v.globals[a.g])
      BY <1>1 DEF Scoped, MachineOK
    <2> QED BY <1>3, <2>1, ValueLater
  <1>5. ASSUME a.k = "VAR" PROVE Value(sp, h, Lookup(h, a, p))
    <2>1. a.up \in 0 .. Len(t) - 1 /\ a.slot \in 1 .. t[a.up + 1] /\ a.up # 0
      BY <1>1, <1>5 DEF Scoped
    <2>2. Len(t) = Len(s) + 1 /\ Len(s) \in Nat /\ \A k \in 2 .. Len(s) + 1 : t[k] = s[k - 1]
      BY ConcatProperties
    <2> DEFINE u == a.up
               k == u - 1
               e == [up |-> k, slot |-> a.slot]
               q == FrameOut(m, v.env, k)
    <2>u. u \in 0 .. Len(t) - 1 /\ u # 0 /\ a.slot \in 1 .. t[u + 1]
      BY <2>1
    <2> HIDE DEF u, t
    <2>3. k \in 0 .. Len(s) - 1 /\ k \in 0 .. Len(s) /\ k + 1 = u /\ u + 1 \in 2 .. Len(s) + 1 /\ (u + 1) - 1 = k + 1
      BY <2>2, <2>u
    <2>4. e.up = k /\ e.slot = a.slot /\ e.slot \in 1 .. s[k + 1]
      BY <2>2, <2>3, <2>u
    <2>5. HeapOK(pg, sp, m, {})
      BY DEF MachineOK, HeapOK, Shape
    <2> HIDE DEF e, k
    <2>6. IsEnv(sp, m, q) /\ Value(sp, m, m[q[2]].ptr[1 + a.slot])
      <3>1. InScope(e, s)
        BY <2>3, <2>4 DEF InScope
      <3>2. LET r == FrameOut(m, v.env, e.up)
            IN  /\ IsEnv(sp, m, r)
                /\ Value(sp, m, Lookup(m, e, v.env)) /\ Lookup(m, e, v.env) = m[r[2]].ptr[1 + e.slot]
        BY <2>5, <3>1, LookupValue
      <3> QED BY <2>4, <3>2
    <2>7. FrameOut(h, p, u) = q
      BY <1>2, <2>3
    <2>8. Lookup(h, a, p) = h[q[2]].ptr[1 + a.slot]
      BY <2>7 DEF Lookup, u
    <2>9. h[q[2]] = m[q[2]]
      BY <1>3, <2>6 DEF IsEnv, At, Extends
    <2> QED BY <1>3, <2>6, <2>8, <2>9, ValueLater
  <1> QED BY <1>2, <1>4, <1>5 DEF Ready

NextBinder(v, binds, i, before) ==
    LET b == BindAtom(v, before, binds[i], NewPtr(v, v.mem))
    IN  [b.mem EXCEPT ![Len(v.mem) + 1].ptr[1 + i] = b.p]

GroupLoop(v, binds, n, f) ==
    /\ f[0] = Append(v.mem, GroupFrame(v, binds))
    /\ \A i \in 1 .. n : f[i] = NextBinder(v, binds, i, f[i - 1])
    /\ Group(v, binds, n) = f[n]

\* A let group, binder by binder.
LEMMA GroupSteps ==
  ASSUME NEW v, NEW binds, NEW n \in Nat
  PROVE  \E f : GroupLoop(v, binds, n, f)
  <1> DEFINE x0 == Append(v.mem, GroupFrame(v, binds))
             Step(i, x) == NextBinder(v, binds, i, x)
             Is(f, d) == f = [i \in 0 .. d |-> IF i = 0 THEN x0 ELSE Step(i, f[i - 1])]
             F == CHOOSE f : Is(f, n)
             S == {k \in Nat : \E f : Is(f, k)}
  <1>0. Group(v, binds, n) = F[n]
    BY DEF Group, NextBinder
  <1>s. \A i, x : Step(i, x) = NextBinder(v, binds, i, x)
    OBVIOUS
  <1>x. x0 = Append(v.mem, GroupFrame(v, binds))
    OBVIOUS
  <1> HIDE DEF Step, x0
  <1>1. 0 \in S
    <2>1. Is([i \in 0 .. 0 |-> x0], 0)
      OBVIOUS
    <2> QED BY <2>1
  <1>2. ASSUME NEW k \in Nat, k \in S PROVE k + 1 \in S
    <2>1. PICK f : Is(f, k)
      BY <1>2
    <2> DEFINE g == [i \in 0 .. k + 1 |-> IF i = k + 1 THEN Step(k + 1, f[k]) ELSE f[i]]
    <2>2. \A i \in 0 .. k : g[i] = f[i] /\ f[i] = IF i = 0 THEN x0 ELSE Step(i, f[i - 1])
      BY <2>1
    <2>3. g[k + 1] = Step(k + 1, g[k])
      BY <2>2
    <2>4. g = [i \in 0 .. k + 1 |-> g[i]]
      OBVIOUS
    <2> HIDE DEF g
    <2>5. ASSUME NEW i \in 0 .. k + 1 PROVE g[i] = IF i = 0 THEN x0 ELSE Step(i, g[i - 1])
      <3>1. CASE i = k + 1
        <4>1. i # 0 /\ i - 1 = k
          BY <3>1
        <4> QED BY <2>3, <3>1, <4>1
      <3>2. CASE i \in 0 .. k
        <4>1. i # 0 => i - 1 \in 0 .. k
          BY <3>2
        <4> QED BY <2>2, <3>2, <4>1
      <3> QED BY <3>1, <3>2
    <2>6. Is(g, k + 1)
      BY <2>4, <2>5
    <2> QED BY <2>6
  <1>3. n \in S
    <2> HIDE DEF S
    <2>1. n \in Nat
      OBVIOUS
    <2> QED BY <1>1, <1>2, <2>1, SetInduction
  <1>4. Is(F, n)
    BY <1>3
  <1> HIDE DEF F
  <1>5. F[0] = x0 /\ \A i \in 1 .. n : F[i] = Step(i, F[i - 1])
    <2>1. n \in Nat
      OBVIOUS
    <2> QED BY <1>4, <2>1
  <1> QED BY <1>0, <1>5, <1>s, <1>x DEF GroupLoop

\* The frame starts empty; a binder is built and stored in it.
LEMMA GroupStarts ==
  ASSUME NEW pg \in Program, NEW v, MachineOK(pg, v), NEW binds, IsList(binds)
  PROVE  GroupOK(pg, v, Len(binds), 0, Append(v.mem, GroupFrame(v, binds)))
  <1> DEFINE n == Len(binds)
             m == v.mem
             f == Len(m) + 1
             o == GroupFrame(v, binds)
             h == Append(m, o)
             z == [i \in DOMAIN binds |-> Null]
  <1>1. n \in Nat /\ DOMAIN binds = 1 .. n
    BY ListFacts
  <1>2. z = [i \in 1 .. n |-> z[i]]
    BY <1>1
  <1>3. o = Thing("ENV", <<>>, <<v.env>> \o z)
    BY DEF GroupFrame
  <1> HIDE DEF z, n, o
  <1>4. IsList(z) /\ Len(z) = n
    BY <1>1, <1>2, ListOf
  <1>5. IsList(<<v.env>>) /\ Len(<<v.env>>) = 1 /\ <<v.env>>[1] = v.env
    <2>1. <<v.env>> \in Seq({v.env}) /\ Len(<<v.env>>) = 1 /\ <<v.env>>[1] = v.env
      OBVIOUS
    <2> QED BY <2>1, ListSeq
  <1>6. /\ IsList(<<v.env>> \o z) /\ Len(<<v.env>> \o z) = 1 + n
        /\ (<<v.env>> \o z)[1] = v.env
    <2> DEFINE s == <<v.env>>
    <2>1. IsList(s) /\ Len(s) = 1 /\ s[1] = v.env /\ 1 \in 1 .. 1
      BY <1>5
    <2> HIDE DEF s
    <2>2. /\ IsList(s \o z) /\ Len(s \o z) = Len(s) + Len(z)
          /\ \A i \in 1 .. Len(s) : (s \o z)[i] = s[i]
      BY <1>4, <2>1, ListConcat, ZenonT(30)
    <2>3. IsList(s \o z) /\ Len(s \o z) = 1 + n /\ (s \o z)[1] = v.env
      BY <1>4, <2>1, <2>2
    <2> QED BY <2>3 DEF s
  <1>7. IsList(m) /\ Len(m) \in Nat /\ DOMAIN m = 1 .. Len(m) /\ \A i \in DOMAIN m : Good(pg, v.space, m, m[i])
    BY ListFacts DEF MachineOK, Shape
  <1>8. /\ IsList(h) /\ DOMAIN h = 1 .. Len(m) + 1
        /\ \A i \in 1 .. Len(m) : h[i] = m[i]
        /\ h[f] = o
    BY <1>7, ListAppend
  <1> HIDE DEF h
  <1>9. f \in DOMAIN h /\ f \notin DOMAIN m /\ \A i \in DOMAIN h : i = f \/ i \in DOMAIN m
    BY <1>7, <1>8
  <1>10. Extends(m, h)
    BY <1>7, <1>8 DEF Extends
  <1>11. Later(m, h)
    BY <1>10, ExtendsLater
  <1>12. \A i \in DOMAIN h \ {f} : Good(pg, v.space, h, h[i])
    BY <1>7, <1>9, <1>10, <1>11, GoodLater DEF Extends
  <1>13. o.kind = "ENV" /\ o.ptr = <<v.env>> \o z /\ o = Thing("ENV", <<>>, o.ptr)
    BY <1>3 DEF Thing
  <1>14. BlackHoles(h) = BlackHoles(m)
    BY <1>8, <1>9, <1>10, <1>13 DEF BlackHoles, Extends
  <1> QED BY <1>6, <1>8, <1>9, <1>10, <1>12, <1>13, <1>14 DEF GroupOK, HeapOK, h, n, o

LEMMA BinderBuilt ==
  ASSUME NEW pg \in Program, NEW v, MachineOK(pg, v), NEW s \in Seq(Nat),
         EnvFits(v.space, v.mem, v.env, s), NEW n \in Nat, NEW i, NEW h, GroupOK(pg, v, n, i, h),
         NEW e, <<e, <<n>> \o s>> \in Code[pg]
  PROVE  LET b == BindAtom(v, h, e, NewPtr(v, v.mem))
         IN  /\ HeapOK(pg, v.space, b.mem, {Len(v.mem) + 1}) /\ Extends(h, b.mem)
             /\ BlackHoles(b.mem) = BlackHoles(h) /\ Value(v.space, b.mem, b.p)
  <1> DEFINE p == NewPtr(v, v.mem)
             t == <<n>> \o s
             X == {Len(v.mem) + 1}
             b == BindAtom(v, h, e, p)
             o == Thing("THUNK", e, <<p>>)
  <1>1. HeapOK(pg, v.space, h, X)
    BY DEF GroupOK
  <1>2. IsEnv(v.space, h, p) /\ EnvFits(v.space, h, p, t)
    BY GroupScope
  <1>3. \A a \in Parts(e) : <<a, t>> \in Code[pg]
    BY AtomLevels
  <1>4. CASE ReadsOwnFrame(e)
    <2>1. b.mem = Append(h, o) /\ b.p = <<v.space, Len(h) + 1>>
      BY <1>4 DEF BindAtom, NewPtr
    <2>2. <<p>> \in Seq({p}) /\ Len(<<p>>) = 1 /\ <<p>>[1] = p
      OBVIOUS
    <2>3. IsList(<<p>>)
      BY <2>2, ListSeq
    <2> HIDE DEF p, t, X
    <2>4. Fits(pg, v.space, h, e, p)
      BY <1>2 DEF Fits, t
    <2>5. Good(pg, v.space, h, o) /\ o.kind = "THUNK"
      BY <2>2, <2>3, <2>4 DEF Good, Thing
    <2> HIDE DEF o, b
    <2>6. LET q == <<v.space, Len(h) + 1>>
          IN  /\ HeapOK(pg, v.space, Append(h, o), X) /\ Extends(h, Append(h, o))
              /\ BlackHoles(Append(h, o)) = BlackHoles(h) /\ Value(v.space, Append(h, o), q)
      BY <1>1, <2>5, HeapAppended
    <2> QED BY <2>1, <2>6 DEF b, X, p
  <1>5. CASE ~ ReadsOwnFrame(e)
    <2>1. b = Atom(v, h, e, p)
      BY <1>5 DEF BindAtom
    <2>2. \A a \in Parts(e) : ~ (a.k = "VAR" /\ a.up = 0)
      BY <1>5 DEF ReadsOwnFrame
    <2>3. AtomReady(pg, v, h, e, p, t)
      BY <1>3, <2>2, BinderReady DEF AtomReady
    <2> HIDE DEF p, t, X, b
    <2>4. <<e, t>> \in Code[pg]
      BY DEF t
    <2>5. LET r == Atom(v, h, e, p)
          IN  /\ HeapOK(pg, v.space, r.mem, X) /\ Extends(h, r.mem) /\ Later(h, r.mem)
              /\ BlackHoles(r.mem) = BlackHoles(h)
              /\ Value(v.space, r.mem, r.p)
      BY <1>1, <2>3, <2>4, AtomMade
    <2> QED BY <2>1, <2>5 DEF b, X, p
  <1> QED BY <1>4, <1>5

LEMMA BinderStored ==
  ASSUME NEW pg \in Program, NEW v, MachineOK(pg, v), NEW s \in Seq(Nat),
         EnvFits(v.space, v.mem, v.env, s), NEW binds, NEW n \in Nat, NEW i \in 1 .. n,
         NEW h, GroupOK(pg, v, n, i - 1, h), <<binds[i], <<n>> \o s>> \in Code[pg]
  PROVE  GroupOK(pg, v, n, i, NextBinder(v, binds, i, h))
  <1> DEFINE b == BindAtom(v, h, binds[i], NewPtr(v, v.mem))
             f == Len(v.mem) + 1
             sp == v.space
             u == b.mem
             o == [u[f] EXCEPT !.ptr[1 + i] = b.p]
             g == [u EXCEPT ![f] = o]
  <1>1. /\ HeapOK(pg, sp, u, {f}) /\ Extends(h, u)
        /\ BlackHoles(u) = BlackHoles(h) /\ Value(sp, u, b.p)
    BY BinderBuilt
  <1>2. /\ Extends(v.mem, h) /\ BlackHoles(h) = BlackHoles(v.mem)
        /\ f \in DOMAIN h /\ h[f] = Thing("ENV", <<>>, h[f].ptr)
        /\ IsList(h[f].ptr) /\ Len(h[f].ptr) = 1 + n /\ h[f].ptr[1] = v.env
        /\ \A k \in 1 .. i - 1 : Value(sp, h, h[f].ptr[1 + k])
    BY DEF GroupOK
  <1>3. NextBinder(v, binds, i, h) = g
    BY DEF NextBinder
  <1>f. f \notin DOMAIN v.mem
    BY ListFacts DEF MachineOK, Shape
  <1> DEFINE q == b.p
  <1> HIDE DEF b, f, q
  <1>4. f \in DOMAIN u /\ u[f] = h[f]
    BY <1>1, <1>2 DEF Extends
  <1> DEFINE s0 == h[f].ptr
             s1 == [s0 EXCEPT ![1 + i] = q]
  <1>5. u[f] = [kind |-> "ENV", code |-> <<>>, ptr |-> s0]
    BY <1>2, <1>4 DEF Thing
  <1>6. o = [kind |-> "ENV", code |-> <<>>, ptr |-> s1]
    <2>1. o = [u[f] EXCEPT !.ptr = s1]
      BY <1>5 DEF q
    <2> HIDE DEF s1, o
    <2> QED BY <1>5, <2>1
  <1>7. 1 + i \in DOMAIN s0 /\ 1 \in DOMAIN s0 /\ 1 # 1 + i /\ IsList(s0)
    <2>1. DOMAIN s0 = 1 .. 1 + n /\ IsList(s0)
      BY <1>2, ListFacts
    <2> QED BY <2>1
  <1> HIDE DEF s0
  <1>8. /\ IsList(s1) /\ Len(s1) = Len(s0) /\ s1[1 + i] = q
        /\ \A k \in DOMAIN s0 : k # 1 + i => s1[k] = s0[k]
    BY <1>7, ListExcept
  <1> HIDE DEF s1, o
  <1>9. Evolves(u[f], o)
    BY <1>5, <1>6, <1>7, <1>8 DEF Evolves
  <1>10. /\ HeapOK(pg, sp, g, {f}) /\ Later(u, g) /\ DOMAIN g = DOMAIN u
         /\ g[f] = o /\ \A k \in DOMAIN u : k # f => g[k] = u[k]
    BY <1>1, <1>4, <1>9, HeapStored
  <1> HIDE DEF g
  <1>11. Extends(v.mem, g)
    BY <1>1, <1>2, <1>f, <1>10 DEF Extends
  <1>12. BlackHoles(g) = BlackHoles(v.mem)
    BY <1>1, <1>2, <1>4, <1>5, <1>6, <1>10 DEF BlackHoles
  <1>13. Later(h, u)
    BY <1>1, ExtendsLater
  <1>14. ASSUME NEW k \in 1 .. i PROVE Value(sp, g, s1[1 + k])
    <2>1. CASE k = i
      BY <2>1, <1>1, <1>8, <1>10, ValueLater DEF q
    <2>2. CASE k # i
      <3>1. k \in 1 .. i - 1 /\ 1 + k # 1 + i /\ 1 + k \in 1 .. 1 + n
        BY <2>2
      <3>2. Value(sp, h, s0[1 + k])
        BY <1>2, <3>1 DEF s0
      <3>3. 1 + k \in DOMAIN s0
        BY <1>2, <1>7, <3>1, ListFacts DEF s0
      <3>4. s1[1 + k] = s0[1 + k]
        BY <1>8, <3>1, <3>3
      <3> QED BY <1>10, <1>13, <3>2, <3>4, ValueLater
    <2> QED BY <2>1, <2>2
  <1>15. g[f].ptr = s1 /\ g[f] = Thing("ENV", <<>>, g[f].ptr)
    BY <1>6, <1>10 DEF Thing
  <1>16. f \in DOMAIN g /\ Len(s1) = 1 + n /\ s1[1] = v.env
    <2>1. Len(s0) = 1 + n /\ s0[1] = v.env
      BY <1>2 DEF s0
    <2> QED BY <2>1, <1>4, <1>7, <1>8, <1>10
  <1>17. GroupOK(pg, v, n, i, g)
    BY <1>8, <1>10, <1>11, <1>12, <1>14, <1>15, <1>16 DEF GroupOK, f
  <1> QED BY <1>3, <1>17

\* A let group extends the heap by its frame and its binders, and the frame is
\* the environment of its scope.
LEMMA GroupMade ==
  ASSUME NEW pg \in Program, NEW v, MachineOK(pg, v), NEW s \in Seq(Nat),
         EnvFits(v.space, v.mem, v.env, s), NEW binds, IsList(binds),
         \A i \in DOMAIN binds : <<binds[i], <<Len(binds)>> \o s>> \in Code[pg]
  PROVE  LET h == Group(v, binds, Len(binds))
             p == NewPtr(v, v.mem)
         IN  /\ HeapOK(pg, v.space, h, {}) /\ Extends(v.mem, h) /\ BlackHoles(h) = BlackHoles(v.mem)
             /\ IsEnv(v.space, h, p) /\ EnvFits(v.space, h, p, <<Len(binds)>> \o s)
  <1> DEFINE n == Len(binds)
             f == Len(v.mem) + 1
  <1>1. n \in Nat /\ DOMAIN binds = 1 .. n
    BY ListFacts
  <1>2. PICK g : GroupLoop(v, binds, n, g)
    BY <1>1, GroupSteps
  <1>3. /\ g[0] = Append(v.mem, GroupFrame(v, binds))
        /\ \A i \in 1 .. n : g[i] = NextBinder(v, binds, i, g[i - 1])
        /\ Group(v, binds, n) = g[n]
    BY <1>2 DEF GroupLoop
  <1>4. GroupOK(pg, v, n, 0, g[0])
    BY <1>3, GroupStarts
  <1>5. \A i \in 1 .. n : <<binds[i], <<n>> \o s>> \in Code[pg]
    BY <1>1
  <1> HIDE DEF n
  <1>6. ASSUME NEW i \in 1 .. n, GroupOK(pg, v, n, i - 1, g[i - 1]) PROVE GroupOK(pg, v, n, i, g[i])
    <2>1. g[i] = NextBinder(v, binds, i, g[i - 1])
      BY <1>3
    <2> QED BY <1>1, <1>5, <1>6, <2>1, BinderStored
  <1>m. \A i \in 1 .. n : GroupOK(pg, v, n, i - 1, g[i - 1]) => GroupOK(pg, v, n, i, g[i])
    BY <1>6
  <1> DEFINE T == {i \in Nat : i <= n => GroupOK(pg, v, n, i, g[i])}
  <1>7. 0 \in T
    BY <1>4
  <1>8. ASSUME NEW i \in Nat, i \in T PROVE i + 1 \in T
    <2>1. i + 1 <= n => i + 1 \in 1 .. n /\ (i + 1) - 1 = i /\ i <= n
      BY <1>1
    <2> QED BY <2>1, <1>m, <1>8
  <1>9. \A i \in Nat : i \in T
    <2> HIDE DEF T
    <2> QED BY <1>7, <1>8, SetInduction
  <1> DEFINE h == g[n]
             p == NewPtr(v, v.mem)
  <1>10. GroupOK(pg, v, n, n, h)
    BY <1>1, <1>9
  <1> HIDE DEF h
  <1>11. IsEnv(v.space, h, p) /\ EnvFits(v.space, h, p, <<n>> \o s)
    BY <1>1, <1>10, GroupScope
  <1>12. /\ HeapOK(pg, v.space, h, {f}) /\ Extends(v.mem, h) /\ BlackHoles(h) = BlackHoles(v.mem)
         /\ f \in DOMAIN h /\ h[f] = Thing("ENV", <<>>, h[f].ptr)
         /\ IsList(h[f].ptr) /\ Len(h[f].ptr) = 1 + n /\ h[f].ptr[1] = v.env
         /\ \A k \in 1 .. n : Value(v.space, h, h[f].ptr[1 + k])
    BY <1>10 DEF GroupOK
  <1> HIDE DEF f
  <1>13. Values(v.space, h, h[f].ptr, 2)
    <2>1. ASSUME NEW j \in 2 .. Len(h[f].ptr) PROVE Value(v.space, h, h[f].ptr[j])
      <3>1. j - 1 \in 1 .. n /\ 1 + (j - 1) = j
        BY <1>1, <1>12
      <3> QED BY <1>12, <3>1
    <2> QED BY <2>1 DEF Values
  <1>14. v.env = Null \/ IsEnv(v.space, h, v.env)
    <2>1. v.env = Null \/ IsEnv(v.space, v.mem, v.env)
      BY DEF MachineOK
    <2> QED BY <2>1, <1>12, ExtendsLater, ValueLater
  <1>15. Good(pg, v.space, h, h[f])
    <2>1. /\ h[f].kind = "ENV" /\ h[f] = Thing(h[f].kind, h[f].code, h[f].ptr)
      BY <1>12 DEF Thing
    <2>2. Len(h[f].ptr) >= 1
      BY <1>1, <1>12
    <2> QED BY <1>12, <1>13, <1>14, <2>1, <2>2 DEF Good
  <1>16. HeapOK(pg, v.space, h, {})
    BY <1>12, <1>15 DEF HeapOK
  <1> QED BY <1>3, <1>11, <1>12, <1>16 DEF h, n

-----------------------------------------------------------------------------
(* Stacks.                                                                 *)

\* u is s from the (k + 1)-th frame on replaced.
Edits(s, u, k) ==
    /\ IsList(u) /\ k \in 0 .. Len(s) /\ k <= Len(u)
    /\ \A i \in 1 .. k : u[i] = s[i]

\* Neither the frames that went nor those that came are about thunks or runs.
Quiet(s, u, k) ==
    /\ Edits(s, u, k)
    /\ \A i \in k + 1 .. Len(s) : s[i].kind \notin {"UPDATE", "STOP"}
    /\ \A i \in k + 1 .. Len(u) : u[i].kind \notin {"UPDATE", "STOP"}

\* A stack that stays, loses quiet frames or gets one is quietly changed.
LEMMA QuietSame ==
  ASSUME NEW s, IsList(s)
  PROVE  Quiet(s, s, Len(s))
  <1>1. Len(s) \in Nat /\ Len(s) + 1 .. Len(s) = {}
    <2>1. Len(s) \in Nat
      BY ListFacts
    <2> QED BY <2>1
  <1> QED BY <1>1 DEF Quiet, Edits

LEMMA QuietPop ==
  ASSUME NEW s, IsList(s), NEW n \in 0 .. Len(s),
         \A i \in Len(s) - n + 1 .. Len(s) : s[i].kind \notin {"UPDATE", "STOP"}
  PROVE  Quiet(s, Pop(s, n), Len(s) - n) /\ Len(Pop(s, n)) = Len(s) - n
  <1> DEFINE k == Len(s) - n
             u == SubSeq(s, 1, k)
  <1>1. Len(s) \in Nat /\ k \in 0 .. Len(s)
    <2>1. Len(s) \in Nat
      BY ListFacts
    <2> QED BY <2>1
  <1>2. \A i \in k + 1 .. Len(s) : s[i].kind \notin {"UPDATE", "STOP"}
    OBVIOUS
  <1>3. Pop(s, n) = u
    BY DEF Pop
  <1> HIDE DEF k
  <1>4. IsList(u) /\ Len(u) = k /\ \A i \in 1 .. k : u[i] = s[i]
    BY <1>1, ListPrefix
  <1> HIDE DEF u
  <1>5. k + 1 .. k = {}
    BY <1>1
  <1> QED BY <1>1, <1>2, <1>3, <1>4, <1>5 DEF Quiet, Edits, k

LEMMA QuietAppend ==
  ASSUME NEW s, IsList(s), NEW u, NEW k, Quiet(s, u, k), NEW f, f.kind \notin {"UPDATE", "STOP"}
  PROVE  Quiet(s, Append(u, f), k) /\ Len(Append(u, f)) = Len(u) + 1 /\ Append(u, f)[Len(u) + 1] = f
         /\ \A i \in 1 .. Len(u) : Append(u, f)[i] = u[i]
  <1> DEFINE t == Append(u, f)
  <1>1. Len(s) \in Nat /\ IsList(u) /\ Len(u) \in Nat /\ k \in 0 .. Len(s) /\ k <= Len(u)
    BY ListFacts DEF Quiet, Edits
  <1>2. /\ IsList(t) /\ Len(t) = Len(u) + 1 /\ t[Len(u) + 1] = f
        /\ \A i \in 1 .. Len(u) : t[i] = u[i]
    BY <1>1, ListAppend
  <1> HIDE DEF t
  <1>3. \A i \in 1 .. k : i \in 1 .. Len(u)
    BY <1>1
  <1>4. \A i \in k + 1 .. Len(t) : i = Len(u) + 1 \/ (i \in k + 1 .. Len(u) /\ i \in 1 .. Len(u))
    BY <1>1, <1>2
  <1>5. \A i \in k + 1 .. Len(t) : t[i].kind \notin {"UPDATE", "STOP"}
    BY <1>2, <1>4 DEF Quiet
  <1>6. k <= Len(t)
    BY <1>1, <1>2
  <1> QED BY <1>1, <1>2, <1>3, <1>5, <1>6 DEF Quiet, Edits, t

\* The frame on top of a stack.
LEMMA TopFrame ==
  ASSUME NEW s, IsList(s), s # <<>>
  PROVE  /\ Len(s) \in Nat /\ Len(s) >= 1 /\ Len(s) \in DOMAIN s /\ Top(s) = s[Len(s)]
         /\ 1 \in 0 .. Len(s) /\ Len(s) - 1 + 1 .. Len(s) = {Len(s)} /\ Len(s) - 1 \in 0 .. Len(s)
         /\ DOMAIN s = 1 .. Len(s)
  <1>1. s \in Seq(ToSet(s))
    BY DEF IsList
  <1>2. Len(s) \in Nat /\ Len(s) # 0 /\ DOMAIN s = 1 .. Len(s)
    BY <1>1
  <1> QED BY <1>2 DEF Top

-----------------------------------------------------------------------------
(* Steps of the machine.                                                   *)

\* The registers and registered locals of v in the heap m.
Registers(v, m) ==
    /\ v.env = Null \/ IsEnv(v.space, m, v.env)
    /\ Maybe(v.space, m, v.val) /\ Maybe(v.space, m, v.exc)
    /\ IsList(v.roots) /\ \A i \in DOMAIN v.roots : Maybe(v.space, m, v.roots[i])

IsMachine(v, u) ==
    u = [space |-> v.space, mem |-> u.mem, globals |-> v.globals, stack |-> u.stack,
         env |-> u.env, val |-> u.val, exc |-> u.exc, roots |-> u.roots]

\* What MachineOK says, part by part.
LEMMA MachineParts ==
  ASSUME NEW pg \in Program, NEW v, MachineOK(pg, v)
  PROVE  /\ Shape(v) /\ v.space \in Spaces
         /\ IsList(v.mem) /\ IsList(v.stack) /\ IsList(v.roots) /\ IsList(v.globals)
         /\ IsMachine(v, v) /\ HeapOK(pg, v.space, v.mem, {}) /\ Later(v.mem, v.mem) /\ Extends(v.mem, v.mem)
         /\ \A i \in DOMAIN v.stack : FrameOK(pg, v.space, v.mem, v.stack[i])
         /\ Registers(v, v.mem)
         /\ DOMAIN v.globals = DOMAIN pg.globals
         /\ \A i \in DOMAIN v.globals : Value(v.space, v.mem, v.globals[i])
  BY LaterReflexive DEF MachineOK, Shape, HeapOK, Registers, IsMachine, Extends

\* The registers hold what they held in a later heap.
LEMMA RegistersLater ==
  ASSUME NEW v, NEW m, NEW n, Later(m, n), Registers(v, m)
  PROVE  Registers(v, n)
  BY ValueLater DEF Registers

\* What has to be shown of the machine after a step.
LEMMA NextMachine ==
  ASSUME NEW pg \in Program, NEW v, MachineOK(pg, v), NEW u, IsMachine(v, u),
         HeapOK(pg, v.space, u.mem, {}), Later(v.mem, u.mem), Registers(u, u.mem),
         NEW k, Edits(v.stack, u.stack, k),
         \A i \in k + 1 .. Len(u.stack) : FrameOK(pg, v.space, u.mem, u.stack[i]),
         HolesMatch(v.space, u.mem, u.stack)
  PROVE  MachineOK(pg, u)
  <1>1. u.space = v.space /\ u.globals = v.globals
    BY DEF IsMachine
  <1>2. Shape(u)
    BY <1>1 DEF Shape, IsMachine, MachineOK, HeapOK, Registers, Edits
  <1>3. \A i \in DOMAIN u.mem : Good(pg, u.space, u.mem, u.mem[i])
    BY <1>1 DEF HeapOK
  <1>4. ASSUME NEW i \in DOMAIN u.stack PROVE FrameOK(pg, u.space, u.mem, u.stack[i])
    <2>1. /\ i \in 1 .. Len(u.stack) /\ Len(u.stack) \in Nat /\ k \in 0 .. Len(v.stack)
          /\ DOMAIN v.stack = 1 .. Len(v.stack) /\ Len(v.stack) \in Nat
      BY ListFacts DEF Edits, MachineOK, Shape
    <2>2. CASE i \in 1 .. k
      <3>1. u.stack[i] = v.stack[i] /\ i \in DOMAIN v.stack
        BY <2>1, <2>2 DEF Edits
      <3>2. FrameOK(pg, v.space, v.mem, v.stack[i])
        BY <3>1 DEF MachineOK
      <3> QED BY <1>1, <3>1, <3>2, FrameLater
    <2>3. CASE i \in k + 1 .. Len(u.stack)
      BY <1>1, <2>3
    <2> QED BY <2>1, <2>2, <2>3
  <1>5. \A i \in DOMAIN u.globals : Value(u.space, u.mem, u.globals[i])
    BY <1>1, ValueLater DEF MachineOK
  <1>6. DOMAIN u.globals = DOMAIN pg.globals
    BY <1>1 DEF MachineOK
  <1> QED BY <1>1, <1>2, <1>3, <1>4, <1>5, <1>6 DEF MachineOK, Registers

\* A quiet change of the stack leaves the update frames and their black holes,
LEMMA HolesStay ==
  ASSUME NEW pg \in Program, NEW v, MachineOK(pg, v), NEW m, BlackHoles(m) = BlackHoles(v.mem),
         NEW s, NEW k, Quiet(v.stack, s, k)
  PROVE  HolesMatch(v.space, m, s)
  <1>1. /\ IsList(v.stack) /\ Len(v.stack) \in Nat /\ DOMAIN v.stack = 1 .. Len(v.stack)
        /\ Len(s) \in Nat /\ DOMAIN s = 1 .. Len(s)
    BY ListFacts DEF MachineOK, Shape, Quiet, Edits
  <1>2. \A i \in DOMAIN s : i \in 1 .. k \/ i \in k + 1 .. Len(s)
    BY <1>1 DEF Quiet, Edits
  <1>3. \A i \in DOMAIN v.stack : i \in 1 .. k \/ i \in k + 1 .. Len(v.stack)
    BY <1>1 DEF Quiet, Edits
  <1>4. \A i \in 1 .. k : i \in DOMAIN s /\ i \in DOMAIN v.stack /\ s[i] = v.stack[i]
    BY <1>1 DEF Quiet, Edits
  <1>5. Updates(s) = Updates(v.stack) /\ \A i \in Updates(s) : s[i] = v.stack[i]
    BY <1>2, <1>3, <1>4 DEF Updates, Quiet
  <1>6. HolesMatch(v.space, v.mem, v.stack)
    BY DEF MachineOK
  <1>7. \A i : i \in DOMAIN m /\ m[i].kind = "BLACKHOLE" <=> i \in DOMAIN v.mem /\ v.mem[i].kind = "BLACKHOLE"
    <2>1. \A i : i \in BlackHoles(m) <=> i \in BlackHoles(v.mem)
      OBVIOUS
    <2> QED BY <2>1 DEF BlackHoles
  <1> QED BY <1>5, <1>6, <1>7 DEF HolesMatch

\* A step that leaves what is under evaluation and the runs alone.
LEMMA QuietMachine ==
  ASSUME NEW pg \in Program, NEW v, MachineOK(pg, v), NEW u, IsMachine(v, u),
         HeapOK(pg, v.space, u.mem, {}), Later(v.mem, u.mem), BlackHoles(u.mem) = BlackHoles(v.mem),
         Registers(u, u.mem), NEW k, Quiet(v.stack, u.stack, k),
         \A i \in k + 1 .. Len(u.stack) : FrameOK(pg, v.space, u.mem, u.stack[i])
  PROVE  MachineOK(pg, u)
  <1>1. HolesMatch(v.space, u.mem, u.stack)
    BY HolesStay
  <1>2. Edits(v.stack, u.stack, k)
    BY DEF Quiet
  <1> QED BY <1>1, <1>2, NextMachine

\* The runs keep their stop frames.
LEMMA RunsStay ==
  ASSUME NEW s, IsList(s), NEW u, IsList(u), NEW k \in 0 .. Len(s), k <= Len(u),
         \A i \in 1 .. k : u[i].kind = s[i].kind,
         \A i \in k + 1 .. Len(s) : s[i].kind # "STOP",
         \A i \in k + 1 .. Len(u) : u[i].kind # "STOP",
         NEW rs, NEW j, NEW n, RunsOK(s, rs, j, n)
  PROVE  RunsOK(u, rs, j, n)
  <1>1. /\ Len(s) \in Nat /\ DOMAIN s = 1 .. Len(s) /\ Len(u) \in Nat /\ DOMAIN u = 1 .. Len(u) /\ k \in Nat
    BY ListFacts
  <1>2. \A i : i \in 1 .. k => i \in DOMAIN s /\ i \in DOMAIN u
    BY <1>1
  <1>3. \A i \in DOMAIN s : i \in 1 .. k \/ i \in k + 1 .. Len(s)
    BY <1>1
  <1>4. \A i \in DOMAIN u : i \in 1 .. k \/ i \in k + 1 .. Len(u)
    BY <1>1
  <1>5. Stops(u) = Stops(s) /\ \A i \in Stops(s) : i \in 1 .. k
    BY <1>2, <1>3, <1>4 DEF Stops
  <1>6. Stops(s) = {rs[i].base + 1 : i \in DOMAIN rs} /\ \A i \in DOMAIN rs : RunOK(s, rs, i)
    BY DEF RunsOK
  <1>7. ASSUME NEW i \in DOMAIN rs PROVE RunOK(u, rs, i)
    <2>1. RunOK(s, rs, i)
      BY <1>6
    <2>2. rs[i].base + 1 \in 1 .. k
      BY <1>5, <1>6
    <2>3. rs[i].base \in DOMAIN s => rs[i].base \in DOMAIN u /\ u[rs[i].base].kind = s[rs[i].base].kind
      <3>1. rs[i].base \in DOMAIN s => rs[i].base \in 1 .. k
        BY <1>1, <2>2
      <3> QED BY <1>2, <3>1
    <2> QED BY <2>1, <2>3 DEF RunOK
  <1> QED BY <1>5, <1>6, <1>7 DEF RunsOK

\* a reservation leaves the runs,
LEMMA KeptRuns ==
  ASSUME NEW pg, NEW v, IsList(v.stack), NEW w, IsList(w.stack), Kept(pg, v, w),
         NEW rs, NEW j, NEW n, RunsOK(v.stack, rs, j, n)
  PROVE  RunsOK(w.stack, rs, j, n)
  <1> DEFINE k == Len(v.stack)
  <1>1. k \in Nat /\ DOMAIN v.stack = 1 .. k /\ Len(w.stack) = k
    BY ListFacts DEF Kept
  <1>2. \A i \in 1 .. k : w.stack[i].kind = v.stack[i].kind
    BY <1>1 DEF Kept
  <1> HIDE DEF k
  <1>3. k \in 0 .. k /\ k + 1 .. k = {} /\ k <= k
    BY <1>1
  <1> QED BY <1>1, <1>2, <1>3, RunsStay DEF k

\* and so does a quiet change.
LEMMA QuietRuns ==
  ASSUME NEW s, IsList(s), NEW u, NEW k, Quiet(s, u, k), NEW rs, NEW j, NEW n, RunsOK(s, rs, j, n)
  PROVE  RunsOK(u, rs, j, n)
  BY RunsStay DEF Quiet, Edits

\* A reservation, when the registered locals are values.
RootsAreValues(v) == \A i \in DOMAIN v.roots : Value(v.space, v.mem, v.roots[i])

\* Nothing can be entered at Null.
LEMMA NullIsNoValue == \A sp \in Spaces : \A m : ~ Value(sp, m, Null)
  BY DEF Value, StaticValue, At, Null, Spaces

\* Registered values stay values across a reservation.
LEMMA ReservationRoots ==
  ASSUME NEW pg \in Program, NEW v, MachineOK(pg, v), NEW w, MachineOK(pg, w), Kept(pg, v, w), RootsAreValues(v)
  PROVE  RootsAreValues(w)
  <1> SUFFICES ASSUME NEW i \in DOMAIN w.roots PROVE Value(w.space, w.mem, w.roots[i])
    BY DEF RootsAreValues
  <1>1. i \in DOMAIN v.roots /\ v.space \in Spaces
    BY DEF Kept, MachineOK, Shape
  <1>2. v.roots[i] # Null
    BY <1>1, NullIsNoValue DEF RootsAreValues
  <1>3. w.roots[i] # Null
    BY <1>1, <1>2 DEF Kept, Alike
  <1> QED BY <1>3 DEF MachineOK, Maybe

-----------------------------------------------------------------------------
(* What a step has to show.                                                *)

Stays == gcs' = gcs => \A i \in DOMAIN vm.mem : Changes(i) \/ vm'.mem[i] = vm.mem[i]

\* What has to be shown of the state after a step.
LEMMA Assemble ==
  ASSUME prog' \in Program, gcs' \in Nat, MachineOK(prog', vm'), RootsAreValues(vm'),
         status' = "running" => /\ PcOK(prog', vm', pc', code', obj', todo')
                                /\ RunsOK(vm'.stack, runs', jump', Len(vm'.roots))
  PROVE  MachineInv'
  BY DEF MachineInv, Running, RootsAreValues

\* w is what the machine is after the reservation of a step, if it makes one.
Base(w) ==
    /\ MachineOK(prog, w) /\ Kept(prog, vm, w) /\ RootsAreValues(w)
    /\ gcs' \in Nat /\ (gcs' = gcs => w = vm)

\* A state without a reservation is kept.
LEMMA KeptSame == \A pg, v : Kept(pg, v, v)
  BY DEF Kept, Alike, SameObject

\* What a step starts from: the machine without a reservation, or after it.
LEMMA NoReservation ==
  ASSUME MachineInv, gcs' = gcs
  PROVE  Base(vm)
  BY KeptSame DEF MachineInv, Base, RootsAreValues

LEMMA ReservationMade ==
  ASSUME MachineInv, NEW n, NEW w \in Reserved(n, vm),
         gcs' = IF w.space = vm.space THEN gcs ELSE gcs + 1
  PROVE  Base(w)
  <1>1. prog \in Program /\ MachineOK(prog, vm) /\ RootsAreValues(vm) /\ gcs \in Nat
    BY DEF MachineInv, RootsAreValues
  <1>2. MachineOK(prog, w) /\ Kept(prog, vm, w) /\ (w.space = vm.space => w = vm)
    BY <1>1, ReservationKeeps
  <1>3. RootsAreValues(w)
    BY <1>1, <1>2, ReservationRoots
  <1>4. gcs' \in Nat /\ (gcs' = gcs => w.space = vm.space)
    BY <1>1
  <1> QED BY <1>2, <1>3, <1>4 DEF Base

LEMMA Reservation ==
  ASSUME MachineInv, NEW n, NEW w \in Reserved(n, vm), NEW k, NEW mem, Uses(k, w, mem)
  PROVE  Base(w)
  BY ReservationMade DEF Uses

\* A step that leaves the runs and what is under evaluation alone, and whose
\* heap only grows.
LEMMA QuietStep ==
  ASSUME MachineInv, Running, prog' = prog, status' = status, runs' = runs, jump' = jump,
         NEW w, Base(w), IsMachine(w, vm'),
         HeapOK(prog, w.space, vm'.mem, {}), Extends(w.mem, vm'.mem),
         BlackHoles(vm'.mem) = BlackHoles(w.mem),
         Registers(vm', vm'.mem), RootsAreValues(vm'), Len(vm'.roots) = Len(w.roots),
         NEW k, Quiet(w.stack, vm'.stack, k),
         \A i \in k + 1 .. Len(vm'.stack) : FrameOK(prog, w.space, vm'.mem, vm'.stack[i]),
         PcOK(prog, vm', pc', code', obj', todo')
  PROVE  MachineInv' /\ Stays
  <1>1. prog \in Program /\ MachineOK(prog, vm) /\ RunsOK(vm.stack, runs, jump, Len(vm.roots))
    BY DEF MachineInv
  <1>2. MachineOK(prog, w) /\ Kept(prog, vm, w) /\ gcs' \in Nat /\ (gcs' = gcs => w = vm)
    BY DEF Base
  <1>3. MachineOK(prog, vm')
    BY <1>1, <1>2, ExtendsLater, QuietMachine
  <1>4. IsList(vm.stack) /\ IsList(w.stack)
    BY <1>1, <1>2, MachineParts
  <1>5. RunsOK(w.stack, runs, jump, Len(vm.roots))
    BY <1>1, <1>2, <1>4, KeptRuns
  <1>6. RunsOK(vm'.stack, runs, jump, Len(vm.roots))
    BY <1>4, <1>5, QuietRuns
  <1>7. Len(vm'.roots) = Len(vm.roots)
    BY <1>2 DEF Kept
  <1>8. MachineInv'
    BY <1>1, <1>2, <1>3, <1>6, <1>7, Assemble
  <1>9. Stays
    BY <1>2 DEF Stays, Extends
  <1> QED BY <1>8, <1>9

\* What is in scope where a program runs.
LEMMA ScopeOf ==
  ASSUME NEW pg \in Program, NEW sp, NEW m, NEW e, NEW p, Fits(pg, sp, m, e, p)
  PROVE  \E s \in Seq(Nat) : /\ <<e, s>> \in Code[pg] /\ Scoped(pg, e, s) /\ EnvFits(sp, m, p, s)
                             /\ p = Null \/ IsEnv(sp, m, p)
  <1>1. PICK c \in Code[pg] : c[1] = e /\ EnvFits(sp, m, p, c[2])
    BY DEF Fits
  <1>2. c = <<e, c[2]>> /\ Scoped(pg, e, c[2]) /\ c[2] \in Seq(Nat)
    BY <1>1, CodeFacts
  <1>3. p = Null \/ IsEnv(sp, m, p)
    BY DEF Fits
  <1> QED BY <1>1, <1>2, <1>3

\* The expressions of a scope fit an environment that has its frames.
LEMMA FitsIn ==
  ASSUME NEW pg \in Program, NEW sp, NEW m, NEW e, NEW p, NEW s, <<e, s>> \in Code[pg], EnvFits(sp, m, p, s),
         p = Null \/ IsEnv(sp, m, p)
  PROVE  Fits(pg, sp, m, e, p)
  BY DEF Fits

\* make_int() and make_char().
LEMMA BoxedMade ==
  ASSUME NEW pg \in Program, NEW v, NEW m, HeapOK(pg, v.space, m, {}), NEW kind \in {"INT", "CHAR"}, NEW n,
         NEW static \in BOOLEAN
  PROVE  LET b == Boxed(v, m, kind, n, static)
         IN  /\ HeapOK(pg, v.space, b.mem, {}) /\ Extends(m, b.mem) /\ BlackHoles(b.mem) = BlackHoles(m)
             /\ Value(v.space, b.mem, b.p)
  <1>1. CASE static
    BY <1>1 DEF Boxed, Extends, Value, StaticValue
  <1>2. CASE ~ static
    <2> DEFINE o == Thing(kind, n, <<>>)
               b == Boxed(v, m, kind, n, static)
               q == <<v.space, Len(m) + 1>>
    <2>1. b.mem = Append(m, o) /\ b.p = q
      BY <1>2 DEF Boxed, NewPtr
    <2>2. Good(pg, v.space, m, o) /\ o.kind \notin {"ENV", "BLACKHOLE"}
      BY EmptyList DEF Good, Thing
    <2> HIDE DEF o, b
    <2>3. /\ HeapOK(pg, v.space, Append(m, o), {}) /\ Extends(m, Append(m, o))
          /\ BlackHoles(Append(m, o)) = BlackHoles(m)
          /\ Value(v.space, Append(m, o), q)
      BY <2>2, HeapAppended
    <2> QED BY <2>1, <2>3 DEF b
  <1> QED BY <1>1, <1>2

\* The machine as a function: what is known of it after a field changed.
Fields == {"space", "mem", "globals", "stack", "env", "val", "exc", "roots"}
Recorded(v) == DOMAIN v = Fields /\ v = [x \in Fields |-> v[x]]

\* The machine is the record of its fields.
LEMMA MachineRecorded ==
  ASSUME NEW v, Shape(v)
  PROVE  Recorded(v)
  <1>1. v = [space |-> v.space, mem |-> v.mem, globals |-> v.globals, stack |-> v.stack,
             env |-> v.env, val |-> v.val, exc |-> v.exc, roots |-> v.roots]
    BY DEF Shape
  <1> QED BY <1>1 DEF Recorded, Fields

LEMMA RecordedMachine ==
  ASSUME NEW v, NEW u, Recorded(u), u.space = v.space, u.globals = v.globals
  PROVE  IsMachine(v, u)
  <1>1. u = [x \in {"space", "mem", "globals", "stack", "env", "val", "exc", "roots"} |-> u[x]]
    BY DEF Recorded, Fields
  <1>2. u = [space |-> u.space, mem |-> u.mem, globals |-> u.globals, stack |-> u.stack,
             env |-> u.env, val |-> u.val, exc |-> u.exc, roots |-> u.roots]
    BY <1>1, Zenon
  <1> QED BY <1>2 DEF IsMachine

\* What most steps change.
LEMMA FieldsChanged ==
  ASSUME NEW v, Recorded(v), NEW m, NEW s, NEW e, NEW x, NEW c, NEW r
  PROVE  LET u == [v EXCEPT !.mem = m, !.stack = s, !.env = e, !.val = x, !.exc = c, !.roots = r]
         IN  /\ Recorded(u) /\ u.space = v.space /\ u.globals = v.globals /\ u.mem = m /\ u.stack = s
             /\ u.env = e /\ u.val = x /\ u.exc = c /\ u.roots = r
  BY DEF Recorded, Fields

\* The same, when the registered locals stay and each register keeps its value
\* or takes one.
LEMMA GrowingStep ==
  ASSUME MachineInv, Running, prog' = prog, status' = status, runs' = runs, jump' = jump,
         NEW w, Base(w), Recorded(vm'), vm'.space = w.space, vm'.globals = w.globals, vm'.roots = w.roots,
         HeapOK(prog, w.space, vm'.mem, {}), Extends(w.mem, vm'.mem), BlackHoles(vm'.mem) = BlackHoles(w.mem),
         vm'.env = w.env \/ vm'.env = Null \/ IsEnv(w.space, vm'.mem, vm'.env),
         vm'.val = w.val \/ Value(w.space, vm'.mem, vm'.val),
         vm'.exc = w.exc \/ vm'.exc = Null,
         NEW k, Quiet(w.stack, vm'.stack, k),
         \A i \in k + 1 .. Len(vm'.stack) : FrameOK(prog, w.space, vm'.mem, vm'.stack[i]),
         PcOK(prog, vm', pc', code', obj', todo')
  PROVE  MachineInv' /\ Stays
  <1>1. prog \in Program /\ MachineOK(prog, w) /\ RootsAreValues(w)
    BY DEF MachineInv, Base
  <1>2. IsMachine(w, vm')
    BY RecordedMachine
  <1>3. Later(w.mem, vm'.mem)
    BY ExtendsLater
  <1>4. Registers(w, vm'.mem)
    BY <1>1, <1>3, MachineParts, RegistersLater
  <1>5. Registers(vm', vm'.mem)
    BY <1>4 DEF Registers, Maybe
  <1>6. RootsAreValues(vm')
    BY <1>1, <1>3, ValueLater DEF RootsAreValues
  <1> HIDE DEF MachineInv
  <1> QED BY <1>2, <1>5, <1>6, QuietStep

\* A step that leaves the heap alone, too.
LEMMA CalmStep ==
  ASSUME MachineInv, Running, prog' = prog, status' = status, runs' = runs, jump' = jump, gcs' = gcs,
         Recorded(vm'), vm'.space = vm.space, vm'.globals = vm.globals, vm'.roots = vm.roots, vm'.mem = vm.mem,
         vm'.env = vm.env \/ vm'.env = Null \/ IsEnv(vm.space, vm.mem, vm'.env),
         vm'.val = vm.val \/ Value(vm.space, vm.mem, vm'.val),
         vm'.exc = vm.exc \/ vm'.exc = Null,
         NEW k, Quiet(vm.stack, vm'.stack, k),
         \A i \in k + 1 .. Len(vm'.stack) : FrameOK(prog, vm.space, vm.mem, vm'.stack[i]),
         PcOK(prog, vm', pc', code', obj', todo')
  PROVE  MachineInv' /\ Stays
  <1>1. Base(vm) /\ prog \in Program /\ MachineOK(prog, vm)
    BY NoReservation DEF MachineInv
  <1>2. HeapOK(prog, vm.space, vm.mem, {}) /\ Extends(vm.mem, vm.mem)
    BY <1>1, MachineParts
  <1> QED BY <1>1, <1>2, GrowingStep

\* A step that changes the label of the machine only.
LEMMA GotoStep ==
  ASSUME MachineInv, Running, UNCHANGED <<prog, vm, runs, jump, gcs, status>>,
         PcOK(prog, vm, pc', code', obj', todo')
  PROVE  MachineInv' /\ Stays
  <1>1. prog \in Program /\ MachineOK(prog, vm)
    BY DEF MachineInv
  <1>2. Shape(vm) /\ IsList(vm.stack)
    BY <1>1, MachineParts
  <1>3. Recorded(vm) /\ Quiet(vm.stack, vm.stack, Len(vm.stack)) /\ Len(vm.stack) \in Nat
    BY <1>2, MachineRecorded, QuietSame, ListFacts
  <1>4. Len(vm.stack) + 1 .. Len(vm.stack) = {}
    BY <1>3
  <1>5. PcOK(prog, vm', pc', code', obj', todo')
    OBVIOUS
  <1> QED BY <1>3, <1>4, <1>5, CalmStep

\* The program ends where it is.
LEMMA EndStep ==
  ASSUME MachineInv, UNCHANGED <<prog, vm, gcs>>, status' # "running"
  PROVE  MachineInv' /\ Stays
  BY DEF MachineInv, Running, Stays

-----------------------------------------------------------------------------
(* eval.                                                                   *)

\* What is known where an expression is evaluated.
LEMMA AtEval ==
  ASSUME MachineInv, Running, pc = "eval"
  PROVE  /\ prog \in Program /\ MachineOK(prog, vm) /\ Fits(prog, vm.space, vm.mem, code, vm.env)
         /\ HeapOK(prog, vm.space, vm.mem, {}) /\ IsList(vm.stack) /\ Recorded(vm)
         /\ DOMAIN vm.globals = DOMAIN prog.globals
         /\ \A i \in DOMAIN vm.globals : Value(vm.space, vm.mem, vm.globals[i])
  <1>1. prog \in Program /\ MachineOK(prog, vm) /\ PcOK(prog, vm, pc, code, obj, todo)
    BY DEF MachineInv
  <1>2. Fits(prog, vm.space, vm.mem, code, vm.env)
    BY <1>1 DEF PcOK
  <1> QED BY <1>1, <1>2, MachineParts, MachineRecorded

LEMMA EvalVarKeeps ==
  ASSUME MachineInv, EvalVar
  PROVE  MachineInv' /\ Stays
  <1>1. Running /\ pc = "eval" /\ code.k = "VAR"
    BY DEF EvalVar, Eval
  <1> DEFINE p == Lookup(vm.mem, code, vm.env)
  <1>2. pc' = "enter" /\ obj' = p /\ UNCHANGED <<prog, vm, runs, jump, gcs, status>>
    BY DEF EvalVar, GotoEnter
  <1>3. PICK s \in Seq(Nat) : /\ <<code, s>> \in Code[prog] /\ Scoped(prog, code, s)
                              /\ EnvFits(vm.space, vm.mem, vm.env, s)
    BY <1>1, AtEval, ScopeOf
  <1>4. InScope(code, s)
    BY <1>1, <1>3 DEF Scoped, InScope
  <1>5. Value(vm.space, vm.mem, p)
    BY <1>1, <1>3, <1>4, AtEval, LookupValue
  <1>6. PcOK(prog, vm, pc', code', obj', todo')
    BY <1>2, <1>5 DEF PcOK
  <1> HIDE DEF p
  <1> QED BY <1>1, <1>2, <1>6, GotoStep

LEMMA EvalGlobalKeeps ==
  ASSUME MachineInv, EvalGlobal
  PROVE  MachineInv' /\ Stays
  <1>1. Running /\ pc = "eval" /\ code.k \in {"GLOBAL", "PRIM"}
    BY DEF EvalGlobal, Eval
  <1> DEFINE p == IF code.k = "PRIM" THEN PrimObject(code.f) ELSE vm.globals[code.g]
  <1>2. pc' = "enter" /\ obj' = p /\ UNCHANGED <<prog, vm, runs, jump, gcs, status>>
    BY DEF EvalGlobal, GotoEnter
  <1>3. PICK s \in Seq(Nat) : Scoped(prog, code, s)
    BY <1>1, AtEval, ScopeOf
  <1>4. Value(vm.space, vm.mem, p)
    <2>1. CASE code.k = "PRIM"
      <3>1. code.f \in DOMAIN Arity
        BY <1>3, <2>1 DEF Scoped
      <3> QED BY <2>1, <3>1 DEF Value, StaticValue, PrimObject
    <2>2. CASE code.k = "GLOBAL"
      <3>1. code.g \in DOMAIN prog.globals
        BY <1>3, <2>2 DEF Scoped
      <3> QED BY <1>1, <2>2, <3>1, AtEval
    <2> QED BY <1>1, <2>1, <2>2
  <1>5. PcOK(prog, vm, pc', code', obj', todo')
    BY <1>2, <1>4 DEF PcOK
  <1> HIDE DEF p
  <1> QED BY <1>1, <1>2, <1>5, GotoStep

LEMMA EvalLiteralKeeps ==
  ASSUME MachineInv, EvalLiteral
  PROVE  MachineInv' /\ Stays
  <1> DEFINE static == IF code.k = "INT" THEN code.n \in SmallInt ELSE code.n \in SmallChar
             n == IF static THEN 0 ELSE 2
             b(w) == Boxed(w, w.mem, code.k, code.n, static)
  <1>1. Running /\ pc = "eval" /\ code.k \in {"INT", "CHAR"} /\ pc' = "ret"
        /\ UNCHANGED <<prog, status, runs, jump>>
    BY DEF EvalLiteral, GotoRet, control
  <1>2. PICK w \in Reserved(n, vm) : vm' = [w EXCEPT !.mem = b(w).mem, !.val = b(w).p] /\ Uses(n, w, b(w).mem)
    BY DEF EvalLiteral
  <1>s. static \in BOOLEAN
    <2>1. \A S, x : (x \in S) \in BOOLEAN
      BY SMT
    <2> QED BY <2>1, Zenon
  <1> DEFINE m == b(w).mem
             q == b(w).p
  <1> HIDE DEF static, n
  <1>3. Base(w) /\ prog \in Program
    BY <1>2, Reservation DEF MachineInv
  <1>4. MachineOK(prog, w)
    BY <1>3 DEF Base
  <1>5. HeapOK(prog, w.space, w.mem, {}) /\ Recorded(w) /\ IsList(w.stack) /\ Len(w.stack) \in Nat
    BY <1>3, <1>4, MachineParts, MachineRecorded, ListFacts
  <1>6. HeapOK(prog, w.space, m, {}) /\ Extends(w.mem, m) /\ BlackHoles(m) = BlackHoles(w.mem)
        /\ Value(w.space, m, q)
    <2>1. LET c == Boxed(w, w.mem, code.k, code.n, static)
          IN  /\ HeapOK(prog, w.space, c.mem, {}) /\ Extends(w.mem, c.mem)
              /\ BlackHoles(c.mem) = BlackHoles(w.mem) /\ Value(w.space, c.mem, c.p)
      <3> DEFINE k == code.k
                 h == w.mem
                 x == code.n
      <3>1. k \in {"INT", "CHAR"} /\ HeapOK(prog, w.space, h, {})
        BY <1>1, <1>5
      <3> HIDE DEF b, m, q, k, h, x
      <3>2. LET c == Boxed(w, h, k, x, static)
            IN  /\ HeapOK(prog, w.space, c.mem, {}) /\ Extends(h, c.mem)
                /\ BlackHoles(c.mem) = BlackHoles(h) /\ Value(w.space, c.mem, c.p)
        BY <1>3, <1>s, <3>1, BoxedMade
      <3> QED BY <3>2 DEF k, h, x
    <2> QED BY <2>1
  <1> HIDE DEF m, q
  <1>7. /\ Recorded(vm') /\ vm'.space = w.space /\ vm'.globals = w.globals /\ vm'.roots = w.roots
        /\ vm'.mem = m /\ vm'.val = q /\ vm'.env = w.env /\ vm'.exc = w.exc /\ vm'.stack = w.stack
    BY <1>2, <1>5 DEF Recorded, Fields, m, q
  <1>8. Quiet(w.stack, vm'.stack, Len(w.stack)) /\ Len(w.stack) + 1 .. Len(vm'.stack) = {}
    BY <1>5, <1>7, QuietSame
  <1>9. PcOK(prog, vm', pc', code', obj', todo')
    BY <1>1, <1>6, <1>7 DEF PcOK
  <1> QED BY <1>1, <1>3, <1>6, <1>7, <1>8, <1>9, GrowingStep

LEMMA EvalAtomKeeps ==
  ASSUME MachineInv, EvalAtom
  PROVE  MachineInv' /\ Stays
  <1> DEFINE n == AtomSize(code)
             a(w) == Atom(w, w.mem, code, w.env)
  <1>1. Running /\ pc = "eval" /\ UNCHANGED <<prog, status, runs, jump>>
    BY DEF EvalAtom
  <1>2. PICK w \in Reserved(n, vm) : /\ vm' = [w EXCEPT !.mem = a(w).mem] /\ Uses(n, w, a(w).mem)
                                     /\ pc' = "enter" /\ obj' = a(w).p
    BY DEF EvalAtom, GotoEnter
  <1> DEFINE m == a(w).mem
             q == a(w).p
  <1> HIDE DEF n
  <1>3. Base(w) /\ prog \in Program
    BY <1>2, Reservation DEF MachineInv
  <1>4. MachineOK(prog, w) /\ Fits(prog, w.space, w.mem, code, w.env)
    BY <1>1, <1>3, AtEval DEF Base, Kept
  <1>5. Recorded(w) /\ IsList(w.stack) /\ Len(w.stack) \in Nat
    BY <1>3, <1>4, MachineParts, MachineRecorded, ListFacts
  <1>6. HeapOK(prog, w.space, m, {}) /\ Extends(w.mem, m) /\ BlackHoles(m) = BlackHoles(w.mem)
        /\ Value(w.space, m, q)
    BY <1>3, <1>4, MachineAtom
  <1> HIDE DEF m, q
  <1>7. /\ Recorded(vm') /\ vm'.space = w.space /\ vm'.globals = w.globals /\ vm'.roots = w.roots
        /\ vm'.mem = m /\ vm'.val = w.val /\ vm'.env = w.env /\ vm'.exc = w.exc /\ vm'.stack = w.stack
    BY <1>2, <1>5 DEF Recorded, Fields, m
  <1>8. Quiet(w.stack, vm'.stack, Len(w.stack)) /\ Len(w.stack) + 1 .. Len(vm'.stack) = {}
    BY <1>5, <1>7, QuietSame
  <1>9. PcOK(prog, vm', pc', code', obj', todo')
    BY <1>2, <1>6, <1>7 DEF PcOK, q
  <1> QED BY <1>1, <1>3, <1>6, <1>7, <1>8, <1>9, GrowingStep

LEMMA EvalAppKeeps ==
  ASSUME MachineInv, EvalApp
  PROVE  MachineInv' /\ Stays
  <1>1. Running /\ pc = "eval" /\ code.k = "APP" /\ pc' = "args" /\ todo' = Len(code.args) /\ code' = code
        /\ UNCHANGED <<prog, vm, runs, jump, gcs, status>>
    BY DEF EvalApp, Eval
  <1>2. Fits(prog, vm.space, vm.mem, code, vm.env) /\ prog \in Program
    BY <1>1, AtEval
  <1>3. PICK s \in Seq(Nat) : Scoped(prog, code, s)
    BY <1>2, ScopeOf
  <1>4. Len(code.args) \in Nat
    BY <1>1, <1>3, ListFacts DEF Scoped
  <1>5. PcOK(prog, vm, pc', code', obj', todo')
    BY <1>1, <1>2, <1>4 DEF PcOK
  <1> QED BY <1>1, <1>5, GotoStep

\* What is known while the arguments of an application are pushed.
LEMMA AtArgs ==
  ASSUME MachineInv, Running, pc = "args"
  PROVE  /\ prog \in Program /\ MachineOK(prog, vm) /\ Fits(prog, vm.space, vm.mem, code, vm.env)
         /\ code.k = "APP" /\ todo \in 0 .. Len(code.args) /\ IsList(code.args)
         /\ \A e : Fits(prog, vm.space, vm.mem, code, vm.env) /\ (e = code.fun \/ \E i \in DOMAIN code.args : e = code.args[i])
                   => Fits(prog, vm.space, vm.mem, e, vm.env)
  <1>1. /\ prog \in Program /\ MachineOK(prog, vm)
        /\ code.k = "APP" /\ todo \in 0 .. Len(code.args) /\ Fits(prog, vm.space, vm.mem, code, vm.env)
    BY DEF MachineInv, PcOK
  <1>2. PICK s \in Seq(Nat) : /\ <<code, s>> \in Code[prog] /\ Scoped(prog, code, s)
                              /\ EnvFits(vm.space, vm.mem, vm.env, s)
                              /\ vm.env = Null \/ IsEnv(vm.space, vm.mem, vm.env)
    BY <1>1, ScopeOf
  <1>3. IsList(code.args) /\ <<code.fun, s>> \in Code[prog]
        /\ \A i \in DOMAIN code.args : <<code.args[i], s>> \in Code[prog]
    BY <1>1, <1>2 DEF Scoped
  <1>4. ASSUME NEW e, e = code.fun \/ \E i \in DOMAIN code.args : e = code.args[i]
        PROVE  Fits(prog, vm.space, vm.mem, e, vm.env)
    <2>1. <<e, s>> \in Code[prog]
      BY <1>3, <1>4
    <2> QED BY <1>1, <1>2, <2>1, FitsIn
  <1> QED BY <1>1, <1>3, <1>4

LEMMA EvalFunKeeps ==
  ASSUME MachineInv, EvalFun
  PROVE  MachineInv' /\ Stays
  <1>1. Running /\ pc = "args" /\ pc' = "eval" /\ code' = code.fun
        /\ UNCHANGED <<prog, vm, runs, jump, gcs, status>>
    BY DEF EvalFun, GotoEval
  <1>2. Fits(prog, vm.space, vm.mem, code.fun, vm.env)
    BY <1>1, AtArgs
  <1>3. PcOK(prog, vm, pc', code', obj', todo')
    BY <1>1, <1>2 DEF PcOK
  <1> QED BY <1>1, <1>3, GotoStep

\* A new frame on top of the stack.
LEMMA PushedFrame ==
  ASSUME NEW s, IsList(s), NEW f, f.kind \notin {"UPDATE", "STOP"}
  PROVE  /\ Quiet(s, Append(s, f), Len(s)) /\ Len(s) \in Nat
         /\ \A i \in Len(s) + 1 .. Len(Append(s, f)) : Append(s, f)[i] = f
  <1>1. Quiet(s, s, Len(s)) /\ Len(s) \in Nat
    BY QuietSame, ListFacts
  <1>2. Quiet(s, Append(s, f), Len(s)) /\ Len(Append(s, f)) = Len(s) + 1 /\ Append(s, f)[Len(s) + 1] = f
    BY <1>1, QuietAppend
  <1>3. \A i \in Len(s) + 1 .. Len(s) + 1 : i = Len(s) + 1
    BY <1>1
  <1> QED BY <1>1, <1>2, <1>3

LEMMA PushArgKeeps ==
  ASSUME MachineInv, PushArg
  PROVE  MachineInv' /\ Stays
  <1> DEFINE e == code.args[todo]
             n == AtomSize(e)
             a(w) == Atom(w, w.mem, e, w.env)
  <1>1. Running /\ pc = "args" /\ todo > 0 /\ todo' = todo - 1 /\ UNCHANGED <<prog, pc, code, status, runs, jump>>
    BY DEF PushArg
  <1>2. PICK w \in Reserved(n, vm) : /\ vm' = [w EXCEPT !.mem = a(w).mem, !.stack = Append(@, Arg(a(w).p))]
                                     /\ Uses(n, w, a(w).mem)
    BY DEF PushArg
  <1> DEFINE m == a(w).mem
             q == a(w).p
             f == Arg(q)
  <1> HIDE DEF n
  <1>3. Base(w) /\ prog \in Program
    BY <1>2, Reservation DEF MachineInv
  <1>a. code.k = "APP" /\ todo \in 0 .. Len(code.args) /\ IsList(code.args)
        /\ Fits(prog, vm.space, vm.mem, code, vm.env)
    BY <1>1, AtArgs
  <1>b. Len(code.args) \in Nat /\ DOMAIN code.args = 1 .. Len(code.args)
    BY <1>a, ListFacts
  <1>c. todo \in DOMAIN code.args /\ todo' \in 0 .. Len(code.args)
    BY <1>1, <1>a, <1>b
  <1>d. Fits(prog, vm.space, vm.mem, e, vm.env)
    BY <1>1, <1>a, <1>c, AtArgs
  <1> HIDE DEF e
  <1>4. MachineOK(prog, w) /\ Fits(prog, w.space, w.mem, e, w.env) /\ Fits(prog, w.space, w.mem, code, w.env)
    BY <1>3, <1>a, <1>d DEF Base, Kept
  <1>5. Recorded(w) /\ IsList(w.stack) /\ Len(w.stack) \in Nat
    BY <1>3, <1>4, MachineParts, MachineRecorded, ListFacts
  <1>6. HeapOK(prog, w.space, m, {}) /\ Extends(w.mem, m) /\ BlackHoles(m) = BlackHoles(w.mem)
        /\ Value(w.space, m, q) /\ Later(w.mem, m)
    BY <1>3, <1>4, MachineAtom
  <1>e. vm' = [w EXCEPT !.mem = m, !.stack = Append(@, f)]
    BY <1>2
  <1> HIDE DEF m, q
  <1>f. f.kind = "ARG" /\ FrameOK(prog, w.space, m, f)
    BY <1>6 DEF Arg, Frame, FrameOK
  <1> HIDE DEF f
  <1>7. /\ Recorded(vm') /\ vm'.space = w.space /\ vm'.globals = w.globals /\ vm'.roots = w.roots
        /\ vm'.mem = m /\ vm'.val = w.val /\ vm'.env = w.env /\ vm'.exc = w.exc /\ vm'.stack = Append(w.stack, f)
    BY <1>e, <1>5 DEF Recorded, Fields
  <1>8. Quiet(w.stack, vm'.stack, Len(w.stack))
        /\ \A i \in Len(w.stack) + 1 .. Len(vm'.stack) : FrameOK(prog, w.space, m, vm'.stack[i])
    BY <1>5, <1>7, <1>f, PushedFrame
  <1>g. Fits(prog, w.space, m, code, w.env)
    BY <1>3, <1>4, <1>6, FitsLater
  <1>9. PcOK(prog, vm', pc', code', obj', todo')
    BY <1>1, <1>a, <1>c, <1>g, <1>7 DEF PcOK
  <1> QED BY <1>1, <1>3, <1>6, <1>7, <1>8, <1>9, GrowingStep

LEMMA EvalCaseKeeps ==
  ASSUME MachineInv, EvalCase
  PROVE  MachineInv' /\ Stays
  <1> DEFINE f == Frame("CASE", Null, vm.env, code, 0)
  <1>1. Running /\ pc = "eval" /\ code.k = "CASE" /\ pc' = "eval" /\ code' = code.scrut
        /\ vm' = [vm EXCEPT !.stack = Append(@, f)]
        /\ UNCHANGED <<prog, runs, jump, gcs, status>>
    BY DEF EvalCase, Eval, GotoEval
  <1>2. /\ prog \in Program /\ MachineOK(prog, vm) /\ Fits(prog, vm.space, vm.mem, code, vm.env)
        /\ IsList(vm.stack) /\ Recorded(vm)
    BY <1>1, AtEval
  <1>3. PICK s \in Seq(Nat) : /\ <<code, s>> \in Code[prog] /\ Scoped(prog, code, s)
                              /\ EnvFits(vm.space, vm.mem, vm.env, s)
                              /\ vm.env = Null \/ IsEnv(vm.space, vm.mem, vm.env)
    BY <1>2, ScopeOf
  <1>4. <<code.scrut, s>> \in Code[prog]
    BY <1>1, <1>3 DEF Scoped
  <1>5. Fits(prog, vm.space, vm.mem, code.scrut, vm.env)
    BY <1>2, <1>3, <1>4, FitsIn
  <1>6. f.kind = "CASE" /\ FrameOK(prog, vm.space, vm.mem, f)
    BY <1>1, <1>2 DEF Frame, FrameOK
  <1> HIDE DEF f
  <1>7. /\ Recorded(vm') /\ vm'.space = vm.space /\ vm'.globals = vm.globals /\ vm'.roots = vm.roots
        /\ vm'.mem = vm.mem /\ vm'.val = vm.val /\ vm'.env = vm.env /\ vm'.exc = vm.exc
        /\ vm'.stack = Append(vm.stack, f)
    BY <1>1, <1>2 DEF Recorded, Fields
  <1>8. Quiet(vm.stack, vm'.stack, Len(vm.stack))
        /\ \A i \in Len(vm.stack) + 1 .. Len(vm'.stack) : FrameOK(prog, vm.space, vm.mem, vm'.stack[i])
    BY <1>2, <1>6, <1>7, PushedFrame
  <1>9. PcOK(prog, vm', pc', code', obj', todo')
    BY <1>1, <1>5, <1>7 DEF PcOK
  <1> QED BY <1>1, <1>7, <1>8, <1>9, CalmStep

LEMMA EvalLetKeeps ==
  ASSUME MachineInv, EvalLet
  PROVE  MachineInv' /\ Stays
  <1> DEFINE bs == code.binds
             h(w) == Group(w, bs, Len(bs))
  <1>1. Running /\ pc = "eval" /\ code.k = "LET" /\ pc' = "eval" /\ code' = code.body
        /\ UNCHANGED <<prog, runs, jump, status>>
    BY DEF EvalLet, Eval, GotoEval
  <1>2. PICK w \in Reserved(2, vm) : /\ vm' = [w EXCEPT !.mem = h(w), !.env = NewPtr(w, w.mem)]
                                     /\ Uses(GroupSize(bs), w, h(w))
    BY DEF EvalLet
  <1> DEFINE m == h(w)
             q == NewPtr(w, w.mem)
  <1>3. prog \in Program
    BY DEF MachineInv
  <1>c. Base(w)
    BY <1>2, Reservation
  <1>4. MachineOK(prog, w) /\ Fits(prog, w.space, w.mem, code, w.env)
    BY <1>1, <1>c, AtEval DEF Base, Kept
  <1>5. Recorded(w) /\ IsList(w.stack) /\ Len(w.stack) \in Nat
    BY <1>3, <1>4, MachineParts, MachineRecorded, ListFacts
  <1>6. PICK s \in Seq(Nat) : /\ <<code, s>> \in Code[prog] /\ Scoped(prog, code, s)
                              /\ EnvFits(w.space, w.mem, w.env, s)
    BY <1>3, <1>4, ScopeOf
  <1>7. IsList(bs) /\ (\A i \in DOMAIN bs : <<bs[i], <<Len(bs)>> \o s>> \in Code[prog])
        /\ <<code.body, <<Len(bs)>> \o s>> \in Code[prog]
    BY <1>1, <1>6 DEF Scoped
  <1> HIDE DEF bs
  <1>8. /\ HeapOK(prog, w.space, m, {}) /\ Extends(w.mem, m) /\ BlackHoles(m) = BlackHoles(w.mem)
        /\ IsEnv(w.space, m, q) /\ EnvFits(w.space, m, q, <<Len(bs)>> \o s)
    BY <1>3, <1>4, <1>6, <1>7, GroupMade
  <1>9. vm' = [w EXCEPT !.mem = m, !.env = q]
    BY <1>2
  <1> HIDE DEF m, q
  <1>10. /\ Recorded(vm') /\ vm'.space = w.space /\ vm'.globals = w.globals /\ vm'.roots = w.roots
         /\ vm'.mem = m /\ vm'.val = w.val /\ vm'.env = q /\ vm'.exc = w.exc /\ vm'.stack = w.stack
    BY <1>9, <1>5 DEF Recorded, Fields
  <1>11. Quiet(w.stack, vm'.stack, Len(w.stack)) /\ Len(w.stack) + 1 .. Len(vm'.stack) = {}
    BY <1>5, <1>10, QuietSame
  <1>12. Fits(prog, w.space, m, code.body, q)
    BY <1>3, <1>7, <1>8, FitsIn
  <1>13. PcOK(prog, vm', pc', code', obj', todo')
    BY <1>1, <1>12, <1>10 DEF PcOK
  <1> QED BY <1>1, <1>c, <1>8, <1>10, <1>11, <1>13, GrowingStep

-----------------------------------------------------------------------------
(* Steps that change what is under evaluation, or overwrite an object.     *)

\* An object with another kind, or other pointers.
LEMMA ThingChanged ==
  ASSUME NEW o, o = Thing(o.kind, o.code, o.ptr), NEW k, NEW s
  PROVE  [o EXCEPT !.kind = k] = Thing(k, o.code, o.ptr) /\ [o EXCEPT !.ptr = s] = Thing(o.kind, o.code, s)
  <1> DEFINE F == {"kind", "code", "ptr"}
             R(x) == DOMAIN x = F /\ x = [y \in F |-> x[y]]
  <1>1. o = [kind |-> o.kind, code |-> o.code, ptr |-> o.ptr]
    BY DEF Thing
  <1>2. R(o)
    BY <1>1
  <1>3. ASSUME NEW x, x = [y \in {"kind", "code", "ptr"} |-> x[y]]
        PROVE  x = [kind |-> x.kind, code |-> x.code, ptr |-> x.ptr]
    BY <1>3, Zenon
  <1> DEFINE a == [o EXCEPT !.kind = k]
             b == [o EXCEPT !.ptr = s]
  <1>4. R(a) /\ a.kind = k /\ a.code = o.code /\ a.ptr = o.ptr
    BY <1>2
  <1>5. R(b) /\ b.kind = o.kind /\ b.code = o.code /\ b.ptr = s
    BY <1>2
  <1> HIDE DEF a, b
  <1>6. a = [kind |-> a.kind, code |-> a.code, ptr |-> a.ptr] /\ b = [kind |-> b.kind, code |-> b.code, ptr |-> b.ptr]
    BY <1>3, <1>4, <1>5
  <1>7. a = Thing(k, o.code, o.ptr)
    BY <1>4, <1>6 DEF Thing
  <1>8. b = Thing(o.kind, o.code, s)
    BY <1>5, <1>6 DEF Thing
  <1> QED BY <1>7, <1>8 DEF a, b

\* The heap when the object i gets another kind, or other pointers.
LEMMA KindChanged ==
  ASSUME NEW m, NEW i, NEW o, o = m[i], o = Thing(o.kind, o.code, o.ptr), NEW k
  PROVE  [m EXCEPT ![i].kind = k] = [m EXCEPT ![i] = Thing(k, o.code, o.ptr)]
  BY ThingChanged

\* A field of an object is changed: the object is another.
LEMMA FieldChanged ==
  ASSUME NEW m, NEW i, NEW o, o = m[i], o = Thing(o.kind, o.code, o.ptr), NEW j, NEW x
  PROVE  [m EXCEPT ![i].ptr[j] = x] = [m EXCEPT ![i] = Thing(o.kind, o.code, [o.ptr EXCEPT ![j] = x])]
  BY ThingChanged, ZenonT(30)

\* A list of one.
LEMMA OneList == \A x : IsList(<<x>>) /\ Len(<<x>>) = 1 /\ <<x>>[1] = x
  <1> SUFFICES ASSUME NEW x PROVE <<x>> \in Seq({x})
    BY ListSeq
  <1> QED OBVIOUS

\* A step that keeps the runs.  What is under evaluation and the objects that
\* stay are shown for each.
LEMMA LoudStep ==
  ASSUME MachineInv, Running, prog' = prog, status' = status, runs' = runs, jump' = jump, gcs' \in Nat,
         NEW w, MachineOK(prog, w), Kept(prog, vm, w), RootsAreValues(w),
         Recorded(vm'), vm'.space = w.space, vm'.globals = w.globals, vm'.roots = w.roots,
         HeapOK(prog, w.space, vm'.mem, {}), Later(w.mem, vm'.mem),
         vm'.env = w.env \/ vm'.env = Null \/ IsEnv(w.space, vm'.mem, vm'.env),
         vm'.val = w.val \/ Value(w.space, vm'.mem, vm'.val),
         vm'.exc = w.exc \/ vm'.exc = Null,
         NEW k, Edits(w.stack, vm'.stack, k),
         \A i \in k + 1 .. Len(w.stack) : w.stack[i].kind # "STOP",
         \A i \in k + 1 .. Len(vm'.stack) : /\ vm'.stack[i].kind # "STOP"
                                            /\ FrameOK(prog, w.space, vm'.mem, vm'.stack[i]),
         HolesMatch(w.space, vm'.mem, vm'.stack),
         PcOK(prog, vm', pc', code', obj', todo')
  PROVE  MachineInv'
  <1>1. prog \in Program /\ RunsOK(vm.stack, runs, jump, Len(vm.roots)) /\ MachineOK(prog, vm)
    BY DEF MachineInv
  <1>2. IsMachine(w, vm')
    BY RecordedMachine
  <1>4. Registers(w, vm'.mem)
    BY <1>1, MachineParts, RegistersLater
  <1>5. Registers(vm', vm'.mem)
    BY <1>4 DEF Registers, Maybe
  <1>6. RootsAreValues(vm')
    BY <1>1, ValueLater DEF RootsAreValues
  <1> HIDE DEF MachineInv
  <1>7. MachineOK(prog, vm')
    BY <1>1, <1>2, <1>5, NextMachine
  <1>8. IsList(w.stack) /\ IsList(vm.stack)
    BY <1>1, MachineParts
  <1>9. RunsOK(w.stack, runs, jump, Len(vm.roots))
    BY <1>1, <1>8, KeptRuns
  <1>10. RunsOK(vm'.stack, runs, jump, Len(vm.roots))
    <2>1. IsList(vm'.stack) /\ k \in 0 .. Len(w.stack) /\ k <= Len(vm'.stack)
          /\ \A i \in 1 .. k : vm'.stack[i].kind = w.stack[i].kind
      BY DEF Edits
    <2> QED BY <1>8, <1>9, <2>1, RunsStay, ZenonT(30)
  <1>11. Len(vm'.roots) = Len(vm.roots)
    BY DEF Kept
  <1> QED BY <1>1, <1>6, <1>7, <1>10, <1>11, Assemble

\* A thunk is under evaluation, below a new frame.
LEMMA HolesMore ==
  ASSUME NEW sp, NEW m, NEW s, IsList(s), HolesMatch(sp, m, s), \A j \in Updates(s) : At(sp, m, s[j].a),
         NEW n, DOMAIN n = DOMAIN m, NEW p, At(sp, m, p), m[p[2]].kind # "BLACKHOLE", n[p[2]].kind = "BLACKHOLE",
         \A k \in DOMAIN m : k # p[2] => n[k] = m[k],
         NEW f, f.kind = "UPDATE", f.a = p
  PROVE  HolesMatch(sp, n, Append(s, f))
  <1> DEFINE u == Append(s, f)
             L == Len(s)
  <1>1. L \in Nat /\ DOMAIN s = 1 .. L /\ DOMAIN u = 1 .. L + 1 /\ u[L + 1] = f /\ \A i \in 1 .. L : u[i] = s[i]
    BY ListFacts, ListAppend
  <1> HIDE DEF u, L
  <1>2. \A i : i \in DOMAIN u <=> i \in DOMAIN s \/ i = L + 1
    BY <1>1
  <1>3. \A i \in DOMAIN s : i # L + 1 /\ u[i] = s[i]
    BY <1>1
  <1>4. \A i : i \in Updates(u) <=> i \in Updates(s) \/ i = L + 1
    BY <1>1, <1>2, <1>3 DEF Updates
  <1>5. \A i \in Updates(s) : u[i] = s[i] /\ s[i].a[2] \in DOMAIN m /\ m[s[i].a[2]].kind = "BLACKHOLE"
                              /\ s[i].a[2] # p[2] /\ s[i].a # p
    BY <1>3 DEF Updates, HolesMatch
  <1>6. p[2] \in DOMAIN m /\ p = <<sp, p[2]>>
    BY DEF At
  <1>7. \A i \in Updates(u) : u[i].a[2] \in DOMAIN n /\ n[u[i].a[2]].kind = "BLACKHOLE"
    BY <1>1, <1>4, <1>5, <1>6
  <1>8. \A i, j \in Updates(u) : u[i].a = u[j].a => i = j
    BY <1>1, <1>4, <1>5 DEF HolesMatch
  <1>9. ASSUME NEW k \in DOMAIN n, n[k].kind = "BLACKHOLE" PROVE \E i \in Updates(u) : u[i].a = <<sp, k>>
    <2>1. CASE k = p[2]
      BY <1>1, <1>4, <1>6, <2>1
    <2>2. CASE k # p[2]
      <3>1. PICK i \in Updates(s) : s[i].a = <<sp, k>>
        BY <1>9, <2>2 DEF HolesMatch
      <3> QED BY <1>4, <1>5, <3>1
    <2> QED BY <2>1, <2>2
  <1> QED BY <1>7, <1>8, <1>9 DEF HolesMatch, u

\* The frame on top goes, and what it is for is no longer under evaluation.
LEMMA HolesFewer ==
  ASSUME NEW sp, NEW m, NEW s, IsList(s), s # <<>>, HolesMatch(sp, m, s), \A j \in Updates(s) : At(sp, m, s[j].a),
         Top(s).kind = "UPDATE", NEW n, DOMAIN n = DOMAIN m, n[Top(s).a[2]].kind # "BLACKHOLE",
         \A k \in DOMAIN m : k # Top(s).a[2] => n[k] = m[k]
  PROVE  HolesMatch(sp, n, Pop(s, 1))
  <1> DEFINE u == Pop(s, 1)
             L == Len(s)
             p == Top(s).a
  <1>1. L \in Nat /\ L >= 1 /\ DOMAIN s = 1 .. L /\ Top(s) = s[L] /\ L - 1 \in 0 .. L
    BY TopFrame
  <1>2. DOMAIN u = 1 .. L - 1 /\ \A i \in 1 .. L - 1 : u[i] = s[i]
    <2>1. u = SubSeq(s, 1, L - 1)
      BY DEF Pop
    <2> HIDE DEF u
    <2> QED BY <1>1, <2>1, ListPrefix
  <1> HIDE DEF u, L
  <1>3. \A i : i \in DOMAIN u <=> i \in DOMAIN s /\ i # L
    BY <1>1, <1>2
  <1>4. \A i \in DOMAIN u : u[i] = s[i]
    BY <1>2
  <1>5. \A i : i \in Updates(u) <=> i \in Updates(s) /\ i # L
    BY <1>3, <1>4 DEF Updates
  <1>6. L \in Updates(s) /\ s[L].a = p
    BY <1>1 DEF Updates
  <1> HIDE DEF p
  <1>7. ASSUME NEW i \in Updates(u) PROVE u[i].a = s[i].a /\ s[i].a[2] \in DOMAIN m /\ s[i].a[2] # p[2]
                                          /\ m[s[i].a[2]].kind = "BLACKHOLE"
    <2>1. u[i] = s[i] /\ i \in Updates(s) /\ i # L
      BY <1>4, <1>5 DEF Updates
    <2>2. s[i].a # p
      BY <1>6, <2>1 DEF HolesMatch
    <2>3. s[i].a = <<sp, s[i].a[2]>> /\ p = <<sp, p[2]>>
      BY <1>6, <2>1 DEF At
    <2> QED BY <2>1, <2>2, <2>3 DEF HolesMatch
  <1>8. ASSUME NEW k \in DOMAIN n, n[k].kind = "BLACKHOLE" PROVE \E i \in Updates(u) : u[i].a = <<sp, k>>
    <2>1. k # p[2]
      BY <1>8 DEF p
    <2>2. PICK i \in Updates(s) : s[i].a = <<sp, k>>
      BY <1>8, <2>1 DEF HolesMatch, p
    <2>3. i # L
      BY <1>6, <2>1, <2>2
    <2> QED BY <1>4, <1>5, <2>2, <2>3 DEF Updates
  <1>9. \A i, j \in Updates(u) : u[i].a = u[j].a => i = j
    BY <1>5, <1>7 DEF HolesMatch
  <1>10. \A i \in Updates(u) : u[i].a[2] \in DOMAIN n /\ n[u[i].a[2]].kind = "BLACKHOLE"
    BY <1>7 DEF p
  <1> QED BY <1>8, <1>9, <1>10 DEF HolesMatch, u

\* The same, when the frames that went and those that came are not about thunks.
LEMMA StoringStep ==
  ASSUME MachineInv, Running, prog' = prog, status' = status, runs' = runs, jump' = jump, gcs' \in Nat,
         NEW w, MachineOK(prog, w), Kept(prog, vm, w), RootsAreValues(w),
         Recorded(vm'), vm'.space = w.space, vm'.globals = w.globals, vm'.roots = w.roots,
         HeapOK(prog, w.space, vm'.mem, {}), Later(w.mem, vm'.mem), BlackHoles(vm'.mem) = BlackHoles(w.mem),
         vm'.env = w.env \/ vm'.env = Null \/ IsEnv(w.space, vm'.mem, vm'.env),
         vm'.val = w.val \/ Value(w.space, vm'.mem, vm'.val),
         vm'.exc = w.exc \/ vm'.exc = Null,
         NEW k, Quiet(w.stack, vm'.stack, k),
         \A i \in k + 1 .. Len(vm'.stack) : FrameOK(prog, w.space, vm'.mem, vm'.stack[i]),
         PcOK(prog, vm', pc', code', obj', todo')
  PROVE  MachineInv'
  <1>1. HolesMatch(w.space, vm'.mem, vm'.stack)
    <2>1. prog \in Program
      BY DEF MachineInv
    <2> QED BY <2>1, HolesStay
  <1>2. /\ Edits(w.stack, vm'.stack, k) /\ \A i \in k + 1 .. Len(w.stack) : w.stack[i].kind # "STOP"
        /\ \A i \in k + 1 .. Len(vm'.stack) : vm'.stack[i].kind # "STOP"
    BY DEF Quiet
  <1> HIDE DEF MachineInv
  <1> QED BY <1>1, <1>2, LoudStep

-----------------------------------------------------------------------------
(* enter.                                                                  *)

\* The object of a value of the machine.
LEMMA ObjectHere ==
  ASSUME NEW pg \in Program, NEW v, MachineOK(pg, v), NEW p, Value(v.space, v.mem, p), NEW o, o = Obj(v, p)
  PROVE  \/ /\ At(v.space, v.mem, p) /\ o = v.mem[p[2]] /\ p[2] \in DOMAIN v.mem
            /\ Good(pg, v.space, v.mem, o) /\ o.kind # "ENV" /\ o = Thing(o.kind, o.code, o.ptr)
            /\ IsList(o.ptr)
         \/ /\ o = Thing(p[1], p[2], <<>>) /\ StaticValue(p)
            /\ o.kind \in {"INT", "CHAR", "CON", "PRIM"}
            /\ o.kind = "CON" => o.code \in DOMAIN ConArity /\ ConArity[o.code] = 0
            /\ o.kind = "PRIM" => o.code \in DOMAIN Arity
  <1>1. CASE OnHeap(p)
    <2>1. /\ At(v.space, v.mem, p) /\ Obj(v, p) = v.mem[p[2]]
          /\ Good(pg, v.space, v.mem, Obj(v, p)) /\ Obj(v, p).kind # "ENV"
      BY <1>1, ValueObject
    <2> QED BY <2>1 DEF Good, At
  <1>2. CASE ~ OnHeap(p)
    <2>1. StaticValue(p) /\ o = Thing(p[1], p[2], <<>>)
      BY <1>2, ValueObject
    <2> QED BY <2>1 DEF StaticValue, Thing
  <1> QED BY <1>1, <1>2

\* What enter: finds.
LEMMA AtEnter ==
  ASSUME MachineInv, Running, pc = "enter"
  PROVE  /\ prog \in Program /\ MachineOK(prog, vm) /\ Value(vm.space, vm.mem, obj)
         /\ HeapOK(prog, vm.space, vm.mem, {}) /\ IsList(vm.stack) /\ Recorded(vm) /\ vm.space \in Spaces
  <1>1. prog \in Program /\ MachineOK(prog, vm) /\ Value(vm.space, vm.mem, obj)
    BY DEF MachineInv, PcOK
  <1> QED BY <1>1, MachineParts, MachineRecorded

LEMMA EnterIndKeeps ==
  ASSUME MachineInv, EnterInd
  PROVE  MachineInv' /\ Stays
  <1> DEFINE o == Obj(vm, obj)
  <1>1. Running /\ pc = "enter" /\ o.kind = "IND" /\ pc' = "enter" /\ obj' = o.ptr[1]
        /\ UNCHANGED <<prog, vm, runs, jump, gcs, status>>
    BY DEF EnterInd, EnterKind, GotoEnter
  <1>2. Good(prog, vm.space, vm.mem, o)
    BY <1>1, AtEnter, ObjectHere
  <1> HIDE DEF o
  <1>3. Len(o.ptr) = 1 /\ Values(vm.space, vm.mem, o.ptr, 1)
    BY <1>1, <1>2 DEF Good
  <1>4. Value(vm.space, vm.mem, o.ptr[1])
    BY <1>3 DEF Values
  <1>5. PcOK(prog, vm, pc', code', obj', todo')
    BY <1>1, <1>4 DEF PcOK
  <1> QED BY <1>1, <1>5, GotoStep

LEMMA EnterValueKeeps ==
  ASSUME MachineInv, EnterValue
  PROVE  MachineInv' /\ Stays
  <1>1. Running /\ pc = "enter" /\ pc' = "ret" /\ vm' = [vm EXCEPT !.val = obj]
        /\ UNCHANGED <<prog, runs, jump, gcs, status>>
    BY DEF EnterValue, GotoRet, control
  <1>2. Recorded(vm) /\ IsList(vm.stack) /\ Value(vm.space, vm.mem, obj)
    BY <1>1, AtEnter
  <1>3. /\ Recorded(vm') /\ vm'.space = vm.space /\ vm'.globals = vm.globals /\ vm'.roots = vm.roots
        /\ vm'.mem = vm.mem /\ vm'.val = obj /\ vm'.env = vm.env /\ vm'.exc = vm.exc /\ vm'.stack = vm.stack
    BY <1>1, <1>2 DEF Recorded, Fields
  <1>4. Quiet(vm.stack, vm'.stack, Len(vm.stack)) /\ Len(vm.stack) + 1 .. Len(vm'.stack) = {}
    <2>1. Len(vm.stack) \in Nat
      BY <1>2, ListFacts
    <2> QED BY <1>2, <1>3, <2>1, QuietSame
  <1>5. PcOK(prog, vm', pc', code', obj', todo')
    BY <1>1, <1>2, <1>3 DEF PcOK
  <1> QED BY <1>1, <1>2, <1>3, <1>4, <1>5, CalmStep

LEMMA EnterBlackholeKeeps ==
  ASSUME MachineInv, EnterBlackhole
  PROVE  MachineInv' /\ Stays
  BY EndStep DEF EnterBlackhole, End, control

\* What is known of the frames of the machine.
LEMMA StackFrames ==
  ASSUME NEW pg \in Program, NEW v, MachineOK(pg, v)
  PROVE  /\ IsList(v.stack) /\ HolesMatch(v.space, v.mem, v.stack)
         /\ \A i \in Updates(v.stack) : At(v.space, v.mem, v.stack[i].a)
         /\ \A i \in DOMAIN v.stack : FrameOK(pg, v.space, v.mem, v.stack[i])
  BY DEF MachineOK, Shape, FrameOK, Updates

LEMMA EnterThunkKeeps ==
  ASSUME MachineInv, EnterThunk
  PROVE  MachineInv' /\ Stays
  <1> DEFINE o == Obj(vm, obj)
             i == obj[2]
             f == Frame("UPDATE", obj, Null, <<>>, 0)
             q == Thing("BLACKHOLE", o.code, o.ptr)
             m == [vm.mem EXCEPT ![i] = q]
             e == o.ptr[1]
             c == o.code
  <1>1. Running /\ pc = "enter" /\ o.kind = "THUNK" /\ pc' = "eval" /\ code' = c
        /\ vm' = [vm EXCEPT !.stack = Append(@, f), !.env = e, !.mem[i].kind = "BLACKHOLE"]
        /\ UNCHANGED <<prog, runs, jump, gcs, status>>
    BY DEF EnterThunk, EnterKind, GotoEval
  <1>2. /\ prog \in Program /\ MachineOK(prog, vm) /\ Value(vm.space, vm.mem, obj)
        /\ HeapOK(prog, vm.space, vm.mem, {}) /\ Recorded(vm) /\ vm.space \in Spaces /\ IsList(vm.stack)
    BY <1>1, AtEnter
  <1>3. At(vm.space, vm.mem, obj) /\ o = vm.mem[i] /\ Good(prog, vm.space, vm.mem, o) /\ i \in DOMAIN vm.mem
        /\ o = Thing(o.kind, o.code, o.ptr)
    BY <1>1, <1>2, ObjectHere
  <1>4. Len(o.ptr) = 1 /\ Fits(prog, vm.space, vm.mem, c, e)
    BY <1>1, <1>3 DEF Good
  <1>5. q.kind = "BLACKHOLE" /\ Good(prog, vm.space, vm.mem, q) /\ Evolves(vm.mem[i], q)
    BY <1>1, <1>3, <1>4 DEF Good, Thing, Evolves
  <1>6. /\ HeapOK(prog, vm.space, m, {}) /\ Later(vm.mem, m) /\ DOMAIN m = DOMAIN vm.mem
        /\ m[i] = q /\ \A k \in DOMAIN vm.mem : k # i => m[k] = vm.mem[k]
    BY <1>2, <1>3, <1>5, HeapStored
  <1>7. [vm.mem EXCEPT ![i].kind = "BLACKHOLE"] = m
    <2>1. \A x : [vm.mem EXCEPT ![i].kind = x] = [vm.mem EXCEPT ![i] = Thing(x, o.code, o.ptr)]
      <3> HIDE DEF o, i
      <3> QED BY <1>3, KindChanged
    <2> HIDE DEF o
    <2> QED BY <2>1
  <1>8. f.kind = "UPDATE" /\ f.a = obj /\ f.b = Null /\ f = Frame(f.kind, f.a, f.b, f.code, f.n)
    BY DEF Frame
  <1> HIDE DEF o, q, f, e, c
  <1>9. /\ Recorded(vm') /\ vm'.space = vm.space /\ vm'.globals = vm.globals /\ vm'.roots = vm.roots
        /\ vm'.mem = m /\ vm'.val = vm.val /\ vm'.env = e /\ vm'.exc = vm.exc /\ vm'.stack = Append(vm.stack, f)
    <2>1. /\ Recorded(vm') /\ vm'.space = vm.space /\ vm'.globals = vm.globals /\ vm'.roots = vm.roots
          /\ vm'.mem = [vm.mem EXCEPT ![i].kind = "BLACKHOLE"]
          /\ vm'.val = vm.val /\ vm'.env = e /\ vm'.exc = vm.exc /\ vm'.stack = Append(vm.stack, f)
      BY <1>1, <1>2 DEF Recorded, Fields
    <2> QED BY <1>7, <2>1
  <1> HIDE DEF m, i
  <1>10. Fits(prog, vm.space, m, c, e) /\ At(vm.space, m, obj)
    BY <1>2, <1>3, <1>4, <1>6, FitsLater, ValueLater
  <1>11. e = Null \/ IsEnv(vm.space, m, e)
    BY <1>10 DEF Fits
  <1>12. FrameOK(prog, vm.space, m, f)
    BY <1>8, <1>10 DEF FrameOK
  <1>13. HolesMatch(vm.space, m, vm'.stack)
    <2>1. \A j \in Updates(vm.stack) : At(vm.space, vm.mem, vm.stack[j].a)
      BY <1>2, StackFrames
    <2>2. HolesMatch(vm.space, vm.mem, vm.stack)
      BY <1>2, StackFrames
    <2>3. vm.mem[obj[2]].kind # "BLACKHOLE" /\ m[obj[2]].kind = "BLACKHOLE"
      BY <1>1, <1>3, <1>5, <1>6 DEF i
    <2>4. \A k \in DOMAIN vm.mem : k # obj[2] => m[k] = vm.mem[k]
      BY <1>6 DEF i
    <2> QED BY <1>2, <1>3, <1>6, <1>8, <1>9, <2>1, <2>2, <2>3, <2>4, HolesMore
  <1> DEFINE k == Len(vm.stack)
             u == vm'.stack
  <1>14. /\ Edits(vm.stack, u, k) /\ k + 1 .. k = {}
         /\ \A j \in k + 1 .. Len(u) : u[j].kind # "STOP" /\ FrameOK(prog, vm.space, m, u[j])
    <2>1. k \in Nat /\ IsList(u) /\ Len(u) = k + 1 /\ u[k + 1] = f /\ \A j \in 1 .. k : u[j] = vm.stack[j]
      BY <1>2, <1>9, ListFacts, ListAppend
    <2> HIDE DEF u, k
    <2>2. \A j \in k + 1 .. k + 1 : j = k + 1
      BY <2>1
    <2>3. k \in 0 .. k /\ k <= k + 1 /\ k + 1 .. k = {}
      BY <2>1
    <2> QED BY <1>8, <1>12, <2>1, <2>2, <2>3 DEF Edits, k
  <1>15. PcOK(prog, vm', pc', code', obj', todo')
    BY <1>1, <1>9, <1>10 DEF PcOK
  <1>16. Kept(prog, vm, vm) /\ RootsAreValues(vm) /\ gcs' \in Nat
    BY <1>1, KeptSame DEF MachineInv, RootsAreValues
  <1> HIDE DEF k, u
  <1>17. MachineInv'
    <2>1. \A j \in k + 1 .. Len(vm.stack) : vm.stack[j].kind # "STOP"
      BY <1>14 DEF k
    <2>2. Edits(vm.stack, vm'.stack, k)
          /\ \A j \in k + 1 .. Len(vm'.stack) : vm'.stack[j].kind # "STOP" /\ FrameOK(prog, vm.space, vm'.mem, vm'.stack[j])
      BY <1>14, <1>9 DEF u
    <2>3. HolesMatch(vm.space, vm'.mem, vm'.stack) /\ HeapOK(prog, vm.space, vm'.mem, {}) /\ Later(vm.mem, vm'.mem)
          /\ (vm'.env = vm.env \/ vm'.env = Null \/ IsEnv(vm.space, vm'.mem, vm'.env))
      BY <1>6, <1>9, <1>11, <1>13
    <2> QED BY <1>1, <1>2, <1>9, <1>15, <1>16, <2>1, <2>2, <2>3, LoudStep
  <1>18. Stays
    BY <1>1, <1>3, <1>6, <1>9 DEF Stays, Changes
  <1> QED BY <1>17, <1>18

\* An object that no frame waits for is overwritten, on a stack that stays.
LEMMA EnterEmptyStrKeeps ==
  ASSUME MachineInv, EnterEmptyStr
  PROVE  MachineInv' /\ Stays
  <1> DEFINE o == Obj(vm, obj)
             i == obj[2]
             q == Thing("IND", <<>>, <<Nil>>)
             m == [vm.mem EXCEPT ![i] = q]
  <1>1. Running /\ pc = "enter" /\ o.kind = "STR" /\ pc' = "enter" /\ obj' = Nil
        /\ vm' = [vm EXCEPT !.mem[i] = q]
        /\ UNCHANGED <<prog, runs, jump, gcs, status>>
    BY DEF EnterEmptyStr, EnterKind, GotoEnter
  <1>2. /\ prog \in Program /\ MachineOK(prog, vm) /\ Value(vm.space, vm.mem, obj)
        /\ HeapOK(prog, vm.space, vm.mem, {}) /\ Recorded(vm) /\ IsList(vm.stack)
    BY <1>1, AtEnter
  <1>3. At(vm.space, vm.mem, obj) /\ o = vm.mem[i] /\ i \in DOMAIN vm.mem
    BY <1>1, <1>2, ObjectHere
  <1>4. \A h : Value(vm.space, h, Nil)
    BY ConArityAssumption DEF Value, StaticValue, Nil, ConObject
  <1>5. q.kind = "IND" /\ Good(prog, vm.space, vm.mem, q) /\ Evolves(vm.mem[i], q)
    <2>1. IsList(<<Nil>>) /\ Len(<<Nil>>) = 1 /\ Values(vm.space, vm.mem, <<Nil>>, 1)
      <3>1. IsList(<<Nil>>) /\ Len(<<Nil>>) = 1
        BY OneList
      <3>2. <<Nil>>[1] = Nil
        OBVIOUS
      <3> HIDE DEF Nil
      <3> QED BY <1>4, <3>1, <3>2 DEF Values
    <2> QED BY <1>1, <1>3, <2>1 DEF Good, Thing, Evolves
  <1>6. /\ HeapOK(prog, vm.space, m, {}) /\ Later(vm.mem, m) /\ DOMAIN m = DOMAIN vm.mem
        /\ m[i] = q /\ \A k \in DOMAIN vm.mem : k # i => m[k] = vm.mem[k]
    BY <1>2, <1>3, <1>5, HeapStored
  <1>7. BlackHoles(m) = BlackHoles(vm.mem)
    BY <1>1, <1>3, <1>5, <1>6 DEF BlackHoles
  <1> HIDE DEF q
  <1>8. /\ Recorded(vm') /\ vm'.space = vm.space /\ vm'.globals = vm.globals /\ vm'.roots = vm.roots
        /\ vm'.mem = m /\ vm'.val = vm.val /\ vm'.env = vm.env /\ vm'.exc = vm.exc /\ vm'.stack = vm.stack
    BY <1>1, <1>2 DEF Recorded, Fields
  <1> HIDE DEF m, o
  <1>9. PcOK(prog, vm', pc', code', obj', todo')
    BY <1>1, <1>4, <1>8 DEF PcOK
  <1>10. Kept(prog, vm, vm) /\ RootsAreValues(vm) /\ gcs' \in Nat
    BY <1>1, KeptSame DEF MachineInv, RootsAreValues
  <1>a. Quiet(vm.stack, vm'.stack, Len(vm.stack)) /\ Len(vm.stack) + 1 .. Len(vm'.stack) = {}
    <2>1. Len(vm.stack) \in Nat
      BY <1>2, ListFacts
    <2> QED BY <1>2, <1>8, <2>1, QuietSame
  <1>11. MachineInv'
    BY <1>1, <1>2, <1>6, <1>7, <1>8, <1>9, <1>10, <1>a, StoringStep
  <1>12. Stays
    BY <1>1, <1>3, <1>6, <1>8 DEF Stays, Changes
  <1> QED BY <1>11, <1>12

\* A pointer is registered: it survives the reservation.
Rooted(v, x) == [v EXCEPT !.roots = Append(@, x)]
Unrooted(w) == [w EXCEPT !.roots = Pop(@, 1)]

\* A registered local is a root, and goes when it is taken back ...
LEMMA MachineRooted ==
  ASSUME NEW pg \in Program, NEW v, MachineOK(pg, v), NEW x, Maybe(v.space, v.mem, x)
  PROVE  LET u == Rooted(v, x)
         IN  /\ MachineOK(pg, u) /\ Recorded(u)
             /\ u.space = v.space /\ u.mem = v.mem /\ u.globals = v.globals /\ u.stack = v.stack
             /\ u.env = v.env /\ u.val = v.val /\ u.exc = v.exc /\ u.roots = Append(v.roots, x)
  <1> DEFINE u == Rooted(v, x)
  <1>1. Recorded(v) /\ IsList(v.roots) /\ IsList(v.stack)
    BY MachineParts, MachineRecorded
  <1>2. /\ Recorded(u) /\ u.space = v.space /\ u.mem = v.mem /\ u.globals = v.globals /\ u.stack = v.stack
        /\ u.env = v.env /\ u.val = v.val /\ u.exc = v.exc /\ u.roots = Append(v.roots, x)
    BY <1>1 DEF Recorded, Fields, Rooted
  <1> HIDE DEF u
  <1>3. /\ HeapOK(pg, v.space, v.mem, {}) /\ Later(v.mem, v.mem) /\ Registers(v, v.mem)
        /\ HolesMatch(v.space, v.mem, v.stack)
    BY MachineParts, StackFrames
  <1>4. /\ IsList(u.roots) /\ DOMAIN u.roots = 1 .. Len(v.roots) + 1 /\ Len(v.roots) \in Nat
        /\ DOMAIN v.roots = 1 .. Len(v.roots) /\ u.roots[Len(v.roots) + 1] = x
        /\ \A i \in 1 .. Len(v.roots) : u.roots[i] = v.roots[i]
    BY <1>1, <1>2, ListAppend, ListFacts
  <1>5. \A i \in DOMAIN u.roots : i = Len(v.roots) + 1 \/ i \in 1 .. Len(v.roots)
    BY <1>4
  <1>6. Registers(u, u.mem)
    BY <1>2, <1>3, <1>4, <1>5 DEF Registers
  <1>7. IsMachine(v, u)
    BY <1>2, RecordedMachine
  <1>8. Len(v.stack) \in Nat /\ Quiet(v.stack, u.stack, Len(v.stack))
    BY <1>1, <1>2, QuietSame, ListFacts
  <1>9. Edits(v.stack, u.stack, Len(v.stack)) /\ Len(v.stack) + 1 .. Len(u.stack) = {}
    BY <1>2, <1>8 DEF Quiet
  <1>10. MachineOK(pg, u)
    BY <1>2, <1>3, <1>6, <1>7, <1>9, NextMachine
  <1> QED BY <1>2, <1>10 DEF u

LEMMA MachineUnrooted ==
  ASSUME NEW pg \in Program, NEW w, MachineOK(pg, w), w.roots # <<>>
  PROVE  LET u == Unrooted(w)
         IN  /\ MachineOK(pg, u) /\ Recorded(u) /\ IsList(w.roots) /\ Len(w.roots) \in Nat /\ Len(w.roots) >= 1
             /\ u.space = w.space /\ u.mem = w.mem /\ u.globals = w.globals /\ u.stack = w.stack
             /\ u.env = w.env /\ u.val = w.val /\ u.exc = w.exc /\ u.roots = Pop(w.roots, 1)
             /\ Len(u.roots) = Len(w.roots) - 1 /\ DOMAIN u.roots = 1 .. Len(w.roots) - 1
             /\ \A i \in 1 .. Len(w.roots) - 1 : u.roots[i] = w.roots[i]
             /\ Maybe(w.space, w.mem, Top(w.roots)) /\ Top(w.roots) = w.roots[Len(w.roots)]
  <1> DEFINE u == Unrooted(w)
             n == Len(w.roots)
  <1>1. Recorded(w) /\ IsList(w.roots) /\ IsList(w.stack)
    BY MachineParts, MachineRecorded
  <1>2. /\ Recorded(u) /\ u.space = w.space /\ u.mem = w.mem /\ u.globals = w.globals /\ u.stack = w.stack
        /\ u.env = w.env /\ u.val = w.val /\ u.exc = w.exc /\ u.roots = Pop(w.roots, 1)
    BY <1>1 DEF Recorded, Fields, Unrooted
  <1> HIDE DEF u
  <1>3. /\ HeapOK(pg, w.space, w.mem, {}) /\ Later(w.mem, w.mem) /\ Registers(w, w.mem)
        /\ HolesMatch(w.space, w.mem, w.stack)
    BY MachineParts, StackFrames
  <1>4. n \in Nat /\ n >= 1 /\ n \in DOMAIN w.roots /\ Top(w.roots) = w.roots[n] /\ DOMAIN w.roots = 1 .. n
        /\ n - 1 \in 0 .. n
    BY <1>1, TopFrame
  <1>5. IsList(u.roots) /\ Len(u.roots) = n - 1 /\ DOMAIN u.roots = 1 .. n - 1
        /\ \A i \in 1 .. n - 1 : u.roots[i] = w.roots[i]
    <2>1. u.roots = SubSeq(w.roots, 1, n - 1)
      BY <1>2 DEF Pop
    <2> HIDE DEF n
    <2> QED BY <1>1, <1>4, <2>1, ListPrefix
  <1>6. Registers(u, u.mem)
    <2>1. \A i \in DOMAIN u.roots : i \in DOMAIN w.roots /\ u.roots[i] = w.roots[i]
      BY <1>4, <1>5
    <2> QED BY <1>2, <1>3, <1>5, <2>1 DEF Registers
  <1>7. IsMachine(w, u)
    BY <1>2, RecordedMachine
  <1>8. Len(w.stack) \in Nat /\ Quiet(w.stack, u.stack, Len(w.stack))
    BY <1>1, <1>2, QuietSame, ListFacts
  <1>9. Edits(w.stack, u.stack, Len(w.stack)) /\ Len(w.stack) + 1 .. Len(u.stack) = {}
    BY <1>2, <1>8 DEF Quiet
  <1>10. MachineOK(pg, u)
    BY <1>2, <1>3, <1>6, <1>7, <1>9, NextMachine
  <1>11. Maybe(w.space, w.mem, Top(w.roots))
    BY <1>3, <1>4 DEF Registers
  <1> QED BY <1>1, <1>2, <1>4, <1>5, <1>10, <1>11 DEF u

\* ... with the value that it had across a reservation.
LEMMA RootedReservation ==
  ASSUME NEW pg \in Program, NEW v, MachineOK(pg, v), NEW x, Maybe(v.space, v.mem, x),
         NEW n, NEW w \in Reserved(n, Rooted(v, x))
  PROVE  /\ MachineOK(pg, w) /\ w.roots # <<>>
         /\ MachineOK(pg, Unrooted(w)) /\ Kept(pg, v, Unrooted(w))
         /\ RootsAreValues(v) => RootsAreValues(Unrooted(w))
         /\ Alike(v, x, w, Top(w.roots)) /\ Maybe(w.space, w.mem, Top(w.roots))
         /\ w.space = v.space => w.mem = v.mem /\ Top(w.roots) = x
         /\ x # Null => Value(w.space, w.mem, Top(w.roots))
  <1> DEFINE r == Rooted(v, x)
             u == Unrooted(w)
             l == Len(v.roots)
  <1>1. /\ MachineOK(pg, r) /\ r.space = v.space /\ r.mem = v.mem /\ r.globals = v.globals /\ r.stack = v.stack
        /\ r.env = v.env /\ r.val = v.val /\ r.exc = v.exc /\ r.roots = Append(v.roots, x)
    BY MachineRooted
  <1> HIDE DEF r
  <1>2. w \in Reserved(n, r)
    BY DEF r
  <1>3. MachineOK(pg, w) /\ Kept(pg, r, w) /\ (w.space = v.space => w = r)
    BY <1>1, <1>2, ReservationKeeps
  <1>4. IsList(v.roots) /\ l \in Nat /\ IsList(r.roots) /\ Len(r.roots) = l + 1 /\ DOMAIN r.roots = 1 .. l + 1
        /\ r.roots[l + 1] = x /\ DOMAIN v.roots = 1 .. l /\ \A i \in 1 .. l : r.roots[i] = v.roots[i]
    <2>1. IsList(v.roots)
      BY MachineParts
    <2> QED BY <1>1, <2>1, ListFacts, ListAppend
  <1> HIDE DEF l
  <1>5. Len(w.roots) = l + 1 /\ DOMAIN w.roots = 1 .. l + 1
    BY <1>3, <1>4 DEF Kept
  <1>6. w.roots # <<>>
    <2>1. l + 1 # 0
      BY <1>4
    <2> QED BY <1>5, <2>1, EmptyList
  <1>7. /\ MachineOK(pg, u) /\ u.space = w.space /\ u.mem = w.mem /\ u.stack = w.stack
        /\ u.env = w.env /\ u.val = w.val /\ u.exc = w.exc
        /\ Len(u.roots) = Len(w.roots) - 1 /\ DOMAIN u.roots = 1 .. Len(w.roots) - 1
        /\ \A i \in 1 .. Len(w.roots) - 1 : u.roots[i] = w.roots[i]
        /\ Maybe(w.space, w.mem, Top(w.roots)) /\ Top(w.roots) = w.roots[Len(w.roots)]
    BY <1>3, <1>6, MachineUnrooted
  <1> HIDE DEF u
  <1>8. l + 1 - 1 = l /\ l + 1 \in 1 .. l + 1 /\ \A i \in 1 .. l : i \in 1 .. l + 1
    BY <1>4
  <1>9. Len(u.roots) = l /\ DOMAIN u.roots = DOMAIN v.roots
        /\ \A i \in DOMAIN v.roots : u.roots[i] = w.roots[i] /\ i \in DOMAIN r.roots /\ r.roots[i] = v.roots[i]
    BY <1>4, <1>5, <1>7, <1>8
  <1>10. \A p : Obj(r, p) = Obj(v, p) /\ Obj(u, p) = Obj(w, p)
    BY <1>1, <1>7 DEF Obj
  <1>11. \A p, q : Alike(r, p, w, q) => Alike(v, p, w, q) /\ Alike(v, p, u, q)
    BY <1>10 DEF Alike
  <1>12. Alike(v, x, w, Top(w.roots))
    <2>1. Alike(r, r.roots[l + 1], w, w.roots[l + 1])
      BY <1>3, <1>4, <1>8 DEF Kept
    <2> QED BY <1>4, <1>5, <1>7, <1>11, <2>1
  <1>13. \A i \in DOMAIN v.roots : Alike(v, v.roots[i], u, u.roots[i])
    <2>1. \A i \in DOMAIN r.roots : Alike(r, r.roots[i], w, w.roots[i])
      BY <1>3 DEF Kept
    <2> QED BY <1>9, <1>11, <2>1
  <1>14. Kept(pg, v, u)
    <2>1. /\ DOMAIN u.stack = DOMAIN v.stack /\ Len(u.stack) = Len(v.stack)
          /\ \A i \in DOMAIN v.stack : u.stack[i].kind = v.stack[i].kind /\ u.stack[i].code = v.stack[i].code
          /\ Alike(v, v.val, u, u.val) /\ (u.exc = Null <=> v.exc = Null)
          /\ \A e : Fits(pg, v.space, v.mem, e, v.env) => Fits(pg, u.space, u.mem, e, u.env)
      BY <1>1, <1>3, <1>7, <1>11 DEF Kept
    <2> QED BY <1>4, <1>9, <1>13, <2>1 DEF Kept, l
  <1>15. RootsAreValues(v) => RootsAreValues(u)
    BY <1>7, <1>14, ReservationRoots
  <1>16. w.space = v.space => w.mem = v.mem /\ Top(w.roots) = x
    BY <1>1, <1>3, <1>4, <1>5, <1>7
  <1>17. x # Null => Value(w.space, w.mem, Top(w.roots))
    BY <1>7, <1>12 DEF Alike, Maybe
  <1> QED BY <1>3, <1>6, <1>7, <1>12, <1>14, <1>15, <1>16, <1>17 DEF u

\* The heap grows in steps.
LEMMA ExtendsTransitive ==
  ASSUME NEW l, NEW m, NEW n, Extends(l, m), Extends(m, n)
  PROVE  Extends(l, n)
  BY DEF Extends

\* A constructor with two fields.
LEMMA TwoList == \A x, y : IsList(<<x, y>>) /\ Len(<<x, y>>) = 2 /\ <<x, y>>[1] = x /\ <<x, y>>[2] = y
  <1> SUFFICES ASSUME NEW x, NEW y PROVE <<x, y>> \in Seq({x, y})
    BY ListSeq
  <1> QED OBVIOUS

\* A constructor with two fields is made.
LEMMA PairMade ==
  ASSUME NEW pg \in Program, NEW sp, NEW m, HeapOK(pg, sp, m, {}),
         NEW c \in DOMAIN ConArity, ConArity[c] = 2, NEW x, NEW y, Value(sp, m, x), Value(sp, m, y)
  PROVE  LET o == Thing("CON", c, <<x, y>>)
             n == Append(m, o)
             p == <<sp, Len(m) + 1>>
         IN  /\ HeapOK(pg, sp, n, {}) /\ Extends(m, n) /\ BlackHoles(n) = BlackHoles(m) /\ Value(sp, n, p)
             /\ At(sp, n, p) /\ n[p[2]] = o
  <1> DEFINE s == <<x, y>>
             o == Thing("CON", c, s)
  <1>1. IsList(s) /\ Len(s) = 2 /\ s[1] = x /\ s[2] = y
    BY TwoList
  <1> HIDE DEF s
  <1>2. \A i \in 1 .. 2 : i = 1 \/ i = 2
    OBVIOUS
  <1>3. Values(sp, m, s, 1)
    BY <1>1, <1>2 DEF Values
  <1>4. Good(pg, sp, m, o) /\ o.kind = "CON"
    BY <1>1, <1>3 DEF Good, Thing
  <1> HIDE DEF o
  <1>5. LET n == Append(m, o)
            p == <<sp, Len(m) + 1>>
        IN  /\ HeapOK(pg, sp, n, {}) /\ Extends(m, n) /\ BlackHoles(n) = BlackHoles(m) /\ Value(sp, n, p)
            /\ At(sp, n, p) /\ n[p[2]] = o
    BY <1>4, HeapAppended
  <1> QED BY <1>5 DEF o, s

\* The three objects of the first cell of a packed string.
LEMMA CellMade ==
  ASSUME NEW pg \in Program, NEW w, NEW m, HeapOK(pg, w.space, m, {}), NEW s
  PROVE  LET head == Boxed(w, m, "CHAR", s[1], s[1] \in SmallChar)
             tail == Append(head.mem, Thing("STR", Tail(s), <<>>))
             mem == Append(tail, Thing("CON", "Cons", <<head.p, NewPtr(w, head.mem)>>))
             cell == NewPtr(w, tail)
         IN  /\ HeapOK(pg, w.space, mem, {}) /\ Extends(m, mem) /\ BlackHoles(mem) = BlackHoles(m)
             /\ Value(w.space, mem, cell)
  <1> DEFINE static == s[1] \in SmallChar
             x == s[1]
             head == Boxed(w, m, "CHAR", x, static)
             h == head.mem
             hp == head.p
             o == Thing("STR", Tail(s), <<>>)
             t == Append(h, o)
             tp == <<w.space, Len(h) + 1>>
             n == Append(t, Thing("CON", "Cons", <<hp, tp>>))
             cell == <<w.space, Len(t) + 1>>
  <1>1. static \in BOOLEAN
    <2>1. \A S, y : (y \in S) \in BOOLEAN
      BY SMT
    <2> QED BY <2>1, Zenon
  <1>2. Good(pg, w.space, h, o) /\ o.kind = "STR"
    BY EmptyList DEF Good, Thing
  <1> HIDE DEF static, x
  <1>3. /\ HeapOK(pg, w.space, h, {}) /\ Extends(m, h) /\ BlackHoles(h) = BlackHoles(m) /\ Value(w.space, h, hp)
    <2>1. LET b == Boxed(w, m, "CHAR", x, static)
          IN  /\ HeapOK(pg, w.space, b.mem, {}) /\ Extends(m, b.mem) /\ BlackHoles(b.mem) = BlackHoles(m)
              /\ Value(w.space, b.mem, b.p)
      BY <1>1, BoxedMade
    <2> QED BY <2>1
  <1> HIDE DEF head, h, hp, o
  <1>4. /\ HeapOK(pg, w.space, t, {}) /\ Extends(h, t) /\ Later(h, t) /\ BlackHoles(t) = BlackHoles(h)
        /\ Value(w.space, t, tp)
    BY <1>2, <1>3, HeapAppended
  <1>5. Value(w.space, t, hp)
    BY <1>3, <1>4, ValueLater
  <1> HIDE DEF t, tp
  <1>6. /\ HeapOK(pg, w.space, n, {}) /\ Extends(t, n) /\ BlackHoles(n) = BlackHoles(t) /\ Value(w.space, n, cell)
    BY <1>4, <1>5, ConArityAssumption, PairMade
  <1> HIDE DEF n, cell
  <1>7. Extends(m, n) /\ BlackHoles(n) = BlackHoles(m)
    BY <1>3, <1>4, <1>6, ExtendsTransitive
  <1> QED BY <1>6, <1>7 DEF n, cell, t, tp, o, h, hp, head, static, x, NewPtr

LEMMA EnterStrKeeps ==
  ASSUME MachineInv, EnterStr
  PROVE  MachineInv' /\ Stays
  <1> DEFINE o(w) == Top(w.roots)
             s(w) == Obj(w, o(w)).code
             head(w) == Boxed(w, w.mem, "CHAR", s(w)[1], s(w)[1] \in SmallChar)
             tail(w) == Append(head(w).mem, Thing("STR", Tail(s(w)), <<>>))
             mem(w) == Append(tail(w), Thing("CON", "Cons", <<head(w).p, NewPtr(w, head(w).mem)>>))
             cell(w) == NewPtr(w, tail(w))
             ind(w) == Thing("IND", <<>>, <<cell(w)>>)
  <1>1. Running /\ pc = "enter" /\ Obj(vm, obj).kind = "STR" /\ pc' = "ret"
        /\ UNCHANGED <<prog, runs, jump, status>>
    BY DEF EnterStr, EnterKind, GotoRet, control
  <1>2. PICK w \in Reserved(StrRoom, Rooted(vm, obj)) :
           /\ vm' = [w EXCEPT !.mem = [mem(w) EXCEPT ![o(w)[2]] = ind(w)], !.val = cell(w), !.roots = Pop(@, 1)]
           /\ Uses(StrRoom, w, mem(w))
    BY DEF EnterStr, Rooted
  <1>3. gcs' = IF w.space = vm.space THEN gcs ELSE gcs + 1
    BY <1>2 DEF Uses
  <1> DEFINE m == mem(w)
             c == cell(w)
             q == Thing("IND", <<>>, <<c>>)
             i == o(w)[2]
             n == [m EXCEPT ![i] = q]
             u == Unrooted(w)
  <1>4. vm' = [w EXCEPT !.mem = n, !.val = c, !.roots = Pop(@, 1)]
    BY <1>2
  <1>5. /\ prog \in Program /\ MachineOK(prog, vm) /\ Value(vm.space, vm.mem, obj) /\ vm.space \in Spaces
        /\ RootsAreValues(vm) /\ obj # Null
    <2>1. RootsAreValues(vm)
      BY DEF MachineInv, RootsAreValues
    <2> QED BY <1>1, <2>1, AtEnter, NullIsNoValue
  <1>6. /\ MachineOK(prog, w) /\ w.roots # <<>> /\ MachineOK(prog, u) /\ Kept(prog, vm, u) /\ RootsAreValues(u)
        /\ Alike(vm, obj, w, o(w)) /\ Value(w.space, w.mem, o(w))
        /\ (w.space = vm.space => w.mem = vm.mem /\ o(w) = obj)
    BY <1>2, <1>5, RootedReservation DEF Maybe
  <1>7. HeapOK(prog, w.space, w.mem, {}) /\ Recorded(w) /\ u.roots = Pop(w.roots, 1)
        /\ u.space = w.space /\ u.mem = w.mem /\ u.globals = w.globals /\ u.stack = w.stack
        /\ u.env = w.env /\ u.val = w.val /\ u.exc = w.exc
    BY <1>5, <1>6, MachineParts, MachineRecorded, MachineUnrooted
  <1> HIDE DEF u
  <1>8. At(w.space, w.mem, o(w)) /\ i \in DOMAIN w.mem /\ w.mem[i].kind = "STR"
    <2>1. Obj(w, o(w)).kind = "STR"
      BY <1>1, <1>6 DEF Alike, SameObject
    <2> QED BY <1>5, <1>6, <2>1, ObjectHere
  <1>9. /\ HeapOK(prog, w.space, m, {}) /\ Extends(w.mem, m) /\ BlackHoles(m) = BlackHoles(w.mem)
        /\ Value(w.space, m, c)
    BY <1>5, <1>7, CellMade
  <1> HIDE DEF m, c, i
  <1>10. i \in DOMAIN m /\ m[i] = w.mem[i] /\ Later(w.mem, m)
    BY <1>8, <1>9, ExtendsLater DEF Extends
  <1>11. q.kind = "IND" /\ Good(prog, w.space, m, q) /\ Evolves(m[i], q)
    <2> DEFINE t == <<c>>
    <2>1. IsList(t) /\ Len(t) = 1 /\ t[1] = c
      BY OneList
    <2> HIDE DEF t
    <2>2. Values(w.space, m, t, 1)
      <3>1. \A j \in 1 .. 1 : j = 1
        OBVIOUS
      <3> QED BY <1>9, <2>1, <3>1 DEF Values
    <2>3. q = Thing("IND", <<>>, t)
      BY DEF t
    <2> HIDE DEF q
    <2> QED BY <1>8, <1>10, <2>1, <2>2, <2>3 DEF Good, Thing, Evolves
  <1>12. /\ HeapOK(prog, w.space, n, {}) /\ Later(m, n) /\ DOMAIN n = DOMAIN m
         /\ n[i] = q /\ \A k \in DOMAIN m : k # i => n[k] = m[k]
    BY <1>5, <1>9, <1>10, <1>11, HeapStored
  <1> HIDE DEF n, q
  <1>13. BlackHoles(n) = BlackHoles(w.mem)
    <2>1. BlackHoles(n) = BlackHoles(m)
      BY <1>8, <1>10, <1>11, <1>12 DEF BlackHoles
    <2> QED BY <1>9, <2>1
  <1>14. Later(w.mem, n) /\ Value(w.space, n, c)
    BY <1>9, <1>10, <1>12, LaterTransitive, ValueLater
  <1>15. /\ Recorded(vm') /\ vm'.space = u.space /\ vm'.globals = u.globals /\ vm'.roots = u.roots
         /\ vm'.mem = n /\ vm'.val = c /\ vm'.env = u.env /\ vm'.exc = u.exc /\ vm'.stack = u.stack
    BY <1>4, <1>7 DEF Recorded, Fields
  <1>16. Quiet(u.stack, vm'.stack, Len(u.stack)) /\ Len(u.stack) + 1 .. Len(vm'.stack) = {}
    <2>1. IsList(u.stack)
      BY <1>5, <1>6, MachineParts
    <2>2. Len(u.stack) \in Nat
      BY <2>1, ListFacts
    <2> QED BY <1>15, <2>1, <2>2, QuietSame
  <1>17. PcOK(prog, vm', pc', code', obj', todo')
    BY <1>1, <1>7, <1>14, <1>15 DEF PcOK
  <1>18. gcs' \in Nat /\ (gcs' = gcs => w.space = vm.space)
    BY <1>3 DEF MachineInv
  <1>19. MachineInv'
    BY <1>1, <1>6, <1>7, <1>12, <1>13, <1>14, <1>15, <1>16, <1>17, <1>18, StoringStep
  <1>20. Stays
    <2>1. SUFFICES ASSUME gcs' = gcs, NEW k \in DOMAIN vm.mem PROVE Changes(k) \/ vm'.mem[k] = vm.mem[k]
      BY DEF Stays
    <2>2. w.mem = vm.mem
      BY <1>6, <1>18, <2>1
    <2>3. CASE k = i
      BY <1>8, <2>2, <2>3 DEF Changes
    <2>4. CASE k # i
      <3>1. k \in DOMAIN m /\ m[k] = vm.mem[k]
        BY <1>9, <2>2 DEF Extends
      <3> QED BY <1>12, <1>15, <2>4, <3>1
    <2> QED BY <2>3, <2>4
  <1> QED BY <1>19, <1>20

=============================================================================
