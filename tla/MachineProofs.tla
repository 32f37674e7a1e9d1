--------------------------- MODULE MachineProofs ---------------------------
(***************************************************************************)
(* Proofs about the machine, second part: the steps of ret:, of the        *)
(* primitives, of the C code that runs the machine and of unwind(), the    *)
(* initial state, and the theorems.                                        *)
(***************************************************************************)
EXTENDS MachineEval

-----------------------------------------------------------------------------
(* ret.                                                                    *)

\* A step from the machine w, which the code makes of vm on the way.
LEMMA LoudFrom ==
  ASSUME prog \in Program, Running, prog' = prog, status' = status, runs' = runs, jump' = jump, gcs' \in Nat,
         NEW w, MachineOK(prog, w), RootsAreValues(w), RunsOK(w.stack, runs, jump, Len(w.roots)),
         Recorded(vm'), vm'.space = w.space, vm'.globals = w.globals, vm'.roots = w.roots,
         HeapOK(prog, w.space, vm'.mem, {}), Later(w.mem, vm'.mem),
         vm'.env = w.env \/ vm'.env = Null \/ IsEnv(w.space, vm'.mem, vm'.env),
         vm'.val = w.val \/ Value(w.space, vm'.mem, vm'.val),
         vm'.exc = w.exc \/ vm'.exc = Null,
         NEW k, Edits(w.stack, vm'.stack, k),
         \A i \in k + 1 .. Len(w.stack) : w.stack[i].kind # "STOP",
         \A i \in k + 1 .. Len(vm'.stack) : /\ vm'.stack[i].kind # "STOP"
                                            /\ FrameOK(prog, w.space, vm'.mem, vm'.stack[i]),
         HolesMatch(w.space, vm'.mem, vm'.stack),
         PcOK(prog, vm', pc', code', obj', todo')
  PROVE  MachineInv'
  <1>2. IsMachine(w, vm')
    BY RecordedMachine
  <1>4. Registers(w, vm'.mem)
    BY MachineParts, RegistersLater
  <1>5. Registers(vm', vm'.mem)
    BY <1>4 DEF Registers, Maybe
  <1>6. RootsAreValues(vm')
    BY ValueLater DEF RootsAreValues
  <1>7. MachineOK(prog, vm')
    BY <1>2, <1>5, NextMachine
  <1>8. IsList(w.stack)
    BY MachineParts
  <1>10. RunsOK(vm'.stack, runs, jump, Len(w.roots))
    <2>1. IsList(vm'.stack) /\ k \in 0 .. Len(w.stack) /\ k <= Len(vm'.stack)
          /\ \A i \in 1 .. k : vm'.stack[i].kind = w.stack[i].kind
      BY DEF Edits
    <2> QED BY <1>8, <2>1, RunsStay, ZenonT(30)
  <1> QED BY <1>6, <1>7, <1>10, Assemble

\* A step that stores into the heap, and one that appends to it, after a reservation.
LEMMA StoringFrom ==
  ASSUME prog \in Program, Running, prog' = prog, status' = status, runs' = runs, jump' = jump, gcs' \in Nat,
         NEW w, MachineOK(prog, w), RootsAreValues(w), RunsOK(w.stack, runs, jump, Len(w.roots)),
         Recorded(vm'), vm'.space = w.space, vm'.globals = w.globals, vm'.roots = w.roots,
         HeapOK(prog, w.space, vm'.mem, {}), Later(w.mem, vm'.mem), BlackHoles(vm'.mem) = BlackHoles(w.mem),
         vm'.env = w.env \/ vm'.env = Null \/ IsEnv(w.space, vm'.mem, vm'.env),
         vm'.val = w.val \/ Value(w.space, vm'.mem, vm'.val),
         vm'.exc = w.exc \/ vm'.exc = Null,
         NEW k, Quiet(w.stack, vm'.stack, k),
         \A i \in k + 1 .. Len(vm'.stack) : FrameOK(prog, w.space, vm'.mem, vm'.stack[i]),
         PcOK(prog, vm', pc', code', obj', todo')
  PROVE  MachineInv'
  <1>1. HolesMatch(w.space, vm'.mem, vm'.stack)
    BY HolesStay
  <1>2. /\ Edits(w.stack, vm'.stack, k) /\ \A i \in k + 1 .. Len(w.stack) : w.stack[i].kind # "STOP"
        /\ \A i \in k + 1 .. Len(vm'.stack) : vm'.stack[i].kind # "STOP"
    BY DEF Quiet
  <1> QED BY <1>1, <1>2, LoudFrom

LEMMA GrowingFrom ==
  ASSUME prog \in Program, Running, prog' = prog, status' = status, runs' = runs, jump' = jump, gcs' \in Nat,
         NEW w, MachineOK(prog, w), RootsAreValues(w), RunsOK(w.stack, runs, jump, Len(w.roots)),
         gcs' = gcs => w.mem = vm.mem,
         Recorded(vm'), vm'.space = w.space, vm'.globals = w.globals, vm'.roots = w.roots,
         HeapOK(prog, w.space, vm'.mem, {}), Extends(w.mem, vm'.mem), BlackHoles(vm'.mem) = BlackHoles(w.mem),
         vm'.env = w.env \/ vm'.env = Null \/ IsEnv(w.space, vm'.mem, vm'.env),
         vm'.val = w.val \/ Value(w.space, vm'.mem, vm'.val),
         vm'.exc = w.exc \/ vm'.exc = Null,
         NEW k, Quiet(w.stack, vm'.stack, k),
         \A i \in k + 1 .. Len(vm'.stack) : FrameOK(prog, w.space, vm'.mem, vm'.stack[i]),
         PcOK(prog, vm', pc', code', obj', todo')
  PROVE  MachineInv' /\ Stays
  <1>1. Later(w.mem, vm'.mem)
    BY ExtendsLater
  <1>2. MachineInv'
    BY <1>1, StoringFrom
  <1>3. Stays
    BY DEF Stays, Extends
  <1> QED BY <1>2, <1>3

\* The stack of a running machine has the stop frame of its first run.
LEMMA StackNotEmpty ==
  ASSUME MachineInv, Running
  PROVE  vm.stack # <<>>
  <1>1. RunsOK(vm.stack, runs, jump, Len(vm.roots))
    BY DEF MachineInv
  <1>2. 1 \in DOMAIN runs
    BY <1>1, ListFacts DEF RunsOK
  <1>3. runs[1].base + 1 \in Stops(vm.stack)
    BY <1>1, <1>2 DEF RunsOK
  <1>4. DOMAIN vm.stack # {}
    BY <1>3 DEF Stops
  <1> QED BY <1>4, EmptyList

\* What is known where a value meets the frame on top.
LEMMA AtTop ==
  ASSUME MachineInv, Running, NEW f, f = Top(vm.stack)
  PROVE  /\ prog \in Program /\ MachineOK(prog, vm) /\ RootsAreValues(vm) /\ gcs \in Nat
         /\ RunsOK(vm.stack, runs, jump, Len(vm.roots))
         /\ HeapOK(prog, vm.space, vm.mem, {}) /\ IsList(vm.stack) /\ Recorded(vm) /\ vm.space \in Spaces
         /\ vm.stack # <<>> /\ FrameOK(prog, vm.space, vm.mem, f) /\ f = vm.stack[Len(vm.stack)]
         /\ Len(vm.stack) \in DOMAIN vm.stack /\ Len(vm.stack) \in Nat
         /\ (pc = "ret" => Value(vm.space, vm.mem, vm.val))
         /\ (pc = "unwind" => Value(vm.space, vm.mem, vm.exc))
         /\ (pc = "call" => f.kind = "PRIM")
  <1>1. /\ prog \in Program /\ MachineOK(prog, vm) /\ RootsAreValues(vm) /\ gcs \in Nat
        /\ RunsOK(vm.stack, runs, jump, Len(vm.roots)) /\ PcOK(prog, vm, pc, code, obj, todo)
    BY DEF MachineInv, RootsAreValues
  <1>2. HeapOK(prog, vm.space, vm.mem, {}) /\ IsList(vm.stack) /\ Recorded(vm) /\ vm.space \in Spaces
        /\ vm.stack # <<>> /\ \A i \in DOMAIN vm.stack : FrameOK(prog, vm.space, vm.mem, vm.stack[i])
    BY <1>1, MachineParts, MachineRecorded, StackNotEmpty
  <1>3. f = vm.stack[Len(vm.stack)] /\ Len(vm.stack) \in DOMAIN vm.stack /\ Len(vm.stack) \in Nat
    BY <1>2, TopFrame
  <1>4. /\ pc = "ret" => Value(vm.space, vm.mem, vm.val)
        /\ pc = "unwind" => Value(vm.space, vm.mem, vm.exc)
        /\ pc = "call" => Top(vm.stack).kind = "PRIM"
    BY <1>1 DEF PcOK
  <1> QED BY <1>1, <1>2, <1>3, <1>4

\* The frame on top goes.
LEMMA PoppedFrame ==
  ASSUME NEW s, IsList(s), s # <<>>, Top(s).kind \notin {"UPDATE", "STOP"}
  PROVE  Quiet(s, Pop(s, 1), Len(s) - 1) /\ Len(s) - 1 + 1 .. Len(Pop(s, 1)) = {}
  <1>1. /\ Len(s) \in Nat /\ 1 \in 0 .. Len(s) /\ Len(s) - 1 + 1 .. Len(s) = {Len(s)} /\ Top(s) = s[Len(s)]
    BY TopFrame
  <1>2. Quiet(s, Pop(s, 1), Len(s) - 1) /\ Len(Pop(s, 1)) = Len(s) - 1
    BY <1>1, QuietPop
  <1>3. Len(s) - 1 + 1 .. Len(s) - 1 = {}
    BY <1>1
  <1> QED BY <1>2, <1>3

LEMMA RetCatchKeeps ==
  ASSUME MachineInv, RetCatch
  PROVE  MachineInv' /\ Stays
  <1>1. Running /\ pc = "ret" /\ Top(vm.stack).kind = "CATCH" /\ pc' = pc /\ vm' = [vm EXCEPT !.stack = Pop(@, 1)]
        /\ UNCHANGED <<prog, runs, jump, gcs, status>>
    BY DEF RetCatch, Ret, control
  <1>2. Recorded(vm) /\ IsList(vm.stack) /\ vm.stack # <<>> /\ Value(vm.space, vm.mem, vm.val)
    BY <1>1, AtTop
  <1>3. /\ Recorded(vm') /\ vm'.space = vm.space /\ vm'.globals = vm.globals /\ vm'.roots = vm.roots
        /\ vm'.mem = vm.mem /\ vm'.val = vm.val /\ vm'.env = vm.env /\ vm'.exc = vm.exc
        /\ vm'.stack = Pop(vm.stack, 1)
    BY <1>1, <1>2 DEF Recorded, Fields
  <1>4. Quiet(vm.stack, vm'.stack, Len(vm.stack) - 1) /\ Len(vm.stack) - 1 + 1 .. Len(vm'.stack) = {}
    BY <1>1, <1>2, <1>3, PoppedFrame
  <1>5. PcOK(prog, vm', pc', code', obj', todo')
    BY <1>1, <1>2, <1>3 DEF PcOK
  <1> QED BY <1>1, <1>2, <1>3, <1>4, <1>5, CalmStep

\* The update frame on top goes, and its object changes.
Overwritten(i, q) == [vm.mem EXCEPT ![i] = q]
UpdateDone(i, q) == vm' = [vm EXCEPT !.mem = Overwritten(i, q), !.stack = Pop(@, 1)]

\* The update frame goes as its black hole is overwritten.
LEMMA UpdateStep ==
  ASSUME MachineInv, Running, prog' = prog, status' = status, runs' = runs, jump' = jump, gcs' = gcs,
         Top(vm.stack).kind = "UPDATE", NEW i, i = Top(vm.stack).a[2], NEW o, o = vm.mem[i],
         NEW q, Good(prog, vm.space, vm.mem, q), q.kind \in {"THUNK", "IND"},
         UpdateDone(i, q),
         Later(vm.mem, Overwritten(i, q)) => PcOK(prog, vm', pc', code', obj', todo')
  PROVE  MachineInv' /\ Stays
  <1> DEFINE m == Overwritten(i, q)
             f == Top(vm.stack)
             k == Len(vm.stack) - 1
  <1>1. /\ prog \in Program /\ MachineOK(prog, vm) /\ RootsAreValues(vm) /\ gcs \in Nat
        /\ RunsOK(vm.stack, runs, jump, Len(vm.roots))
        /\ HeapOK(prog, vm.space, vm.mem, {}) /\ IsList(vm.stack) /\ Recorded(vm)
        /\ vm.stack # <<>> /\ FrameOK(prog, vm.space, vm.mem, f) /\ f = vm.stack[Len(vm.stack)]
        /\ Len(vm.stack) \in DOMAIN vm.stack /\ Len(vm.stack) \in Nat
    BY AtTop
  <1>2. At(vm.space, vm.mem, f.a)
    BY <1>1 DEF FrameOK
  <1>3. HolesMatch(vm.space, vm.mem, vm.stack) /\ \A j \in Updates(vm.stack) : At(vm.space, vm.mem, vm.stack[j].a)
    BY <1>1, StackFrames
  <1>4. i \in DOMAIN vm.mem /\ o.kind = "BLACKHOLE"
    <2>1. Len(vm.stack) \in Updates(vm.stack)
      BY <1>1 DEF Updates
    <2> QED BY <1>1, <1>3, <2>1 DEF HolesMatch
  <1>5. /\ HeapOK(prog, vm.space, m, {}) /\ Later(vm.mem, m) /\ DOMAIN m = DOMAIN vm.mem
        /\ m[i] = q /\ \A j \in DOMAIN vm.mem : j # i => m[j] = vm.mem[j]
    <2>1. Evolves(vm.mem[i], q)
      BY <1>4 DEF Evolves
    <2> QED BY <1>1, <1>4, <2>1, HeapStored DEF Overwritten
  <1> HIDE DEF m
  <1>6. /\ Recorded(vm') /\ vm'.space = vm.space /\ vm'.globals = vm.globals /\ vm'.roots = vm.roots
        /\ vm'.mem = m /\ vm'.val = vm.val /\ vm'.env = vm.env /\ vm'.exc = vm.exc
        /\ vm'.stack = Pop(vm.stack, 1)
    BY <1>1 DEF Recorded, Fields, UpdateDone, m
  <1>7. HolesMatch(vm.space, m, vm'.stack)
    <2>1. /\ m[Top(vm.stack).a[2]].kind # "BLACKHOLE" /\ Top(vm.stack).kind = "UPDATE"
          /\ \A j \in DOMAIN vm.mem : j # Top(vm.stack).a[2] => m[j] = vm.mem[j]
      BY <1>5
    <2> QED BY <1>1, <1>3, <1>5, <1>6, <2>1, HolesFewer
  <1>8. /\ Edits(vm.stack, vm'.stack, k) /\ k + 1 .. Len(vm'.stack) = {}
        /\ \A j \in k + 1 .. Len(vm.stack) : vm.stack[j].kind # "STOP"
    <2>1. /\ k + 1 .. Len(vm.stack) = {Len(vm.stack)} /\ k \in 0 .. Len(vm.stack) /\ k \in Nat
      BY <1>1, TopFrame
    <2>2. Pop(vm.stack, 1) = SubSeq(vm.stack, 1, k)
      BY DEF Pop
    <2> HIDE DEF k, f
    <2> DEFINE u == SubSeq(vm.stack, 1, k)
    <2>6. IsList(u) /\ Len(u) = k /\ \A j \in 1 .. k : u[j] = vm.stack[j]
      BY <1>1, <2>1, ListPrefix
    <2>7. vm'.stack = u
      BY <1>6, <2>2
    <2> HIDE DEF u
    <2>3. IsList(vm'.stack) /\ Len(vm'.stack) = k /\ \A j \in 1 .. k : vm'.stack[j] = vm.stack[j]
      BY <2>6, <2>7
    <2>4. k + 1 .. k = {} /\ k <= k
      BY <2>1
    <2>5. \A j \in k + 1 .. Len(vm.stack) : vm.stack[j].kind # "STOP"
      BY <1>1, <2>1 DEF f
    <2> QED BY <2>1, <2>3, <2>4, <2>5 DEF Edits
  <1>9. PcOK(prog, vm', pc', code', obj', todo')
    BY <1>5 DEF m
  <1> HIDE DEF k, f
  <1>10. MachineInv'
    BY <1>1, <1>5, <1>6, <1>7, <1>8, <1>9, LoudFrom
  <1>11. Stays
    BY <1>4, <1>5, <1>6 DEF Stays, Changes
  <1> QED BY <1>10, <1>11

LEMMA RetUpdateKeeps ==
  ASSUME MachineInv, RetUpdate
  PROVE  MachineInv' /\ Stays
  <1> DEFINE i == Top(vm.stack).a[2]
             t == <<vm.val>>
             q == Thing("IND", <<>>, t)
             m == [vm.mem EXCEPT ![i] = q]
  <1>1. Running /\ pc = "ret" /\ Top(vm.stack).kind = "UPDATE" /\ pc' = pc
        /\ vm' = [vm EXCEPT !.mem[i] = q, !.stack = Pop(@, 1)]
        /\ UNCHANGED <<prog, runs, jump, gcs, status>>
    BY DEF RetUpdate, Ret, control
  <1>2. vm' = [vm EXCEPT !.mem = m, !.stack = Pop(@, 1)]
    BY <1>1
  <1>a. UpdateDone(i, q) /\ m = Overwritten(i, q)
    BY <1>2 DEF UpdateDone, Overwritten
  <1>3. Value(vm.space, vm.mem, vm.val) /\ Recorded(vm)
    BY <1>1, AtTop
  <1>4. q.kind = "IND" /\ Good(prog, vm.space, vm.mem, q)
    <2>1. IsList(t) /\ Len(t) = 1 /\ t[1] = vm.val
      BY OneList
    <2> HIDE DEF t
    <2>2. Values(vm.space, vm.mem, t, 1)
      <3>1. \A j \in 1 .. 1 : j = 1
        OBVIOUS
      <3> QED BY <1>3, <2>1, <3>1 DEF Values
    <2> QED BY <2>1, <2>2 DEF Good, Thing
  <1> HIDE DEF q, t, i
  <1>5. vm'.space = vm.space /\ vm'.mem = m /\ vm'.val = vm.val
    BY <1>2, <1>3 DEF Recorded, Fields
  <1>6. Later(vm.mem, m) => PcOK(prog, vm', pc', code', obj', todo')
    BY <1>1, <1>3, <1>5, ValueLater DEF PcOK
  <1> HIDE DEF m
  <1> QED BY <1>1, <1>a, <1>4, <1>6, UpdateStep DEF i

LEMMA NoAlternativeKeeps ==
  ASSUME MachineInv, NoAlternative
  PROVE  MachineInv' /\ Stays
  BY EndStep DEF NoAlternative, End, control

LEMMA NotAFunctionKeeps ==
  ASSUME MachineInv, NotAFunction
  PROVE  MachineInv' /\ Stays
  BY EndStep DEF NotAFunction, End, control

\* An element before a list.
LEMMA FrontList ==
  ASSUME NEW e, NEW l, IsList(l)
  PROVE  LET x == <<e>> \o l
         IN  /\ IsList(x) /\ Len(x) = 1 + Len(l) /\ x[1] = e /\ DOMAIN x = 1 .. 1 + Len(l)
             /\ \A j \in 1 .. Len(l) : x[1 + j] = l[j]
             /\ \A j \in 2 .. 1 + Len(l) : j - 1 \in 1 .. Len(l) /\ x[j] = l[j - 1]
  <1> DEFINE y == <<e>>
             x == y \o l
  <1>1. IsList(y) /\ Len(y) = 1 /\ y[1] = e /\ Len(l) \in Nat
    BY OneList, ListFacts
  <1> HIDE DEF y
  <1>a. IsList(y) /\ IsList(l)
    BY <1>1
  <1>2. /\ IsList(x) /\ Len(x) = Len(y) + Len(l) /\ DOMAIN x = 1 .. Len(y) + Len(l)
        /\ \A i \in 1 .. Len(y) : x[i] = y[i]
        /\ \A i \in 1 .. Len(l) : x[Len(y) + i] = l[i]
    BY <1>a, ListConcat
  <1> HIDE DEF x
  <1>3. Len(x) = 1 + Len(l) /\ DOMAIN x = 1 .. 1 + Len(l) /\ x[1] = e /\ \A i \in 1 .. Len(l) : x[1 + i] = l[i]
    <2>1. 1 \in 1 .. Len(y)
      BY <1>1
    <2> QED BY <1>1, <1>2, <2>1
  <1>4. \A j \in 2 .. 1 + Len(l) : j - 1 \in 1 .. Len(l) /\ 1 + (j - 1) = j
    BY <1>1
  <1>5. \A j \in 2 .. 1 + Len(l) : x[j] = l[j - 1]
    BY <1>3, <1>4
  <1> QED BY <1>2, <1>3, <1>4, <1>5 DEF x, y

\* A new frame of an environment.
LEMMA EnvMade ==
  ASSUME NEW pg \in Program, NEW sp, NEW m, HeapOK(pg, sp, m, {}), NEW n \in Nat,
         NEW t, IsList(t), Len(t) = 1 + n, Values(sp, m, t, 2), t[1] = Null \/ IsEnv(sp, m, t[1]),
         NEW s \in Seq(Nat), EnvFits(sp, m, t[1], s)
  PROVE  LET o == Thing("ENV", <<>>, t)
             u == Append(m, o)
             p == <<sp, Len(m) + 1>>
         IN  /\ HeapOK(pg, sp, u, {}) /\ Extends(m, u) /\ Later(m, u) /\ BlackHoles(u) = BlackHoles(m)
             /\ IsEnv(sp, u, p) /\ EnvFits(sp, u, p, <<n>> \o s)
  <1> DEFINE o == Thing("ENV", <<>>, t)
             u == Append(m, o)
             p == <<sp, Len(m) + 1>>
  <1>1. Good(pg, sp, m, o) /\ o.kind = "ENV" /\ o.ptr = t
    BY DEF Good, Thing
  <1> HIDE DEF o
  <1>2. /\ HeapOK(pg, sp, u, {}) /\ Extends(m, u) /\ Later(m, u) /\ BlackHoles(u) = BlackHoles(m)
        /\ IsEnv(sp, u, p) /\ u[p[2]] = o
    BY <1>1, HeapAppended
  <1> HIDE DEF u, p
  <1>3. EnvFits(sp, u, t[1], s)
    <2>1. Len(s) \in Nat
      OBVIOUS
    <2> QED BY <1>2, <2>1, EnvFitsLater
  <1>4. u[p[2]].ptr[1] = t[1] /\ Len(u[p[2]].ptr) >= 1 + n
    BY <1>1, <1>2
  <1>5. EnvFits(sp, u, p, <<n>> \o s)
    BY <1>2, <1>3, <1>4, EnvFitsPush
  <1> QED BY <1>2, <1>5 DEF u, p, o

\* The machine with the frame on top popped, and another environment.
LEMMA PoppedMachine ==
  ASSUME NEW pg \in Program, NEW v, MachineOK(pg, v), v.stack # <<>>, Top(v.stack).kind \notin {"UPDATE", "STOP"},
         NEW e, e = Null \/ IsEnv(v.space, v.mem, e),
         NEW rs, NEW j, NEW n, RunsOK(v.stack, rs, j, n)
  PROVE  LET u == [v EXCEPT !.stack = Pop(@, 1), !.env = e]
         IN  /\ MachineOK(pg, u) /\ Recorded(u) /\ u.space = v.space /\ u.mem = v.mem /\ u.globals = v.globals
             /\ u.roots = v.roots /\ u.env = e /\ u.val = v.val /\ u.exc = v.exc /\ u.stack = Pop(v.stack, 1)
             /\ RunsOK(u.stack, rs, j, n)
  <1> DEFINE u == [v EXCEPT !.stack = Pop(@, 1), !.env = e]
             k == Len(v.stack) - 1
  <1>1. Recorded(v) /\ IsList(v.stack)
    BY MachineParts, MachineRecorded
  <1>2. /\ Recorded(u) /\ u.space = v.space /\ u.mem = v.mem /\ u.globals = v.globals
        /\ u.roots = v.roots /\ u.env = e /\ u.val = v.val /\ u.exc = v.exc /\ u.stack = Pop(v.stack, 1)
    BY <1>1 DEF Recorded, Fields
  <1> HIDE DEF u
  <1>3. /\ HeapOK(pg, v.space, v.mem, {}) /\ Later(v.mem, v.mem) /\ Registers(v, v.mem)
    BY MachineParts
  <1>4. Registers(u, u.mem)
    BY <1>2, <1>3 DEF Registers
  <1>5. IsMachine(v, u)
    BY <1>2, RecordedMachine
  <1>6. Quiet(v.stack, u.stack, k) /\ k + 1 .. Len(u.stack) = {}
    BY <1>1, <1>2, PoppedFrame
  <1> HIDE DEF k
  <1>7. BlackHoles(u.mem) = BlackHoles(v.mem)
    BY <1>2
  <1>8. MachineOK(pg, u)
    BY <1>2, <1>3, <1>4, <1>5, <1>6, <1>7, QuietMachine
  <1>9. RunsOK(u.stack, rs, j, n)
    BY <1>1, <1>6, QuietRuns
  <1> QED BY <1>2, <1>8, <1>9 DEF u

\* select_alt() finds an alternative of the case, one whose constructor is the
\* value's if it binds fields.
LEMMA SelectedAlt ==
  ASSUME NEW alts, NEW o, NEW alt \in Selected(alts, o)
  PROVE  /\ \E i \in DOMAIN alts : alt = alts[i]
         /\ Binds(alt) => o.kind = "CON" /\ alt.c = o.code
  BY DEF Selected, Matches, Binds

LEMMA RetCaseKeeps ==
  ASSUME MachineInv, RetCase
  PROVE  MachineInv' /\ Stays
  <1> DEFINE f == Top(vm.stack)
             P == [vm EXCEPT !.stack = Pop(@, 1), !.env = f.b]
             t(w) == <<w.env>> \o Obj(w, w.val).ptr
             h(w) == Append(w.mem, Thing("ENV", <<>>, t(w)))
  <1>1. Running /\ pc = "ret" /\ f.kind = "CASE" /\ UNCHANGED <<prog, runs, jump, status>>
    BY DEF RetCase, Ret
  <1>2. PICK alt \in Selected(f.code.alts, Obj(vm, vm.val)) :
           /\ pc' = "eval" /\ code' = alt.body
           /\ IF Binds(alt)
              THEN \E w \in Reserved(2 + alt.arity, P) :
                      /\ vm' = [w EXCEPT !.mem = h(w), !.env = NewPtr(w, w.mem)]
                      /\ Uses(2 + alt.arity, w, h(w))
              ELSE vm' = P /\ UNCHANGED <<room, gcs>>
    BY DEF RetCase, GotoEval
  <1>3. /\ prog \in Program /\ MachineOK(prog, vm) /\ RootsAreValues(vm) /\ gcs \in Nat
        /\ RunsOK(vm.stack, runs, jump, Len(vm.roots)) /\ Recorded(vm)
        /\ vm.stack # <<>> /\ FrameOK(prog, vm.space, vm.mem, f) /\ Value(vm.space, vm.mem, vm.val) /\ vm.space \in Spaces
    BY <1>1, AtTop
  <1>4. f.code.k = "CASE" /\ Fits(prog, vm.space, vm.mem, f.code, f.b)
    BY <1>1, <1>3 DEF FrameOK
  <1>5. f.b = Null \/ IsEnv(vm.space, vm.mem, f.b)
    BY <1>4 DEF Fits
  <1> HIDE DEF f
  <1>6. /\ MachineOK(prog, P) /\ Recorded(P) /\ P.space = vm.space /\ P.mem = vm.mem /\ P.globals = vm.globals
        /\ P.roots = vm.roots /\ P.env = f.b /\ P.val = vm.val /\ P.exc = vm.exc /\ P.stack = Pop(vm.stack, 1)
        /\ RunsOK(P.stack, runs, jump, Len(vm.roots))
    <2>1. Top(vm.stack).kind \notin {"UPDATE", "STOP"}
      BY <1>1 DEF f
    <2> QED BY <1>3, <1>5, <2>1, PoppedMachine
  <1> HIDE DEF P
  <1>7. RootsAreValues(P)
    BY <1>3, <1>6 DEF RootsAreValues
  <1>8. PICK i \in DOMAIN f.code.alts : alt = f.code.alts[i]
    BY SelectedAlt
  <1>9. /\ alt.k = "CON" => alt.c \in DOMAIN ConArity /\ alt.arity = ConArity[alt.c]
        /\ \A s : Scoped(prog, f.code, s) => <<alt.body, IF Binds(alt) THEN <<alt.arity>> \o s ELSE s>> \in Code[prog]
    <2>1. PICK s \in Seq(Nat) : Scoped(prog, f.code, s)
      BY <1>3, <1>4, ScopeOf
    <2>2. alt.k = "CON" => alt.c \in DOMAIN ConArity /\ alt.arity = ConArity[alt.c]
      BY <1>4, <1>8, <2>1 DEF Scoped
    <2>3. ASSUME NEW r, Scoped(prog, f.code, r)
          PROVE  <<alt.body, IF Binds(alt) THEN <<alt.arity>> \o r ELSE r>> \in Code[prog]
      BY <1>4, <1>8, <2>3 DEF Scoped
    <2> QED BY <2>2, <2>3
  <1>10. CASE ~ Binds(alt)
    <2>1. vm' = P /\ gcs' = gcs
      BY <1>2, <1>10
    <2>2. PICK s \in Seq(Nat) : Scoped(prog, f.code, s) /\ EnvFits(vm.space, vm.mem, f.b, s)
      BY <1>3, <1>4, ScopeOf
    <2>3. <<alt.body, s>> \in Code[prog]
      BY <1>9, <1>10, <2>2
    <2>4. Fits(prog, vm.space, vm.mem, alt.body, f.b)
      BY <1>3, <1>5, <2>2, <2>3, FitsIn
    <2>5. PcOK(prog, P, pc', code', obj', todo')
      BY <1>2, <1>6, <2>4 DEF PcOK
    <2>6. /\ IsList(P.stack) /\ HeapOK(prog, P.space, P.mem, {}) /\ Extends(P.mem, P.mem)
      BY <1>3, <1>6, MachineParts
    <2>7. Quiet(P.stack, P.stack, Len(P.stack)) /\ Len(P.stack) + 1 .. Len(P.stack) = {}
      <3>1. Len(P.stack) \in Nat
        BY <2>6, ListFacts
      <3> QED BY <2>6, <3>1, QuietSame
    <2>8. RunsOK(P.stack, runs, jump, Len(P.roots))
      BY <1>6
    <2> QED BY <1>1, <1>3, <1>6, <1>7, <2>1, <2>5, <2>6, <2>7, <2>8, GrowingFrom
  <1>11. CASE Binds(alt)
    <2>1. PICK w \in Reserved(2 + alt.arity, P) :
                      /\ vm' = [w EXCEPT !.mem = h(w), !.env = NewPtr(w, w.mem)]
                      /\ Uses(2 + alt.arity, w, h(w))
      BY <1>2, <1>11
    <2> DEFINE o == Obj(w, w.val)
               m == h(w)
               q == NewPtr(w, w.mem)
               l == o.ptr
               a == alt.arity
               x == t(w)
    <2>2. MachineOK(prog, w) /\ Kept(prog, P, w) /\ (w.space = P.space => w = P)
      BY <1>3, <1>6, <2>1, ReservationKeeps
    <2>3. RootsAreValues(w)
      BY <1>3, <1>6, <1>7, <2>2, ReservationRoots
    <2>4. gcs' \in Nat /\ (gcs' = gcs => w.mem = vm.mem)
      <3>1. gcs' = IF w.space = vm.space THEN gcs ELSE gcs + 1
        BY <2>1 DEF Uses
      <3> QED BY <1>3, <1>6, <2>2, <3>1
    <2>5. RunsOK(w.stack, runs, jump, Len(w.roots))
      <3>1. IsList(P.stack) /\ IsList(w.stack) /\ Len(w.roots) = Len(vm.roots)
        BY <1>3, <1>6, <2>2, MachineParts DEF Kept
      <3> QED BY <1>6, <2>2, <3>1, KeptRuns
    <2>6. /\ HeapOK(prog, w.space, w.mem, {}) /\ Recorded(w) /\ IsList(w.stack) /\ w.space \in Spaces
          /\ Registers(w, w.mem) /\ Len(w.stack) \in Nat
      BY <1>3, <2>2, MachineParts, MachineRecorded, ListFacts
    <2>7. Fits(prog, w.space, w.mem, f.code, w.env)
      BY <1>4, <1>6, <2>2 DEF Kept
    <2>8. PICK s \in Seq(Nat) : /\ Scoped(prog, f.code, s) /\ EnvFits(w.space, w.mem, w.env, s)
                                /\ w.env = Null \/ IsEnv(w.space, w.mem, w.env)
      BY <1>3, <2>7, ScopeOf
    <2>9. <<alt.body, <<a>> \o s>> \in Code[prog]
      BY <1>9, <1>11, <2>8
    <2>10. a \in Nat /\ a > 0 /\ a = ConArity[alt.c] /\ alt.c \in DOMAIN ConArity
      BY <1>9, <1>11, ConArityAssumption DEF Binds
    <2>11. Value(w.space, w.mem, w.val)
      <3>1. vm.val # Null
        BY <1>3, NullIsNoValue
      <3>2. w.val # Null
        BY <1>6, <2>2, <3>1 DEF Kept, Alike
      <3> QED BY <2>6, <3>2 DEF Registers, Maybe
    <2>12. o.kind = "CON" /\ o.code = alt.c
      <3>1. Obj(P, P.val) = Obj(vm, vm.val)
        BY <1>6 DEF Obj
      <3>2. o.kind = Obj(vm, vm.val).kind /\ o.code = Obj(vm, vm.val).code
        BY <2>2, <3>1 DEF Kept, Alike, SameObject
      <3> QED BY <1>11, <3>2, SelectedAlt
    <2>13. Good(prog, w.space, w.mem, o) /\ IsList(l)
      BY <1>3, <2>2, <2>10, <2>11, <2>12, ObjectHere
    <2> HIDE DEF a
    <2>14. Len(l) = a /\ Values(w.space, w.mem, l, 1)
      BY <2>10, <2>12, <2>13, ConArityAssumption DEF Good
    <2> HIDE DEF o, l
    <2>15. /\ IsList(x) /\ Len(x) = 1 + a /\ x[1] = w.env /\ Values(w.space, w.mem, x, 2)
      <3>1. x = <<w.env>> \o l
        BY DEF o, l
      <3> HIDE DEF x
      <3>2. /\ IsList(x) /\ Len(x) = 1 + Len(l) /\ x[1] = w.env
            /\ \A j \in 2 .. 1 + Len(l) : j - 1 \in 1 .. Len(l) /\ x[j] = l[j - 1]
        BY <2>13, <3>1, FrontList
      <3> QED BY <2>14, <3>2 DEF Values
    <2>16. m = Append(w.mem, Thing("ENV", <<>>, x)) /\ q = <<w.space, Len(w.mem) + 1>>
      BY DEF NewPtr
    <2>17. vm' = [w EXCEPT !.mem = m, !.env = q]
      BY <2>1
    <2> HIDE DEF m, q, x
    <2>18. /\ HeapOK(prog, w.space, m, {}) /\ Extends(w.mem, m) /\ BlackHoles(m) = BlackHoles(w.mem)
           /\ IsEnv(w.space, m, q) /\ EnvFits(w.space, m, q, <<a>> \o s)
      <3> DEFINE sp == w.space
                 k == w.mem
      <3>1. HeapOK(prog, sp, k, {})
        BY <2>6
      <3>2. IsList(x)
        BY <2>15
      <3>3. Len(x) = 1 + a /\ Values(sp, k, x, 2)
        BY <2>15
      <3>4. x[1] = Null \/ IsEnv(sp, k, x[1])
        BY <2>8, <2>15
      <3>5. EnvFits(sp, k, x[1], s)
        BY <2>8, <2>15
      <3>6. a \in Nat
        BY <2>10 DEF a
      <3> HIDE DEF sp, k
      <3>7. LET u == Append(k, Thing("ENV", <<>>, x))
                p == <<sp, Len(k) + 1>>
            IN  /\ HeapOK(prog, sp, u, {}) /\ Extends(k, u) /\ Later(k, u) /\ BlackHoles(u) = BlackHoles(k)
                /\ IsEnv(sp, u, p) /\ EnvFits(sp, u, p, <<a>> \o s)
        BY <1>3, <3>1, <3>2, <3>3, <3>4, <3>5, <3>6, EnvMade
      <3> QED BY <2>16, <3>7 DEF sp, k
    <2>19. /\ Recorded(vm') /\ vm'.space = w.space /\ vm'.globals = w.globals /\ vm'.roots = w.roots
           /\ vm'.mem = m /\ vm'.val = w.val /\ vm'.env = q /\ vm'.exc = w.exc /\ vm'.stack = w.stack
      BY <2>17, <2>6 DEF Recorded, Fields
    <2>20. Quiet(w.stack, vm'.stack, Len(w.stack)) /\ Len(w.stack) + 1 .. Len(vm'.stack) = {}
      BY <2>6, <2>19, QuietSame
    <2>21. Fits(prog, w.space, m, alt.body, q)
      BY <1>3, <2>9, <2>18, FitsIn
    <2>22. PcOK(prog, vm', pc', code', obj', todo')
      BY <1>2, <2>19, <2>21 DEF PcOK
    <2> QED BY <1>1, <1>3, <2>2, <2>3, <2>4, <2>5, <2>18, <2>19, <2>20, <2>22, GrowingFrom
  <1> QED BY <1>10, <1>11

-----------------------------------------------------------------------------
(* Functions, their arguments and the frames of arguments.                 *)

\* args_on_stack() counts frames of arguments, from the top.
LEMMA ArgsFacts ==
  ASSUME NEW s, IsList(s)
  PROVE  LET n == ArgsOnStack(s)
         IN  /\ n \in 0 .. Len(s) /\ Len(s) \in Nat
             /\ \A i \in Len(s) - n + 1 .. Len(s) : s[i].kind = "ARG"
  <1> DEFINE L == Len(s)
             ends == {i \in 0 .. L : i < L => FrameFromTop(s, i).kind # "ARG"}
             n == CHOOSE i \in ends : \A j \in ends : i <= j
  <1>1. L \in Nat
    BY ListFacts
  <1>2. \A i \in 0 .. L : FrameFromTop(s, i) = s[L - i]
    BY DEF FrameFromTop
  <1> HIDE DEF L
  <1>3. L \in ends /\ ends \subseteq Nat
    BY <1>1
  <1>4. \A i \in 0 .. L : i \notin ends => i < L /\ s[L - i].kind = "ARG"
    BY <1>1, <1>2
  <1>5. ArgsOnStack(s) = n
    BY DEF ArgsOnStack, L
  <1>6. \A i \in ends : i \in 0 .. L
    OBVIOUS
  <1>7. \E i \in ends : \A j \in ends : i <= j
    <2> HIDE DEF ends
    <2> QED BY <1>3, LeastNatural
  <1>8. n \in ends /\ \A j \in ends : n <= j
    <2> HIDE DEF ends
    <2> QED BY <1>7
  <1> HIDE DEF n, ends
  <1>9. n \in 0 .. L
    BY <1>6, <1>8
  <1>10. ASSUME NEW i \in L - n + 1 .. L PROVE s[i].kind = "ARG"
    <2> DEFINE j == L - i
    <2>1. j \in 0 .. L /\ j < n /\ L - j = i
      BY <1>1, <1>9
    <2> HIDE DEF j
    <2>2. j \notin ends
      BY <1>8, <1>9, <2>1
    <2> QED BY <1>4, <2>1, <2>2
  <1> QED BY <1>1, <1>5, <1>9, <1>10 DEF L

\* The arguments that the frames on top hold, and the stack without them.
LEMMA ArgsTaken ==
  ASSUME NEW pg \in Program, NEW v, MachineOK(pg, v), NEW n \in 0 .. Len(v.stack),
         \A i \in Len(v.stack) - n + 1 .. Len(v.stack) : v.stack[i].kind = "ARG"
  PROVE  LET t == TakeArgs(v, n)
             u == Pop(v.stack, n)
         IN  /\ IsList(t) /\ Len(t) = n /\ Values(v.space, v.mem, t, 1)
             /\ Quiet(v.stack, u, Len(v.stack) - n) /\ Len(u) = Len(v.stack) - n
             /\ Len(v.stack) - n + 1 .. Len(u) = {}
  <1> DEFINE s == v.stack
             L == Len(s)
             t == TakeArgs(v, n)
  <1>1. IsList(s) /\ L \in Nat /\ n \in Nat /\ DOMAIN s = 1 .. L /\ \A i \in DOMAIN s : FrameOK(pg, v.space, v.mem, s[i])
    <2>1. IsList(s) /\ \A i \in DOMAIN s : FrameOK(pg, v.space, v.mem, s[i])
      BY MachineParts
    <2> QED BY <2>1, ListFacts
  <1>2. t = [i \in 1 .. n |-> s[L - (i - 1)].a]
    BY DEF TakeArgs, FrameFromTop
  <1>3. n \in 0 .. L /\ \A i \in L - n + 1 .. L : s[i].kind = "ARG"
    OBVIOUS
  <1>4. IsList(t) /\ Len(t) = n
    <2>1. t = [i \in 1 .. n |-> t[i]]
      BY <1>2
    <2> HIDE DEF t
    <2> QED BY <1>1, <2>1, ListOf
  <1> HIDE DEF t, L, s
  <1>5. ASSUME NEW i \in 1 .. n PROVE Value(v.space, v.mem, t[i])
    <2> DEFINE j == L - (i - 1)
    <2>1. j \in L - n + 1 .. L /\ j \in 1 .. L
      BY <1>1, <1>3
    <2>2. t[i] = s[j].a
      BY <1>2
    <2> HIDE DEF j
    <2>3. s[j].kind = "ARG" /\ FrameOK(pg, v.space, v.mem, s[j])
      BY <1>1, <1>3, <2>1
    <2> QED BY <2>2, <2>3 DEF FrameOK
  <1>6. Values(v.space, v.mem, t, 1)
    BY <1>4, <1>5 DEF Values
  <1>7. Quiet(s, Pop(s, n), L - n) /\ Len(Pop(s, n)) = L - n
    <2>1. \A i \in Len(s) - n + 1 .. Len(s) : s[i].kind \notin {"UPDATE", "STOP"}
      BY <1>3 DEF L
    <2>2. n \in 0 .. Len(s)
      BY <1>3 DEF L
    <2> QED BY <1>1, <2>1, <2>2, QuietPop DEF L
  <1>8. L - n + 1 .. L - n = {}
    BY <1>1, <1>3
  <1> QED BY <1>4, <1>6, <1>7, <1>8 DEF t, L, s

\* A list after a list.
LEMMA ValuesConcat ==
  ASSUME NEW sp, NEW m, NEW s, IsList(s), NEW first \in {1, 2}, Values(sp, m, s, first), NEW t, IsList(t), Values(sp, m, t, 1)
  PROVE  Values(sp, m, s \o t, first)
  <1> DEFINE x == s \o t
  <1>1. Len(s) \in Nat /\ Len(t) \in Nat
    BY ListFacts
  <1>2. /\ Len(x) = Len(s) + Len(t)
        /\ \A i \in 1 .. Len(s) : x[i] = s[i]
        /\ \A i \in Len(s) + 1 .. Len(s) + Len(t) : x[i] = t[i - Len(s)]
    BY ListConcat
  <1> HIDE DEF x
  <1> SUFFICES ASSUME NEW i \in first .. Len(x) PROVE Value(sp, m, x[i])
    BY DEF Values, x
  <1>3. \/ i \in first .. Len(s) /\ i \in 1 .. Len(s)
        \/ i \in Len(s) + 1 .. Len(s) + Len(t) /\ i - Len(s) \in 1 .. Len(t)
    BY <1>1, <1>2
  <1> QED BY <1>2, <1>3 DEF Values

\* The value on top of arguments, if it is a function.
Function(v) == Obj(v, Applied(v).fun).kind \in {"FUN", "PRIM"}

\* Function and arguments so far, of a function or a partial application.
LEMMA AppliedFacts ==
  ASSUME NEW pg \in Program, NEW v, MachineOK(pg, v), Value(v.space, v.mem, v.val), Function(v)
  PROVE  LET f == Applied(v)
             o == Obj(v, f.fun)
             n == FunArity(o)
         IN  /\ IsList(f.args) /\ Values(v.space, v.mem, f.args, 1) /\ Len(f.args) \in Nat
             /\ n \in Nat /\ Len(f.args) <= n
             /\ \A k : k <= n => Callee(v.space, v.mem, f.fun, k)
             /\ o.kind = "FUN" => /\ At(v.space, v.mem, f.fun) /\ Good(pg, v.space, v.mem, o) /\ n = o.code.arity
             /\ o.kind = "PRIM" => f.fun[1] = "PRIM" /\ o.code \in DOMAIN Arity /\ n = Arity[o.code]
  <1> DEFINE f == Applied(v)
             o == Obj(v, f.fun)
             n == FunArity(o)
             q == Obj(v, v.val)
             sp == v.space
             m == v.mem
  <1>k. o.kind \in {"FUN", "PRIM"}
    BY DEF Function
  <1>1. /\ IsList(f.args) /\ Values(sp, m, f.args, 1) /\ Len(f.args) \in Nat
        /\ \/ Value(sp, m, f.fun) /\ Len(f.args) = 0
           \/ Callee(sp, m, f.fun, Len(f.args))
    <2>1. CASE q.kind = "PAP"
      <3>1. f.fun = q.ptr[1] /\ f.args = Tail(q.ptr)
        BY <2>1 DEF Applied
      <3>2. Good(pg, sp, m, q) /\ IsList(q.ptr)
        BY <2>1, ObjectHere
      <3> HIDE DEF f, o, n, q
      <3>3. Len(q.ptr) >= 1 /\ Values(sp, m, q.ptr, 2) /\ Callee(sp, m, q.ptr[1], Len(q.ptr) - 1)
        BY <2>1, <3>2 DEF Good
      <3>4. /\ IsList(Tail(q.ptr)) /\ Len(Tail(q.ptr)) = Len(q.ptr) - 1 /\ Len(q.ptr) \in Nat
            /\ \A i \in 1 .. Len(q.ptr) - 1 : Tail(q.ptr)[i] = q.ptr[i + 1]
        BY <3>2, <3>3, ListTail, ListFacts
      <3>5. \A i \in 1 .. Len(q.ptr) - 1 : i + 1 \in 2 .. Len(q.ptr)
        BY <3>4
      <3>6. Values(sp, m, Tail(q.ptr), 1)
        BY <3>3, <3>4, <3>5 DEF Values
      <3>7. Len(Tail(q.ptr)) \in Nat
        BY <3>3, <3>4
      <3> QED BY <3>1, <3>3, <3>4, <3>6, <3>7
    <2>2. CASE q.kind # "PAP"
      <3>1. f.fun = v.val /\ f.args = <<>>
        BY <2>2 DEF Applied
      <3> HIDE DEF f, o, n, q
      <3>2. IsList(<<>>) /\ Len(<<>>) = 0
        BY EmptyList
      <3>3. Values(sp, m, <<>>, 1)
        BY <3>2 DEF Values
      <3> QED BY <3>1, <3>2, <3>3
    <2> QED BY <2>1, <2>2
  <1> HIDE DEF f
  <1>2. CASE f.fun[1] = "PRIM"
    <2>1. f.fun[2] \in DOMAIN Arity /\ Len(f.args) <= Arity[f.fun[2]]
      <3>1. \A g \in DOMAIN Arity : Arity[g] \in Nat
        BY DEF Arity
      <3>2. ~ At(sp, m, f.fun)
        <4>1. sp \in Spaces
          BY MachineParts
        <4> QED BY <1>2, <4>1 DEF At, Spaces
      <3>3. Value(sp, m, f.fun) => f.fun[2] \in DOMAIN Arity
        BY <1>2, <3>2 DEF Value, StaticValue
      <3>4. Callee(sp, m, f.fun, Len(f.args)) => f.fun[2] \in DOMAIN Arity /\ Len(f.args) <= Arity[f.fun[2]]
        BY <3>2 DEF Callee
      <3>5. \A g \in DOMAIN Arity : 0 <= Arity[g]
        BY <3>1
      <3> QED BY <1>1, <3>3, <3>4, <3>5
    <2>2. o = Thing("PRIM", f.fun[2], <<>>)
      BY <1>2 DEF Obj, OnHeap, Spaces
    <2>3. o.kind = "PRIM" /\ o.code = f.fun[2] /\ n = Arity[o.code]
      BY <2>2 DEF Thing, FunArity
    <2>4. n \in Nat
      <3>1. \A g \in DOMAIN Arity : Arity[g] \in Nat
        BY DEF Arity
      <3> QED BY <2>1, <2>3, <3>1
    <2>5. \A k : k <= n => Callee(sp, m, f.fun, k)
      BY <1>2, <2>1, <2>3 DEF Callee
    <2> HIDE DEF o, n
    <2> QED BY <1>1, <1>2, <2>1, <2>3, <2>4, <2>5 DEF o, n, f
  <1>3. CASE f.fun[1] # "PRIM"
    <2>0. ~ StaticValue(f.fun)
      <3>1. CASE OnHeap(f.fun)
        BY <3>1 DEF StaticValue, OnHeap, Spaces
      <3>2. CASE ~ OnHeap(f.fun)
        <4>1. o.kind = f.fun[1]
          BY <3>2 DEF Obj, Thing
        <4>2. f.fun[1] = "FUN"
          BY <1>k, <4>1, <1>3
        <4> QED BY <4>2 DEF StaticValue
      <3> QED BY <3>1, <3>2
    <2>1. At(sp, m, f.fun)
      BY <1>1, <1>3, <2>0 DEF Callee, Value
    <2>2. o = m[f.fun[2]]
      <3>1. sp \in Spaces
        BY MachineParts
      <3> QED BY <2>1, <3>1 DEF Obj, OnHeap, At
    <2>3. Good(pg, sp, m, o)
      <3>1. HeapOK(pg, sp, m, {})
        BY MachineParts
      <3> QED BY <2>1, <2>2, <3>1 DEF HeapOK, At
    <2> HIDE DEF o
    <2>4. o.kind = "FUN"
      BY <1>k, <2>3 DEF Good
    <2>5. o.code.k = "LAM" /\ Fits(pg, sp, m, o.code, o.ptr[1])
      BY <2>3, <2>4 DEF Good
    <2>6. n = o.code.arity
      BY <2>4 DEF FunArity
    <2>7. o.code.arity \in Nat
      <3>1. PICK s \in Seq(Nat) : Scoped(pg, o.code, s)
        BY <2>5, ScopeOf
      <3> QED BY <2>5, <3>1 DEF Scoped
    <2>8. Len(f.args) <= n
      <3>1. Callee(sp, m, f.fun, Len(f.args)) => Len(f.args) <= o.code.arity
        BY <1>3, <2>2 DEF Callee
      <3> QED BY <1>1, <3>1, <2>6, <2>7
    <2>9. \A k : k <= n => Callee(sp, m, f.fun, k)
      BY <2>1, <2>2, <2>4, <2>6 DEF Callee
    <2> HIDE DEF n
    <2> QED BY <1>1, <2>1, <2>3, <2>4, <2>6, <2>7, <2>8, <2>9 DEF o, n, f
  <1> QED BY <1>2, <1>3

\* A reservation keeps what the function is.
LEMMA AppliedKept ==
  ASSUME NEW pg \in Program, NEW v, MachineOK(pg, v), NEW w, Kept(pg, v, w), Value(v.space, v.mem, v.val)
  PROVE  /\ SameObject(Obj(v, Applied(v).fun), Obj(w, Applied(w).fun))
         /\ Len(Applied(w).args) = Len(Applied(v).args)
  <1>1. Alike(v, v.val, w, w.val)
    BY DEF Kept
  <1> DEFINE o == Obj(v, v.val)
             q == Obj(w, w.val)
  <1>2. SameObject(o, q) /\ (o.kind = "PAP" => SameObject(Obj(v, o.ptr[1]), Obj(w, q.ptr[1])))
    BY <1>1 DEF Alike
  <1>3. CASE o.kind = "PAP"
    <2>1. q.kind = "PAP" /\ Len(q.ptr) = Len(o.ptr)
      BY <1>2, <1>3 DEF SameObject
    <2>2. Good(pg, v.space, v.mem, o) /\ IsList(o.ptr)
      BY <1>3, ObjectHere
    <2> HIDE DEF o, q
    <2>3. Len(o.ptr) >= 1
      BY <1>3, <2>2 DEF Good
    <2>4. Len(Tail(o.ptr)) = Len(o.ptr) - 1
      BY <2>2, <2>3, ListTail
    <2> QED BY <1>2, <1>3, <2>1, <2>4 DEF Applied, o, q
  <1>4. CASE o.kind # "PAP"
    <2>1. q.kind # "PAP"
      BY <1>2, <1>4 DEF SameObject
    <2> QED BY <1>2, <1>4, <2>1 DEF Applied
  <1> QED BY <1>3, <1>4

\* What is known after the reservation, where a function meets n arguments.
LEMMA FunctionReserved ==
  ASSUME MachineInv, Running, pc = "ret", IsFunction, NEW n \in 0 .. ArgsOnStack(vm.stack),
         NEW w \in Reserved(2, vm), NEW k, NEW mem, Uses(k, w, mem)
  PROVE  LET f == Applied(w)
             t == TakeArgs(w, n)
             u == Pop(w.stack, n)
             o == Obj(w, f.fun)
         IN  /\ Base(w) /\ prog \in Program /\ MachineOK(prog, w)
             /\ HeapOK(prog, w.space, w.mem, {}) /\ Recorded(w) /\ IsList(w.stack) /\ Value(w.space, w.mem, w.val)
             /\ Function(w) /\ SameObject(Obj(vm, Applied(vm).fun), o) /\ Len(f.args) = Have /\ FunArity(o) = Needed
             /\ IsList(t) /\ Len(t) = n /\ Values(w.space, w.mem, t, 1)
             /\ Quiet(w.stack, u, Len(w.stack) - n) /\ Len(u) = Len(w.stack) - n
             /\ Len(w.stack) - n + 1 .. Len(u) = {} /\ Have \in Nat /\ Needed \in Nat /\ Have <= Needed
  <1>1. Base(w)
    BY Reservation
  <1>2. prog \in Program /\ MachineOK(prog, vm) /\ Value(vm.space, vm.mem, vm.val) /\ IsList(vm.stack)
    <2> DEFINE f == Top(vm.stack)
    <2>1. f = Top(vm.stack)
      OBVIOUS
    <2> HIDE DEF f
    <2> QED BY <2>1, AtTop
  <1>3. MachineOK(prog, w) /\ Kept(prog, vm, w)
    BY <1>1 DEF Base
  <1>4. HeapOK(prog, w.space, w.mem, {}) /\ Recorded(w) /\ IsList(w.stack) /\ w.space \in Spaces /\ Registers(w, w.mem)
    BY <1>2, <1>3, MachineParts, MachineRecorded
  <1>5. Value(w.space, w.mem, w.val)
    <2>1. vm.val # Null
      <3>1. vm.space \in Spaces
        BY <1>2, MachineParts
      <3> QED BY <1>2, <3>1, NullIsNoValue
    <2>2. w.val # Null
      BY <1>3, <2>1 DEF Kept, Alike
    <2> QED BY <1>4, <2>2 DEF Registers, Maybe
  <1>6. SameObject(Obj(vm, Applied(vm).fun), Obj(w, Applied(w).fun)) /\ Len(Applied(w).args) = Have
    BY <1>2, <1>3, AppliedKept DEF Have
  <1>7. Function(w) /\ Function(vm)
    BY <1>6 DEF Function, IsFunction, SameObject
  <1>8. FunArity(Obj(w, Applied(w).fun)) = Needed
    BY <1>6 DEF FunArity, SameObject, Needed
  <1>9. Have \in Nat /\ Needed \in Nat /\ Have <= Needed
    BY <1>2, <1>7, AppliedFacts DEF Have, Needed
  <1>10. /\ n \in 0 .. Len(w.stack)
         /\ \A i \in Len(w.stack) - n + 1 .. Len(w.stack) : w.stack[i].kind = "ARG"
    <2> DEFINE c == ArgsOnStack(vm.stack)
               L == Len(vm.stack)
    <2>1. c \in 0 .. L /\ L \in Nat /\ \A i \in L - c + 1 .. L : vm.stack[i].kind = "ARG"
      BY <1>2, ArgsFacts
    <2>2. Len(w.stack) = L /\ \A i \in DOMAIN vm.stack : w.stack[i].kind = vm.stack[i].kind
      BY <1>3 DEF Kept
    <2>3. DOMAIN vm.stack = 1 .. L
      BY <1>2, ListFacts
    <2> HIDE DEF L, c
    <2>4. n \in 0 .. c
      BY DEF c
    <2>5. n \in 0 .. L /\ \A i \in L - n + 1 .. L : i \in L - c + 1 .. L /\ i \in 1 .. L
      BY <2>1, <2>4
    <2> QED BY <2>1, <2>2, <2>3, <2>5
  <1>11. /\ IsList(TakeArgs(w, n)) /\ Len(TakeArgs(w, n)) = n /\ Values(w.space, w.mem, TakeArgs(w, n), 1)
         /\ Quiet(w.stack, Pop(w.stack, n), Len(w.stack) - n) /\ Len(Pop(w.stack, n)) = Len(w.stack) - n
         /\ Len(w.stack) - n + 1 .. Len(Pop(w.stack, n)) = {}
    BY <1>2, <1>3, <1>10, ArgsTaken
  <1> QED BY <1>1, <1>2, <1>3, <1>4, <1>5, <1>6, <1>7, <1>8, <1>9, <1>11

\* One pointer, values, and more values.
Block(sp, m, h, a, t) ==
    /\ IsList(h) /\ Len(h) = 1
    /\ IsList(a) /\ Values(sp, m, a, 1)
    /\ IsList(t) /\ Values(sp, m, t, 1)

\* A block of values keeps its head.
LEMMA HeadedValues ==
  ASSUME NEW sp, NEW m, NEW h, NEW a, NEW t, Block(sp, m, h, a, t)
  PROVE  LET x == h \o a \o t
             y == h \o (a \o t)
         IN  /\ IsList(x) /\ Len(x) = 1 + (Len(a) + Len(t)) /\ x[1] = h[1] /\ Values(sp, m, x, 2)
             /\ IsList(y) /\ Len(y) = 1 + (Len(a) + Len(t)) /\ y[1] = h[1] /\ Values(sp, m, y, 2)
             /\ Len(a) \in Nat /\ Len(t) \in Nat
             /\ \A i \in 1 .. Len(a) + Len(t) : Value(sp, m, (a \o t)[i])
  <1> DEFINE b == h \o a
             c == a \o t
             x == b \o t
             y == h \o c
  <1>0. /\ IsList(h) /\ Len(h) = 1
        /\ IsList(a) /\ Values(sp, m, a, 1)
        /\ IsList(t) /\ Values(sp, m, t, 1)
    BY DEF Block
  <1>1. Len(a) \in Nat /\ Len(t) \in Nat
    BY <1>0, ListFacts
  <1>2. Values(sp, m, h, 2)
    <2>1. 2 .. 1 = {}
      OBVIOUS
    <2> QED BY <1>0, <2>1 DEF Values
  <1>3. IsList(b) /\ Len(b) = 1 + Len(a) /\ b[1] = h[1] /\ Values(sp, m, b, 2)
    <2>1. IsList(b) /\ Len(b) = Len(h) + Len(a) /\ \A i \in 1 .. Len(h) : b[i] = h[i]
      BY <1>0, ListConcat, ZenonT(30)
    <2>2. Values(sp, m, b, 2)
      BY <1>0, <1>2, ValuesConcat
    <2> HIDE DEF b
    <2>3. 1 \in 1 .. Len(h)
      BY <1>0
    <2> QED BY <1>0, <2>1, <2>2, <2>3
  <1>4. IsList(c) /\ Len(c) = Len(a) + Len(t) /\ Values(sp, m, c, 1)
    <2>1. Values(sp, m, c, 1)
      BY <1>0, ValuesConcat
    <2> QED BY <1>0, <2>1, ListConcat
  <1> HIDE DEF b, c
  <1>5. IsList(x) /\ Len(x) = 1 + (Len(a) + Len(t)) /\ x[1] = h[1] /\ Values(sp, m, x, 2)
    <2>0. IsList(b) /\ IsList(t)
      BY <1>0, <1>3
    <2>1. IsList(x) /\ Len(x) = Len(b) + Len(t) /\ \A i \in 1 .. Len(b) : x[i] = b[i]
      BY <2>0, ListConcat
    <2>2. Values(sp, m, x, 2)
      BY <1>0, <1>3, ValuesConcat
    <2> HIDE DEF x
    <2>3. 1 \in 1 .. Len(b)
      BY <1>1, <1>3
    <2> QED BY <1>1, <1>3, <2>1, <2>2, <2>3
  <1>6. IsList(y) /\ Len(y) = 1 + (Len(a) + Len(t)) /\ y[1] = h[1] /\ Values(sp, m, y, 2)
    <2>1. IsList(y) /\ Len(y) = Len(h) + Len(c) /\ \A i \in 1 .. Len(h) : y[i] = h[i]
      BY <1>0, <1>4, ListConcat, ZenonT(30)
    <2>2. Values(sp, m, y, 2)
      BY <1>0, <1>2, <1>4, ValuesConcat
    <2> HIDE DEF y
    <2>3. 1 \in 1 .. Len(h)
      BY <1>0
    <2> QED BY <1>0, <1>4, <2>1, <2>2, <2>3
  <1>7. \A i \in 1 .. Len(a) + Len(t) : Value(sp, m, c[i])
    BY <1>4 DEF Values
  <1> QED BY <1>1, <1>5, <1>6, <1>7 DEF b, c, x, y

\* A new partial application, or the argument block of a primitive.
LEMMA PapMade ==
  ASSUME NEW pg \in Program, NEW sp, NEW m, HeapOK(pg, sp, m, {}), NEW x, IsList(x), NEW n \in Nat,
         Len(x) = 1 + n, Values(sp, m, x, 2), Callee(sp, m, x[1], n)
  PROVE  LET o == Thing("PAP", <<>>, x)
             u == Append(m, o)
             p == <<sp, Len(m) + 1>>
         IN  /\ HeapOK(pg, sp, u, {}) /\ Extends(m, u) /\ BlackHoles(u) = BlackHoles(m)
             /\ Value(sp, u, p) /\ At(sp, u, p) /\ u[p[2]].kind = "PAP" /\ u[p[2]].ptr = x
             /\ \A q : Value(sp, m, q) => Value(sp, u, q)
  <1> DEFINE o == Thing("PAP", <<>>, x)
             u == Append(m, o)
             p == <<sp, Len(m) + 1>>
  <1>0. o.kind = "PAP" /\ o.ptr = x /\ o = Thing(o.kind, o.code, o.ptr)
    BY DEF Thing
  <1> HIDE DEF o
  <1>1. Good(pg, sp, m, o)
    <2>1. Len(x) >= 1 /\ Len(x) - 1 = n
      OBVIOUS
    <2> QED BY <1>0, <2>1 DEF Good
  <1>2. /\ HeapOK(pg, sp, u, {}) /\ Extends(m, u) /\ Later(m, u) /\ BlackHoles(u) = BlackHoles(m)
        /\ Value(sp, u, p) /\ At(sp, u, p) /\ u[p[2]] = o
    BY <1>0, <1>1, HeapAppended
  <1> HIDE DEF u, p
  <1>3. \A q : Value(sp, m, q) => Value(sp, u, q)
    BY <1>2, ValueLater
  <1> QED BY <1>0, <1>2, <1>3 DEF u, p, o

LEMMA RetPartialKeeps ==
  ASSUME MachineInv, RetPartial
  PROVE  MachineInv' /\ Stays
  <1> DEFINE n == ArgsOnStack(vm.stack)
             h(w) == <<Applied(w).fun>>
             x(w) == h(w) \o Applied(w).args \o TakeArgs(w, n)
             g(w) == Append(w.mem, Thing("PAP", <<>>, x(w)))
  <1>1. Running /\ pc = "ret" /\ pc' = "ret" /\ IsFunction /\ Have + n < Needed
        /\ UNCHANGED <<prog, runs, jump, status>>
    BY DEF RetPartial, Ret, control
  <1>2. PICK w \in Reserved(2, vm) :
           /\ vm' = [w EXCEPT !.mem = g(w), !.stack = Pop(@, n), !.val = NewPtr(w, w.mem)]
           /\ Uses(2 + Len(Applied(w).args) + n, w, g(w))
    BY DEF RetPartial
  <1>3. IsList(vm.stack)
    <2> DEFINE f == Top(vm.stack)
    <2>1. f = Top(vm.stack)
      OBVIOUS
    <2> HIDE DEF f
    <2> QED BY <1>1, <2>1, AtTop
  <1>4. n \in 0 .. n /\ n \in Nat
    <2>1. n \in 0 .. Len(vm.stack) /\ Len(vm.stack) \in Nat
      BY <1>3, ArgsFacts
    <2> QED BY <2>1
  <1> DEFINE f == Applied(w)
             t == TakeArgs(w, n)
             u == Pop(w.stack, n)
             o == Obj(w, f.fun)
             m == g(w)
             y == x(w)
             q == NewPtr(w, w.mem)
  <1>5. /\ Base(w) /\ prog \in Program /\ MachineOK(prog, w)
        /\ HeapOK(prog, w.space, w.mem, {}) /\ Recorded(w) /\ IsList(w.stack) /\ Value(w.space, w.mem, w.val)
        /\ Function(w) /\ Len(f.args) = Have /\ FunArity(o) = Needed
        /\ IsList(t) /\ Len(t) = n /\ Values(w.space, w.mem, t, 1)
        /\ Quiet(w.stack, u, Len(w.stack) - n) /\ Len(w.stack) - n + 1 .. Len(u) = {}
        /\ Have \in Nat /\ Needed \in Nat
    BY <1>1, <1>2, <1>4, FunctionReserved
  <1>6. /\ IsList(f.args) /\ Values(w.space, w.mem, f.args, 1)
        /\ \A k : k <= Needed => Callee(w.space, w.mem, f.fun, k)
    BY <1>5, AppliedFacts
  <1>7. /\ vm' = [w EXCEPT !.mem = m, !.stack = u, !.val = q] /\ m = Append(w.mem, Thing("PAP", <<>>, y))
        /\ q = <<w.space, Len(w.mem) + 1>>
    BY <1>2 DEF NewPtr
  <1>8. IsList(y) /\ Len(y) = 1 + (Have + n) /\ y[1] = f.fun /\ Values(w.space, w.mem, y, 2)
    <2> DEFINE l == h(w)
               a == f.args
               sp == w.space
               e == w.mem
    <2>1. IsList(l) /\ Len(l) = 1 /\ l[1] = f.fun
      BY OneList
    <2>2. IsList(a) /\ Values(sp, e, a, 1) /\ Len(a) = Have
      BY <1>5, <1>6
    <2>3. y = l \o a \o t
      OBVIOUS
    <2>4. IsList(t) /\ Values(sp, e, t, 1) /\ Len(t) = n
      BY <1>5
    <2> HIDE DEF l, a, t, y, f, sp, e, n
    <2>a. Block(sp, e, l, a, t)
      BY <2>1, <2>2, <2>4 DEF Block
    <2>5. LET z == l \o a \o t IN IsList(z) /\ Len(z) = 1 + (Len(a) + Len(t)) /\ z[1] = l[1] /\ Values(sp, e, z, 2)
      BY <2>a, HeadedValues
    <2>6. IsList(y) /\ Len(y) = 1 + (Have + n) /\ y[1] = f.fun /\ Values(sp, e, y, 2)
      BY <2>1, <2>2, <2>3, <2>4, <2>5
    <2> QED BY <2>6 DEF sp, e
  <1> HIDE DEF f, t, u, o, y, m, q, n, g, x, h
  <1>9. /\ HeapOK(prog, w.space, m, {}) /\ Extends(w.mem, m) /\ BlackHoles(m) = BlackHoles(w.mem)
        /\ Value(w.space, m, q)
    <2> DEFINE sp == w.space
               e == w.mem
               k == Have + n
    <2>1. HeapOK(prog, sp, e, {})
      BY <1>5
    <2>2. IsList(y) /\ Len(y) = 1 + k
      BY <1>8
    <2>3. Values(sp, e, y, 2)
      BY <1>8
    <2>4. Callee(sp, e, y[1], k)
      <3>1. Have + n <= Needed
        BY <1>1, <1>4, <1>5
      <3> QED BY <1>6, <1>8, <3>1
    <2>5. k \in Nat
      BY <1>4, <1>5
    <2> HIDE DEF sp, e, k
    <2>6. LET z == Append(e, Thing("PAP", <<>>, y))
              p == <<sp, Len(e) + 1>>
          IN  HeapOK(prog, sp, z, {}) /\ Extends(e, z) /\ BlackHoles(z) = BlackHoles(e) /\ Value(sp, z, p)
      BY <1>5, <2>1, <2>2, <2>3, <2>4, <2>5, PapMade
    <2> QED BY <1>7, <2>6 DEF sp, e
  <1>10. /\ Recorded(vm') /\ vm'.space = w.space /\ vm'.globals = w.globals /\ vm'.roots = w.roots
         /\ vm'.mem = m /\ vm'.val = q /\ vm'.env = w.env /\ vm'.exc = w.exc /\ vm'.stack = u
    BY <1>5, <1>7 DEF Recorded, Fields
  <1>11. PcOK(prog, vm', pc', code', obj', todo')
    BY <1>1, <1>9, <1>10 DEF PcOK
  <1> QED BY <1>1, <1>5, <1>9, <1>10, <1>11, GrowingStep
\* A function meets all its arguments.
LEMMA ArgumentsTaken ==
  ASSUME MachineInv, Running, pc = "ret", IsFunction, NEW n, n = Needed - Have, n <= ArgsOnStack(vm.stack)
  PROVE  n \in 0 .. ArgsOnStack(vm.stack) /\ Have + n = Needed /\ Needed \in Nat /\ Have \in Nat
  <1>1. prog \in Program /\ MachineOK(prog, vm) /\ Value(vm.space, vm.mem, vm.val) /\ IsList(vm.stack)
    <2> DEFINE f == Top(vm.stack)
    <2>1. f = Top(vm.stack)
      OBVIOUS
    <2> HIDE DEF f
    <2> QED BY <2>1, AtTop
  <1>2. Have \in Nat /\ Needed \in Nat /\ Have <= Needed
    <2>1. Function(vm)
      BY DEF Function, IsFunction
    <2> QED BY <1>1, <2>1, AppliedFacts DEF Have, Needed
  <1>3. ArgsOnStack(vm.stack) \in Nat
    <2>1. ArgsOnStack(vm.stack) \in 0 .. Len(vm.stack) /\ Len(vm.stack) \in Nat
      BY <1>1, ArgsFacts
    <2> QED BY <2>1
  <1> QED BY <1>2, <1>3

LEMMA RetApplyKeeps ==
  ASSUME MachineInv, RetApply
  PROVE  MachineInv' /\ Stays
  <1> DEFINE n == Needed - Have
             x(w) == Obj(w, Applied(w).fun).ptr \o Applied(w).args \o TakeArgs(w, n)
             g(w) == Append(w.mem, Thing("ENV", <<>>, x(w)))
  <1>1. Running /\ pc = "ret" /\ IsFunction /\ n <= ArgsOnStack(vm.stack)
        /\ Obj(vm, Applied(vm).fun).kind = "FUN" /\ UNCHANGED <<prog, runs, jump, status>>
    BY DEF RetApply, Ret
  <1>2. PICK w \in Reserved(2, vm) :
           /\ vm' = [w EXCEPT !.mem = g(w), !.stack = Pop(@, n), !.env = NewPtr(w, w.mem)]
           /\ Uses(2 + Needed, w, g(w))
           /\ pc' = "eval" /\ code' = Obj(w, Applied(w).fun).code.body
    BY DEF RetApply, GotoEval
  <1>3. n \in 0 .. ArgsOnStack(vm.stack) /\ Have + n = Needed /\ Needed \in Nat /\ Have \in Nat
    BY <1>1, ArgumentsTaken
  <1> DEFINE f == Applied(w)
             t == TakeArgs(w, n)
             u == Pop(w.stack, n)
             o == Obj(w, f.fun)
             m == g(w)
             y == x(w)
             q == NewPtr(w, w.mem)
             sp == w.space
             e == w.mem
  <1>5. /\ Base(w) /\ prog \in Program /\ MachineOK(prog, w)
        /\ HeapOK(prog, sp, e, {}) /\ Recorded(w) /\ IsList(w.stack) /\ Value(sp, e, w.val)
        /\ Function(w) /\ SameObject(Obj(vm, Applied(vm).fun), o) /\ Len(f.args) = Have /\ FunArity(o) = Needed
        /\ IsList(t) /\ Len(t) = n /\ Values(sp, e, t, 1)
        /\ Quiet(w.stack, u, Len(w.stack) - n) /\ Len(w.stack) - n + 1 .. Len(u) = {}
    BY <1>1, <1>2, <1>3, FunctionReserved
  <1>6. o.kind = "FUN"
    BY <1>1, <1>5 DEF SameObject
  <1>7. /\ IsList(f.args) /\ Values(sp, e, f.args, 1) /\ Good(prog, sp, e, o) /\ Needed = o.code.arity
    <2>1. /\ IsList(f.args) /\ Values(sp, e, f.args, 1)
          /\ o.kind = "FUN" => Good(prog, sp, e, o) /\ FunArity(o) = o.code.arity
      BY <1>5, AppliedFacts
    <2> QED BY <1>5, <1>6, <2>1
  <1>8. /\ vm' = [w EXCEPT !.mem = m, !.stack = u, !.env = q] /\ m = Append(e, Thing("ENV", <<>>, y))
        /\ q = <<sp, Len(e) + 1>> /\ code' = o.code.body
    BY <1>2 DEF NewPtr
  <1> HIDE DEF o
  <1>9. IsList(o.ptr) /\ Len(o.ptr) = 1 /\ o.code.k = "LAM" /\ Fits(prog, sp, e, o.code, o.ptr[1])
    BY <1>6, <1>7 DEF Good
  <1>10. IsList(y) /\ Len(y) = 1 + Needed /\ y[1] = o.ptr[1] /\ Values(sp, e, y, 2)
    <2> DEFINE l == o.ptr
               a == f.args
    <2>1. Block(sp, e, l, a, t) /\ Len(a) = Have /\ Len(t) = n
      BY <1>5, <1>7, <1>9 DEF Block
    <2>3. y = l \o a \o t
      BY DEF o
    <2> HIDE DEF l, a, t, y, f, sp, e, n
    <2>5. LET z == l \o a \o t IN IsList(z) /\ Len(z) = 1 + (Len(a) + Len(t)) /\ z[1] = l[1] /\ Values(sp, e, z, 2)
      BY <2>1, HeadedValues
    <2>6. IsList(y) /\ Len(y) = 1 + (Have + n) /\ y[1] = l[1] /\ Values(sp, e, y, 2)
      BY <2>1, <2>3, <2>5
    <2> QED BY <1>3, <2>6 DEF l
  <1> HIDE DEF f, t, u, y, m, q, n, g, x, sp, e
  <1>11. PICK s \in Seq(Nat) : /\ Scoped(prog, o.code, s) /\ EnvFits(sp, e, o.ptr[1], s)
                               /\ o.ptr[1] = Null \/ IsEnv(sp, e, o.ptr[1])
    BY <1>5, <1>9, ScopeOf
  <1>12. <<o.code.body, <<Needed>> \o s>> \in Code[prog]
    BY <1>7, <1>9, <1>11 DEF Scoped
  <1>13. /\ HeapOK(prog, sp, m, {}) /\ Extends(e, m) /\ BlackHoles(m) = BlackHoles(e)
         /\ IsEnv(sp, m, q) /\ EnvFits(sp, m, q, <<Needed>> \o s)
    <2> DEFINE k == Needed
    <2>1. HeapOK(prog, sp, e, {}) /\ prog \in Program
      BY <1>5
    <2>2. IsList(y)
      BY <1>10
    <2>3. Len(y) = 1 + k /\ Values(sp, e, y, 2)
      BY <1>10
    <2>4. y[1] = Null \/ IsEnv(sp, e, y[1])
      BY <1>10, <1>11
    <2>5. EnvFits(sp, e, y[1], s)
      BY <1>10, <1>11
    <2>6. k \in Nat
      BY <1>3
    <2> HIDE DEF k
    <2>7. LET z == Append(e, Thing("ENV", <<>>, y))
              p == <<sp, Len(e) + 1>>
          IN  /\ HeapOK(prog, sp, z, {}) /\ Extends(e, z) /\ Later(e, z) /\ BlackHoles(z) = BlackHoles(e)
              /\ IsEnv(sp, z, p) /\ EnvFits(sp, z, p, <<k>> \o s)
      BY <2>1, <2>2, <2>3, <2>4, <2>5, <2>6, EnvMade
    <2> QED BY <1>8, <2>7 DEF k
  <1>14. /\ Recorded(vm') /\ vm'.space = sp /\ vm'.globals = w.globals /\ vm'.roots = w.roots
         /\ vm'.mem = m /\ vm'.val = w.val /\ vm'.env = q /\ vm'.exc = w.exc /\ vm'.stack = u
    BY <1>5, <1>8 DEF Recorded, Fields, sp
  <1>15. Fits(prog, sp, m, o.code.body, q)
    BY <1>5, <1>12, <1>13, FitsIn
  <1>16. PcOK(prog, vm', pc', code', obj', todo')
    BY <1>2, <1>8, <1>14, <1>15 DEF PcOK
  <1>17. /\ vm'.space = w.space /\ HeapOK(prog, w.space, vm'.mem, {}) /\ Extends(w.mem, vm'.mem)
         /\ BlackHoles(vm'.mem) = BlackHoles(w.mem) /\ IsEnv(w.space, vm'.mem, vm'.env)
    BY <1>13, <1>14 DEF sp, e
  <1>18. Quiet(w.stack, vm'.stack, Len(w.stack) - n) /\ Len(w.stack) - n + 1 .. Len(vm'.stack) = {}
    BY <1>5, <1>14
  <1> QED BY <1>1, <1>5, <1>14, <1>16, <1>17, <1>18, GrowingStep

\* The next strict argument.
LEMMA NextStrictFacts ==
  ASSUME NEW f \in DOMAIN Arity, NEW i \in Nat \ {0}
  PROVE  NextStrict(f, i) \in Nat \ {0} /\ Arity[f] \in Nat
  <1>1. Arity[f] \in Nat /\ Strict[f] \subseteq Nat
    BY DEF Arity, Strict
  <1> DEFINE later == {j \in Strict[f] : j >= i}
  <1>2. CASE later = {}
    BY <1>1, <1>2 DEF NextStrict
  <1>3. CASE later # {}
    <2>1. later \subseteq Nat /\ \A j \in later : j >= i
      BY <1>1
    <2>2. NextStrict(f, i) = CHOOSE j \in later : \A h \in later : j <= h
      BY <1>3 DEF NextStrict
    <2> HIDE DEF later
    <2>3. \E j \in later : \A h \in later : j <= h
      BY <1>3, <2>1, LeastNatural
    <2>4. NextStrict(f, i) \in later
      BY <2>2, <2>3
    <2>5. NextStrict(f, i) \in Nat /\ NextStrict(f, i) >= i
      BY <2>1, <2>4
    <2> QED BY <1>1, <2>5
  <1> QED BY <1>2, <1>3
\* A frame on top of a stack whose frames above the k-th went.
LEMMA FrameOnTop ==
  ASSUME NEW s, IsList(s), NEW u, NEW k, Quiet(s, u, k), Len(u) = k, NEW f, f.kind \notin {"UPDATE", "STOP"}
  PROVE  LET z == Append(u, f)
         IN  /\ Quiet(s, z, k) /\ z # <<>> /\ Top(z) = f
             /\ \A i \in k + 1 .. Len(z) : z[i] = f
  <1> DEFINE z == Append(u, f)
  <1>1. Quiet(s, z, k) /\ Len(z) = k + 1 /\ z[k + 1] = f
    BY QuietAppend
  <1>2. k \in Nat /\ IsList(z)
    <2>1. k \in 0 .. Len(s) /\ Len(s) \in Nat
      BY ListFacts DEF Quiet, Edits
    <2> QED BY <1>1, <2>1 DEF Quiet, Edits
  <1> HIDE DEF z
  <1>3. \A i \in k + 1 .. Len(z) : i = k + 1
    BY <1>1, <1>2
  <1>4. z # <<>>
    <2>1. Len(z) # 0
      BY <1>1, <1>2
    <2> QED BY <2>1, EmptyList
  <1> QED BY <1>1, <1>3, <1>4 DEF z, Top

LEMMA RetPrimitiveKeeps ==
  ASSUME MachineInv, RetPrimitive
  PROVE  MachineInv' /\ Stays
  <1> DEFINE n == Needed - Have
             name(w) == Obj(w, Applied(w).fun).code
             c(w) == Applied(w).args \o TakeArgs(w, n)
             x(w) == <<Applied(w).fun>> \o c(w)
             g(w) == Append(w.mem, Thing("PAP", <<>>, x(w)))
             h(w) == Frame("PRIM", NewPtr(w, w.mem), Null, name(w), NextStrict(name(w), 1))
  <1>1. Running /\ pc = "ret" /\ IsFunction /\ n <= ArgsOnStack(vm.stack)
        /\ Obj(vm, Applied(vm).fun).kind = "PRIM" /\ UNCHANGED <<prog, runs, jump, status>>
    BY DEF RetPrimitive, Ret
  <1>2. PICK w \in Reserved(2, vm) :
           /\ vm' = [w EXCEPT !.mem = g(w), !.stack = Append(Pop(@, n), h(w))]
           /\ Uses(2 + Needed, w, g(w))
           /\ Evaluate(name(w), NextStrict(name(w), 1),
                       IF NextStrict(name(w), 1) <= Needed THEN c(w)[NextStrict(name(w), 1)] ELSE Null)
    BY DEF RetPrimitive
  <1>3. n \in 0 .. ArgsOnStack(vm.stack) /\ Have + n = Needed /\ Needed \in Nat /\ Have \in Nat
    BY <1>1, ArgumentsTaken
  <1> DEFINE f == Applied(w)
             t == TakeArgs(w, n)
             u == Pop(w.stack, n)
             o == Obj(w, f.fun)
             m == g(w)
             y == x(w)
             q == NewPtr(w, w.mem)
             sp == w.space
             e == w.mem
             b == c(w)
             p == name(w)
             fr == h(w)
             j == NextStrict(p, 1)
             L == Len(w.stack) - n
  <1>5. /\ Base(w) /\ prog \in Program /\ MachineOK(prog, w)
        /\ HeapOK(prog, sp, e, {}) /\ Recorded(w) /\ IsList(w.stack) /\ Value(sp, e, w.val)
        /\ Function(w) /\ SameObject(Obj(vm, Applied(vm).fun), o) /\ Len(f.args) = Have /\ FunArity(o) = Needed
        /\ IsList(t) /\ Len(t) = n /\ Values(sp, e, t, 1)
        /\ Quiet(w.stack, u, L) /\ Len(u) = L
    BY <1>1, <1>2, <1>3, FunctionReserved
  <1>6. o.kind = "PRIM" /\ p = o.code
    BY <1>1, <1>5 DEF SameObject
  <1>7. /\ IsList(f.args) /\ Values(sp, e, f.args, 1) /\ p \in DOMAIN Arity /\ Needed = Arity[p]
        /\ Callee(sp, e, f.fun, Needed)
    <2>1. /\ IsList(f.args) /\ Values(sp, e, f.args, 1)
          /\ FunArity(o) \in Nat
          /\ o.kind = "PRIM" => o.code \in DOMAIN Arity /\ FunArity(o) = Arity[o.code]
          /\ \A k : k <= FunArity(o) => Callee(sp, e, f.fun, k)
      BY <1>5, AppliedFacts
    <2>2. Needed <= Needed
      BY <1>3
    <2> QED BY <1>5, <1>6, <2>1, <2>2
  <1>8. /\ vm' = [w EXCEPT !.mem = m, !.stack = Append(u, fr)] /\ m = Append(e, Thing("PAP", <<>>, y))
        /\ q = <<sp, Len(e) + 1>> /\ fr = Frame("PRIM", q, Null, p, j)
        /\ Evaluate(p, j, IF j <= Needed THEN b[j] ELSE Null)
    BY <1>2 DEF NewPtr
  <1>9. IsList(y) /\ Len(y) = 1 + Needed /\ y[1] = f.fun /\ Values(sp, e, y, 2)
        /\ \A i \in 1 .. Needed : Value(sp, e, b[i])
    <2> DEFINE l == <<f.fun>>
               a == f.args
    <2>0. IsList(l) /\ Len(l) = 1 /\ l[1] = f.fun
      BY OneList
    <2>1. Block(sp, e, l, a, t) /\ Len(a) = Have /\ Len(t) = n
      BY <1>5, <1>7, <2>0 DEF Block
    <2>3. y = l \o b /\ b = a \o t
      OBVIOUS
    <2> HIDE DEF l, a, t, y, f, sp, e, n, b
    <2>4. Block(sp, e, l, a, t)
      BY <2>1
    <2>5. /\ LET z == l \o (a \o t) IN IsList(z) /\ Len(z) = 1 + (Len(a) + Len(t)) /\ z[1] = l[1] /\ Values(sp, e, z, 2)
          /\ \A i \in 1 .. Len(a) + Len(t) : Value(sp, e, (a \o t)[i])
      BY <2>4, HeadedValues
    <2>6. IsList(y) /\ Len(y) = 1 + (Have + n) /\ y[1] = l[1] /\ Values(sp, e, y, 2)
          /\ \A i \in 1 .. Have + n : Value(sp, e, b[i])
      BY <2>1, <2>3, <2>5
    <2> QED BY <1>3, <2>0, <2>6
  <1>10. j \in Nat \ {0}
    <2>1. 1 \in Nat \ {0}
      OBVIOUS
    <2> HIDE DEF p
    <2> QED BY <1>7, <2>1, NextStrictFacts
  <1> HIDE DEF o, f, t, u, y, m, q, n, g, x, sp, e, b, c, p, fr, h, name, j, L
  <1>13. /\ HeapOK(prog, sp, m, {}) /\ Extends(e, m) /\ BlackHoles(m) = BlackHoles(e)
         /\ At(sp, m, q) /\ m[q[2]].kind = "PAP" /\ m[q[2]].ptr = y
         /\ \A r : Value(sp, e, r) => Value(sp, m, r)
    <2> DEFINE k == Needed
    <2>1. HeapOK(prog, sp, e, {}) /\ prog \in Program
      BY <1>5
    <2>2. IsList(y) /\ Len(y) = 1 + k
      BY <1>9
    <2>3. Values(sp, e, y, 2)
      BY <1>9
    <2>4. Callee(sp, e, y[1], k)
      BY <1>7, <1>9
    <2>6. k \in Nat
      BY <1>3
    <2> HIDE DEF k
    <2>7. LET z == Append(e, Thing("PAP", <<>>, y))
              r == <<sp, Len(e) + 1>>
          IN  /\ HeapOK(prog, sp, z, {}) /\ Extends(e, z) /\ BlackHoles(z) = BlackHoles(e)
              /\ At(sp, z, r) /\ z[r[2]].kind = "PAP" /\ z[r[2]].ptr = y
              /\ \A a : Value(sp, e, a) => Value(sp, z, a)
      BY <2>1, <2>2, <2>3, <2>4, <2>6, PapMade
    <2> QED BY <1>8, <2>7
  <1>14. /\ Recorded(vm') /\ vm'.space = sp /\ vm'.globals = w.globals /\ vm'.roots = w.roots
         /\ vm'.mem = m /\ vm'.val = w.val /\ vm'.env = w.env /\ vm'.exc = w.exc /\ vm'.stack = Append(u, fr)
    BY <1>5, <1>8 DEF Recorded, Fields, sp
  <1>15. fr.kind = "PRIM" /\ FrameOK(prog, sp, m, fr)
    <2>1. /\ fr.kind = "PRIM" /\ fr.a = q /\ fr.b = Null /\ fr.code = p /\ fr.n = j
          /\ fr = Frame(fr.kind, fr.a, fr.b, fr.code, fr.n)
      BY <1>8 DEF Frame
    <2>2. Len(m[fr.a[2]].ptr) = 1 + Arity[fr.code]
      BY <1>7, <1>9, <1>13, <2>1
    <2> QED BY <1>7, <1>10, <1>13, <2>1, <2>2 DEF FrameOK
  <1>16. /\ Quiet(w.stack, Append(u, fr), L) /\ Append(u, fr) # <<>> /\ Top(Append(u, fr)) = fr
         /\ \A i \in L + 1 .. Len(Append(u, fr)) : Append(u, fr)[i] = fr
    BY <1>5, <1>15, FrameOnTop
  <1>17. PcOK(prog, vm', pc', code', obj', todo')
    <2>1. CASE j <= Arity[p]
      <3>1. pc' = "enter" /\ obj' = b[j]
        BY <1>7, <1>8, <2>1 DEF Evaluate, GotoEnter
      <3>2. j \in 1 .. Needed
        BY <1>3, <1>7, <1>10, <2>1
      <3> QED BY <1>9, <1>13, <1>14, <3>1, <3>2 DEF PcOK
    <2>2. CASE ~ (j <= Arity[p])
      <3>1. pc' = "call"
        BY <1>8, <2>2 DEF Evaluate
      <3> QED BY <1>14, <1>15, <1>16, <3>1 DEF PcOK
    <2> QED BY <2>1, <2>2
  <1>18. /\ vm'.space = w.space /\ HeapOK(prog, w.space, vm'.mem, {}) /\ Extends(w.mem, vm'.mem)
         /\ BlackHoles(vm'.mem) = BlackHoles(w.mem)
    BY <1>13, <1>14 DEF sp, e
  <1>19. /\ Quiet(w.stack, vm'.stack, L)
         /\ \A i \in L + 1 .. Len(vm'.stack) : FrameOK(prog, w.space, vm'.mem, vm'.stack[i])
    BY <1>14, <1>15, <1>16 DEF sp
  <1> QED BY <1>1, <1>5, <1>14, <1>17, <1>18, <1>19, GrowingStep
\* A list with one element changed, if it has that element.
LEMMA ListChanged ==
  ASSUME NEW s, IsList(s), NEW i, NEW x
  PROVE  LET t == [s EXCEPT ![i] = x]
         IN  /\ IsList(t) /\ Len(t) = Len(s) /\ DOMAIN t = DOMAIN s
             /\ \A j \in DOMAIN s : (j # i => t[j] = s[j]) /\ (t[j] = s[j] \/ t[j] = x)
  <1> DEFINE t == [s EXCEPT ![i] = x]
             n == Len(s)
  <1>1. n \in Nat /\ DOMAIN s = 1 .. n
    BY ListFacts
  <1>2. DOMAIN t = DOMAIN s /\ \A j \in DOMAIN s : (j # i => t[j] = s[j]) /\ (t[j] = s[j] \/ t[j] = x)
    OBVIOUS
  <1>3. t = [j \in 1 .. n |-> t[j]]
    BY <1>1
  <1> HIDE DEF t, n
  <1>4. IsList(t) /\ Len(t) = n
    BY <1>1, <1>3, ListOf
  <1> QED BY <1>2, <1>4 DEF t, n

\* An argument of a block is stored.
LEMMA BlockStored ==
  ASSUME NEW pg \in Program, NEW sp, NEW m, HeapOK(pg, sp, m, {}), NEW i \in DOMAIN m, m[i].kind = "PAP",
         NEW k \in Nat \ {0}, NEW x, Value(sp, m, x)
  PROVE  LET u == [m EXCEPT ![i].ptr[1 + k] = x]
         IN  /\ HeapOK(pg, sp, u, {}) /\ Later(m, u) /\ BlackHoles(u) = BlackHoles(m)
             /\ u[i].kind = "PAP" /\ Len(u[i].ptr) = Len(m[i].ptr) /\ Values(sp, u, u[i].ptr, 2)
             /\ DOMAIN u = DOMAIN m /\ \A j \in DOMAIN m : j # i => u[j] = m[j]
  <1> DEFINE o == m[i]
             t == [o.ptr EXCEPT ![1 + k] = x]
             q == Thing(o.kind, o.code, t)
             u == [m EXCEPT ![i].ptr[1 + k] = x]
  <1>1. Good(pg, sp, m, o)
    BY DEF HeapOK
  <1>2. o = Thing(o.kind, o.code, o.ptr) /\ IsList(o.ptr) /\ o.kind = "PAP"
    BY <1>1 DEF Good
  <1>3. Len(o.ptr) >= 1 /\ Values(sp, m, o.ptr, 2) /\ Callee(sp, m, o.ptr[1], Len(o.ptr) - 1) /\ Len(o.ptr) \in Nat
        /\ DOMAIN o.ptr = 1 .. Len(o.ptr)
    BY <1>1, <1>2, ListFacts DEF Good
  <1>4. u = [m EXCEPT ![i] = q]
    <2>1. [o EXCEPT !.ptr = t] = q
      <3>1. o = Thing(o.kind, o.code, o.ptr)
        BY <1>2
      <3> HIDE DEF o, t
      <3> QED BY <3>1, ThingChanged
    <2> QED BY <2>1
  <1> HIDE DEF u
  <1>5. /\ IsList(t) /\ Len(t) = Len(o.ptr)
        /\ \A j \in DOMAIN o.ptr : (j # 1 + k => t[j] = o.ptr[j]) /\ (t[j] = o.ptr[j] \/ t[j] = x)
    <2> DEFINE l == o.ptr
               h == 1 + k
    <2>1. IsList(l)
      BY <1>2
    <2> HIDE DEF l, h
    <2>2. LET z == [l EXCEPT ![h] = x]
          IN  /\ IsList(z) /\ Len(z) = Len(l)
              /\ \A j \in DOMAIN l : (j # h => z[j] = l[j]) /\ (z[j] = l[j] \/ z[j] = x)
      BY <2>1, ListChanged
    <2> QED BY <2>2 DEF l, h
  <1> HIDE DEF t, o
  <1>6. t[1] = o.ptr[1]
    <2>1. 1 \in DOMAIN o.ptr /\ 1 # 1 + k
      BY <1>3
    <2> QED BY <1>5, <2>1
  <1>7. Values(sp, m, t, 2)
    <2> SUFFICES ASSUME NEW j \in 2 .. Len(o.ptr) PROVE Value(sp, m, t[j])
      BY <1>5 DEF Values
    <2>1. j \in DOMAIN o.ptr
      BY <1>3
    <2>2. Value(sp, m, o.ptr[j])
      BY <1>3 DEF Values
    <2> QED BY <1>5, <2>1, <2>2
  <1>8. q.kind = "PAP" /\ q.code = o.code /\ q.ptr = t /\ q = Thing(q.kind, q.code, q.ptr)
    BY <1>2 DEF Thing
  <1> HIDE DEF q
  <1>9. Good(pg, sp, m, q)
    BY <1>3, <1>5, <1>6, <1>7, <1>8 DEF Good
  <1>10. Evolves(m[i], q)
    BY <1>2, <1>5, <1>6, <1>8 DEF Evolves, o
  <1>11. /\ HeapOK(pg, sp, u, {}) /\ Later(m, u) /\ DOMAIN u = DOMAIN m
         /\ u[i] = q /\ \A j \in DOMAIN m : j # i => u[j] = m[j]
    <2> DEFINE z == [m EXCEPT ![i] = q]
    <2>1. /\ HeapOK(pg, sp, z, {}) /\ Later(m, z) /\ DOMAIN z = DOMAIN m
          /\ z[i] = q /\ \A j \in DOMAIN m : j # i => z[j] = m[j]
      BY <1>9, <1>10, HeapStored
    <2> HIDE DEF z
    <2>2. u = z
      BY <1>4 DEF z
    <2> QED BY <2>1, <2>2
  <1>12. BlackHoles(u) = BlackHoles(m)
    BY <1>2, <1>8, <1>11 DEF BlackHoles, o
  <1>13. Values(sp, u, t, 2)
    BY <1>7, <1>11, ValueLater DEF Values
  <1> QED BY <1>5, <1>8, <1>11, <1>12, <1>13 DEF u, o

LEMMA RetStrictKeeps ==
  ASSUME MachineInv, RetStrict
  PROVE  MachineInv' /\ Stays
  <1> DEFINE f == Top(vm.stack)
             i == f.a[2]
             m == [vm.mem EXCEPT ![i].ptr[1 + f.n] = vm.val]
             j == NextStrict(f.code, f.n + 1)
             s == vm.stack
             L == Len(s)
             u == [s EXCEPT ![L].n = j]
             g == Frame("PRIM", f.a, Null, f.code, j)
             k == L - 1
  <1>1. Running /\ pc = "ret" /\ f.kind = "PRIM" /\ UNCHANGED <<prog, runs, jump, gcs, status>>
        /\ vm' = [vm EXCEPT !.mem = m, !.stack[Len(vm.stack)].n = j]
        /\ Evaluate(f.code, j, IF j <= Arity[f.code] THEN m[i].ptr[1 + j] ELSE Null)
    BY DEF RetStrict, Ret
  <1>a. vm' = [vm EXCEPT !.mem = m, !.stack = u]
    BY <1>1
  <1>2. /\ prog \in Program /\ MachineOK(prog, vm) /\ RootsAreValues(vm) /\ gcs \in Nat
        /\ HeapOK(prog, vm.space, vm.mem, {}) /\ IsList(s) /\ Recorded(vm)
        /\ s # <<>> /\ FrameOK(prog, vm.space, vm.mem, f) /\ f = s[L]
        /\ L \in DOMAIN s /\ L \in Nat /\ Value(vm.space, vm.mem, vm.val)
    <2> HIDE DEF f
    <2>1. f = Top(vm.stack)
      BY DEF f
    <2> QED BY <1>1, <2>1, AtTop
  <1> HIDE DEF f
  <1>3. /\ f = Frame(f.kind, f.a, f.b, f.code, f.n) /\ f.code \in DOMAIN Arity /\ f.n \in Nat \ {0} /\ f.b = Null
        /\ At(vm.space, vm.mem, f.a) /\ vm.mem[i].kind = "PAP" /\ Len(vm.mem[i].ptr) = 1 + Arity[f.code]
    BY <1>1, <1>2 DEF FrameOK
  <1>4. j \in Nat \ {0} /\ Arity[f.code] \in Nat
    <2>1. f.n + 1 \in Nat \ {0}
      BY <1>3
    <2> QED BY <1>3, <2>1, NextStrictFacts
  <1> HIDE DEF j
  <1>5. i \in DOMAIN vm.mem
    BY <1>3 DEF At
  <1> HIDE DEF i
  <1>6. /\ HeapOK(prog, vm.space, m, {}) /\ Later(vm.mem, m) /\ BlackHoles(m) = BlackHoles(vm.mem)
        /\ m[i].kind = "PAP" /\ Len(m[i].ptr) = Len(vm.mem[i].ptr) /\ Values(vm.space, m, m[i].ptr, 2)
        /\ DOMAIN m = DOMAIN vm.mem /\ \A h \in DOMAIN vm.mem : h # i => m[h] = vm.mem[h]
    <2> DEFINE sp == vm.space
               e == vm.mem
               x == vm.val
               r == f.n
    <2>1. HeapOK(prog, sp, e, {}) /\ prog \in Program
      BY <1>2
    <2>2. i \in DOMAIN e /\ e[i].kind = "PAP"
      BY <1>3, <1>5
    <2>3. r \in Nat \ {0}
      BY <1>3
    <2>4. Value(sp, e, x)
      BY <1>2
    <2>5. m = [e EXCEPT ![i].ptr[1 + r] = x]
      OBVIOUS
    <2> HIDE DEF sp, e, x, r, m
    <2>6. LET z == [e EXCEPT ![i].ptr[1 + r] = x]
          IN  /\ HeapOK(prog, sp, z, {}) /\ Later(e, z) /\ BlackHoles(z) = BlackHoles(e)
              /\ z[i].kind = "PAP" /\ Len(z[i].ptr) = Len(e[i].ptr) /\ Values(sp, z, z[i].ptr, 2)
              /\ DOMAIN z = DOMAIN e /\ \A h \in DOMAIN e : h # i => z[h] = e[h]
      BY <2>1, <2>2, <2>3, <2>4, BlockStored
    <2> QED BY <2>5, <2>6 DEF sp, e
  <1> HIDE DEF m
  <1>7. u = [s EXCEPT ![L] = g]
    <2>1. [f EXCEPT !.n = j] = g
      BY <1>1, <1>3 DEF Frame
    <2> QED BY <1>2, <2>1
  <1>8. IsList(u) /\ Len(u) = L /\ u[L] = g /\ \A h \in DOMAIN s : h # L => u[h] = s[h]
    <2>1. LET z == [s EXCEPT ![L] = g]
          IN  IsList(z) /\ Len(z) = Len(s) /\ z[L] = g /\ \A h \in DOMAIN s : h # L => z[h] = s[h]
      BY <1>2, ListExcept
    <2> QED BY <1>7, <2>1
  <1>9. /\ Recorded(vm') /\ vm'.space = vm.space /\ vm'.globals = vm.globals /\ vm'.roots = vm.roots
        /\ vm'.mem = m /\ vm'.val = vm.val /\ vm'.env = vm.env /\ vm'.exc = vm.exc /\ vm'.stack = u
    BY <1>a, <1>2 DEF Recorded, Fields
  <1> HIDE DEF u, g
  <1>10. g.kind = "PRIM" /\ FrameOK(prog, vm.space, m, g)
    <2>1. /\ g.kind = "PRIM" /\ g.a = f.a /\ g.b = Null /\ g.code = f.code /\ g.n = j
          /\ g = Frame(g.kind, g.a, g.b, g.code, g.n)
      BY DEF Frame, g
    <2>2. At(vm.space, m, f.a)
      BY <1>3, <1>6, ValueLater
    <2>3. Len(m[g.a[2]].ptr) = 1 + Arity[g.code] /\ m[g.a[2]].kind = "PAP"
      BY <1>3, <1>6, <2>1 DEF i
    <2> QED BY <1>3, <1>4, <2>1, <2>2, <2>3 DEF FrameOK
  <1>11. Quiet(s, u, k) /\ k + 1 .. Len(u) = {L} /\ Top(u) = g /\ u # <<>>
    <2>1. k \in 0 .. L /\ k <= L /\ k + 1 .. L = {L} /\ \A h \in 1 .. k : h \in DOMAIN s /\ h # L
      <3>1. L >= 1 /\ DOMAIN s = 1 .. L
        BY <1>2, TopFrame
      <3> QED BY <1>2, <3>1
    <2>2. Edits(s, u, k)
      BY <1>8, <2>1 DEF Edits
    <2>3. s[L].kind = "PRIM" /\ u[L].kind = "PRIM"
      BY <1>1, <1>2, <1>8, <1>10
    <2>4. u # <<>>
      <3>1. L # 0
        BY <1>2, TopFrame
      <3> QED BY <1>8, <3>1, EmptyList
    <2> QED BY <1>8, <2>1, <2>2, <2>3, <2>4 DEF Quiet, Top
  <1>12. PcOK(prog, vm', pc', code', obj', todo')
    <2>1. CASE j <= Arity[f.code]
      <3>1. pc' = "enter" /\ obj' = m[i].ptr[1 + j]
        BY <1>1, <2>1 DEF Evaluate, GotoEnter
      <3>2. 1 + j \in 2 .. Len(m[i].ptr)
        BY <1>3, <1>4, <1>6, <2>1
      <3>3. Value(vm.space, m, obj')
        BY <1>6, <3>1, <3>2 DEF Values
      <3> QED BY <1>9, <3>1, <3>3 DEF PcOK
    <2>2. CASE ~ (j <= Arity[f.code])
      <3>1. pc' = "call"
        BY <1>1, <2>2 DEF Evaluate
      <3> QED BY <1>9, <1>10, <1>11, <3>1 DEF PcOK
    <2> QED BY <2>1, <2>2
  <1>13. MachineInv'
    <2>1. MachineOK(prog, vm) /\ Kept(prog, vm, vm) /\ gcs' \in Nat
      BY <1>1, <1>2, KeptSame
    <2>2. HeapOK(prog, vm.space, vm'.mem, {}) /\ Later(vm.mem, vm'.mem) /\ BlackHoles(vm'.mem) = BlackHoles(vm.mem)
      BY <1>6, <1>9
    <2>3. Quiet(vm.stack, vm'.stack, k)
      BY <1>9, <1>11
    <2>4. \A h \in k + 1 .. Len(vm'.stack) : FrameOK(prog, vm.space, vm'.mem, vm'.stack[h])
      BY <1>8, <1>9, <1>10, <1>11
    <2> QED BY <1>1, <1>2, <1>9, <1>12, <2>1, <2>2, <2>3, <2>4, StoringStep
  <1>14. Stays
    <2> SUFFICES ASSUME NEW h \in DOMAIN vm.mem PROVE Changes(h) \/ vm'.mem[h] = vm.mem[h]
      BY DEF Stays
    <2>1. CASE h = i
      <3>1. f.a = <<vm.space, h>>
        BY <1>3, <2>1 DEF At, i
      <3> QED BY <1>1, <1>2, <3>1 DEF Changes
    <2>2. CASE h # i
      BY <1>6, <1>9, <2>2
    <2> QED BY <2>1, <2>2
  <1> QED BY <1>13, <1>14
-----------------------------------------------------------------------------
(* Primitives.                                                             *)

\* The end of a list.
LEMMA ListSuffix ==
  ASSUME NEW s, IsList(s), NEW k \in 0 .. Len(s)
  PROVE  LET t == SubSeq(s, k + 1, Len(s))
         IN  /\ IsList(t) /\ Len(t) = Len(s) - k
             /\ \A i \in 1 .. Len(s) - k : t[i] = s[k + i]
  <1> DEFINE t == SubSeq(s, k + 1, Len(s))
             n == Len(s) - k
  <1>0. s \in Seq(ToSet(s))
    BY DEF IsList
  <1>1. Len(s) \in Nat /\ DOMAIN s = 1 .. Len(s)
    BY ListFacts
  <1>2. n \in Nat
    BY <1>1
  <1>3. \A i \in k + 1 .. Len(s) : s[i] \in ToSet(s)
    <2>1. \A i \in k + 1 .. Len(s) : i \in DOMAIN s
      BY <1>1
    <2> QED BY <2>1 DEF ToSet
  <1>4. /\ t \in Seq(ToSet(s)) /\ Len(t) = (IF k + 1 <= Len(s) THEN Len(s) - (k + 1) + 1 ELSE 0)
        /\ \A i \in 1 .. Len(s) - (k + 1) + 1 : t[i] = s[(k + 1) + i - 1]
    BY <1>0, <1>1, <1>3, SubSeqProperties
  <1>5. IsList(t)
    BY <1>4, ListSeq
  <1> HIDE DEF t
  <1>6. Len(t) = n
    <2>1. CASE k + 1 <= Len(s)
      BY <1>1, <1>4, <2>1
    <2>2. CASE ~ (k + 1 <= Len(s))
      <3>1. Len(t) = 0
        BY <1>4, <2>2
      <3>2. Len(s) - k = 0
        <4> DEFINE l == Len(s)
        <4>1. l \in Nat /\ k \in 0 .. l /\ ~ (k + 1 <= l)
          BY <1>1, <2>2
        <4> HIDE DEF l
        <4>2. k = l
          BY <4>1
        <4> QED BY <4>1, <4>2 DEF l
      <3> QED BY <3>1, <3>2
    <2> QED BY <2>1, <2>2
  <1>7. \A i \in 1 .. n : i \in 1 .. Len(s) - (k + 1) + 1 /\ (k + 1) + i - 1 = k + i
    BY <1>1
  <1> QED BY <1>4, <1>5, <1>6, <1>7 DEF t

\* A frame that is not on top goes.
LEMMA FrameRemoved ==
  ASSUME NEW s, IsList(s), NEW a \in DOMAIN s
  PROVE  LET u == RemoveAt(s, a)
         IN  /\ IsList(u) /\ Len(u) = Len(s) - 1 /\ Len(s) \in Nat /\ DOMAIN s = 1 .. Len(s)
             /\ \A i \in 1 .. a - 1 : u[i] = s[i]
             /\ \A i \in a .. Len(s) - 1 : u[i] = s[i + 1]
  <1> DEFINE u == RemoveAt(s, a)
             h == SubSeq(s, 1, a - 1)
             t == SubSeq(s, a + 1, Len(s))
             k == a - 1
  <1>1. Len(s) \in Nat /\ DOMAIN s = 1 .. Len(s)
    BY ListFacts
  <1>2. a \in 0 .. Len(s) /\ k \in 0 .. Len(s)
    BY <1>1
  <1>3. IsList(t) /\ Len(t) = Len(s) - a /\ \A i \in 1 .. Len(s) - a : t[i] = s[a + i]
    BY <1>2, ListSuffix
  <1> HIDE DEF t, k
  <1>4. h = SubSeq(s, 1, k)
    BY DEF k
  <1>5. /\ IsList(h \o t) /\ Len(h \o t) = k + Len(t)
        /\ \A i \in 1 .. k : (h \o t)[i] = s[i]
        /\ \A i \in k + 1 .. k + Len(t) : (h \o t)[i] = t[i - k]
    <2>1. LET z == SubSeq(s, 1, k) \o t
          IN  /\ IsList(z) /\ Len(z) = k + Len(t)
              /\ \A i \in 1 .. k : z[i] = s[i]
              /\ \A i \in k + 1 .. k + Len(t) : z[i] = t[i - k]
      <3>1. IsList(t) /\ k \in 0 .. Len(s)
        BY <1>2, <1>3
      <3> QED BY <3>1, ListReplaced
    <2> HIDE DEF h
    <2> QED BY <1>4, <2>1
  <1>6. u = h \o t
    BY DEF RemoveAt, t
  <1> HIDE DEF u, h
  <1>7. Len(u) = Len(s) - 1
    <2> DEFINE l == Len(s)
               r == Len(t)
    <2>1. a \in 1 .. l /\ l \in Nat /\ r = l - a /\ Len(h \o t) = k + r
      BY <1>1, <1>3, <1>5
    <2> HIDE DEF l, r
    <2>2. k + r = l - 1
      BY <2>1 DEF k
    <2> QED BY <1>6, <2>1, <2>2 DEF l
  <1>8. \A i \in a .. Len(s) - 1 : i \in k + 1 .. k + Len(t) /\ i - k \in 1 .. Len(s) - a /\ a + (i - k) = i + 1
    BY <1>1, <1>3 DEF k
  <1>9. \A i \in a .. Len(s) - 1 : u[i] = s[i + 1]
    BY <1>3, <1>5, <1>6, <1>8
  <1> QED BY <1>1, <1>5, <1>6, <1>7, <1>9 DEF u, k

\* A machine that the code makes on the way of a step; its runs are those of the
\* step's end.
From(w) ==
    /\ prog \in Program /\ prog' = prog /\ gcs' \in Nat
    /\ MachineOK(prog, w) /\ RootsAreValues(w) /\ RunsOK(w.stack, runs', jump', Len(w.roots))

\* v is w with more in the heap, and registers that are values.
Grown(w, v) ==
    /\ Recorded(v) /\ v.space = w.space /\ v.globals = w.globals /\ v.roots = w.roots
    /\ v.env = w.env /\ v.val = w.val /\ v.exc = w.exc
    /\ HeapOK(prog, w.space, v.mem, {}) /\ Later(w.mem, v.mem) /\ BlackHoles(v.mem) = BlackHoles(w.mem)

\* A machine with more objects and another top of the stack.
LEMMA GrownMachine ==
  ASSUME NEW w, From(w), NEW v, Grown(w, v), NEW k, Quiet(w.stack, v.stack, k),
         \A i \in k + 1 .. Len(v.stack) : FrameOK(prog, w.space, v.mem, v.stack[i])
  PROVE  /\ MachineOK(prog, v) /\ RootsAreValues(v) /\ RunsOK(v.stack, runs', jump', Len(v.roots))
         /\ From(v)
  <1>1. /\ prog \in Program /\ MachineOK(prog, w) /\ RootsAreValues(w) /\ RunsOK(w.stack, runs', jump', Len(w.roots))
    BY DEF From
  <1>2. /\ Recorded(v) /\ v.space = w.space /\ v.globals = w.globals /\ v.roots = w.roots
        /\ v.env = w.env /\ v.val = w.val /\ v.exc = w.exc
        /\ HeapOK(prog, w.space, v.mem, {}) /\ Later(w.mem, v.mem) /\ BlackHoles(v.mem) = BlackHoles(w.mem)
    BY DEF Grown
  <1>3. IsMachine(w, v)
    BY <1>2, RecordedMachine
  <1>4. Registers(w, v.mem)
    BY <1>1, <1>2, MachineParts, RegistersLater
  <1>5. Registers(v, v.mem)
    BY <1>2, <1>4 DEF Registers
  <1>6. MachineOK(prog, v)
    BY <1>1, <1>2, <1>3, <1>5, QuietMachine
  <1>7. RootsAreValues(v)
    BY <1>1, <1>2, ValueLater DEF RootsAreValues
  <1>8. IsList(w.stack)
    BY <1>1, MachineParts
  <1>9. RunsOK(v.stack, runs', jump', Len(v.roots))
    BY <1>1, <1>2, <1>8, QuietRuns
  <1> QED BY <1>6, <1>7, <1>9 DEF From

\* A step ends in the machine v.
LEMMA EndsIn ==
  ASSUME NEW v, From(v), vm' = v, PcOK(prog, vm', pc', code', obj', todo')
  PROVE  MachineInv'
  <1>1. /\ prog' \in Program /\ gcs' \in Nat /\ MachineOK(prog', vm') /\ RootsAreValues(vm')
        /\ RunsOK(vm'.stack, runs', jump', Len(vm'.roots)) /\ PcOK(prog', vm', pc', code', obj', todo')
    BY DEF From
  <1> QED BY <1>1, Assemble

\* A primitive returns: its frame goes.
LEMMA ReturnKeeps ==
  ASSUME NEW w, From(w), NEW v, Grown(w, v), v.stack = w.stack, w.stack # <<>>, Top(w.stack).kind = "PRIM",
         NEW p, Value(w.space, v.mem, p), NEW a, a = Len(w.stack), ReturnAt(v, a, p)
  PROVE  MachineInv' /\ vm'.mem = v.mem
  <1> DEFINE s == w.stack
             u == RemoveAt(s, Len(s))
             k == Len(s) - 1
             r == [v EXCEPT !.stack = u]
  <1>1. IsList(s) /\ prog \in Program
    BY MachineParts DEF From
  <1>2. Len(s) \in Nat /\ Len(s) >= 1 /\ Len(s) \in DOMAIN s /\ Top(s) = s[Len(s)] /\ k \in 0 .. Len(s)
        /\ Len(s) - 1 + 1 .. Len(s) = {Len(s)}
    BY <1>1, TopFrame
  <1>3. IsList(u) /\ Len(u) = k /\ \A i \in 1 .. k : u[i] = s[i]
    BY <1>1, <1>2, FrameRemoved
  <1> HIDE DEF u
  <1>4. Quiet(s, u, k) /\ k + 1 .. Len(u) = {}
    <2>1. k + 1 .. k = {} /\ k <= k
      BY <1>2
    <2>2. Edits(s, u, k)
      BY <1>2, <1>3, <2>1 DEF Edits
    <2>3. \A i \in k + 1 .. Len(s) : s[i].kind = "PRIM"
      BY <1>2
    <2> HIDE DEF k
    <2> QED BY <1>3, <2>1, <2>2, <2>3 DEF Quiet
  <1>5. vm' = r /\ pc' = "enter" /\ obj' = p
    BY DEF ReturnAt, GotoEnter, u
  <1>6. Recorded(v)
    BY DEF Grown
  <1>7. /\ Recorded(r) /\ r.space = v.space /\ r.globals = v.globals /\ r.roots = v.roots /\ r.mem = v.mem
        /\ r.env = v.env /\ r.val = v.val /\ r.exc = v.exc /\ r.stack = u
    BY <1>6 DEF Recorded, Fields
  <1> HIDE DEF r, k
  <1>8. Grown(w, r)
    BY <1>7 DEF Grown
  <1>9. From(r)
    BY <1>4, <1>7, <1>8, GrownMachine
  <1>10. PcOK(prog, vm', pc', code', obj', todo')
    <2>1. vm'.space = w.space /\ vm'.mem = v.mem
      BY <1>5, <1>7 DEF Grown
    <2> QED BY <1>5, <2>1 DEF PcOK
  <1>11. MachineInv'
    BY <1>5, <1>9, <1>10, EndsIn
  <1> QED BY <1>5, <1>7, <1>11

\* What is known where a primitive is called.
LEMMA AtCall ==
  ASSUME MachineInv, Running, pc = "call", NEW f, f = Top(vm.stack), prog' = prog
  PROVE  /\ prog \in Program /\ MachineOK(prog, vm) /\ RootsAreValues(vm) /\ gcs \in Nat
         /\ RunsOK(vm.stack, runs, jump, Len(vm.roots))
         /\ (runs' = runs /\ jump' = jump /\ gcs' = gcs => From(vm)) /\ Grown(vm, vm)
         /\ HeapOK(prog, vm.space, vm.mem, {}) /\ IsList(vm.stack) /\ Recorded(vm) /\ vm.space \in Spaces
         /\ vm.stack # <<>> /\ f.kind = "PRIM" /\ f.code \in DOMAIN Arity
         /\ \A i \in 1 .. Arity[f.code] : Value(vm.space, vm.mem, CallArg(i))
  <1>1. /\ prog \in Program /\ MachineOK(prog, vm) /\ RootsAreValues(vm) /\ gcs \in Nat
        /\ RunsOK(vm.stack, runs, jump, Len(vm.roots))
        /\ HeapOK(prog, vm.space, vm.mem, {}) /\ IsList(vm.stack) /\ Recorded(vm) /\ vm.space \in Spaces
        /\ vm.stack # <<>> /\ FrameOK(prog, vm.space, vm.mem, f) /\ f.kind = "PRIM"
    BY AtTop
  <1>2. /\ f.code \in DOMAIN Arity /\ At(vm.space, vm.mem, f.a) /\ vm.mem[f.a[2]].kind = "PAP"
        /\ Len(vm.mem[f.a[2]].ptr) = 1 + Arity[f.code]
    BY <1>1 DEF FrameOK
  <1> DEFINE o == vm.mem[f.a[2]]
  <1>3. Good(prog, vm.space, vm.mem, o)
    BY <1>1, <1>2 DEF HeapOK, At
  <1>4. Values(vm.space, vm.mem, o.ptr, 2)
    <2>1. o.kind = "PAP"
      BY <1>2
    <2> HIDE DEF o
    <2> QED BY <1>3, <2>1 DEF Good
  <1>5. ASSUME NEW i \in 1 .. Arity[f.code] PROVE Value(vm.space, vm.mem, CallArg(i))
    <2>1. Arity[f.code] \in Nat
      BY <1>2 DEF Arity
    <2>2. 1 + i \in 2 .. Len(o.ptr)
      BY <1>2, <2>1
    <2>3. CallArg(i) = o.ptr[1 + i]
      BY DEF CallArg
    <2> HIDE DEF o
    <2> QED BY <1>4, <2>2, <2>3 DEF Values
  <1>6. Grown(vm, vm)
    BY <1>1, MachineParts DEF Grown
  <1>7. runs' = runs /\ jump' = jump /\ gcs' = gcs => From(vm)
    BY <1>1 DEF From
  <1> QED BY <1>1, <1>2, <1>5, <1>6, <1>7
\* A machine with more in the heap.
LEMMA MoreHeap ==
  ASSUME NEW w, From(w), NEW m, HeapOK(prog, w.space, m, {}), Later(w.mem, m), BlackHoles(m) = BlackHoles(w.mem)
  PROVE  LET v == [w EXCEPT !.mem = m]
         IN  /\ Grown(w, v) /\ v.mem = m /\ v.stack = w.stack /\ v.space = w.space /\ v.roots = w.roots
             /\ From(v) /\ MachineOK(prog, v) /\ RootsAreValues(v) /\ RunsOK(v.stack, runs', jump', Len(v.roots))
  <1> DEFINE v == [w EXCEPT !.mem = m]
  <1>1. Recorded(w) /\ IsList(w.stack)
    BY MachineParts, MachineRecorded DEF From
  <1>2. /\ Recorded(v) /\ v.space = w.space /\ v.globals = w.globals /\ v.roots = w.roots /\ v.mem = m
        /\ v.env = w.env /\ v.val = w.val /\ v.exc = w.exc /\ v.stack = w.stack
    BY <1>1 DEF Recorded, Fields
  <1> HIDE DEF v
  <1>3. Grown(w, v)
    BY <1>2 DEF Grown
  <1>4. Quiet(w.stack, v.stack, Len(w.stack)) /\ Len(w.stack) + 1 .. Len(v.stack) = {}
    <2>1. Len(w.stack) \in Nat
      BY <1>1, ListFacts
    <2> QED BY <1>1, <1>2, <2>1, QuietSame
  <1>5. MachineOK(prog, v) /\ RootsAreValues(v) /\ RunsOK(v.stack, runs', jump', Len(v.roots)) /\ From(v)
    BY <1>3, <1>4, GrownMachine
  <1> QED BY <1>2, <1>3, <1>5 DEF v

\* A reservation of a step that keeps the runs, where a primitive is called.
LEMMA BaseFrom ==
  ASSUME MachineInv, Running, pc = "call", prog' = prog, runs' = runs, jump' = jump, NEW w, Base(w)
  PROVE  /\ From(w) /\ w.stack # <<>> /\ Top(w.stack).kind = "PRIM" /\ Len(w.stack) = Len(vm.stack)
         /\ HeapOK(prog, w.space, w.mem, {})
  <1> DEFINE f == Top(vm.stack)
  <1>0. f = Top(vm.stack)
    OBVIOUS
  <1> HIDE DEF f
  <1>1. /\ prog \in Program /\ RunsOK(vm.stack, runs, jump, Len(vm.roots)) /\ IsList(vm.stack)
        /\ vm.stack # <<>> /\ f.kind = "PRIM"
    BY <1>0, AtCall
  <1>2. MachineOK(prog, w) /\ Kept(prog, vm, w) /\ RootsAreValues(w) /\ gcs' \in Nat
    BY DEF Base
  <1>3. IsList(w.stack) /\ HeapOK(prog, w.space, w.mem, {})
    BY <1>1, <1>2, MachineParts
  <1>4. RunsOK(w.stack, runs, jump, Len(vm.roots))
    BY <1>1, <1>2, <1>3, KeptRuns
  <1>5. /\ Len(w.roots) = Len(vm.roots) /\ Len(w.stack) = Len(vm.stack)
        /\ \A i \in DOMAIN vm.stack : w.stack[i].kind = vm.stack[i].kind
    BY <1>2 DEF Kept
  <1>6. From(w)
    BY <1>1, <1>2, <1>4, <1>5 DEF From
  <1>7. /\ Len(vm.stack) \in DOMAIN vm.stack /\ Len(vm.stack) # 0
        /\ Top(vm.stack) = vm.stack[Len(vm.stack)]
    BY <1>1, TopFrame
  <1>8. w.stack # <<>>
    BY <1>5, <1>7, EmptyList
  <1>9. Top(w.stack).kind = "PRIM"
    BY <1>0, <1>1, <1>5, <1>7 DEF Top
  <1> QED BY <1>3, <1>5, <1>6, <1>8, <1>9

LEMMA CallIntAddKeeps ==
  ASSUME MachineInv, CallIntAdd
  PROVE  MachineInv' /\ Stays
  <1> DEFINE sum == Obj(vm, CallArg(1)).code + Obj(vm, CallArg(2)).code
             static == sum \in SmallInt
             n == IF static THEN 0 ELSE 2
             b(w) == Boxed(w, w.mem, "INT", sum, static)
  <1>1. Running /\ pc = "call" /\ UNCHANGED <<prog, status, runs, jump>>
    BY DEF CallIntAdd, Calls
  <1>2. PICK w \in Reserved(n, vm) :
           Uses(n, w, b(w).mem) /\ ReturnAt([w EXCEPT !.mem = b(w).mem], Len(vm.stack), b(w).p)
    BY DEF CallIntAdd, Return
  <1>s. static \in BOOLEAN
    <2>1. \A S, x : (x \in S) \in BOOLEAN
      BY SMT
    <2> QED BY <2>1, Zenon
  <1> DEFINE m == b(w).mem
             q == b(w).p
             v == [w EXCEPT !.mem = m]
  <1> HIDE DEF static, n, sum
  <1>3. Base(w) /\ prog \in Program
    BY <1>2, Reservation DEF MachineInv
  <1>4. /\ From(w) /\ w.stack # <<>> /\ Top(w.stack).kind = "PRIM" /\ Len(w.stack) = Len(vm.stack)
        /\ HeapOK(prog, w.space, w.mem, {})
    BY <1>1, <1>3, BaseFrom
  <1>6. HeapOK(prog, w.space, m, {}) /\ Extends(w.mem, m) /\ BlackHoles(m) = BlackHoles(w.mem)
        /\ Value(w.space, m, q)
    <2> DEFINE k == "INT"
               h == w.mem
    <2>1. k \in {"INT", "CHAR"} /\ HeapOK(prog, w.space, h, {}) /\ m = Boxed(w, h, k, sum, static).mem
          /\ q = Boxed(w, h, k, sum, static).p
      BY <1>4
    <2> HIDE DEF b, m, q, k, h
    <2>2. LET c == Boxed(w, h, k, sum, static)
          IN  /\ HeapOK(prog, w.space, c.mem, {}) /\ Extends(h, c.mem)
              /\ BlackHoles(c.mem) = BlackHoles(h) /\ Value(w.space, c.mem, c.p)
      BY <1>3, <1>s, <2>1, BoxedMade
    <2> QED BY <2>1, <2>2 DEF h
  <1>7. ReturnAt(v, Len(w.stack), q)
    BY <1>2, <1>4
  <1> HIDE DEF m, q
  <1>8. Grown(w, v) /\ v.mem = m /\ v.stack = w.stack
    BY <1>4, <1>6, ExtendsLater, MoreHeap
  <1> HIDE DEF v
  <1>9. MachineInv' /\ vm'.mem = m
    BY <1>4, <1>6, <1>7, <1>8, ReturnKeeps
  <1>10. Stays
    BY <1>3, <1>6, <1>9 DEF Base, Stays, Extends
  <1> QED BY <1>9, <1>10

LEMMA CallWhnfKeeps ==
  ASSUME MachineInv, CallWhnf
  PROVE  MachineInv' /\ Stays
  <1> DEFINE f == Top(vm.stack)
             p == CallArg(1)
  <1>1. Running /\ pc = "call" /\ f.code = "whnf" /\ UNCHANGED <<prog, runs, jump, gcs, status>>
        /\ ReturnAt(vm, Len(vm.stack), p)
    BY DEF CallWhnf, Calls, Return
  <1>2. f = Top(vm.stack)
    OBVIOUS
  <1> HIDE DEF f, p
  <1>3. /\ From(vm) /\ Grown(vm, vm) /\ vm.stack # <<>> /\ f.kind = "PRIM"
        /\ \A i \in 1 .. Arity[f.code] : Value(vm.space, vm.mem, CallArg(i))
    BY <1>1, <1>2, AtCall
  <1>4. Value(vm.space, vm.mem, p)
    <2>1. 1 \in 1 .. Arity[f.code]
      BY <1>1 DEF Arity
    <2> QED BY <1>3, <2>1 DEF p
  <1>5. MachineInv' /\ vm'.mem = vm.mem
    BY <1>1, <1>2, <1>3, <1>4, ReturnKeeps
  <1> QED BY <1>5 DEF Stays

\* A primitive returns io_result(x); w is what the reservation of its room left.
LEMMA IoReturned ==
  ASSUME NEW v, From(v), v.stack # <<>>, Top(v.stack).kind = "PRIM", NEW x, Value(v.space, v.mem, x),
         NEW w \in Reserved(4, Rooted(v, x)), NEW a, a = Len(v.stack),
         ReturnAt([w EXCEPT !.mem = Append(w.mem, Thing("CON", "IoRes", <<Unit, Top(w.roots)>>)),
                            !.roots = Pop(@, 1)], a, NewPtr(w, w.mem))
  PROVE  MachineInv' /\ (w.space = v.space => Extends(v.mem, vm'.mem))
  <1> DEFINE t == Top(w.roots)
             m == Append(w.mem, Thing("CON", "IoRes", <<Unit, t>>))
             q == NewPtr(w, w.mem)
             r == [w EXCEPT !.mem = m, !.roots = Pop(@, 1)]
             u == Unrooted(w)
  <1>1. prog \in Program /\ MachineOK(prog, v) /\ RootsAreValues(v) /\ RunsOK(v.stack, runs', jump', Len(v.roots))
        /\ gcs' \in Nat /\ prog' = prog /\ v.space \in Spaces /\ IsList(v.stack)
    BY MachineParts DEF From
  <1>2. x # Null /\ Maybe(v.space, v.mem, x)
    BY <1>1, NullIsNoValue DEF Maybe
  <1>3. /\ MachineOK(prog, w) /\ w.roots # <<>>
        /\ MachineOK(prog, u) /\ Kept(prog, v, u) /\ RootsAreValues(u)
        /\ (w.space = v.space => w.mem = v.mem) /\ Value(w.space, w.mem, t)
    BY <1>1, <1>2, RootedReservation
  <1>4. /\ Recorded(w) /\ HeapOK(prog, w.space, w.mem, {}) /\ IsList(u.stack)
        /\ u.space = w.space /\ u.mem = w.mem /\ u.globals = w.globals /\ u.stack = w.stack
        /\ u.env = w.env /\ u.val = w.val /\ u.exc = w.exc /\ u.roots = Pop(w.roots, 1)
    BY <1>1, <1>3, MachineParts, MachineRecorded, MachineUnrooted
  <1> HIDE DEF u
  <1>5. From(u) /\ Len(u.stack) = Len(v.stack) /\ \A i \in DOMAIN v.stack : u.stack[i].kind = v.stack[i].kind
    <2>1. RunsOK(u.stack, runs', jump', Len(v.roots))
      BY <1>1, <1>3, <1>4, KeptRuns
    <2>2. /\ Len(u.roots) = Len(v.roots) /\ Len(u.stack) = Len(v.stack)
          /\ \A i \in DOMAIN v.stack : u.stack[i].kind = v.stack[i].kind
      BY <1>3 DEF Kept
    <2> QED BY <1>1, <1>3, <2>1, <2>2 DEF From
  <1>6. u.stack # <<>> /\ Top(u.stack).kind = "PRIM"
    <2>1. /\ Len(v.stack) \in DOMAIN v.stack /\ Len(v.stack) # 0
          /\ Top(v.stack) = v.stack[Len(v.stack)]
      BY <1>1, TopFrame
    <2> QED BY <1>5, <2>1, EmptyList DEF Top
  <1>7. /\ HeapOK(prog, w.space, m, {}) /\ Extends(w.mem, m) /\ BlackHoles(m) = BlackHoles(w.mem)
        /\ Value(w.space, m, q)
    <2> DEFINE sp == w.space
               e == w.mem
               c == "IoRes"
    <2>1. HeapOK(prog, sp, e, {}) /\ Value(sp, e, t) /\ Value(sp, e, Unit)
      <3>1. StaticValue(Unit)
        BY ConArityAssumption DEF Unit, ConObject, StaticValue
      <3> QED BY <1>3, <1>4, <3>1 DEF Value
    <2>2. c \in DOMAIN ConArity /\ ConArity[c] = 2
      BY ConArityAssumption
    <2>3. m = Append(e, Thing("CON", c, <<Unit, t>>)) /\ q = <<sp, Len(e) + 1>>
      BY DEF NewPtr
    <2> HIDE DEF sp, e, c, t, m, q
    <2>4. LET z == Append(e, Thing("CON", c, <<Unit, t>>))
              p == <<sp, Len(e) + 1>>
          IN  /\ HeapOK(prog, sp, z, {}) /\ Extends(e, z) /\ BlackHoles(z) = BlackHoles(e) /\ Value(sp, z, p)
      BY <1>1, <2>1, <2>2, PairMade
    <2> QED BY <2>3, <2>4 DEF sp, e
  <1>8. ReturnAt(r, a, q)
    OBVIOUS
  <1> HIDE DEF m, q, t
  <1>9. /\ Recorded(r) /\ r.space = u.space /\ r.globals = u.globals /\ r.roots = u.roots /\ r.mem = m
        /\ r.env = u.env /\ r.val = u.val /\ r.exc = u.exc /\ r.stack = u.stack
    BY <1>4 DEF Recorded, Fields
  <1> HIDE DEF r
  <1>10. Grown(u, r)
    <2>1. Later(u.mem, m)
      BY <1>4, <1>7, ExtendsLater
    <2> QED BY <1>4, <1>7, <1>9, <2>1 DEF Grown
  <1>11. MachineInv' /\ vm'.mem = r.mem
    <2>1. Value(u.space, r.mem, q) /\ a = Len(u.stack)
      BY <1>4, <1>5, <1>7, <1>9
    <2> QED BY <1>5, <1>6, <1>8, <1>9, <1>10, <2>1, ReturnKeeps
  <1> QED BY <1>3, <1>7, <1>9, <1>11

\* An IoRes of the result goes back to the primitive's caller.
LEMMA IoResultKeeps ==
  ASSUME NEW v, prog \in Program, prog' = prog, gcs \in Nat, v.space = vm.space,
         MachineOK(prog, v), RootsAreValues(v), RunsOK(v.stack, runs', jump', Len(v.roots)),
         v.stack # <<>>, Top(v.stack).kind = "PRIM", NEW x, Value(v.space, v.mem, x),
         NEW a, a = Len(v.stack), IoResult(v, x, a)
  PROVE  MachineInv' /\ (gcs' = gcs => Extends(v.mem, vm'.mem))
  <1> DEFINE m(w) == Append(w.mem, Thing("CON", "IoRes", <<Unit, Top(w.roots)>>))
  <1>1. PICK w \in Reserved(4, Rooted(v, x)) :
           /\ Uses(4, w, m(w))
           /\ ReturnAt([w EXCEPT !.mem = m(w), !.roots = Pop(@, 1)], a, NewPtr(w, w.mem))
    BY DEF IoResult, Rooted
  <1>2. gcs' \in Nat /\ (gcs' = gcs => w.space = v.space)
    BY <1>1 DEF Uses
  <1>3. From(v)
    BY <1>2 DEF From
  <1>4. MachineInv' /\ (w.space = v.space => Extends(v.mem, vm'.mem))
    BY <1>1, <1>3, IoReturned
  <1> QED BY <1>2, <1>4
\* A list is all of its own prefix.
LEMMA ListWhole ==
  ASSUME NEW s, IsList(s)
  PROVE  SubSeq(s, 1, Len(s)) = s
  <1>1. Len(s) \in Nat /\ DOMAIN s = 1 .. Len(s) /\ s = [i \in 1 .. Len(s) |-> s[i]]
    BY ListFacts
  <1>2. Len(s) \in 0 .. Len(s)
    BY <1>1
  <1> DEFINE t == SubSeq(s, 1, Len(s))
  <1>3. IsList(t) /\ Len(t) = Len(s) /\ \A i \in 1 .. Len(s) : t[i] = s[i]
    BY <1>2, ListPrefix
  <1> HIDE DEF t
  <1>4. t = [i \in 1 .. Len(s) |-> t[i]]
    BY <1>3, ListFacts
  <1> QED BY <1>1, <1>3, <1>4 DEF t

LEMMA CallCatchKeeps ==
  ASSUME MachineInv, CallCatch
  PROVE  MachineInv' /\ Stays
  <1> DEFINE f == Top(vm.stack)
             s == vm.stack
             l == Len(vm.stack)
             k == Len(vm.stack) - 1
             handled == Frame("CATCH", CallArg(2), CallArg(3), <<>>, 0)
             arg == Arg(CallArg(3))
             t == <<handled, arg>>
             u == RemoveAt(s \o t, l)
             p == CallArg(1)
  <1>1. Running /\ pc = "call" /\ f.code = "catch" /\ UNCHANGED <<prog, runs, jump, gcs, status>>
    BY DEF CallCatch, Calls
  <1>2. vm' = [vm EXCEPT !.stack = u] /\ pc' = "enter" /\ obj' = p
    <2>1. ReturnAt([vm EXCEPT !.stack = @ \o <<handled, arg>>], l, p)
      BY DEF CallCatch, Return
    <2>2. Recorded(vm)
      BY <1>1, AtCall
    <2> DEFINE r == [vm EXCEPT !.stack = @ \o <<handled, arg>>]
    <2>3. r.stack = s \o t /\ [r EXCEPT !.stack = u] = [vm EXCEPT !.stack = u]
      <3> HIDE DEF handled, arg, u
      <3> QED BY <2>2 DEF Recorded, Fields
    <2>4. vm' = [r EXCEPT !.stack = RemoveAt(r.stack, l)] /\ pc' = "enter" /\ obj' = p
      BY <2>1 DEF ReturnAt, GotoEnter
    <2> HIDE DEF r
    <2> QED BY <2>3, <2>4
  <1>3. /\ From(vm) /\ Grown(vm, vm) /\ vm.stack # <<>> /\ f.kind = "PRIM" /\ IsList(s) /\ Recorded(vm)
        /\ \A i \in 1 .. Arity[f.code] : Value(vm.space, vm.mem, CallArg(i))
        /\ f = Top(vm.stack)
    <2>1. f = Top(vm.stack)
      OBVIOUS
    <2> HIDE DEF f
    <2> QED BY <1>1, <2>1, AtCall
  <1>4. Value(vm.space, vm.mem, p) /\ Value(vm.space, vm.mem, CallArg(2)) /\ Value(vm.space, vm.mem, CallArg(3))
    <2>1. 1 .. Arity[f.code] = 1 .. 3
      BY <1>1 DEF Arity
    <2> HIDE DEF f
    <2> QED BY <1>3, <2>1
  <1>5. /\ l \in Nat /\ l >= 1 /\ l \in DOMAIN s /\ f = s[l] /\ k \in 0 .. l
        /\ k + 1 .. l = {l} /\ DOMAIN s = 1 .. l
    BY <1>3, TopFrame
  <1>6. IsList(t) /\ Len(t) = 2 /\ t[1] = handled /\ t[2] = arg
    <2> HIDE DEF handled, arg
    <2> QED BY TwoList
  <1> HIDE DEF t
  <1> DEFINE c == s \o t
  <1>7. /\ IsList(c) /\ Len(c) = l + 2 /\ DOMAIN c = 1 .. l + 2
        /\ \A i \in 1 .. l : c[i] = s[i]
        /\ c[l + 1] = handled /\ c[l + 2] = arg
    <2>1. /\ IsList(c) /\ Len(c) = l + Len(t) /\ DOMAIN c = 1 .. l + Len(t)
          /\ \A i \in 1 .. l : c[i] = s[i]
          /\ \A i \in 1 .. Len(t) : c[l + i] = t[i]
      <3>1. IsList(s) /\ IsList(t) /\ l = Len(s)
        BY <1>3, <1>6
      <3> HIDE DEF s, l
      <3> QED BY <3>1, ListConcat
    <2> HIDE DEF c, handled, arg
    <2> QED BY <1>6, <2>1
  <1>8. u = RemoveAt(c, l) /\ l \in DOMAIN c
    BY <1>5, <1>7
  <1> HIDE DEF c, u, handled, arg
  <1>9. /\ IsList(u) /\ Len(u) = l + 1 /\ \A i \in 1 .. k : u[i] = s[i]
        /\ u[l] = handled /\ u[l + 1] = arg
    <2>1. /\ IsList(u) /\ Len(u) = Len(c) - 1
          /\ \A i \in 1 .. l - 1 : u[i] = c[i]
          /\ \A i \in l .. Len(c) - 1 : u[i] = c[i + 1]
      BY <1>7, <1>8, FrameRemoved
    <2> HIDE DEF l
    <2>2. Len(c) - 1 = l + 1 /\ l \in l .. l + 1 /\ l + 1 \in l .. l + 1 /\ (l + 1) + 1 = l + 2
      BY <1>5, <1>7
    <2>3. \A i \in 1 .. l - 1 : i \in 1 .. l
      BY <1>5
    <2> QED BY <1>7, <2>1, <2>2, <2>3 DEF l
  <1>10. \A i \in k + 1 .. Len(u) : u[i] \in {handled, arg}
    <2>1. \A i \in k + 1 .. Len(u) : i = l \/ i = l + 1
      BY <1>5, <1>9
    <2> HIDE DEF l
    <2> QED BY <1>9, <2>1
  <1>11. Quiet(s, u, k)
    <2>1. handled.kind = "CATCH" /\ arg.kind = "ARG"
      BY DEF handled, arg, Frame, Arg
    <2>2. k <= Len(u)
      BY <1>5, <1>9
    <2>3. \A i \in k + 1 .. l : s[i].kind = "PRIM"
      BY <1>3, <1>5
    <2>4. \A i \in k + 1 .. Len(u) : u[i].kind \in {"CATCH", "ARG"}
      BY <1>10, <2>1
    <2>5. Edits(s, u, k)
      BY <1>5, <1>9, <2>2 DEF Edits
    <2>6. l = Len(s)
      OBVIOUS
    <2> HIDE DEF k, l, s
    <2>7. \A i \in k + 1 .. Len(s) : s[i].kind \notin {"UPDATE", "STOP"}
      BY <2>3, <2>6
    <2>8. \A i \in k + 1 .. Len(u) : u[i].kind \notin {"UPDATE", "STOP"}
      BY <2>4
    <2> QED BY <2>5, <2>7, <2>8 DEF Quiet
  <1>12. /\ Recorded(vm') /\ vm'.space = vm.space /\ vm'.globals = vm.globals /\ vm'.roots = vm.roots
         /\ vm'.mem = vm.mem /\ vm'.val = vm.val /\ vm'.env = vm.env /\ vm'.exc = vm.exc /\ vm'.stack = u
    BY <1>2, <1>3 DEF Recorded, Fields
  <1>13. Grown(vm, vm')
    BY <1>3, <1>12 DEF Grown
  <1>14. FrameOK(prog, vm.space, vm.mem, handled) /\ FrameOK(prog, vm.space, vm.mem, arg)
    BY <1>4 DEF FrameOK, handled, arg, Frame, Arg
  <1>15. From(vm')
    BY <1>3, <1>10, <1>11, <1>12, <1>13, <1>14, GrownMachine
  <1>16. PcOK(prog, vm', pc', code', obj', todo')
    BY <1>2, <1>4, <1>12 DEF PcOK
  <1>17. MachineInv'
    BY <1>15, <1>16, EndsIn
  <1> QED BY <1>12, <1>17 DEF Stays

LEMMA CallRaiseKeeps ==
  ASSUME MachineInv, CallRaise
  PROVE  MachineInv' /\ Stays
  <1> DEFINE f == Top(vm.stack)
             p == CallArg(1)
             r == SubSeq(vm.roots, 1, runs[jump].roots)
  <1>1. /\ Running /\ pc = "call" /\ f.code = "raise" /\ UNCHANGED <<prog, jump, gcs, status>>
        /\ vm' = [vm EXCEPT !.exc = p, !.roots = r] /\ runs' = SubSeq(runs, 1, jump) /\ pc' = "unwind"
    BY DEF CallRaise, Calls, control
  <1>2. f = Top(vm.stack)
    OBVIOUS
  <1> HIDE DEF f, p
  <1>3. /\ prog \in Program /\ MachineOK(prog, vm) /\ RootsAreValues(vm) /\ gcs \in Nat
        /\ RunsOK(vm.stack, runs, jump, Len(vm.roots))
        /\ HeapOK(prog, vm.space, vm.mem, {}) /\ IsList(vm.stack) /\ Recorded(vm)
        /\ \A i \in 1 .. Arity[f.code] : Value(vm.space, vm.mem, CallArg(i))
    BY <1>1, <1>2, AtCall
  <1>4. Value(vm.space, vm.mem, p)
    <2>1. 1 \in 1 .. Arity[f.code]
      BY <1>1 DEF Arity
    <2> QED BY <1>3, <2>1 DEF p
  <1>5. IsList(vm.roots) /\ Registers(vm, vm.mem) /\ Later(vm.mem, vm.mem)
    BY <1>3, MachineParts
  <1>6. runs' = runs /\ r = vm.roots
    <2>1. IsList(runs) /\ jump = Len(runs) /\ Len(vm.roots) = runs[Len(runs)].roots
      BY <1>3 DEF RunsOK
    <2> QED BY <1>1, <1>5, <2>1, ListWhole
  <1> HIDE DEF r
  <1>7. /\ Recorded(vm') /\ vm'.space = vm.space /\ vm'.globals = vm.globals /\ vm'.roots = vm.roots
        /\ vm'.mem = vm.mem /\ vm'.val = vm.val /\ vm'.env = vm.env /\ vm'.exc = p /\ vm'.stack = vm.stack
    BY <1>1, <1>3, <1>6 DEF Recorded, Fields
  <1>8. IsMachine(vm, vm')
    BY <1>7, RecordedMachine
  <1>9. Registers(vm', vm'.mem)
    BY <1>4, <1>5, <1>7 DEF Registers, Maybe
  <1>10. Quiet(vm.stack, vm'.stack, Len(vm.stack)) /\ Len(vm.stack) + 1 .. Len(vm'.stack) = {}
    <2>1. Len(vm.stack) \in Nat
      BY <1>3, ListFacts
    <2> QED BY <1>3, <1>7, <2>1, QuietSame
  <1>11. MachineOK(prog, vm')
    BY <1>3, <1>5, <1>7, <1>8, <1>9, <1>10, QuietMachine
  <1>12. PcOK(prog, vm', pc', code', obj', todo')
    BY <1>1, <1>4, <1>7 DEF PcOK
  <1>13. RootsAreValues(vm') /\ RunsOK(vm'.stack, runs', jump', Len(vm'.roots))
    BY <1>1, <1>3, <1>6, <1>7 DEF RootsAreValues
  <1>14. MachineInv'
    BY <1>1, <1>3, <1>11, <1>12, <1>13, Assemble
  <1> QED BY <1>7, <1>14 DEF Stays

-----------------------------------------------------------------------------
(* Mutable cells.                                                          *)

Cells == {"MutVar", "MVar"}

\* What may be in a cell.
Holds(con, x) ==
    IF con = "MutVar" THEN Value(vm.space, vm.mem, x) ELSE Maybe(vm.space, vm.mem, x)

\* What a primitive finds in a mutable cell.
LEMMA CellFacts ==
  ASSUME MachineInv, Running, pc = "call", NEW f, f = Top(vm.stack), 1 \in 1 .. Arity[f.code], prog' = prog,
         NEW con \in Cells, CellIs(con), NEW p, p = CallArg(1), NEW o, o = vm.mem[p[2]]
  PROVE  /\ At(vm.space, vm.mem, p) /\ o = Thing("CON", con, o.ptr) /\ IsList(o.ptr) /\ Len(o.ptr) = 1
         /\ Content = o.ptr[1] /\ Holds(con, Content)
  <1> DEFINE q == Obj(vm, p)
  <1>1. prog \in Program /\ MachineOK(prog, vm) /\ Value(vm.space, vm.mem, p)
    BY AtCall
  <1>2. q.kind = "CON" /\ q.code = con /\ Content = q.ptr[1] /\ con \notin DOMAIN ConArity
    BY ConArityAssumption DEF CellIs, Cells, Content
  <1>3. q = Obj(vm, p)
    OBVIOUS
  <1> HIDE DEF q
  <1>4. /\ At(vm.space, vm.mem, p) /\ q = vm.mem[p[2]]
        /\ Good(prog, vm.space, vm.mem, q) /\ q = Thing(q.kind, q.code, q.ptr) /\ IsList(q.ptr)
    BY <1>1, <1>2, <1>3, ObjectHere
  <1>5. Len(q.ptr) = 1 /\ (con = "MutVar" => Values(vm.space, vm.mem, q.ptr, 1))
        /\ (con = "MVar" => Maybe(vm.space, vm.mem, q.ptr[1]))
    BY <1>2, <1>4 DEF Good, Cells
  <1>6. Holds(con, Content)
    <2>1. con = "MutVar" => Value(vm.space, vm.mem, q.ptr[1])
      BY <1>5 DEF Values
    <2> QED BY <1>2, <1>5, <2>1 DEF Holds, Cells
  <1> QED BY <1>2, <1>4, <1>5, <1>6

\* A cell is overwritten.
LEMMA CellStored ==
  ASSUME MachineInv, Running, pc = "call", NEW f, f = Top(vm.stack), 1 \in 1 .. Arity[f.code],
         NEW con \in Cells, CellIs(con), From(vm), NEW x, Holds(con, x)
  PROVE  LET v == SetContent(x)
         IN  /\ Grown(vm, v) /\ v.stack = vm.stack /\ v.space = vm.space /\ v.roots = vm.roots
             /\ From(v) /\ MachineOK(prog, v) /\ RootsAreValues(v) /\ RunsOK(v.stack, runs', jump', Len(v.roots))
             /\ Later(vm.mem, v.mem)
             /\ \A k \in DOMAIN vm.mem : Changes(k) \/ v.mem[k] = vm.mem[k]
  <1> DEFINE p == CallArg(1)
             i == p[2]
             o == vm.mem[i]
             r == [o.ptr EXCEPT ![1] = x]
             n == Thing("CON", con, r)
             m == [vm.mem EXCEPT ![i] = n]
             v == [vm EXCEPT !.mem = m]
  <1>1. prog \in Program /\ prog' = prog /\ MachineOK(prog, vm)
    BY DEF From
  <1>2. HeapOK(prog, vm.space, vm.mem, {}) /\ Recorded(vm)
    BY <1>1, MachineParts, MachineRecorded
  <1>3. At(vm.space, vm.mem, p) /\ o = Thing("CON", con, o.ptr) /\ IsList(o.ptr) /\ Len(o.ptr) = 1
    BY <1>1, CellFacts
  <1>4. IsList(r) /\ Len(r) = 1 /\ r[1] = x
    <2> DEFINE s == o.ptr
    <2>1. IsList(s) /\ 1 \in DOMAIN s /\ Len(s) = 1 /\ r = [s EXCEPT ![1] = x]
      <3>1. DOMAIN o.ptr = 1 .. 1
        BY <1>3, ListFacts
      <3> QED BY <1>3, <3>1
    <2> HIDE DEF s, r
    <2> QED BY <2>1, ListExcept, ZenonT(30)
  <1> HIDE DEF r
  <1>5. Good(prog, vm.space, vm.mem, n)
    <2>1. n.kind = "CON" /\ n.code = con /\ n.ptr = r /\ n = Thing(n.kind, n.code, n.ptr)
      BY DEF Thing
    <2> HIDE DEF n
    <2>2. ASSUME con = "MutVar"
          PROVE  Values(vm.space, vm.mem, n.ptr, 1)
      <3>1. Value(vm.space, vm.mem, x)
        BY <2>2 DEF Holds
      <3>2. \A k \in 1 .. Len(n.ptr) : k = 1
        BY <1>4, <2>1
      <3> QED BY <1>4, <2>1, <3>1, <3>2 DEF Values
    <2>3. con = "MVar" => Maybe(vm.space, vm.mem, n.ptr[1])
      BY <1>4, <2>1 DEF Holds
    <2> QED BY <1>4, <2>1, <2>2, <2>3 DEF Good, Cells
  <1>6. i \in DOMAIN vm.mem
    BY <1>3 DEF At
  <1>7. Evolves(o, n)
    <2>1. o.kind = "CON" /\ n.kind = "CON"
      BY <1>3 DEF Thing
    <2> HIDE DEF o, n
    <2> QED BY <2>1 DEF Evolves
  <1>8. SetContent(x) = v
    <2>1. SetContent(x) = [vm EXCEPT !.mem[i].ptr[1] = x]
      BY DEF SetContent
    <2>2. [vm EXCEPT !.mem[i].ptr[1] = x] = [vm EXCEPT !.mem = [vm.mem EXCEPT ![i].ptr[1] = x]]
      OBVIOUS
    <2>3. [vm.mem EXCEPT ![i].ptr[1] = x] = m
      <3>1. o = Thing(o.kind, o.code, o.ptr) /\ o = vm.mem[i] /\ o.kind = "CON" /\ o.code = con
        BY <1>3 DEF Thing
      <3> HIDE DEF o, i
      <3>2. [vm.mem EXCEPT ![i].ptr[1] = x] = [vm.mem EXCEPT ![i] = Thing(o.kind, o.code, [o.ptr EXCEPT ![1] = x])]
        BY <3>1, FieldChanged
      <3> QED BY <3>1, <3>2 DEF r
    <2> HIDE DEF i, m
    <2> QED BY <2>1, <2>2, <2>3
  <1>9. /\ HeapOK(prog, vm.space, m, {}) /\ Later(vm.mem, m) /\ DOMAIN m = DOMAIN vm.mem
        /\ m[i] = n /\ \A k \in DOMAIN vm.mem : k # i => m[k] = vm.mem[k]
    <2> DEFINE e == vm.mem
               sp == vm.space
    <2>1. HeapOK(prog, sp, e, {}) /\ i \in DOMAIN e /\ Evolves(e[i], n) /\ Good(prog, sp, e, n) /\ m = [e EXCEPT ![i] = n]
      BY <1>2, <1>5, <1>6, <1>7
    <2> HIDE DEF e, sp, i, n, m
    <2>2. LET z == [e EXCEPT ![i] = n]
          IN  /\ HeapOK(prog, sp, z, {}) /\ Later(e, z) /\ Len(z) = Len(e) /\ DOMAIN z = DOMAIN e
              /\ z[i] = n /\ \A k \in DOMAIN e : k # i => z[k] = e[k]
      BY <1>1, <2>1, HeapStored
    <2> QED BY <2>1, <2>2 DEF e, sp
  <1>10. BlackHoles(m) = BlackHoles(vm.mem)
    <2>1. o.kind = "CON" /\ n.kind = "CON" /\ o = vm.mem[i]
      BY <1>3 DEF Thing
    <2> HIDE DEF o, n, m, i
    <2> QED BY <1>9, <2>1 DEF BlackHoles
  <1>11. Changes(i)
    <2>1. vm.mem[i].kind = "CON" /\ vm.mem[i].code \in {"MutVar", "MVar"}
      BY <1>3 DEF Thing, Cells
    <2> QED BY <2>1 DEF Changes
  <1> HIDE DEF m, v
  <1>12. /\ Grown(vm, v) /\ v.mem = m /\ v.stack = vm.stack /\ v.space = vm.space /\ v.roots = vm.roots
         /\ From(v) /\ MachineOK(prog, v) /\ RootsAreValues(v) /\ RunsOK(v.stack, runs', jump', Len(v.roots))
    BY <1>9, <1>10, MoreHeap DEF v
  <1> HIDE DEF i
  <1>13. \A k \in DOMAIN vm.mem : Changes(k) \/ v.mem[k] = vm.mem[k]
    BY <1>9, <1>11, <1>12
  <1> QED BY <1>8, <1>9, <1>12, <1>13

LEMMA CallMutVarReadKeeps ==
  ASSUME MachineInv, CallMutVarRead
  PROVE  MachineInv' /\ Stays
  <1> DEFINE f == Top(vm.stack)
             con == "MutVar"
             p == CallArg(1)
             o == vm.mem[p[2]]
  <1>1. Running /\ pc = "call" /\ f.code = "mutVarRead" /\ UNCHANGED <<prog, runs, jump, status>>
        /\ CellIs(con) /\ IoResult(vm, Content, Len(vm.stack)) /\ con \in Cells
    BY DEF CallMutVarRead, Calls, Cells
  <1>2. f = Top(vm.stack) /\ p = CallArg(1) /\ o = vm.mem[p[2]]
    OBVIOUS
  <1>3. 1 \in 1 .. Arity[f.code]
    BY <1>1 DEF Arity
  <1> HIDE DEF f, p, o
  <1>4. Value(vm.space, vm.mem, Content)
    <2>1. Holds(con, Content)
      BY <1>1, <1>2, <1>3, CellFacts
    <2> QED BY <2>1 DEF Holds
  <1>5. /\ prog \in Program /\ MachineOK(prog, vm) /\ RootsAreValues(vm) /\ gcs \in Nat
        /\ RunsOK(vm.stack, runs', jump', Len(vm.roots)) /\ vm.stack # <<>> /\ f.kind = "PRIM"
    BY <1>1, <1>2, AtCall
  <1>6. MachineInv' /\ (gcs' = gcs => Extends(vm.mem, vm'.mem))
    BY <1>1, <1>2, <1>4, <1>5, IoResultKeeps
  <1> QED BY <1>6 DEF Extends, Stays

\* A write to a cell.
LEMMA CellWritten ==
  ASSUME MachineInv, Running, pc = "call", NEW f, f = Top(vm.stack), 1 \in 1 .. Arity[f.code],
         2 \in 1 .. Arity[f.code], UNCHANGED <<prog, runs, jump, gcs>>,
         NEW con \in Cells, CellIs(con), Return(SetContent(CallArg(2)), Unit)
  PROVE  MachineInv' /\ Stays
  <1> DEFINE x == CallArg(2)
             v == SetContent(x)
             a == Len(vm.stack)
  <1>1. From(vm) /\ vm.stack # <<>> /\ f.kind = "PRIM" /\ Value(vm.space, vm.mem, x)
    BY AtCall
  <1>2. Holds(con, x)
    BY <1>1 DEF Holds, Maybe
  <1>3. ReturnAt(v, a, Unit)
    BY DEF Return
  <1> HIDE DEF x
  <1>4. /\ Grown(vm, v) /\ v.stack = vm.stack
        /\ \A k \in DOMAIN vm.mem : Changes(k) \/ v.mem[k] = vm.mem[k]
    BY <1>1, <1>2, CellStored
  <1>5. Value(vm.space, v.mem, Unit)
    <2>1. StaticValue(Unit)
      BY ConArityAssumption DEF Unit, ConObject, StaticValue
    <2> QED BY <2>1 DEF Value
  <1> HIDE DEF v
  <1>6. MachineInv' /\ vm'.mem = v.mem
    BY <1>1, <1>3, <1>4, <1>5, ReturnKeeps
  <1> QED BY <1>4, <1>6 DEF Stays

LEMMA CallMutVarWriteKeeps ==
  ASSUME MachineInv, CallMutVarWrite
  PROVE  MachineInv' /\ Stays
  <1> DEFINE f == Top(vm.stack)
             con == "MutVar"
  <1>1. Running /\ pc = "call" /\ f.code = "mutVarWrite" /\ UNCHANGED <<prog, runs, jump, gcs>>
        /\ CellIs(con) /\ Return(SetContent(CallArg(2)), Unit) /\ con \in Cells /\ f = Top(vm.stack)
    BY DEF CallMutVarWrite, Calls, Cells
  <1>2. 1 \in 1 .. Arity[f.code] /\ 2 \in 1 .. Arity[f.code]
    BY <1>1 DEF Arity
  <1> HIDE DEF f, con
  <1> QED BY <1>1, <1>2, CellWritten

LEMMA CallMvarPutKeeps ==
  ASSUME MachineInv, CallMvarPut
  PROVE  MachineInv' /\ Stays
  <1> DEFINE f == Top(vm.stack)
             con == "MVar"
  <1>1. Running /\ pc = "call" /\ f.code = "mvarPut" /\ UNCHANGED <<prog, runs, jump, gcs>>
        /\ CellIs(con) /\ Return(SetContent(CallArg(2)), Unit) /\ con \in Cells /\ f = Top(vm.stack)
    BY DEF CallMvarPut, Calls, Cells
  <1>2. 1 \in 1 .. Arity[f.code] /\ 2 \in 1 .. Arity[f.code]
    BY <1>1 DEF Arity
  <1> HIDE DEF f, con
  <1> QED BY <1>1, <1>2, CellWritten

LEMMA CallMvarTakeKeeps ==
  ASSUME MachineInv, CallMvarTake
  PROVE  MachineInv' /\ Stays
  <1> DEFINE f == Top(vm.stack)
             con == "MVar"
             p == CallArg(1)
             o == vm.mem[p[2]]
             v == SetContent(Null)
             x == Content
             a == Len(vm.stack)
  <1>1. Running /\ pc = "call" /\ f.code = "mvarTake" /\ UNCHANGED <<prog, runs, jump, status>>
        /\ CellIs(con) /\ x # Null /\ IoResult(v, x, a) /\ con \in Cells
    BY DEF CallMvarTake, Calls, Cells
  <1>2. f = Top(vm.stack) /\ p = CallArg(1) /\ o = vm.mem[p[2]]
    OBVIOUS
  <1>3. 1 \in 1 .. Arity[f.code]
    BY <1>1 DEF Arity
  <1> HIDE DEF f, p, o
  <1>4. Value(vm.space, vm.mem, x)
    <2>1. Holds(con, Content)
      BY <1>1, <1>2, <1>3, CellFacts
    <2> QED BY <1>1, <2>1 DEF Holds, Maybe
  <1>5. /\ prog \in Program /\ MachineOK(prog, vm) /\ RootsAreValues(vm) /\ gcs \in Nat
        /\ RunsOK(vm.stack, runs', jump', Len(vm.roots)) /\ vm.stack # <<>> /\ f.kind = "PRIM"
    BY <1>1, <1>2, AtCall
  <1>6. gcs' \in Nat
    <2>1. \E w : gcs' = IF w.space = vm.space THEN gcs ELSE gcs + 1
      BY <1>1 DEF IoResult, Uses
    <2> QED BY <1>5, <2>1
  <1>7. From(vm)
    BY <1>1, <1>5, <1>6 DEF From
  <1>8. Holds(con, Null)
    BY DEF Holds, Maybe
  <1>9. /\ Grown(vm, v) /\ v.stack = vm.stack /\ v.space = vm.space
        /\ MachineOK(prog, v) /\ RootsAreValues(v) /\ RunsOK(v.stack, runs', jump', Len(v.roots))
        /\ Later(vm.mem, v.mem)
        /\ \A k \in DOMAIN vm.mem : Changes(k) \/ v.mem[k] = vm.mem[k]
    BY <1>1, <1>2, <1>3, <1>7, <1>8, CellStored
  <1> HIDE DEF v, x
  <1>10. Value(v.space, v.mem, x)
    BY <1>4, <1>9, ValueLater
  <1>11. Top(v.stack).kind = "PRIM" /\ v.stack # <<>> /\ a = Len(v.stack)
    BY <1>2, <1>5, <1>9
  <1>12. MachineInv' /\ (gcs' = gcs => Extends(v.mem, vm'.mem))
    BY <1>1, <1>5, <1>9, <1>10, <1>11, IoResultKeeps
  <1>13. DOMAIN vm.mem \subseteq DOMAIN v.mem
    BY <1>9 DEF Later
  <1> QED BY <1>9, <1>12, <1>13 DEF Extends, Stays

LEMMA BlockedKeeps ==
  ASSUME MachineInv, Blocked
  PROVE  MachineInv' /\ Stays
  BY EndStep DEF Blocked, End, control

LEMMA NotACellKeeps ==
  ASSUME MachineInv, NotACell
  PROVE  MachineInv' /\ Stays
  BY EndStep DEF NotACell, End, control

\* A new cell in the heap m.
LEMMA NewCellMade ==
  ASSUME NEW pg \in Program, NEW sp, NEW m, HeapOK(pg, sp, m, {}), NEW con \in Cells, NEW x,
         IF con = "MutVar" THEN Value(sp, m, x) ELSE Maybe(sp, m, x)
  PROVE  LET n == Append(m, Thing("CON", con, <<x>>))
             p == <<sp, Len(m) + 1>>
         IN  /\ HeapOK(pg, sp, n, {}) /\ Extends(m, n) /\ BlackHoles(n) = BlackHoles(m) /\ Value(sp, n, p)
  <1> DEFINE s == <<x>>
             o == Thing("CON", con, s)
  <1>1. IsList(s) /\ Len(s) = 1 /\ s[1] = x
    BY OneList
  <1> HIDE DEF s
  <1>2. o.kind = "CON" /\ o.code = con /\ o.ptr = s /\ o = Thing(o.kind, o.code, o.ptr)
    BY DEF Thing
  <1> HIDE DEF o
  <1>3. con = "MutVar" => Values(sp, m, o.ptr, 1)
    <2>1. con = "MutVar" => Value(sp, m, x)
      OBVIOUS
    <2>2. \A i \in 1 .. Len(o.ptr) : o.ptr[i] = x
      <3>1. \A i \in 1 .. 1 : i = 1
        OBVIOUS
      <3> QED BY <1>1, <1>2, <3>1
    <2> QED BY <2>1, <2>2 DEF Values
  <1>4. con = "MVar" => Maybe(sp, m, o.ptr[1])
    BY <1>1, <1>2
  <1>5. Good(pg, sp, m, o)
    BY <1>1, <1>2, <1>3, <1>4 DEF Good, Cells
  <1> QED BY <1>2, <1>5, HeapAppended DEF o, s

\* A mutable cell is made.
LEMMA NewCellKeeps ==
  ASSUME MachineInv, Running, pc = "call", UNCHANGED <<prog, runs, jump, status>>, NEW con \in Cells, NEW x,
         Holds(con, x), NewCell(con, x)
  PROVE  MachineInv' /\ Stays
  <1> DEFINE f == Top(vm.stack)
             mem(w) == Append(w.mem, Thing("CON", con, <<Top(w.roots)>>))
             made(w) == [w EXCEPT !.mem = mem(w), !.roots = Pop(@, 1)]
             result(u) == Append(u.mem, Thing("CON", "IoRes", <<Unit, Top(u.roots)>>))
             a == Len(vm.stack)
  <1>1. PICK w \in Reserved(CellRoom, Rooted(vm, x)) :
          \E u \in Reserved(4, Rooted(made(w), NewPtr(w, w.mem))) :
             /\ gcs' = gcs + (IF w.space = vm.space THEN 0 ELSE 1) + (IF u.space = w.space THEN 0 ELSE 1)
             /\ ReturnAt([u EXCEPT !.mem = result(u), !.roots = Pop(@, 1)], a, NewPtr(u, u.mem))
    BY DEF NewCell, Rooted, Return
  <1> DEFINE v == made(w)
             q == NewPtr(w, w.mem)
             t == Top(w.roots)
             z == Unrooted(w)
             m == mem(w)
  <1>2. PICK u \in Reserved(4, Rooted(v, q)) :
             /\ gcs' = gcs + (IF w.space = vm.space THEN 0 ELSE 1) + (IF u.space = w.space THEN 0 ELSE 1)
             /\ ReturnAt([u EXCEPT !.mem = result(u), !.roots = Pop(@, 1)], a, NewPtr(u, u.mem))
    BY <1>1
  <1>3. /\ prog \in Program /\ MachineOK(prog, vm) /\ RootsAreValues(vm) /\ gcs \in Nat
        /\ RunsOK(vm.stack, runs, jump, Len(vm.roots)) /\ IsList(vm.stack) /\ vm.space \in Spaces
        /\ vm.stack # <<>> /\ f.kind = "PRIM"
    <2>1. f = Top(vm.stack)
      OBVIOUS
    <2> HIDE DEF f
    <2> QED BY <2>1, AtCall
  <1>4. Maybe(vm.space, vm.mem, x) /\ (con = "MutVar" => x # Null)
    BY <1>3, NullIsNoValue DEF Holds, Maybe
  <1>5. /\ MachineOK(prog, w) /\ w.roots # <<>> /\ MachineOK(prog, z) /\ Kept(prog, vm, z)
        /\ RootsAreValues(z) /\ Maybe(w.space, w.mem, t)
        /\ (w.space = vm.space => w.mem = vm.mem)
        /\ (con = "MutVar" => Value(w.space, w.mem, t))
    BY <1>1, <1>3, <1>4, RootedReservation
  <1>6. /\ Recorded(w) /\ HeapOK(prog, w.space, w.mem, {}) /\ IsList(z.stack) /\ Recorded(z)
        /\ z.space = w.space /\ z.mem = w.mem /\ z.globals = w.globals /\ z.stack = w.stack
        /\ z.env = w.env /\ z.val = w.val /\ z.exc = w.exc /\ z.roots = Pop(w.roots, 1)
    BY <1>3, <1>5, MachineParts, MachineRecorded, MachineUnrooted
  <1>7. v = [z EXCEPT !.mem = m]
    <2> HIDE DEF m
    <2>1. v = [w EXCEPT !.mem = m, !.roots = Pop(w.roots, 1)]
      BY DEF m
    <2>2. z = [w EXCEPT !.roots = Pop(w.roots, 1)]
      BY DEF Unrooted
    <2> QED BY <1>6, <2>1, <2>2 DEF Recorded, Fields
  <1>8. gcs' \in Nat /\ (gcs' = gcs => w.space = vm.space /\ u.space = w.space)
    BY <1>2, <1>3
  <1> HIDE DEF z
  <1>9. From(z) /\ Len(z.stack) = a /\ \A i \in DOMAIN vm.stack : z.stack[i].kind = vm.stack[i].kind
    <2>1. RunsOK(z.stack, runs', jump', Len(vm.roots))
      BY <1>3, <1>5, <1>6, KeptRuns
    <2>2. /\ Len(z.roots) = Len(vm.roots) /\ Len(z.stack) = Len(vm.stack)
          /\ \A i \in DOMAIN vm.stack : z.stack[i].kind = vm.stack[i].kind
      BY <1>5 DEF Kept
    <2> QED BY <1>3, <1>5, <1>8, <2>1, <2>2 DEF From
  <1>10. z.stack # <<>> /\ Top(z.stack).kind = "PRIM"
    <2>1. a \in DOMAIN vm.stack /\ a # 0 /\ Top(vm.stack) = vm.stack[a]
      BY <1>3, TopFrame
    <2> QED BY <1>3, <1>9, <2>1, EmptyList DEF Top
  <1>11. HeapOK(prog, w.space, m, {}) /\ Extends(w.mem, m) /\ BlackHoles(m) = BlackHoles(w.mem)
         /\ Value(w.space, m, q)
    <2> DEFINE sp == w.space
               e == w.mem
    <2>1. HeapOK(prog, sp, e, {}) /\ (IF con = "MutVar" THEN Value(sp, e, t) ELSE Maybe(sp, e, t))
      BY <1>5, <1>6
    <2>2. m = Append(e, Thing("CON", con, <<t>>)) /\ q = <<sp, Len(e) + 1>>
      BY DEF NewPtr
    <2> HIDE DEF sp, e, t, m, q
    <2>3. LET n == Append(e, Thing("CON", con, <<t>>))
              p == <<sp, Len(e) + 1>>
          IN  /\ HeapOK(prog, sp, n, {}) /\ Extends(e, n) /\ BlackHoles(n) = BlackHoles(e) /\ Value(sp, n, p)
      BY <1>3, <2>1, NewCellMade
    <2> QED BY <2>2, <2>3 DEF sp, e
  <1> HIDE DEF m, q, v
  <1>12. v.mem = m /\ v.stack = z.stack /\ v.space = z.space /\ From(v)
    <2>1. HeapOK(prog, z.space, m, {}) /\ Later(z.mem, m) /\ BlackHoles(m) = BlackHoles(z.mem)
      BY <1>6, <1>11, ExtendsLater
    <2> QED BY <1>7, <1>9, <2>1, MoreHeap
  <1>13. MachineInv' /\ (u.space = v.space => Extends(v.mem, vm'.mem))
    <2>1. Value(v.space, v.mem, q) /\ v.stack # <<>> /\ Top(v.stack).kind = "PRIM" /\ a = Len(v.stack)
      BY <1>6, <1>9, <1>10, <1>11, <1>12
    <2>2. u \in Reserved(4, Rooted(v, q))
      BY <1>2
    <2>3. ReturnAt([u EXCEPT !.mem = Append(u.mem, Thing("CON", "IoRes", <<Unit, Top(u.roots)>>)),
                             !.roots = Pop(@, 1)], a, NewPtr(u, u.mem))
      BY <1>2
    <2> QED BY <1>12, <2>1, <2>2, <2>3, IoReturned
  <1>14. gcs' = gcs => Extends(vm.mem, vm'.mem)
    <2>1. gcs' = gcs => Extends(vm.mem, v.mem) /\ Extends(v.mem, vm'.mem)
      BY <1>5, <1>6, <1>8, <1>11, <1>12, <1>13
    <2> QED BY <2>1, ExtendsTransitive
  <1> QED BY <1>13, <1>14 DEF Extends, Stays

LEMMA CallMutVarNewKeeps ==
  ASSUME MachineInv, CallMutVarNew
  PROVE  MachineInv' /\ Stays
  <1> DEFINE f == Top(vm.stack)
             con == "MutVar"
             x == CallArg(1)
  <1>1. Running /\ pc = "call" /\ f.code = "mutVarNew" /\ UNCHANGED <<prog, runs, jump, status>>
        /\ NewCell(con, x) /\ con \in Cells /\ f = Top(vm.stack) /\ x = CallArg(1) /\ con = "MutVar"
    BY DEF CallMutVarNew, Calls, Cells
  <1>2. 1 \in 1 .. Arity[f.code]
    BY <1>1 DEF Arity
  <1> HIDE DEF f, con, x
  <1>3. Holds(con, x)
    BY <1>1, <1>2, AtCall DEF Holds
  <1> QED BY <1>1, <1>3, NewCellKeeps

LEMMA CallMvarNewKeeps ==
  ASSUME MachineInv, CallMvarNew
  PROVE  MachineInv' /\ Stays
  <1> DEFINE con == "MVar"
  <1>1. Running /\ pc = "call" /\ UNCHANGED <<prog, runs, jump, status>>
        /\ NewCell(con, Null) /\ con \in Cells /\ Holds(con, Null)
    BY DEF CallMvarNew, Calls, Cells, Holds, Maybe
  <1> HIDE DEF con
  <1> QED BY <1>1, NewCellKeeps

-----------------------------------------------------------------------------
(* Runs.                                                                   *)

\* The runs that wait while the stack is s, none of which is about to start.
Suspended(s, rs) ==
    /\ IsList(rs)
    /\ \A i \in DOMAIN rs : RunOK(s, rs, i)
    /\ Stops(s) = {rs[i].base + 1 : i \in DOMAIN rs}
    /\ \A i, k \in DOMAIN rs : i < k => rs[i].base < rs[k].base /\ rs[i].roots <= rs[k].roots

\* What the caller of a new run is, when n locals are registered.
Launch(s, rs, n, caller, at) ==
    \/ Len(rs) = 0 /\ caller \in {"main", "report"}
    \/ Len(rs) = 0 /\ caller = "token" /\ n >= 1
    \/ Len(rs) = 0 /\ caller \in {"cell", "head"} /\ at = 0 /\ n >= 1
    \/ /\ Len(rs) > 0 /\ caller \in {"cell", "head"} /\ n = rs[Len(rs)].roots + 1
       /\ at = Len(s) /\ at >= 1 /\ s[at].kind = "PRIM"

\* While a run lasts, its caller waits.
LEMMA RunsSuspended ==
  ASSUME NEW s, NEW rs, NEW j, NEW n, RunsOK(s, rs, j, n)
  PROVE  Suspended(s, rs) /\ Len(rs) \in Nat /\ Len(rs) > 0 /\ Len(rs) \in DOMAIN rs /\ DOMAIN rs = 1 .. Len(rs)
         /\ j = Len(rs) /\ n = rs[Len(rs)].roots
  <1>1. IsList(rs) /\ Len(rs) > 0
    BY DEF RunsOK
  <1>2. Len(rs) \in Nat /\ DOMAIN rs = 1 .. Len(rs)
    BY <1>1, ListFacts
  <1>3. Len(rs) \in DOMAIN rs
    BY <1>1, <1>2
  <1> QED BY <1>1, <1>2, <1>3 DEF RunsOK, Suspended

\* What a run needs of the stack lies below its stop frame.
LEMMA RunBelow ==
  ASSUME NEW s, NEW rs, NEW i, RunOK(s, rs, i), NEW u, NEW os, os[i] = rs[i], i > 1 => os[i - 1] = rs[i - 1],
         \A k \in DOMAIN s : k <= rs[i].base => k \in DOMAIN u /\ u[k].kind = s[k].kind
  PROVE  RunOK(u, os, i)
  <1>1. rs[i].at = rs[i].base /\ rs[i].base \in Nat => rs[i].at <= rs[i].base
    OBVIOUS
  <1> QED BY <1>1 DEF RunOK

\* The run of the top stop frame is the last one.
LEMMA RunOuter ==
  ASSUME NEW s, IsList(s), s # <<>>, Top(s).kind = "STOP", NEW rs, NEW j, NEW n, RunsOK(s, rs, j, n)
  PROVE  LET u == Pop(s, 1)
             o == Pop(rs, 1)
             r == rs[Len(rs)]
         IN  /\ Suspended(u, o) /\ Len(o) \in Nat /\ Len(o) = Len(rs) - 1 /\ IsList(o)
             /\ \A i \in 1 .. Len(o) : o[i] = rs[i]
             /\ IsList(u) /\ Len(u) \in Nat /\ Len(u) = r.base
             /\ r.prev = Len(o) /\ r.roots = n /\ n \in Nat
             /\ (Len(o) > 0 => o[Len(o)].roots <= n /\ o[Len(o)].roots \in Nat)
             /\ Launch(u, o, n, r.caller, r.at)
  <1> DEFINE u == Pop(s, 1)
             o == Pop(rs, 1)
             l == Len(s)
             h == Len(rs)
             r == rs[h]
  <1>1. Suspended(s, rs) /\ h \in Nat /\ h > 0 /\ h \in DOMAIN rs /\ DOMAIN rs = 1 .. h /\ n = r.roots /\ IsList(rs)
    BY RunsSuspended DEF Suspended
  <1>2. l \in Nat /\ l >= 1 /\ l \in DOMAIN s /\ s[l].kind = "STOP" /\ l - 1 \in 0 .. l /\ DOMAIN s = 1 .. l
    BY TopFrame
  <1>3. u = SubSeq(s, 1, l - 1) /\ o = SubSeq(rs, 1, h - 1) /\ h - 1 \in 0 .. h
    BY <1>1 DEF Pop
  <1> HIDE DEF u, o
  <1>4. /\ IsList(u) /\ Len(u) = l - 1 /\ DOMAIN u = 1 .. l - 1 /\ \A i \in 1 .. l - 1 : u[i] = s[i]
    BY <1>2, <1>3, ListPrefix
  <1>5. /\ IsList(o) /\ Len(o) = h - 1 /\ DOMAIN o = 1 .. h - 1 /\ \A i \in 1 .. h - 1 : o[i] = rs[i]
    BY <1>1, <1>3, ListPrefix
  <1>6. /\ \A i \in DOMAIN rs : RunOK(s, rs, i)
        /\ Stops(s) = {rs[i].base + 1 : i \in DOMAIN rs}
        /\ \A i, k \in DOMAIN rs : i < k => rs[i].base < rs[k].base /\ rs[i].roots <= rs[k].roots
    BY <1>1 DEF Suspended
  <1>7. \A i \in DOMAIN rs : rs[i].base \in Nat /\ rs[i].roots \in Nat /\ rs[i].prev = i - 1
    BY <1>6 DEF RunOK
  <1> HIDE DEF l, h
  <1>8. r.base + 1 \in 1 .. l
    <2>1. r.base + 1 \in Stops(s)
      BY <1>1, <1>6
    <2> QED BY <1>2, <2>1 DEF Stops
  <1>9. PICK i \in DOMAIN rs : l = rs[i].base + 1
    <2>1. l \in Stops(s)
      BY <1>2 DEF Stops
    <2> QED BY <1>6, <2>1
  <1>10. r.base = l - 1
    <2>1. CASE i = h
      BY <1>1, <1>2, <1>7, <1>9, <2>1
    <2>2. CASE i # h
      <3>1. i < h
        BY <1>1, <2>2
      <3>2. rs[i].base < rs[h].base /\ rs[i].base \in Nat /\ rs[h].base \in Nat
        BY <1>1, <1>6, <1>7, <3>1
      <3> QED BY <1>2, <1>8, <1>9, <3>2
    <2> QED BY <2>1, <2>2
  <1>11. \A k \in 1 .. h - 1 : k \in DOMAIN rs /\ k < h /\ (k > 1 => k - 1 \in 1 .. h - 1) /\ rs[k].base < l - 1
    <2>1. \A k \in 1 .. h - 1 : k \in DOMAIN rs /\ k < h /\ (k > 1 => k - 1 \in 1 .. h - 1)
      BY <1>1
    <2> QED BY <1>1, <1>6, <1>10, <2>1
  <1>12. ASSUME NEW k \in 1 .. h - 1 PROVE RunOK(u, o, k)
    <2>1. RunOK(s, rs, k) /\ o[k] = rs[k] /\ (k > 1 => o[k - 1] = rs[k - 1])
      BY <1>5, <1>6, <1>11
    <2>2. \A x \in DOMAIN s : x <= rs[k].base => x \in 1 .. l - 1
      <3>1. rs[k].base < l - 1 /\ rs[k].base \in Nat
        BY <1>7, <1>11
      <3> QED BY <1>2, <3>1
    <2>3. \A x \in DOMAIN s : x <= rs[k].base => x \in DOMAIN u /\ u[x].kind = s[x].kind
      BY <1>4, <2>2
    <2> QED BY <2>1, <2>3, RunBelow
  <1>13. Stops(u) = {o[k].base + 1 : k \in DOMAIN o}
    <2>1. ASSUME NEW x \in Stops(u) PROVE \E k \in DOMAIN o : x = o[k].base + 1
      <3>1. x \in 1 .. l - 1 /\ x \in DOMAIN s /\ s[x].kind = "STOP"
        BY <1>2, <1>4 DEF Stops
      <3>2. PICK k \in DOMAIN rs : x = rs[k].base + 1
        BY <1>6, <3>1 DEF Stops
      <3>3. k # h
        BY <1>2, <1>10, <3>1, <3>2
      <3>4. k \in 1 .. h - 1
        BY <1>1, <3>3
      <3> QED BY <1>5, <3>2, <3>4
    <2>2. ASSUME NEW k \in DOMAIN o PROVE o[k].base + 1 \in Stops(u)
      <3>1. o[k] = rs[k] /\ k \in DOMAIN rs /\ rs[k].base < l - 1 /\ rs[k].base \in Nat
        BY <1>5, <1>7, <1>11
      <3>2. rs[k].base + 1 \in Stops(s)
        BY <1>6, <3>1
      <3>3. rs[k].base + 1 \in 1 .. l - 1
        BY <1>2, <3>1
      <3> QED BY <1>4, <3>1, <3>2, <3>3 DEF Stops
    <2> QED BY <2>1, <2>2
  <1>14. Suspended(u, o)
    <2>1. \A i1, k1 \in DOMAIN o : i1 < k1 => o[i1].base < o[k1].base /\ o[i1].roots <= o[k1].roots
      BY <1>5, <1>6, <1>11
    <2> QED BY <1>5, <1>12, <1>13, <2>1 DEF Suspended
  <1>15. h > 1 => /\ h - 1 \in 1 .. h - 1 /\ o[h - 1] = rs[h - 1] /\ rs[h - 1].roots <= n /\ rs[h - 1].roots \in Nat
    <2>1. h > 1 => h - 1 \in 1 .. h - 1 /\ h - 1 < h /\ h - 1 \in DOMAIN rs
      BY <1>1
    <2> QED BY <1>1, <1>5, <1>6, <1>7, <2>1
  <1>16. Launch(u, o, n, r.caller, r.at)
    <2>1. RunOK(s, rs, h)
      BY <1>1, <1>6
    <2>2. CASE h = 1
      <3>1. Len(o) = 0
        BY <1>5, <2>2
      <3> QED BY <1>1, <2>1, <2>2, <3>1 DEF RunOK, Launch
    <2>3. CASE h # 1
      <3>1. h > 1 /\ Len(o) = h - 1 /\ Len(o) > 0
        BY <1>1, <1>5, <2>3
      <3>2. /\ r.caller \in {"cell", "head"} /\ r.roots = rs[h - 1].roots + 1
            /\ r.at = r.base /\ r.at \in DOMAIN s /\ s[r.at].kind = "PRIM"
        BY <2>1, <2>3 DEF RunOK
      <3>3. r.at = Len(u) /\ r.at \in 1 .. l - 1 /\ r.at >= 1
        BY <1>2, <1>4, <1>10, <3>2
      <3>4. u[r.at].kind = "PRIM"
        BY <1>4, <3>2, <3>3
      <3>5. n = o[Len(o)].roots + 1
        BY <1>1, <1>15, <3>1, <3>2
      <3> QED BY <3>1, <3>2, <3>3, <3>4, <3>5 DEF Launch
    <2> QED BY <2>2, <2>3
  <1>17. Len(o) \in Nat /\ Len(u) \in Nat /\ r.prev = Len(o) /\ n \in Nat
    BY <1>1, <1>2, <1>4, <1>5, <1>7
  <1> HIDE DEF r
  <1>18. Len(o) > 0 => o[Len(o)].roots <= n /\ o[Len(o)].roots \in Nat
    <2>1. Len(o) > 0 => h > 1
      BY <1>1, <1>5
    <2> QED BY <1>5, <1>15, <2>1
  <1>19. \A i1 \in 1 .. Len(o) : o[i1] = rs[i1]
    BY <1>5
  <1>20. /\ Suspended(u, o) /\ Len(o) \in Nat /\ Len(o) = h - 1 /\ IsList(o)
         /\ IsList(u) /\ Len(u) \in Nat /\ Len(u) = r.base
         /\ r.prev = Len(o) /\ r.roots = n /\ n \in Nat /\ Launch(u, o, n, r.caller, r.at)
    BY <1>1, <1>4, <1>5, <1>10, <1>14, <1>16, <1>17
  <1> USE DEF r
  <1> HIDE DEF l
  <1> QED BY <1>18, <1>19, <1>20 DEF u, o, h

\* A run starts.
LEMMA RunStarts ==
  ASSUME NEW s, IsList(s), NEW rs, Suspended(s, rs), NEW n \in Nat,
         Len(rs) > 0 => rs[Len(rs)].roots <= n, NEW r, Launch(s, rs, n, r.caller, r.at),
         r.prev = Len(rs), r.base = Len(s), r.roots = n
  PROVE  RunsOK(Append(s, Stop), Append(rs, r), Len(rs) + 1, n)
  <1> DEFINE u == Append(s, Stop)
             o == Append(rs, r)
             l == Len(s)
             h == Len(rs)
  <1>1. /\ IsList(rs)
        /\ \A i \in DOMAIN rs : RunOK(s, rs, i)
        /\ Stops(s) = {rs[i].base + 1 : i \in DOMAIN rs}
        /\ \A i, k \in DOMAIN rs : i < k => rs[i].base < rs[k].base /\ rs[i].roots <= rs[k].roots
    BY DEF Suspended
  <1>2. l \in Nat /\ DOMAIN s = 1 .. l /\ h \in Nat /\ DOMAIN rs = 1 .. h
    BY <1>1, ListFacts
  <1>3. /\ IsList(u) /\ Len(u) = l + 1 /\ DOMAIN u = 1 .. l + 1 /\ u[l + 1] = Stop
        /\ \A i \in 1 .. l : u[i] = s[i]
    BY ListAppend
  <1>4. /\ IsList(o) /\ Len(o) = h + 1 /\ DOMAIN o = 1 .. h + 1 /\ o[h + 1] = r
        /\ \A i \in 1 .. h : o[i] = rs[i]
    BY <1>1, ListAppend
  <1> HIDE DEF u, o
  <1>5. Stop.kind = "STOP"
    BY DEF Stop, Frame
  <1>6. \A i \in 1 .. h : rs[i].base \in Nat /\ rs[i].roots \in Nat /\ rs[i].base + 1 \in 1 .. l /\ rs[i].base < l
    <2>1. \A i \in 1 .. h : rs[i].base \in Nat /\ rs[i].roots \in Nat
      BY <1>1, <1>2 DEF RunOK
    <2>2. \A i \in 1 .. h : rs[i].base + 1 \in 1 .. l
      BY <1>1, <1>2 DEF Stops
    <2> QED BY <1>2, <2>1, <2>2
  <1>7. \A i \in 1 .. h : rs[i].roots <= n
    <2>1. CASE h = 0
      BY <2>1
    <2>2. CASE h # 0
      <3>1. h > 0 /\ h \in 1 .. h /\ rs[h].roots <= n
        BY <1>2, <2>2
      <3> HIDE DEF h
      <3>2. \A i \in 1 .. h : i = h \/ i < h
        BY <1>2
      <3>3. \A i \in 1 .. h : rs[i].roots <= rs[h].roots /\ rs[i].roots \in Nat /\ rs[h].roots \in Nat
        <4>1. \A i \in 1 .. h : i < h => rs[i].roots <= rs[h].roots
          BY <1>1, <1>2, <3>1
        <4>2. \A i \in 1 .. h : rs[i].roots \in Nat
          BY <1>6
        <4> QED BY <3>1, <3>2, <4>1, <4>2
      <3> QED BY <3>1, <3>3
    <2> QED BY <2>1, <2>2
  <1> HIDE DEF l, h
  <1>8. \A i \in 1 .. h + 1 : i \in 1 .. h \/ i = h + 1
    BY <1>2
  <1>9. \A i \in 1 .. l + 1 : i \in 1 .. l \/ i = l + 1
    BY <1>2
  <1>10. ASSUME NEW i \in 1 .. h + 1 PROVE RunOK(u, o, i)
    <2>1. CASE i \in 1 .. h
      <3>1. i > 1 => i - 1 \in 1 .. h
        BY <1>2, <2>1
      <3>2. RunOK(s, rs, i) /\ o[i] = rs[i] /\ (i > 1 => o[i - 1] = rs[i - 1])
        BY <1>1, <1>2, <1>4, <2>1, <3>1
      <3>3. \A k \in DOMAIN s : k \in DOMAIN u /\ u[k].kind = s[k].kind
        BY <1>2, <1>3
      <3> QED BY <3>2, <3>3, RunBelow
    <2>2. CASE i = h + 1
      <3>1. o[i] = r /\ r.prev = i - 1 /\ r.base \in Nat /\ r.roots \in Nat
        BY <1>2, <1>4, <2>2 DEF h, l
      <3>2. CASE h = 0
        <4>1. i = 1
          BY <2>2, <3>2
        <4> QED BY <3>1, <3>2, <4>1 DEF RunOK, Launch, h
      <3>3. CASE h # 0
        <4>1. h > 0 /\ i > 1 /\ i - 1 = h /\ o[i - 1] = rs[h]
          BY <1>2, <1>4, <2>2, <3>3
        <4>2. /\ r.caller \in {"cell", "head"} /\ n = rs[h].roots + 1
              /\ r.at = l /\ r.at >= 1 /\ s[r.at].kind = "PRIM"
          BY <3>3 DEF Launch, h, l
        <4>3. r.at \in 1 .. l /\ r.at \in DOMAIN u /\ u[r.at] = s[r.at]
          BY <1>2, <1>3, <4>2
        <4>4. r.at = r.base
          BY <4>2 DEF l
        <4>5. r.roots = o[i - 1].roots + 1
          BY <4>1, <4>2
        <4> QED BY <3>1, <4>1, <4>2, <4>3, <4>4, <4>5 DEF RunOK
      <3> QED BY <3>2, <3>3
    <2> QED BY <1>8, <2>1, <2>2
  <1>11. Stops(u) = {o[k].base + 1 : k \in DOMAIN o}
    <2>0. r.base = l
      BY DEF l
    <2>1. ASSUME NEW x \in Stops(u) PROVE \E k \in DOMAIN o : x = o[k].base + 1
      <3>1. x \in 1 .. l + 1 /\ u[x].kind = "STOP"
        BY <1>3 DEF Stops
      <3>2. CASE x = l + 1
        <4>1. h + 1 \in DOMAIN o
          BY <1>2, <1>4
        <4> QED BY <1>4, <2>0, <3>2, <4>1
      <3>3. CASE x \in 1 .. l
        <4>1. x \in Stops(s)
          BY <1>2, <1>3, <3>1, <3>3 DEF Stops
        <4>2. PICK k \in 1 .. h : x = rs[k].base + 1
          BY <1>1, <1>2, <4>1
        <4>3. k \in DOMAIN o
          BY <1>2, <1>4
        <4> QED BY <1>4, <4>2, <4>3
      <3> QED BY <1>9, <3>1, <3>2, <3>3
    <2>2. ASSUME NEW k \in DOMAIN o PROVE o[k].base + 1 \in Stops(u)
      <3>1. CASE k = h + 1
        <4>1. l + 1 \in DOMAIN u
          BY <1>2, <1>3
        <4> QED BY <1>3, <1>4, <1>5, <2>0, <3>1, <4>1 DEF Stops
      <3>2. CASE k \in 1 .. h
        <4>1. o[k] = rs[k] /\ rs[k].base + 1 \in 1 .. l /\ rs[k].base + 1 \in Stops(s)
          BY <1>1, <1>2, <1>4, <1>6, <3>2
        <4>2. rs[k].base + 1 \in DOMAIN u
          BY <1>2, <1>3, <4>1
        <4> QED BY <1>3, <4>1, <4>2 DEF Stops
      <3> QED BY <1>4, <1>8, <3>1, <3>2
    <2> QED BY <2>1, <2>2
  <1>12. ASSUME NEW i \in DOMAIN o, NEW k \in DOMAIN o, i < k
         PROVE  o[i].base < o[k].base /\ o[i].roots <= o[k].roots
    <2>1. i \in 1 .. h
      BY <1>2, <1>4, <1>12
    <2>2. CASE k = h + 1
      BY <1>4, <1>6, <1>7, <2>1, <2>2 DEF l
    <2>3. CASE k \in 1 .. h
      BY <1>1, <1>2, <1>4, <1>12, <2>1, <2>3
    <2> QED BY <1>4, <1>8, <2>2, <2>3
  <1>13. Len(o) > 0 /\ h + 1 = Len(o) /\ n = o[Len(o)].roots
    BY <1>2, <1>4
  <1>14. RunsOK(u, o, h + 1, n)
    BY <1>4, <1>10, <1>11, <1>12, <1>13 DEF RunsOK
  <1> QED BY <1>14 DEF u, o, h

\* Frames come or go that are about no thunk.
LEMMA HolesSame ==
  ASSUME NEW sp, NEW m, NEW s, NEW u, HolesMatch(sp, m, s), Updates(u) = Updates(s),
         \A i \in Updates(s) : u[i] = s[i]
  PROVE  HolesMatch(sp, m, u)
  BY DEF HolesMatch

\* The stop frame comes and goes with the run.
LEMMA StopPopped ==
  ASSUME NEW pg \in Program, NEW v, MachineOK(pg, v), v.stack # <<>>, Top(v.stack).kind = "STOP"
  PROVE  LET u == [v EXCEPT !.stack = Pop(@, 1)]
         IN  /\ MachineOK(pg, u) /\ Recorded(u)
             /\ u.space = v.space /\ u.mem = v.mem /\ u.globals = v.globals /\ u.stack = Pop(v.stack, 1)
             /\ u.env = v.env /\ u.val = v.val /\ u.exc = v.exc /\ u.roots = v.roots
  <1> DEFINE u == [v EXCEPT !.stack = Pop(@, 1)]
             s == v.stack
             l == Len(s)
             t == Pop(s, 1)
  <1>1. /\ Shape(v) /\ Recorded(v) /\ IsList(s) /\ Registers(v, v.mem) /\ HeapOK(pg, v.space, v.mem, {})
        /\ Later(v.mem, v.mem) /\ HolesMatch(v.space, v.mem, s)
    BY MachineParts, MachineRecorded DEF MachineOK
  <1>2. /\ Recorded(u) /\ u.space = v.space /\ u.mem = v.mem /\ u.globals = v.globals /\ u.stack = t
        /\ u.env = v.env /\ u.val = v.val /\ u.exc = v.exc /\ u.roots = v.roots
    BY <1>1 DEF Recorded, Fields
  <1> HIDE DEF u
  <1>3. l \in Nat /\ l >= 1 /\ s[l].kind = "STOP" /\ l - 1 \in 0 .. l /\ DOMAIN s = 1 .. l
    BY <1>1, TopFrame
  <1>4. t = SubSeq(s, 1, l - 1)
    BY DEF Pop
  <1> HIDE DEF t
  <1>5. IsList(t) /\ Len(t) = l - 1 /\ DOMAIN t = 1 .. l - 1 /\ \A i \in 1 .. l - 1 : t[i] = s[i]
    BY <1>1, <1>3, <1>4, ListPrefix
  <1> HIDE DEF l, s
  <1>6. Updates(t) = Updates(s) /\ \A i \in Updates(s) : t[i] = s[i]
    <2>1. \A i \in 1 .. l : i \in 1 .. l - 1 \/ i = l
      BY <1>3
    <2>2. 1 .. l - 1 \subseteq 1 .. l
      BY <1>3
    <2> QED BY <1>3, <1>5, <2>1, <2>2 DEF Updates
  <1>7. HolesMatch(v.space, v.mem, t)
    BY <1>1, <1>6, HolesSame
  <1>8. Edits(s, t, l - 1) /\ l - 1 + 1 .. Len(t) = {}
    <2>1. l - 1 + 1 .. l - 1 = {} /\ l - 1 <= l - 1
      BY <1>3
    <2>2. l - 1 \in 0 .. Len(s) /\ l - 1 <= Len(t)
      BY <1>3, <1>5, <2>1 DEF l
    <2> QED BY <1>5, <2>1, <2>2 DEF Edits
  <1>9. IsMachine(v, u)
    BY <1>2, RecordedMachine
  <1>10. Registers(u, u.mem)
    BY <1>1, <1>2 DEF Registers
  <1>11. MachineOK(pg, u)
    BY <1>1, <1>2, <1>7, <1>8, <1>9, <1>10, NextMachine DEF s
  <1> QED BY <1>2, <1>11 DEF u, t, s

LEMMA StopPushed ==
  ASSUME NEW pg \in Program, NEW v, MachineOK(pg, v)
  PROVE  LET u == [v EXCEPT !.stack = Append(@, Stop)]
         IN  /\ MachineOK(pg, u) /\ Recorded(u)
             /\ u.space = v.space /\ u.mem = v.mem /\ u.globals = v.globals /\ u.stack = Append(v.stack, Stop)
             /\ u.env = v.env /\ u.val = v.val /\ u.exc = v.exc /\ u.roots = v.roots
  <1> DEFINE u == [v EXCEPT !.stack = Append(@, Stop)]
             s == v.stack
             l == Len(s)
             t == Append(s, Stop)
  <1>1. /\ Shape(v) /\ Recorded(v) /\ IsList(s) /\ Registers(v, v.mem) /\ HeapOK(pg, v.space, v.mem, {})
        /\ Later(v.mem, v.mem) /\ HolesMatch(v.space, v.mem, s)
    BY MachineParts, MachineRecorded DEF MachineOK
  <1>2. /\ Recorded(u) /\ u.space = v.space /\ u.mem = v.mem /\ u.globals = v.globals /\ u.stack = t
        /\ u.env = v.env /\ u.val = v.val /\ u.exc = v.exc /\ u.roots = v.roots
    <2> HIDE DEF t
    <2>1. u = [v EXCEPT !.stack = t]
      BY DEF t
    <2> HIDE DEF u
    <2> QED BY <1>1, <2>1 DEF Recorded, Fields
  <1> HIDE DEF u
  <1>3. l \in Nat /\ DOMAIN s = 1 .. l
    BY <1>1, ListFacts
  <1>5. IsList(t) /\ Len(t) = l + 1 /\ DOMAIN t = 1 .. l + 1 /\ t[l + 1] = Stop /\ \A i \in 1 .. l : t[i] = s[i]
    BY <1>1, ListAppend
  <1> HIDE DEF l, s, t
  <1>s. Stop.kind = "STOP" /\ FrameOK(pg, v.space, v.mem, Stop)
    BY DEF Stop, Frame, FrameOK
  <1>6. Updates(t) = Updates(s) /\ \A i \in Updates(s) : t[i] = s[i]
    <2>1. \A i \in 1 .. l + 1 : i \in 1 .. l \/ i = l + 1
      BY <1>3
    <2>2. 1 .. l \subseteq 1 .. l + 1
      BY <1>3
    <2> QED BY <1>3, <1>5, <1>s, <2>1, <2>2 DEF Updates
  <1>7. HolesMatch(v.space, v.mem, t)
    BY <1>1, <1>6, HolesSame
  <1>8. Edits(s, t, l) /\ \A i \in l + 1 .. Len(t) : t[i] = Stop
    <2>1. l \in 0 .. l /\ l <= l + 1 /\ \A i \in l + 1 .. l + 1 : i = l + 1
      BY <1>3
    <2>2. l \in 0 .. Len(s) /\ l <= Len(t)
      BY <1>5, <2>1 DEF l
    <2> QED BY <1>5, <2>1, <2>2 DEF Edits
  <1>9. IsMachine(v, u)
    BY <1>2, RecordedMachine
  <1>10. Registers(u, u.mem)
    BY <1>1, <1>2 DEF Registers
  <1>11. \A i \in l + 1 .. Len(u.stack) : FrameOK(pg, v.space, u.mem, u.stack[i])
    BY <1>2, <1>8, <1>s
  <1>12. MachineOK(pg, u)
    <2>1. Edits(v.stack, u.stack, l) /\ HolesMatch(v.space, u.mem, u.stack)
      BY <1>2, <1>7, <1>8 DEF s
    <2> QED BY <1>1, <1>2, <1>9, <1>10, <1>11, <2>1, NextMachine
  <1> QED BY <1>2, <1>12 DEF u, t, s

\* Other registers.
LEMMA Reregistered ==
  ASSUME NEW pg \in Program, NEW v, MachineOK(pg, v), NEW u, Recorded(u), u.space = v.space, u.mem = v.mem,
         u.globals = v.globals, u.stack = v.stack, Registers(u, u.mem)
  PROVE  MachineOK(pg, u)
  <1>1. IsMachine(v, u)
    BY RecordedMachine
  <1>2. IsList(v.stack) /\ HeapOK(pg, v.space, v.mem, {}) /\ Later(v.mem, v.mem)
    BY MachineParts
  <1>3. Quiet(v.stack, u.stack, Len(v.stack)) /\ Len(v.stack) + 1 .. Len(u.stack) = {}
    <2>1. Len(v.stack) \in Nat
      BY <1>2, ListFacts
    <2> QED BY <1>2, <2>1, QuietSame
  <1> QED BY <1>1, <1>2, <1>3, QuietMachine

\* A run that C code starts.
LEMMA Started ==
  ASSUME prog \in Program, prog' = prog, gcs' \in Nat, NEW v, MachineOK(prog, v), RootsAreValues(v),
         NEW rs, Suspended(v.stack, rs), Len(rs) > 0 => rs[Len(rs)].roots <= Len(v.roots),
         NEW caller, NEW at, Launch(v.stack, rs, Len(v.roots), caller, at),
         NEW start, Value(v.space, v.mem, start), NEW prev, prev = Len(rs), NEW out,
         StartRun(v, rs, prev, start, caller, at, out)
  PROVE  MachineInv' /\ vm'.mem = v.mem
  <1> DEFINE n == Len(v.roots)
             r == [base |-> Len(v.stack), prev |-> prev, roots |-> n, caller |-> caller, at |-> at, out |-> out]
             u == [v EXCEPT !.stack = Append(@, Stop)]
  <1>1. vm' = u /\ runs' = Append(rs, r) /\ jump' = Len(rs) + 1 /\ pc' = "enter" /\ obj' = start
    BY DEF StartRun, GotoEnter
  <1>2. /\ MachineOK(prog, u)
        /\ u.space = v.space /\ u.mem = v.mem /\ u.stack = Append(v.stack, Stop) /\ u.roots = v.roots
    BY StopPushed
  <1> HIDE DEF u
  <1>3. IsList(v.stack) /\ n \in Nat
    BY MachineParts, ListFacts
  <1>4. r.base = Len(v.stack) /\ r.prev = Len(rs) /\ r.roots = n /\ r.caller = caller /\ r.at = at
    OBVIOUS
  <1> HIDE DEF r
  <1>5. RunsOK(Append(v.stack, Stop), Append(rs, r), Len(rs) + 1, n)
    <2>1. Launch(v.stack, rs, n, r.caller, r.at)
      BY <1>4
    <2>2. Len(rs) > 0 => rs[Len(rs)].roots <= n
      OBVIOUS
    <2> HIDE DEF n
    <2> QED BY <1>3, <1>4, <2>1, <2>2, RunStarts
  <1>6. RunsOK(vm'.stack, runs', jump', Len(vm'.roots))
    BY <1>1, <1>2, <1>5
  <1>7. PcOK(prog', vm', pc', code', obj', todo') /\ RootsAreValues(vm')
    BY <1>1, <1>2 DEF PcOK, RootsAreValues
  <1> QED BY <1>1, <1>2, <1>6, <1>7, Assemble

\* What is known at a stop frame.
LEMMA AtStop ==
  ASSUME MachineInv, Running, Top(vm.stack).kind = "STOP"
  PROVE  /\ prog \in Program /\ MachineOK(prog, vm) /\ RootsAreValues(vm) /\ gcs \in Nat
         /\ RunsOK(vm.stack, runs, jump, Len(vm.roots)) /\ vm.stack # <<>> /\ IsList(vm.stack)
         /\ MachineOK(prog, Popped) /\ RootsAreValues(Popped) /\ Recorded(Popped)
         /\ Popped.space = vm.space /\ Popped.mem = vm.mem /\ Popped.globals = vm.globals
         /\ Popped.stack = Pop(vm.stack, 1) /\ Popped.env = vm.env /\ Popped.val = vm.val
         /\ Popped.exc = vm.exc /\ Popped.roots = vm.roots
         /\ Suspended(Popped.stack, Outer) /\ Len(Outer) \in Nat /\ Len(Outer) = Len(runs) - 1
         /\ Caller.prev = Len(Outer) /\ Caller.roots = Len(vm.roots) /\ Len(vm.roots) \in Nat
         /\ (Len(Outer) > 0 => Outer[Len(Outer)].roots <= Len(vm.roots))
         /\ Launch(Popped.stack, Outer, Len(vm.roots), Caller.caller, Caller.at)
         /\ (pc = "ret" => Value(vm.space, vm.mem, vm.val))
         /\ (pc = "unwind" => Value(vm.space, vm.mem, vm.exc))
  <1> DEFINE f == Top(vm.stack)
             n == Len(vm.roots)
             u == [vm EXCEPT !.stack = Pop(@, 1)]
  <1>1. f = Top(vm.stack)
    OBVIOUS
  <1> HIDE DEF f
  <1>2. /\ prog \in Program /\ MachineOK(prog, vm) /\ RootsAreValues(vm) /\ gcs \in Nat
        /\ RunsOK(vm.stack, runs, jump, Len(vm.roots)) /\ vm.stack # <<>> /\ IsList(vm.stack)
        /\ (pc = "ret" => Value(vm.space, vm.mem, vm.val))
        /\ (pc = "unwind" => Value(vm.space, vm.mem, vm.exc))
    BY <1>1, AtTop
  <1>3. /\ MachineOK(prog, u) /\ Recorded(u)
        /\ u.space = vm.space /\ u.mem = vm.mem /\ u.globals = vm.globals /\ u.stack = Pop(vm.stack, 1)
        /\ u.env = vm.env /\ u.val = vm.val /\ u.exc = vm.exc /\ u.roots = vm.roots
    BY <1>2, StopPopped
  <1>4. u = Popped /\ Pop(runs, 1) = Outer /\ runs[Len(runs)] = Caller
    BY DEF Popped, Outer, Caller
  <1> HIDE DEF u, n
  <1>5. LET s == Pop(vm.stack, 1)
            o == Pop(runs, 1)
            r == runs[Len(runs)]
        IN  /\ Suspended(s, o) /\ Len(o) \in Nat /\ Len(o) = Len(runs) - 1 /\ IsList(o)
            /\ \A i \in 1 .. Len(o) : o[i] = runs[i]
            /\ IsList(s) /\ Len(s) \in Nat /\ Len(s) = r.base
            /\ r.prev = Len(o) /\ r.roots = n /\ n \in Nat
            /\ (Len(o) > 0 => o[Len(o)].roots <= n /\ o[Len(o)].roots \in Nat)
            /\ Launch(s, o, n, r.caller, r.at)
    <2>1. RunsOK(vm.stack, runs, jump, n)
      BY <1>2 DEF n
    <2> QED BY <1>2, <2>1, RunOuter
  <1>6. RootsAreValues(u)
    BY <1>2, <1>3 DEF RootsAreValues
  <1> QED BY <1>2, <1>3, <1>4, <1>5, <1>6 DEF n

\* A registered value is one of the registered values.
LEMMA RootedValues ==
  ASSUME NEW v, IsList(v.roots), Recorded(v), RootsAreValues(v), NEW x, Value(v.space, v.mem, x)
  PROVE  RootsAreValues(Rooted(v, x)) /\ Len(Rooted(v, x).roots) = Len(v.roots) + 1
  <1> DEFINE s == v.roots
             t == Append(s, x)
             u == Rooted(v, x)
             l == Len(s)
  <1>1. u.space = v.space /\ u.mem = v.mem /\ u.roots = t
    BY DEF Rooted, Recorded, Fields
  <1>2. Len(t) = l + 1 /\ DOMAIN t = 1 .. l + 1 /\ (\A i \in 1 .. l : t[i] = s[i]) /\ t[l + 1] = x
    BY ListAppend
  <1>3. l \in Nat /\ DOMAIN s = 1 .. l
    BY ListFacts
  <1> HIDE DEF u, t, l
  <1>4. \A i \in 1 .. l + 1 : i \in 1 .. l \/ i = l + 1
    BY <1>3
  <1>5. \A i \in DOMAIN t : Value(v.space, v.mem, t[i])
    BY <1>2, <1>3, <1>4 DEF RootsAreValues
  <1> QED BY <1>1, <1>2, <1>5 DEF RootsAreValues, u, l

\* A primitive starts to force a string.
LEMMA CallFileSizeKeeps ==
  ASSUME MachineInv, CallFileSize
  PROVE  MachineInv' /\ Stays
  <1> DEFINE f == Top(vm.stack)
             x == CallArg(1)
             a == Len(vm.stack)
             v == Rooted(vm, x)
  <1>1. Running /\ pc = "call" /\ f.code = "fileSize" /\ UNCHANGED <<prog, gcs, status>> /\ x = CallArg(1)
        /\ StartRun(v, runs, jump, x, "cell", a, <<>>) /\ f = Top(vm.stack)
    BY DEF CallFileSize, Calls, ForceString, Rooted
  <1>2. 1 \in 1 .. Arity[f.code]
    BY <1>1 DEF Arity
  <1> HIDE DEF f, x
  <1>3. /\ prog \in Program /\ MachineOK(prog, vm) /\ RootsAreValues(vm) /\ gcs \in Nat
        /\ RunsOK(vm.stack, runs, jump, Len(vm.roots)) /\ IsList(vm.stack) /\ Recorded(vm)
        /\ vm.stack # <<>> /\ f.kind = "PRIM" /\ Value(vm.space, vm.mem, x)
    BY <1>1, <1>2, AtCall
  <1>4. /\ MachineOK(prog, v) /\ v.space = vm.space /\ v.mem = vm.mem /\ v.stack = vm.stack
    BY <1>3, MachineRooted DEF Maybe
  <1>5. RootsAreValues(v) /\ Len(v.roots) = Len(vm.roots) + 1 /\ Len(vm.roots) \in Nat
    BY <1>3, RootedValues, MachineParts, ListFacts
  <1> HIDE DEF v
  <1>6. /\ Suspended(vm.stack, runs) /\ Len(runs) \in Nat /\ Len(runs) > 0 /\ jump = Len(runs)
        /\ Len(vm.roots) = runs[Len(runs)].roots
    BY <1>3, RunsSuspended
  <1>7. a \in Nat /\ a >= 1 /\ f = vm.stack[a]
    BY <1>1, <1>3, TopFrame
  <1>8. Launch(v.stack, runs, Len(v.roots), "cell", a) /\ runs[Len(runs)].roots <= Len(v.roots)
    <2>1. Len(v.roots) = runs[Len(runs)].roots + 1 /\ runs[Len(runs)].roots \in Nat
      BY <1>5, <1>6
    <2> QED BY <1>3, <1>4, <1>6, <1>7, <2>1 DEF Launch
  <1>9. MachineInv' /\ vm'.mem = v.mem
    <2>1. Suspended(v.stack, runs) /\ Value(v.space, v.mem, x) /\ gcs' \in Nat
      BY <1>1, <1>3, <1>4, <1>6
    <2> DEFINE c == "cell"
               e == <<>>
    <2>2. StartRun(v, runs, jump, x, c, a, e) /\ Launch(v.stack, runs, Len(v.roots), c, a)
      BY <1>1, <1>8
    <2> HIDE DEF c, e, a
    <2> QED BY <1>1, <1>3, <1>4, <1>5, <1>6, <1>8, <2>1, <2>2, Started
  <1> QED BY <1>4, <1>9 DEF Stays

\* The field of a constructor that a program may name.
LEMMA FieldValue ==
  ASSUME NEW pg \in Program, NEW v, MachineOK(pg, v), NEW p, Value(v.space, v.mem, p), NEW o, o = Obj(v, p),
         o.kind = "CON", o.code \in DOMAIN ConArity \/ Len(o.ptr) > 1,
         NEW i \in 1 .. Len(o.ptr)
  PROVE  Value(v.space, v.mem, o.ptr[i])
  <1>1. Len(<<>>) = 0 /\ 1 .. 0 = {}
    BY EmptyList
  <1>2. o # Thing(p[1], p[2], <<>>)
    BY <1>1 DEF Thing
  <1>3. Good(pg, v.space, v.mem, o)
    BY <1>2, ObjectHere
  <1>4. o.code \in DOMAIN ConArity => o.code \notin {"MutVar", "MVar"}
    BY ConArityAssumption
  <1>5. \/ Len(o.ptr) = 1 /\ o.code \in {"MutVar", "MVar"} /\ (o.code = "MutVar" => Values(v.space, v.mem, o.ptr, 1))
        \/ o.code \in DOMAIN ConArity /\ Values(v.space, v.mem, o.ptr, 1)
    BY <1>3 DEF Good
  <1>6. Values(v.space, v.mem, o.ptr, 1)
    <2>1. CASE Len(o.ptr) = 1 /\ o.code \in {"MutVar", "MVar"}
      <3>1. ~ (Len(o.ptr) > 1)
        BY <2>1
      <3> QED BY <1>4, <2>1, <3>1
    <2> QED BY <1>5, <2>1
  <1> QED BY <1>6 DEF Values

\* A constructor has its fields.
LEMMA FieldCount ==
  ASSUME NEW pg \in Program, NEW v, MachineOK(pg, v), NEW p, Value(v.space, v.mem, p), NEW o, o = Obj(v, p),
         o.kind = "CON", o.code \in DOMAIN ConArity
  PROVE  Len(o.ptr) = ConArity[o.code]
  <1>1. Len(<<>>) = 0
    BY EmptyList
  <1>2. o.code \notin {"MutVar", "MVar"}
    BY ConArityAssumption
  <1>3. CASE o = Thing(p[1], p[2], <<>>) /\ ConArity[o.code] = 0
    BY <1>1, <1>3 DEF Thing
  <1>4. CASE Good(pg, v.space, v.mem, o)
    BY <1>2, <1>4 DEF Good
  <1> QED BY <1>3, <1>4, ObjectHere

\* The machine without the stop frame and the last root.
LEMMA AtString ==
  ASSUME MachineInv, Running, Top(vm.stack).kind = "STOP", Caller.caller \in {"cell", "head"}
  PROVE  /\ vm.roots # <<>> /\ Len(vm.roots) >= 1
         /\ (Caller.at # 0 => /\ Len(Outer) > 0 /\ Len(vm.roots) = Outer[Len(Outer)].roots + 1
                              /\ Outer[Len(Outer)].roots \in Nat
                              /\ Caller.at = Len(Popped.stack) /\ Caller.at >= 1
                              /\ Popped.stack[Caller.at].kind = "PRIM")
  <1> DEFINE n == Len(vm.roots)
  <1>1. /\ Suspended(Popped.stack, Outer) /\ Len(Outer) \in Nat /\ n \in Nat
        /\ Launch(Popped.stack, Outer, n, Caller.caller, Caller.at)
    BY AtStop
  <1>2. Len(Outer) > 0 => Outer[Len(Outer)].roots \in Nat
    <2>1. IsList(Outer) /\ \A i \in DOMAIN Outer : RunOK(Popped.stack, Outer, i)
      BY <1>1 DEF Suspended
    <2>2. DOMAIN Outer = 1 .. Len(Outer)
      BY <2>1, ListFacts
    <2>3. Len(Outer) > 0 => Len(Outer) \in DOMAIN Outer
      BY <1>1, <2>2
    <2> QED BY <2>1, <2>3 DEF RunOK
  <1>3. n >= 1
    <2>1. Len(Outer) > 0 => Outer[Len(Outer)].roots + 1 >= 1
      BY <1>2
    <2> HIDE DEF n
    <2> QED BY <1>1, <2>1 DEF Launch
  <1>4. vm.roots # <<>>
    BY <1>3, EmptyList
  <1> HIDE DEF n
  <1>5. Caller.at # 0 => /\ Len(Outer) > 0 /\ n = Outer[Len(Outer)].roots + 1
                         /\ Caller.at = Len(Popped.stack) /\ Caller.at >= 1
                         /\ Popped.stack[Caller.at].kind = "PRIM"
    BY <1>1 DEF Launch
  <1> QED BY <1>2, <1>3, <1>4, <1>5 DEF n

\* The last root goes.
LEMMA UnrootedValues ==
  ASSUME NEW pg \in Program, NEW v, MachineOK(pg, v), v.roots # <<>>, RootsAreValues(v)
  PROVE  LET u == Unrooted(v)
         IN  /\ MachineOK(pg, u) /\ RootsAreValues(u) /\ Recorded(u) /\ u.space = v.space /\ u.mem = v.mem
             /\ u.globals = v.globals /\ u.env = v.env /\ u.val = v.val /\ u.exc = v.exc
             /\ u.stack = v.stack /\ Len(u.roots) = Len(v.roots) - 1 /\ Value(v.space, v.mem, Top(v.roots))
             /\ u.roots = Pop(v.roots, 1)
  <1> DEFINE u == Unrooted(v)
             l == Len(v.roots)
  <1>1. /\ MachineOK(pg, u) /\ IsList(v.roots) /\ l \in Nat /\ l >= 1
        /\ u.space = v.space /\ u.mem = v.mem /\ u.stack = v.stack
        /\ Len(u.roots) = l - 1 /\ DOMAIN u.roots = 1 .. l - 1
        /\ \A i \in 1 .. l - 1 : u.roots[i] = v.roots[i]
        /\ Top(v.roots) = v.roots[l] /\ Recorded(u) /\ u.globals = v.globals /\ u.env = v.env
        /\ u.val = v.val /\ u.exc = v.exc /\ u.roots = Pop(v.roots, 1)
    BY MachineUnrooted
  <1>2. DOMAIN v.roots = 1 .. l
    BY <1>1, ListFacts
  <1> HIDE DEF u, l
  <1>3. 1 .. l - 1 \subseteq 1 .. l /\ l \in 1 .. l
    BY <1>1
  <1>4. RootsAreValues(u) /\ Value(v.space, v.mem, Top(v.roots))
    BY <1>1, <1>2, <1>3 DEF RootsAreValues
  <1> QED BY <1>1, <1>4 DEF u, l

\* force_string is done.
LEMMA StringForcedKeeps ==
  ASSUME MachineInv, Running, Top(vm.stack).kind = "STOP", Caller.caller \in {"cell", "head"}, prog' = prog,
         StringForced
  PROVE  MachineInv' /\ Stays
  <1> DEFINE v == Unrooted(Popped)
             a == Caller.at
             x == IntObject(Len(Caller.out))
  <1>1. /\ prog \in Program /\ gcs \in Nat /\ MachineOK(prog, Popped) /\ RootsAreValues(Popped)
        /\ Popped.space = vm.space /\ Popped.mem = vm.mem /\ Popped.roots = vm.roots
        /\ Suspended(Popped.stack, Outer) /\ Caller.prev = Len(Outer) /\ Len(Outer) \in Nat
    BY AtStop
  <1>2. /\ vm.roots # <<>> /\ Len(vm.roots) >= 1
        /\ (a # 0 => /\ Len(Outer) > 0 /\ Len(vm.roots) = Outer[Len(Outer)].roots + 1
                     /\ Outer[Len(Outer)].roots \in Nat
                     /\ a = Len(Popped.stack) /\ a >= 1 /\ Popped.stack[a].kind = "PRIM")
    BY AtString
  <1>3. /\ MachineOK(prog, v) /\ RootsAreValues(v) /\ v.space = vm.space /\ v.mem = vm.mem
        /\ v.stack = Popped.stack /\ Len(v.roots) = Len(vm.roots) - 1
    BY <1>1, <1>2, UnrootedValues
  <1>4. CASE a = 0
    <2>1. status' = "uncaught" /\ vm' = v /\ gcs' = gcs
      BY <1>4 DEF StringForced, End, Unrooted
    <2> HIDE DEF v
    <2>2. MachineInv'
      BY <1>1, <1>3, <2>1, Assemble
    <2> QED BY <1>3, <2>1, <2>2 DEF Stays
  <1>5. CASE a # 0
    <2>1. runs' = Outer /\ jump' = Len(Outer) /\ IoResult(v, x, a)
      BY <1>1, <1>5 DEF StringForced, Unrooted
    <2> HIDE DEF v
    <2>2. RunsOK(v.stack, runs', jump', Len(v.roots))
      <3>1. Len(v.roots) = Outer[Len(Outer)].roots
        <4> DEFINE n == Len(vm.roots)
                   r == Outer[Len(Outer)].roots
        <4>1. n = r + 1 /\ r \in Nat
          BY <1>2, <1>5
        <4>2. Len(v.roots) = n - 1
          BY <1>3
        <4> HIDE DEF n, r
        <4>3. Len(v.roots) = r
          BY <4>1, <4>2
        <4> QED BY <4>3 DEF r
      <3> QED BY <1>1, <1>2, <1>3, <1>5, <2>1, <3>1 DEF RunsOK, Suspended
    <2>3. a = Len(v.stack) /\ v.stack # <<>> /\ Top(v.stack).kind = "PRIM"
      <3>1. v.stack # <<>>
        BY <1>2, <1>3, <1>5, EmptyList
      <3> QED BY <1>2, <1>3, <1>5, <3>1 DEF Top
    <2>4. Value(v.space, v.mem, x)
      BY DEF Value, StaticValue, IntObject
    <2> HIDE DEF x, a
    <2>5. MachineInv' /\ (gcs' = gcs => Extends(v.mem, vm'.mem))
      BY <1>1, <1>3, <2>1, <2>2, <2>3, <2>4, IoResultKeeps
    <2> QED BY <1>3, <2>5 DEF Extends, Stays
  <1> QED BY <1>4, <1>5

-----------------------------------------------------------------------------
(* Returns to C code.                                                      *)

LEMMA ReturnCellKeeps ==
  ASSUME MachineInv, ReturnCell
  PROVE  MachineInv' /\ Stays
  <1> DEFINE o == Obj(vm, vm.val)
             n == Len(vm.roots)
  <1>1. Running /\ pc = "ret" /\ Top(vm.stack).kind = "STOP" /\ Caller.caller = "cell" /\ prog' = prog
    BY DEF ReturnCell, Returns, Ret
  <1>2. /\ prog \in Program /\ gcs \in Nat /\ MachineOK(prog, vm) /\ MachineOK(prog, Popped)
        /\ RootsAreValues(Popped) /\ Recorded(Popped) /\ RootsAreValues(vm)
        /\ Popped.space = vm.space /\ Popped.mem = vm.mem /\ Popped.globals = vm.globals
        /\ Popped.env = vm.env /\ Popped.val = vm.val /\ Popped.exc = vm.exc /\ Popped.roots = vm.roots
        /\ Suspended(Popped.stack, Outer) /\ Len(Outer) \in Nat /\ Caller.prev = Len(Outer)
        /\ (Len(Outer) > 0 => Outer[Len(Outer)].roots <= n) /\ n \in Nat
        /\ Launch(Popped.stack, Outer, n, Caller.caller, Caller.at) /\ Value(vm.space, vm.mem, vm.val)
    BY <1>1, AtStop
  <1>3. vm.roots # <<>> /\ n >= 1 /\ IsList(vm.roots)
    BY <1>1, <1>2, AtString, MachineParts
  <1>4. CASE o.kind = "CON" /\ Len(o.ptr) = 2
    <2> DEFINE r == [vm.roots EXCEPT ![n] = o.ptr[2]]
               v == [Popped EXCEPT !.roots = r]
    <2>1. /\ StartRun(v, Outer, Caller.prev, o.ptr[1], "head", Caller.at, Caller.out)
          /\ UNCHANGED <<gcs, status>>
      <3>1. /\ StartRun([Popped EXCEPT !.roots[n] = o.ptr[2]], Outer, Caller.prev, o.ptr[1], "head", Caller.at,
                        Caller.out)
            /\ UNCHANGED <<gcs, status>>
        BY <1>4 DEF ReturnCell
      <3>2. [Popped EXCEPT !.roots[n] = o.ptr[2]] = [Popped EXCEPT !.roots = [Popped.roots EXCEPT ![n] = o.ptr[2]]]
        OBVIOUS
      <3> QED BY <1>2, <3>1, <3>2
    <2>2. o = Obj(vm, vm.val) /\ o.kind = "CON" /\ Len(o.ptr) > 1 /\ 1 \in 1 .. Len(o.ptr) /\ 2 \in 1 .. Len(o.ptr)
      BY <1>4
    <2> HIDE DEF o
    <2>3. Value(vm.space, vm.mem, o.ptr[1]) /\ Value(vm.space, vm.mem, o.ptr[2])
      BY <1>2, <2>2, FieldValue
    <2>4. n \in DOMAIN vm.roots /\ DOMAIN vm.roots = 1 .. n
      BY <1>2, <1>3, ListFacts
    <2>5. /\ IsList(r) /\ Len(r) = n /\ DOMAIN r = DOMAIN vm.roots /\ r[n] = o.ptr[2]
          /\ \A j \in DOMAIN vm.roots : j # n => r[j] = vm.roots[j]
      BY <1>3, <2>4, ListExcept
    <2> HIDE DEF r
    <2>6. \A i \in DOMAIN r : Value(vm.space, vm.mem, r[i])
      BY <1>2, <2>3, <2>5 DEF RootsAreValues
    <2>7. /\ Recorded(v) /\ v.space = vm.space /\ v.mem = vm.mem /\ v.globals = vm.globals /\ v.roots = r
          /\ v.stack = Popped.stack /\ v.env = vm.env /\ v.val = vm.val /\ v.exc = vm.exc
      BY <1>2 DEF Recorded, Fields
    <2> HIDE DEF v
    <2>8. RootsAreValues(v)
      BY <2>6, <2>7 DEF RootsAreValues
    <2>9. MachineOK(prog, v)
      <3>1. Registers(Popped, Popped.mem)
        BY <1>2, MachineParts
      <3>2. Registers(v, v.mem)
        BY <1>2, <2>5, <2>6, <2>7, <3>1 DEF Registers, Maybe
      <3> QED BY <1>2, <2>7, <3>2, Reregistered
    <2>10. Launch(v.stack, Outer, Len(v.roots), "head", Caller.at)
      BY <1>1, <1>2, <2>5, <2>7 DEF Launch
    <2>11. MachineInv' /\ vm'.mem = v.mem
      <3> DEFINE x == o.ptr[1]
                 c == "head"
                 e == Caller.out
                 a == Caller.at
      <3>1. /\ StartRun(v, Outer, Caller.prev, x, c, a, e) /\ Launch(v.stack, Outer, Len(v.roots), c, a)
            /\ Value(v.space, v.mem, x) /\ gcs' \in Nat /\ Suspended(v.stack, Outer)
            /\ (Len(Outer) > 0 => Outer[Len(Outer)].roots <= Len(v.roots))
        BY <1>2, <2>1, <2>3, <2>5, <2>7, <2>10
      <3> HIDE DEF x, c, e, a, n
      <3> QED BY <1>1, <1>2, <2>8, <2>9, <3>1, Started
    <2> QED BY <2>1, <2>7, <2>11 DEF Stays
  <1>5. CASE ~ (o.kind = "CON" /\ Len(o.ptr) = 2)
    <2>1. StringForced
      BY <1>5 DEF ReturnCell
    <2> QED BY <1>1, <2>1, StringForcedKeeps
  <1> QED BY <1>4, <1>5

LEMMA ReturnHeadKeeps ==
  ASSUME MachineInv, ReturnHead
  PROVE  MachineInv' /\ Stays
  <1> DEFINE o == Obj(vm, vm.val)
             n == Len(vm.roots)
  <1>1. Running /\ pc = "ret" /\ Top(vm.stack).kind = "STOP" /\ Caller.caller = "head" /\ prog' = prog
    BY DEF ReturnHead, Returns, Ret
  <1>2. /\ prog \in Program /\ gcs \in Nat /\ MachineOK(prog, vm) /\ MachineOK(prog, Popped)
        /\ RootsAreValues(Popped) /\ RootsAreValues(vm)
        /\ Popped.space = vm.space /\ Popped.mem = vm.mem /\ Popped.roots = vm.roots
        /\ Suspended(Popped.stack, Outer) /\ Len(Outer) \in Nat /\ Caller.prev = Len(Outer)
        /\ (Len(Outer) > 0 => Outer[Len(Outer)].roots <= n) /\ n \in Nat
        /\ Launch(Popped.stack, Outer, n, Caller.caller, Caller.at)
    BY <1>1, AtStop
  <1>3. vm.roots # <<>> /\ n >= 1
    BY <1>1, <1>2, AtString
  <1>4. CASE o.kind = "CHAR"
    <2> DEFINE x == Top(vm.roots)
               c == "cell"
               e == Append(Caller.out, o.code)
               a == Caller.at
    <2>1. StartRun(Popped, Outer, Caller.prev, x, c, a, e) /\ UNCHANGED <<gcs, status>>
      BY <1>4 DEF ReturnHead
    <2>2. Value(Popped.space, Popped.mem, x)
      BY <1>2, <1>3, UnrootedValues
    <2>3. Launch(Popped.stack, Outer, Len(Popped.roots), c, a) /\ gcs' \in Nat
      BY <1>1, <1>2, <2>1 DEF Launch
    <2>4. Len(Outer) > 0 => Outer[Len(Outer)].roots <= Len(Popped.roots)
      BY <1>2
    <2> HIDE DEF x, c, e, a
    <2>5. MachineInv' /\ vm'.mem = Popped.mem
      BY <1>1, <1>2, <2>1, <2>2, <2>3, <2>4, Started
    <2> QED BY <1>2, <2>5 DEF Stays
  <1>5. CASE o.kind # "CHAR"
    <2>1. StringForced
      BY <1>5 DEF ReturnHead
    <2> QED BY <1>1, <2>1, StringForcedKeeps
  <1> QED BY <1>4, <1>5

\* The program ends, and the last stop frame goes.
LEMMA EndPopped ==
  ASSUME MachineInv, Running, Top(vm.stack).kind = "STOP", UNCHANGED <<prog, gcs>>, status' # "running",
         vm' = Popped
  PROVE  MachineInv' /\ Stays
  <1>1. prog \in Program /\ gcs \in Nat /\ MachineOK(prog, Popped) /\ RootsAreValues(Popped) /\ Popped.mem = vm.mem
    BY AtStop
  <1>2. MachineInv'
    BY <1>1, Assemble
  <1> QED BY <1>1, <1>2 DEF Stays

LEMMA ReturnMainKeeps ==
  ASSUME MachineInv, ReturnMain
  PROVE  MachineInv' /\ Stays
  <1> DEFINE o == Obj(vm, vm.val)
             n == Len(vm.roots)
             x == vm.val
             v == Rooted(Popped, x)
  <1>1. Running /\ pc = "ret" /\ Top(vm.stack).kind = "STOP" /\ Caller.caller = "main"
        /\ UNCHANGED <<prog, gcs>>
    BY DEF ReturnMain, Returns, Ret
  <1>2. /\ prog \in Program /\ gcs \in Nat /\ MachineOK(prog, vm) /\ MachineOK(prog, Popped)
        /\ RootsAreValues(Popped) /\ Recorded(Popped)
        /\ Popped.space = vm.space /\ Popped.mem = vm.mem /\ Popped.roots = vm.roots
        /\ Suspended(Popped.stack, Outer) /\ Len(Outer) \in Nat /\ Caller.prev = Len(Outer) /\ n \in Nat
        /\ Launch(Popped.stack, Outer, n, Caller.caller, Caller.at) /\ Value(vm.space, vm.mem, x)
    BY <1>1, AtStop
  <1>3. Len(Outer) = 0
    BY <1>1, <1>2 DEF Launch
  <1>4. CASE o.kind = "CON" /\ o.code = "IoRes"
    <2> DEFINE p == o.ptr[1]
               c == "token"
               e == <<>>
    <2>1. StartRun(v, Outer, Caller.prev, p, c, 0, e)
      BY <1>4 DEF ReturnMain, Rooted
    <2>2. o = Obj(vm, x) /\ o.kind = "CON" /\ o.code \in DOMAIN ConArity /\ ConArity[o.code] = 2
      BY <1>4, ConArityAssumption
    <2> HIDE DEF o
    <2>3. Len(o.ptr) = 2
      BY <1>2, <2>2, FieldCount, ZenonT(30)
    <2>4. Value(vm.space, vm.mem, p)
      <3>1. 1 \in 1 .. Len(o.ptr)
        BY <2>3
      <3> QED BY <1>2, <2>2, <3>1, FieldValue
    <2>5. /\ MachineOK(prog, v) /\ v.space = vm.space /\ v.mem = vm.mem /\ v.stack = Popped.stack
      BY <1>2, MachineRooted DEF Maybe
    <2>6. RootsAreValues(v) /\ Len(v.roots) = n + 1
      BY <1>2, RootedValues, MachineParts
    <2> HIDE DEF v, n
    <2>7. Launch(v.stack, Outer, Len(v.roots), c, 0) /\ ~ (Len(Outer) > 0)
      BY <1>2, <1>3, <2>6 DEF Launch
    <2>8. Suspended(v.stack, Outer) /\ Value(v.space, v.mem, p) /\ gcs' \in Nat
      BY <1>1, <1>2, <2>4, <2>5
    <2> HIDE DEF p, c, e
    <2>9. MachineInv' /\ vm'.mem = v.mem
      BY <1>1, <1>2, <2>1, <2>5, <2>6, <2>7, <2>8, Started
    <2> QED BY <2>5, <2>9 DEF Stays
  <1>5. CASE ~ (o.kind = "CON" /\ o.code = "IoRes")
    <2>1. vm' = Popped /\ status' = "value"
      BY <1>5 DEF ReturnMain, End
    <2> QED BY <1>1, <2>1, EndPopped
  <1> QED BY <1>4, <1>5

LEMMA ReturnTokenKeeps ==
  ASSUME MachineInv, ReturnToken
  PROVE  MachineInv' /\ Stays
  <1> DEFINE n == Len(vm.roots)
             u == Unrooted(Popped)
             t == Top(vm.roots)
             v == [Popped EXCEPT !.val = t, !.roots = Pop(@, 1)]
  <1>1. Running /\ pc = "ret" /\ Top(vm.stack).kind = "STOP" /\ Caller.caller = "token"
        /\ UNCHANGED <<prog, gcs>> /\ status' = "done" /\ vm' = v
    BY DEF ReturnToken, Returns, Ret, control, End
  <1>2. /\ prog \in Program /\ gcs \in Nat /\ MachineOK(prog, Popped)
        /\ RootsAreValues(Popped) /\ Recorded(Popped)
        /\ Popped.space = vm.space /\ Popped.mem = vm.mem /\ Popped.roots = vm.roots /\ n \in Nat
        /\ Launch(Popped.stack, Outer, n, Caller.caller, Caller.at)
    BY <1>1, AtStop
  <1>3. n >= 1 /\ vm.roots # <<>>
    <2>1. n >= 1
      BY <1>1, <1>2 DEF Launch
    <2> QED BY <2>1, EmptyList
  <1>4. /\ MachineOK(prog, u) /\ RootsAreValues(u) /\ Recorded(u) /\ u.space = vm.space /\ u.mem = vm.mem
        /\ u.globals = Popped.globals /\ u.env = Popped.env /\ u.exc = Popped.exc
        /\ u.stack = Popped.stack /\ Value(vm.space, vm.mem, t) /\ u.roots = Pop(Popped.roots, 1)
    BY <1>2, <1>3, UnrootedValues
  <1> HIDE DEF u, t
  <1>5. /\ Recorded(v) /\ v.space = u.space /\ v.mem = u.mem /\ v.globals = u.globals /\ v.stack = u.stack
        /\ v.env = u.env /\ v.val = t /\ v.exc = u.exc /\ v.roots = u.roots
    BY <1>2, <1>4 DEF Recorded, Fields
  <1> HIDE DEF v
  <1>6. MachineOK(prog, v)
    <2>1. Registers(u, u.mem)
      BY <1>2, <1>4, MachineParts
    <2>2. Registers(v, v.mem)
      BY <1>4, <1>5, <2>1 DEF Registers, Maybe
    <2> QED BY <1>2, <1>4, <1>5, <2>2, Reregistered
  <1>7. RootsAreValues(v)
    BY <1>4, <1>5 DEF RootsAreValues
  <1>8. MachineInv'
    BY <1>1, <1>2, <1>6, <1>7, Assemble
  <1> QED BY <1>1, <1>4, <1>5, <1>8 DEF Stays

LEMMA ReturnReportKeeps ==
  ASSUME MachineInv, ReturnReport
  PROVE  MachineInv' /\ Stays
  <1> DEFINE o == Obj(vm, vm.val)
             n == Len(vm.roots)
             c == "report"
             e == <<>>
  <1>1. Running /\ pc = "ret" /\ Top(vm.stack).kind = "STOP" /\ Caller.caller = "report"
        /\ UNCHANGED <<prog, gcs>>
    BY DEF ReturnReport, Returns, Ret
  <1>2. /\ prog \in Program /\ gcs \in Nat /\ MachineOK(prog, vm) /\ MachineOK(prog, Popped)
        /\ RootsAreValues(Popped) /\ Recorded(Popped)
        /\ Popped.space = vm.space /\ Popped.mem = vm.mem /\ Popped.roots = vm.roots
        /\ Suspended(Popped.stack, Outer) /\ Len(Outer) \in Nat /\ Caller.prev = Len(Outer) /\ n \in Nat
        /\ Launch(Popped.stack, Outer, n, Caller.caller, Caller.at) /\ Value(vm.space, vm.mem, vm.val)
    BY <1>1, AtStop
  <1>3. Len(Outer) = 0 /\ ~ (Len(Outer) > 0)
    BY <1>1, <1>2 DEF Launch
  <1>4. CASE o.kind = "CON" /\ o.code = "SomeException"
    <2> DEFINE p == o.ptr[2]
    <2>1. StartRun(Popped, Outer, Caller.prev, p, c, 0, e)
      BY <1>4 DEF ReturnReport
    <2>2. o = Obj(vm, vm.val) /\ o.kind = "CON" /\ o.code = "SomeException"
      BY <1>4
    <2> HIDE DEF o
    <2>3. Value(vm.space, vm.mem, p)
      <3>1. Good(prog, vm.space, vm.mem, o) \/ (o.code \in DOMAIN ConArity /\ o = Thing(vm.val[1], vm.val[2], <<>>))
        BY <1>2, <2>2, ObjectHere
      <3>2. o.code \in DOMAIN ConArity
        BY <2>2, <3>1 DEF Good
      <3>3. Len(o.ptr) = 2
        <4>1. ConArity[o.code] = 2
          BY <2>2, <3>2, ConArityAssumption
        <4>2. Len(o.ptr) = ConArity[o.code]
          BY <1>2, <2>2, <3>2, FieldCount
        <4> QED BY <4>1, <4>2
      <3>4. 2 \in 1 .. Len(o.ptr)
        BY <3>3
      <3> QED BY <1>2, <2>2, <3>2, <3>4, FieldValue
    <2>4. Launch(Popped.stack, Outer, Len(Popped.roots), c, 0)
      BY <1>3 DEF Launch
    <2>5. Value(Popped.space, Popped.mem, p) /\ gcs' \in Nat
      BY <1>1, <1>2, <2>3
    <2> HIDE DEF p, c, e
    <2>6. MachineInv' /\ vm'.mem = Popped.mem
      BY <1>1, <1>2, <1>3, <2>1, <2>4, <2>5, Started
    <2> QED BY <1>2, <2>6 DEF Stays
  <1>5. CASE o.kind = "CON" /\ o.code = "ErrorCall"
    <2> DEFINE p == o.ptr[1]
               v == Rooted(Popped, p)
               d == "cell"
    <2>1. StartRun(v, Outer, Caller.prev, p, d, 0, e)
      BY <1>5 DEF ReturnReport, ForceString, Rooted
    <2>2. o = Obj(vm, vm.val) /\ o.kind = "CON" /\ o.code = "ErrorCall"
      BY <1>5
    <2> HIDE DEF o
    <2>3. Value(vm.space, vm.mem, p)
      <3>1. Good(prog, vm.space, vm.mem, o) \/ (o.code \in DOMAIN ConArity /\ o = Thing(vm.val[1], vm.val[2], <<>>))
        BY <1>2, <2>2, ObjectHere
      <3>2. o.code \in DOMAIN ConArity
        BY <2>2, <3>1 DEF Good
      <3>3. Len(o.ptr) = 1
        <4>1. ConArity[o.code] = 1
          BY <2>2, <3>2, ConArityAssumption
        <4>2. Len(o.ptr) = ConArity[o.code]
          BY <1>2, <2>2, <3>2, FieldCount
        <4> QED BY <4>1, <4>2
      <3>4. 1 \in 1 .. Len(o.ptr)
        BY <3>3
      <3> QED BY <1>2, <2>2, <3>2, <3>4, FieldValue
    <2> HIDE DEF p
    <2>5. /\ MachineOK(prog, v) /\ v.space = vm.space /\ v.mem = vm.mem /\ v.stack = Popped.stack
      BY <1>2, <2>3, MachineRooted DEF Maybe
    <2>6. RootsAreValues(v) /\ Len(v.roots) = n + 1
      BY <1>2, <2>3, RootedValues, MachineParts
    <2> HIDE DEF v, n
    <2>7. Launch(v.stack, Outer, Len(v.roots), d, 0)
      BY <1>2, <1>3, <2>6 DEF Launch
    <2>8. Suspended(v.stack, Outer) /\ Value(v.space, v.mem, p) /\ gcs' \in Nat
      BY <1>1, <1>2, <2>3, <2>5
    <2> HIDE DEF d, e
    <2>9. MachineInv' /\ vm'.mem = v.mem
      BY <1>1, <1>2, <1>3, <2>1, <2>5, <2>6, <2>7, <2>8, Started
    <2> QED BY <2>5, <2>9 DEF Stays
  <1>6. CASE ~ (o.kind = "CON" /\ o.code = "SomeException") /\ ~ (o.kind = "CON" /\ o.code = "ErrorCall")
    <2>1. vm' = Popped /\ status' = "uncaught"
      BY <1>6 DEF ReturnReport, End
    <2> QED BY <1>1, <2>1, EndPopped
  <1> QED BY <1>4, <1>5, <1>6

-----------------------------------------------------------------------------
(* unwind().                                                               *)

LEMMA UnwindFrameKeeps ==
  ASSUME MachineInv, UnwindFrame
  PROVE  MachineInv' /\ Stays
  <1> DEFINE f == Top(vm.stack)
  <1>1. Running /\ pc = "unwind" /\ f.kind \in {"ARG", "CASE", "PRIM"} /\ pc' = pc
        /\ vm' = [vm EXCEPT !.stack = Pop(@, 1)] /\ UNCHANGED <<prog, runs, jump, gcs, status>>
        /\ f = Top(vm.stack)
    BY DEF UnwindFrame, control
  <1> HIDE DEF f
  <1>2. Recorded(vm) /\ IsList(vm.stack) /\ vm.stack # <<>> /\ Value(vm.space, vm.mem, vm.exc)
    BY <1>1, AtTop
  <1>3. /\ Recorded(vm') /\ vm'.space = vm.space /\ vm'.globals = vm.globals /\ vm'.roots = vm.roots
        /\ vm'.mem = vm.mem /\ vm'.val = vm.val /\ vm'.env = vm.env /\ vm'.exc = vm.exc
        /\ vm'.stack = Pop(vm.stack, 1)
    BY <1>1, <1>2 DEF Recorded, Fields
  <1>4. Quiet(vm.stack, vm'.stack, Len(vm.stack) - 1) /\ Len(vm.stack) - 1 + 1 .. Len(vm'.stack) = {}
    BY <1>1, <1>2, <1>3, PoppedFrame
  <1>5. PcOK(prog, vm', pc', code', obj', todo')
    BY <1>1, <1>2, <1>3 DEF PcOK
  <1> QED BY <1>1, <1>2, <1>3, <1>4, <1>5, CalmStep

LEMMA UnwindCatchKeeps ==
  ASSUME MachineInv, UnwindCatch
  PROVE  MachineInv' /\ Stays
  <1> DEFINE f == Top(vm.stack)
             a == Arg(f.b)
             b == Arg(vm.exc)
             t == <<a, b>>
             s == vm.stack
             k == Len(s) - 1
             u == Pop(s, 1) \o t
  <1>1. Running /\ pc = "unwind" /\ f.kind = "CATCH" /\ pc' = "enter" /\ obj' = f.a
        /\ vm' = [vm EXCEPT !.stack = u, !.exc = Null] /\ UNCHANGED <<prog, runs, jump, gcs, status>>
        /\ f = Top(vm.stack)
    BY DEF UnwindCatch, Unwinds, GotoEnter
  <1> HIDE DEF f
  <1>2. Recorded(vm) /\ IsList(s) /\ s # <<>> /\ Value(vm.space, vm.mem, vm.exc)
        /\ FrameOK(prog, vm.space, vm.mem, f)
    BY <1>1, AtTop
  <1>3. Value(vm.space, vm.mem, f.a) /\ Value(vm.space, vm.mem, f.b)
    BY <1>1, <1>2 DEF FrameOK
  <1>4. FrameOK(prog, vm.space, vm.mem, a) /\ FrameOK(prog, vm.space, vm.mem, b) /\ a.kind = "ARG" /\ b.kind = "ARG"
    BY <1>2, <1>3 DEF FrameOK, Arg, Frame
  <1>5. /\ Len(s) \in Nat /\ k \in 0 .. Len(s) /\ f = s[Len(s)] /\ Len(s) - 1 + 1 .. Len(s) = {Len(s)}
    BY <1>1, <1>2, TopFrame
  <1>6. IsList(t) /\ Len(t) = 2 /\ t[1] = a /\ t[2] = b
    <2> HIDE DEF a, b
    <2> QED BY TwoList
  <1> HIDE DEF t, a, b
  <1>7. IsList(u) /\ Len(u) = k + 2 /\ (\A i \in 1 .. k : u[i] = s[i])
        /\ \A i \in k + 1 .. k + 2 : u[i] = t[i - k]
    <2>1. LET z == SubSeq(s, 1, k) \o t
          IN  /\ IsList(z) /\ Len(z) = k + Len(t) /\ DOMAIN z = 1 .. k + Len(t)
              /\ \A i \in 1 .. k : z[i] = s[i]
              /\ \A i \in k + 1 .. k + Len(t) : z[i] = t[i - k]
      <3>1. IsList(s) /\ IsList(t) /\ k \in 0 .. Len(s)
        BY <1>2, <1>5, <1>6
      <3> HIDE DEF k, s
      <3> QED BY <3>1, ListReplaced
    <2>2. u = SubSeq(s, 1, k) \o t
      BY DEF Pop
    <2> HIDE DEF u, k
    <2> QED BY <1>6, <2>1, <2>2
  <1> HIDE DEF u
  <1>8. \A i \in k + 1 .. Len(u) : u[i] \in {a, b}
    <2>1. \A i \in k + 1 .. k + 2 : i - k = 1 \/ i - k = 2
      BY <1>5
    <2> HIDE DEF k
    <2> QED BY <1>6, <1>7, <2>1
  <1>9. Quiet(s, u, k)
    <2>1. k <= Len(u)
      BY <1>5, <1>7
    <2>2. \A i \in k + 1 .. Len(s) : s[i].kind = "CATCH"
      BY <1>1, <1>5
    <2>3. Edits(s, u, k)
      BY <1>5, <1>7, <2>1 DEF Edits
    <2> HIDE DEF k, s
    <2> QED BY <1>4, <1>8, <2>2, <2>3 DEF Quiet
  <1>10. /\ Recorded(vm') /\ vm'.space = vm.space /\ vm'.globals = vm.globals /\ vm'.roots = vm.roots
         /\ vm'.mem = vm.mem /\ vm'.val = vm.val /\ vm'.env = vm.env /\ vm'.exc = Null /\ vm'.stack = u
    BY <1>1, <1>2 DEF Recorded, Fields
  <1>11. PcOK(prog, vm', pc', code', obj', todo')
    BY <1>1, <1>3, <1>10 DEF PcOK
  <1>12. \A i \in k + 1 .. Len(vm'.stack) : FrameOK(prog, vm.space, vm.mem, vm'.stack[i])
    BY <1>4, <1>8, <1>10
  <1>13. Quiet(vm.stack, vm'.stack, k)
    BY <1>9, <1>10
  <1> HIDE DEF k
  <1> QED BY <1>1, <1>10, <1>11, <1>12, <1>13, CalmStep

LEMMA UnwindUpdateKeeps ==
  ASSUME MachineInv, UnwindUpdate
  PROVE  MachineInv' /\ Stays
  <1> DEFINE f == Top(vm.stack)
             i == f.a[2]
             o == vm.mem[i]
             q == Thing("THUNK", o.code, o.ptr)
  <1>1. Running /\ pc = "unwind" /\ f.kind = "UPDATE" /\ pc' = pc
        /\ vm' = [vm EXCEPT !.mem[i].kind = "THUNK", !.stack = Pop(@, 1)]
        /\ UNCHANGED <<prog, runs, jump, gcs, status>> /\ f = Top(vm.stack)
    BY DEF UnwindUpdate, Unwinds, control
  <1> HIDE DEF f
  <1>2. /\ prog \in Program /\ MachineOK(prog, vm) /\ Recorded(vm) /\ IsList(vm.stack)
        /\ HeapOK(prog, vm.space, vm.mem, {}) /\ FrameOK(prog, vm.space, vm.mem, f) /\ f = vm.stack[Len(vm.stack)]
        /\ Len(vm.stack) \in DOMAIN vm.stack /\ Value(vm.space, vm.mem, vm.exc)
    BY <1>1, AtTop
  <1>3. i \in DOMAIN vm.mem /\ o.kind = "BLACKHOLE"
    <2>1. Len(vm.stack) \in Updates(vm.stack)
      BY <1>1, <1>2 DEF Updates
    <2>2. HolesMatch(vm.space, vm.mem, vm.stack)
      BY <1>2 DEF MachineOK
    <2> QED BY <1>2, <2>1, <2>2 DEF HolesMatch
  <1>4. Good(prog, vm.space, vm.mem, o)
    BY <1>2, <1>3 DEF HeapOK
  <1>5. Good(prog, vm.space, vm.mem, q) /\ q.kind = "THUNK"
    <2>1. q.kind = "THUNK" /\ q.code = o.code /\ q.ptr = o.ptr /\ q = Thing(q.kind, q.code, q.ptr)
      BY DEF Thing
    <2> HIDE DEF q, o
    <2>2. Len(o.ptr) = 1 /\ Fits(prog, vm.space, vm.mem, o.code, o.ptr[1]) /\ IsList(o.ptr)
      BY <1>3, <1>4 DEF Good
    <2> QED BY <2>1, <2>2 DEF Good
  <1>6. UpdateDone(i, q)
    <2>1. o = Thing(o.kind, o.code, o.ptr)
      BY <1>4 DEF Good
    <2>2. [vm.mem EXCEPT ![i].kind = "THUNK"] = Overwritten(i, q)
      <3>1. o = vm.mem[i]
        OBVIOUS
      <3> HIDE DEF o, i
      <3>2. [vm.mem EXCEPT ![i].kind = "THUNK"] = [vm.mem EXCEPT ![i] = Thing("THUNK", o.code, o.ptr)]
        BY <2>1, <3>1, KindChanged
      <3> QED BY <3>2 DEF Overwritten
    <2>3. [vm EXCEPT !.mem[i].kind = "THUNK", !.stack = Pop(@, 1)]
             = [vm EXCEPT !.mem = [vm.mem EXCEPT ![i].kind = "THUNK"], !.stack = Pop(@, 1)]
      OBVIOUS
    <2> HIDE DEF i, q
    <2> QED BY <1>1, <2>2, <2>3 DEF UpdateDone
  <1>7. Later(vm.mem, Overwritten(i, q)) => PcOK(prog, vm', pc', code', obj', todo')
    <2> HIDE DEF i, q
    <2>1. vm'.space = vm.space /\ vm'.mem = Overwritten(i, q) /\ vm'.exc = vm.exc
      BY <1>2, <1>6 DEF UpdateDone, Recorded, Fields
    <2> HAVE Later(vm.mem, Overwritten(i, q))
    <2>2. Value(vm.space, Overwritten(i, q), vm.exc)
      BY <1>2, ValueLater
    <2> QED BY <1>1, <2>1, <2>2 DEF PcOK
  <1>8. Top(vm.stack).kind = "UPDATE" /\ i = Top(vm.stack).a[2] /\ o = vm.mem[i]
    BY <1>1
  <1> HIDE DEF i, o, q
  <1> QED BY <1>1, <1>5, <1>6, <1>7, <1>8, UpdateStep

LEMMA UnwindRunKeeps ==
  ASSUME MachineInv, UnwindRun
  PROVE  MachineInv' /\ Stays
  <1> DEFINE n == Len(vm.roots)
             h == Len(Outer)
             r == SubSeq(vm.roots, 1, runs[h].roots)
             v == [Popped EXCEPT !.roots = r]
  <1>1. Running /\ pc = "unwind" /\ Top(vm.stack).kind = "STOP" /\ Caller.prev # 0 /\ pc' = pc
        /\ vm' = [Popped EXCEPT !.roots = SubSeq(@, 1, runs[Caller.prev].roots)]
        /\ runs' = SubSeq(runs, 1, Caller.prev) /\ jump' = Caller.prev
        /\ UNCHANGED <<prog, gcs, status>>
    BY DEF UnwindRun, Unwinds, control
  <1>2. /\ prog \in Program /\ gcs \in Nat /\ MachineOK(prog, Popped)
        /\ RootsAreValues(Popped) /\ Recorded(Popped)
        /\ RunsOK(vm.stack, runs, jump, Len(vm.roots))
        /\ Popped.space = vm.space /\ Popped.mem = vm.mem /\ Popped.roots = vm.roots /\ Popped.exc = vm.exc
        /\ Suspended(Popped.stack, Outer) /\ h \in Nat /\ h = Len(runs) - 1
        /\ Caller.prev = h /\ n \in Nat
        /\ (h > 0 => Outer[h].roots <= n) /\ Value(vm.space, vm.mem, vm.exc)
    BY <1>1, AtStop
  <1>3. h > 0 /\ runs' = Outer /\ jump' = h /\ Outer[h] = runs[h] /\ runs[h].roots \in Nat
    <2>1. Outer = SubSeq(runs, 1, h)
      BY <1>2 DEF Outer, Pop
    <2>2. Suspended(vm.stack, runs) /\ Len(runs) \in Nat /\ DOMAIN runs = 1 .. Len(runs)
      BY <1>2, RunsSuspended
    <2>3. h > 0 /\ h \in 1 .. h /\ h \in 0 .. Len(runs) /\ h \in DOMAIN runs
      BY <1>1, <1>2, <2>2
    <2>4. IsList(runs) /\ RunOK(vm.stack, runs, h)
      BY <2>2, <2>3 DEF Suspended
    <2>5. \A i \in 1 .. h : SubSeq(runs, 1, h)[i] = runs[i]
      <3> HIDE DEF h
      <3> QED BY <2>3, <2>4, ListPrefix
    <2> HIDE DEF h
    <2> QED BY <1>1, <1>2, <2>1, <2>3, <2>4, <2>5 DEF RunOK
  <1>4. runs[h].roots \in 0 .. n
    BY <1>2, <1>3
  <1>5. vm' = v
    <2> HIDE DEF h
    <2> QED BY <1>1, <1>2
  <1>6. /\ IsList(r) /\ Len(r) = runs[h].roots /\ DOMAIN r = 1 .. runs[h].roots
        /\ \A i \in 1 .. runs[h].roots : r[i] = vm.roots[i]
    <2>1. IsList(vm.roots)
      BY <1>2, MachineParts
    <2> HIDE DEF h
    <2> QED BY <1>4, <2>1, ListPrefix
  <1> HIDE DEF r, h
  <1>7. /\ Recorded(v) /\ v.space = Popped.space /\ v.mem = Popped.mem /\ v.globals = Popped.globals
        /\ v.stack = Popped.stack /\ v.env = Popped.env /\ v.val = Popped.val /\ v.exc = Popped.exc /\ v.roots = r
    BY <1>2 DEF Recorded, Fields
  <1> HIDE DEF v
  <1>8. \A i \in DOMAIN r : Value(vm.space, vm.mem, r[i])
    <2>1. DOMAIN vm.roots = 1 .. n
      BY <1>2, MachineParts, ListFacts
    <2>2. \A i \in 1 .. runs[h].roots : i \in 1 .. n
      BY <1>2, <1>4
    <2> QED BY <1>2, <1>6, <2>1, <2>2 DEF RootsAreValues
  <1>9. RootsAreValues(v)
    BY <1>2, <1>7, <1>8 DEF RootsAreValues
  <1>10. MachineOK(prog, v)
    <2>1. Registers(Popped, Popped.mem)
      BY <1>2, MachineParts
    <2>2. Registers(v, v.mem)
      BY <1>2, <1>6, <1>7, <1>8, <2>1 DEF Registers, Maybe
    <2> QED BY <1>2, <1>7, <2>2, Reregistered
  <1>11. RunsOK(v.stack, runs', jump', Len(v.roots))
    <2>1. Len(v.roots) = Outer[h].roots
      BY <1>3, <1>6, <1>7
    <2> QED BY <1>2, <1>3, <1>7, <2>1 DEF RunsOK, Suspended, h
  <1>12. PcOK(prog', vm', pc', code', obj', todo')
    BY <1>1, <1>2, <1>5, <1>7 DEF PcOK
  <1>13. MachineInv'
    BY <1>1, <1>2, <1>5, <1>9, <1>10, <1>11, <1>12, Assemble
  <1> QED BY <1>2, <1>5, <1>7, <1>13 DEF Stays

LEMMA UnwindMainKeeps ==
  ASSUME MachineInv, UnwindMain
  PROVE  MachineInv' /\ Stays
  <1> DEFINE v == [Popped EXCEPT !.exc = Null]
             x == vm.exc
             c == "report"
             e == <<>>
  <1>1. Running /\ pc = "unwind" /\ Top(vm.stack).kind = "STOP" /\ Caller.prev = 0
        /\ StartRun(v, Outer, 0, x, c, 0, e) /\ UNCHANGED <<prog, gcs, status>>
    BY DEF UnwindMain, Unwinds
  <1>2. /\ prog \in Program /\ gcs \in Nat /\ MachineOK(prog, Popped)
        /\ RootsAreValues(Popped) /\ Recorded(Popped)
        /\ Popped.space = vm.space /\ Popped.mem = vm.mem /\ Popped.roots = vm.roots
        /\ Suspended(Popped.stack, Outer) /\ Len(Outer) \in Nat
        /\ Caller.prev = Len(Outer) /\ Value(vm.space, vm.mem, x)
    BY <1>1, AtStop
  <1>3. /\ Recorded(v) /\ v.space = Popped.space /\ v.mem = Popped.mem /\ v.globals = Popped.globals
        /\ v.stack = Popped.stack /\ v.env = Popped.env /\ v.val = Popped.val /\ v.exc = Null
        /\ v.roots = Popped.roots
    BY <1>2 DEF Recorded, Fields
  <1> HIDE DEF v
  <1>4. MachineOK(prog, v)
    <2>1. Registers(Popped, Popped.mem)
      BY <1>2, MachineParts
    <2>2. Registers(v, v.mem)
      BY <1>2, <1>3, <2>1 DEF Registers, Maybe
    <2> QED BY <1>2, <1>3, <2>2, Reregistered
  <1>5. RootsAreValues(v) /\ Value(v.space, v.mem, x) /\ Suspended(v.stack, Outer) /\ gcs' \in Nat
        /\ Len(Outer) = 0 /\ ~ (Len(Outer) > 0) /\ Launch(v.stack, Outer, Len(v.roots), c, 0)
    BY <1>1, <1>2, <1>3 DEF RootsAreValues, Launch
  <1> HIDE DEF c, e, x
  <1>6. MachineInv' /\ vm'.mem = v.mem
    BY <1>1, <1>2, <1>4, <1>5, Started
  <1> QED BY <1>2, <1>3, <1>6 DEF Stays

-----------------------------------------------------------------------------
(* The globals, and the start of a program.                                *)

NextGlobal(bodies, j, v) ==
    LET a == IF DirectGlobal(bodies[j]) THEN Atom(v, v.mem, bodies[j], Null)
             ELSE [mem |-> Append(v.mem, Thing("THUNK", bodies[j], <<Null>>)), p |-> NewPtr(v, v.mem)]
    IN  [v EXCEPT !.mem = a.mem, !.globals = Append(@, a.p)]

GlobalLoop(bodies, n, f) ==
    /\ f[0] = Blank
    /\ \A i \in 1 .. n : f[i] = NextGlobal(bodies, i, f[i - 1])
    /\ Globals(bodies, n) = f[n]

\* The globals, one after the other.
LEMMA GlobalsSteps ==
  ASSUME NEW bodies, NEW n \in Nat
  PROVE  \E f : GlobalLoop(bodies, n, f)
  <1> DEFINE x0 == Blank
             Step(i, x) == NextGlobal(bodies, i, x)
             Is(f, d) == f = [i \in 0 .. d |-> IF i = 0 THEN x0 ELSE Step(i, f[i - 1])]
             F == CHOOSE f : Is(f, n)
             S == {k \in Nat : \E f : Is(f, k)}
  <1>0. Globals(bodies, n) = F[n]
    BY DEF Globals, NextGlobal
  <1>s. \A i, x : Step(i, x) = NextGlobal(bodies, i, x)
    OBVIOUS
  <1>x. x0 = Blank
    OBVIOUS
  <1> HIDE DEF Step, x0
  <1>1. 0 \in S
    <2>1. Is([i \in 0 .. 0 |-> x0], 0)
      OBVIOUS
    <2> QED BY <2>1
  <1>2. ASSUME NEW k \in Nat, k \in S PROVE k + 1 \in S
    <2>1. PICK f : Is(f, k)
      BY <1>2
    <2> DEFINE g == [i \in 0 .. k + 1 |-> IF i = k + 1 THEN Step(k + 1, f[k]) ELSE f[i]]
    <2>2. \A i \in 0 .. k : g[i] = f[i] /\ f[i] = IF i = 0 THEN x0 ELSE Step(i, f[i - 1])
      BY <2>1
    <2>3. g[k + 1] = Step(k + 1, g[k])
      BY <2>2
    <2>4. g = [i \in 0 .. k + 1 |-> g[i]]
      OBVIOUS
    <2> HIDE DEF g
    <2>5. ASSUME NEW i \in 0 .. k + 1 PROVE g[i] = IF i = 0 THEN x0 ELSE Step(i, g[i - 1])
      <3>1. CASE i = k + 1
        <4>1. i # 0 /\ i - 1 = k
          BY <3>1
        <4> QED BY <2>3, <3>1, <4>1
      <3>2. CASE i \in 0 .. k
        <4>1. i # 0 => i - 1 \in 0 .. k
          BY <3>2
        <4> QED BY <2>2, <3>2, <4>1
      <3> QED BY <3>1, <3>2
    <2>6. Is(g, k + 1)
      BY <2>4, <2>5
    <2> QED BY <2>6
  <1>3. n \in S
    <2> HIDE DEF S
    <2>1. n \in Nat
      OBVIOUS
    <2> QED BY <1>1, <1>2, <2>1, SetInduction
  <1>4. Is(F, n)
    BY <1>3
  <1> HIDE DEF F
  <1>5. F[0] = x0 /\ \A i \in 1 .. n : F[i] = Step(i, F[i - 1])
    <2>1. n \in Nat
      OBVIOUS
    <2> QED BY <1>4, <2>1
  <1> QED BY <1>0, <1>5, <1>s, <1>x DEF GlobalLoop

\* The machine when i globals are made.
GlobalsOK(pg, i, v) ==
    /\ Recorded(v) /\ v.space = "A" /\ v.stack = <<>> /\ v.roots = <<>>
    /\ v.env = Null /\ v.val = Null /\ v.exc = Null
    /\ HeapOK(pg, "A", v.mem, {}) /\ BlackHoles(v.mem) = {}
    /\ IsList(v.globals) /\ Len(v.globals) = i
    /\ \A j \in 1 .. i : Value("A", v.mem, v.globals[j])

\* A thunk of code that runs in no environment.
LEMMA ThunkMade ==
  ASSUME NEW pg \in Program, NEW sp, NEW m, HeapOK(pg, sp, m, {}), NEW e, <<e, <<>>>> \in Code[pg]
  PROVE  LET n == Append(m, Thing("THUNK", e, <<Null>>))
             p == <<sp, Len(m) + 1>>
         IN  /\ HeapOK(pg, sp, n, {}) /\ Extends(m, n) /\ BlackHoles(n) = BlackHoles(m) /\ Value(sp, n, p)
  <1> DEFINE s == <<Null>>
             o == Thing("THUNK", e, s)
             t == <<>>
  <1>1. IsList(s) /\ Len(s) = 1 /\ s[1] = Null
    BY OneList
  <1> HIDE DEF s
  <1>2. o.kind = "THUNK" /\ o.code = e /\ o.ptr = s /\ o = Thing(o.kind, o.code, o.ptr)
    BY DEF Thing
  <1> HIDE DEF o
  <1>3. EnvFits(sp, m, Null, t) /\ <<e, t>> \in Code[pg]
    BY DEF EnvFits
  <1> HIDE DEF t
  <1>4. Fits(pg, sp, m, e, Null)
    BY <1>3, FitsIn
  <1>5. Good(pg, sp, m, o)
    BY <1>1, <1>2, <1>4 DEF Good
  <1> QED BY <1>2, <1>5, HeapAppended DEF o, s

\* The globals are made one after the other.
LEMMA GlobalMade ==
  ASSUME NEW pg \in Program, NEW bodies, NEW i \in Nat, NEW v, GlobalsOK(pg, i, v),
         <<bodies[i + 1], <<>>>> \in Code[pg]
  PROVE  GlobalsOK(pg, i + 1, NextGlobal(bodies, i + 1, v))
  <1> DEFINE e == bodies[i + 1]
             m == v.mem
             a == IF DirectGlobal(e) THEN Atom(v, m, e, Null)
                  ELSE [mem |-> Append(m, Thing("THUNK", e, <<Null>>)), p |-> NewPtr(v, m)]
             h == a.mem
             q == a.p
             u == [v EXCEPT !.mem = h, !.globals = Append(v.globals, q)]
             s == <<>>
  <1>1. NextGlobal(bodies, i + 1, v) = u
    BY DEF NextGlobal
  <1>2. /\ Recorded(v) /\ v.space = "A" /\ v.stack = <<>> /\ v.roots = <<>>
        /\ v.env = Null /\ v.val = Null /\ v.exc = Null
        /\ HeapOK(pg, v.space, m, {}) /\ BlackHoles(m) = {}
        /\ IsList(v.globals) /\ Len(v.globals) = i
        /\ \A j \in 1 .. i : Value("A", m, v.globals[j])
    BY DEF GlobalsOK
  <1> HIDE DEF e
  <1>3. HeapOK(pg, v.space, h, {}) /\ Extends(m, h) /\ BlackHoles(h) = BlackHoles(m) /\ Value(v.space, h, q)
    <2>1. CASE DirectGlobal(e)
      <3>1. e.k # "VAR" /\ e.k # "GLOBAL" /\ Arguments(e) = {}
        BY <2>1 DEF DirectGlobal, Arguments, ToSet
      <3>2. Parts(e) = {e}
        BY <3>1, PartsAlone
      <3>3. <<e, s>> \in Code[pg] /\ EnvFits(v.space, m, Null, s)
        BY DEF e, EnvFits
      <3> HIDE DEF s
      <3>4. AtomReady(pg, v, m, e, Null, s)
        BY <3>1, <3>2, <3>3 DEF AtomReady, Ready
      <3>5. a = Atom(v, m, e, Null)
        BY <2>1
      <3>6. LET r == Atom(v, m, e, Null)
            IN  /\ HeapOK(pg, v.space, r.mem, {}) /\ Extends(m, r.mem) /\ Later(m, r.mem)
                /\ BlackHoles(r.mem) = BlackHoles(m)
                /\ Value(v.space, r.mem, r.p)
        <4> HIDE DEF a, m
        <4> QED BY <1>2, <3>3, <3>4, AtomMade
      <3> HIDE DEF a, m
      <3> QED BY <3>5, <3>6
    <2>2. CASE ~ DirectGlobal(e)
      <3>1. h = Append(m, Thing("THUNK", e, <<Null>>)) /\ q = <<v.space, Len(m) + 1>>
        BY <2>2 DEF NewPtr
      <3> HIDE DEF a, m
      <3>2. LET n == Append(m, Thing("THUNK", e, <<Null>>))
                p == <<v.space, Len(m) + 1>>
            IN  /\ HeapOK(pg, v.space, n, {}) /\ Extends(m, n) /\ BlackHoles(n) = BlackHoles(m)
                /\ Value(v.space, n, p)
        BY <1>2, ThunkMade DEF e
      <3> QED BY <3>1, <3>2
    <2> QED BY <2>1, <2>2
  <1> HIDE DEF h, q
  <1> DEFINE g == Append(v.globals, q)
  <1>4. /\ Recorded(u) /\ u.space = v.space /\ u.stack = v.stack /\ u.roots = v.roots
        /\ u.env = v.env /\ u.val = v.val /\ u.exc = v.exc /\ u.mem = h /\ u.globals = g
    <2> HIDE DEF g
    <2>1. u = [v EXCEPT !.mem = h, !.globals = g]
      BY DEF g
    <2> HIDE DEF u
    <2> QED BY <1>2, <2>1 DEF Recorded, Fields
  <1> HIDE DEF u, m
  <1>5. /\ IsList(g) /\ Len(g) = i + 1 /\ g[i + 1] = q /\ \A j \in 1 .. i : g[j] = v.globals[j]
    BY <1>2, ListAppend
  <1>6. Later(m, h)
    BY <1>3, ExtendsLater
  <1> HIDE DEF g
  <1>7. ASSUME NEW j \in 1 .. i + 1 PROVE Value("A", h, g[j])
    <2>1. j \in 1 .. i \/ j = i + 1
      OBVIOUS
    <2>2. CASE j \in 1 .. i
      BY <1>2, <1>5, <1>6, <2>2, ValueLater
    <2>3. CASE j = i + 1
      BY <1>2, <1>3, <1>5, <2>3
    <2> QED BY <2>1, <2>2, <2>3
  <1>8. GlobalsOK(pg, i + 1, u)
    BY <1>2, <1>3, <1>4, <1>5, <1>7 DEF GlobalsOK
  <1> QED BY <1>1, <1>8

LEMMA GlobalsMade ==
  ASSUME NEW pg \in Program
  PROVE  GlobalsOK(pg, Len(pg.globals), Globals(pg.globals, Len(pg.globals)))
  <1> DEFINE b == pg.globals
             n == Len(b)
  <1>1. IsList(b) /\ \A g \in DOMAIN b : <<b[g], <<>>>> \in Code[pg]
    BY CodeAssumption
  <1>2. n \in Nat /\ DOMAIN b = 1 .. n
    BY <1>1, ListFacts
  <1> HIDE DEF b, n
  <1>3. PICK f : GlobalLoop(b, n, f)
    BY <1>2, GlobalsSteps
  <1> DEFINE S == {k \in Nat : k <= n => GlobalsOK(pg, k, f[k])}
  <1>4. 0 \in S
    <2>1. /\ Recorded(Blank) /\ Blank.space = "A" /\ Blank.stack = <<>> /\ Blank.roots = <<>>
          /\ Blank.env = Null /\ Blank.val = Null /\ Blank.exc = Null /\ Blank.mem = <<>> /\ Blank.globals = <<>>
      BY DEF Blank, Recorded, Fields
    <2>2. HeapOK(pg, "A", <<>>, {}) /\ BlackHoles(<<>>) = {} /\ IsList(<<>>) /\ Len(<<>>) = 0 /\ 1 .. 0 = {}
      BY EmptyList DEF HeapOK, BlackHoles
    <2>3. GlobalsOK(pg, 0, Blank)
      BY <2>1, <2>2 DEF GlobalsOK
    <2>4. f[0] = Blank
      BY <1>3 DEF GlobalLoop
    <2> QED BY <2>3, <2>4
  <1>5. ASSUME NEW k \in Nat, k \in S PROVE k + 1 \in S
    <2> SUFFICES ASSUME k + 1 <= n PROVE GlobalsOK(pg, k + 1, f[k + 1])
      OBVIOUS
    <2>1. k <= n /\ k + 1 \in 1 .. n /\ k + 1 - 1 = k
      BY <1>2
    <2>2. GlobalsOK(pg, k, f[k])
      BY <1>5, <2>1
    <2>3. f[k + 1] = NextGlobal(b, k + 1, f[k])
      BY <1>3, <2>1 DEF GlobalLoop
    <2>4. <<b[k + 1], <<>>>> \in Code[pg]
      BY <1>1, <1>2, <2>1
    <2> HIDE DEF S
    <2> QED BY <2>2, <2>3, <2>4, GlobalMade
  <1>6. n \in S
    <2> HIDE DEF S
    <2> QED BY <1>2, <1>4, <1>5, SetInduction
  <1>7. GlobalsOK(pg, n, f[n])
    BY <1>2, <1>6
  <1>8. Globals(b, n) = f[n]
    BY <1>3 DEF GlobalLoop
  <1> QED BY <1>7, <1>8 DEF b, n

\* The machine starts.
LEMMA InitKeeps ==
  ASSUME Init
  PROVE  MachineInv
  <1> DEFINE g == prog.globals
             n == Len(g)
             v == Globals(g, n)
             m == v.mem
             h == Append(m, Thing("THUNK", prog.main, <<Null>>))
             p == NewPtr(v, m)
             w == [v EXCEPT !.mem = h]
             r == [base |-> 0, prev |-> 0, roots |-> 0, caller |-> "main", at |-> 0, out |-> <<>>]
             e == <<>>
  <1>1. /\ prog \in Program /\ vm = [v EXCEPT !.mem = Append(@, Thing("THUNK", prog.main, <<Null>>)), !.stack = <<Stop>>]
        /\ pc = "enter" /\ obj = p /\ runs = <<r>> /\ jump = 1 /\ gcs = 0
    BY DEF Init, Start
  <1>2. GlobalsOK(prog, n, v)
    BY <1>1, GlobalsMade
  <1>3. <<prog.main, <<>>>> \in Code[prog] /\ IsList(g)
    BY <1>1, CodeAssumption
  <1>4. n \in Nat /\ DOMAIN g = 1 .. n
    BY <1>3, ListFacts
  <1> HIDE DEF v, n
  <1>5. /\ Recorded(v) /\ v.space = "A" /\ v.stack = e /\ v.roots = e
        /\ v.env = Null /\ v.val = Null /\ v.exc = Null
        /\ HeapOK(prog, v.space, m, {}) /\ BlackHoles(m) = {}
        /\ IsList(v.globals) /\ Len(v.globals) = n
        /\ \A j \in 1 .. n : Value("A", m, v.globals[j])
    BY <1>2 DEF GlobalsOK
  <1>6. HeapOK(prog, v.space, h, {}) /\ Extends(m, h) /\ BlackHoles(h) = BlackHoles(m) /\ Value(v.space, h, p)
    <2> HIDE DEF m
    <2>1. LET z == Append(m, Thing("THUNK", prog.main, <<Null>>))
              q == <<v.space, Len(m) + 1>>
          IN  /\ HeapOK(prog, v.space, z, {}) /\ Extends(m, z) /\ BlackHoles(z) = BlackHoles(m)
              /\ Value(v.space, z, q)
      BY <1>1, <1>3, <1>5, ThunkMade
    <2> QED BY <2>1 DEF NewPtr
  <1>7. Later(m, h)
    BY <1>6, ExtendsLater
  <1>8. IsList(e) /\ Len(e) = 0 /\ DOMAIN e = {} /\ 1 .. 0 = {}
    BY EmptyList
  <1> DEFINE c == Append(e, Stop)
             d == Append(e, r)
             u == [w EXCEPT !.stack = Append(@, Stop)]
  <1>9. <<Stop>> = c /\ <<r>> = d
    <2> HIDE DEF r
    <2> QED OBVIOUS
  <1> HIDE DEF h, p
  <1>10. /\ Recorded(w) /\ w.space = v.space /\ w.mem = h /\ w.globals = v.globals /\ w.stack = e /\ w.roots = e
         /\ w.env = Null /\ w.val = Null /\ w.exc = Null
    BY <1>5 DEF Recorded, Fields
  <1>11. vm = u
    <2> HIDE DEF c
    <2>1. vm = [v EXCEPT !.mem = h, !.stack = c]
      BY <1>1, <1>9 DEF h
    <2>2. u = [w EXCEPT !.stack = c]
      BY <1>10 DEF c
    <2> HIDE DEF u
    <2>3. [w EXCEPT !.stack = c] = [v EXCEPT !.mem = h, !.stack = c]
      BY <1>5 DEF Recorded, Fields
    <2> QED BY <2>1, <2>2, <2>3
  <1> HIDE DEF w, u, m, c, d
  <1>12. MachineOK(prog, w)
    <2>1. Shape(w)
      <3>1. w = [space |-> w.space, mem |-> w.mem, globals |-> w.globals, stack |-> w.stack,
                 env |-> w.env, val |-> w.val, exc |-> w.exc, roots |-> w.roots]
        <4>1. IsMachine(w, w)
          BY <1>10, RecordedMachine
        <4> QED BY <4>1 DEF IsMachine
      <3> QED BY <1>5, <1>6, <1>8, <1>10, <3>1 DEF Shape, Spaces, HeapOK
    <2>2. \A i \in DOMAIN w.mem : Good(prog, w.space, w.mem, w.mem[i])
      BY <1>6, <1>10 DEF HeapOK
    <2>3. DOMAIN w.globals = DOMAIN g
      BY <1>4, <1>5, <1>10, ListFacts
    <2>4. \A i \in DOMAIN w.globals : Value(w.space, w.mem, w.globals[i])
      BY <1>4, <1>5, <1>7, <1>10, <2>3, ValueLater
    <2>5. HolesMatch(w.space, w.mem, w.stack)
      <3>1. Updates(w.stack) = {}
        BY <1>8, <1>10 DEF Updates
      <3>2. \A k \in DOMAIN w.mem : w.mem[k].kind # "BLACKHOLE"
        BY <1>5, <1>6, <1>10 DEF BlackHoles
      <3> QED BY <3>1, <3>2 DEF HolesMatch
    <2>6. /\ \A i \in DOMAIN w.stack : FrameOK(prog, w.space, w.mem, w.stack[i])
          /\ \A i \in DOMAIN w.roots : Maybe(w.space, w.mem, w.roots[i])
          /\ Maybe(w.space, w.mem, w.val) /\ Maybe(w.space, w.mem, w.exc)
      BY <1>8, <1>10 DEF Maybe
    <2> QED BY <1>10, <2>1, <2>2, <2>3, <2>4, <2>5, <2>6 DEF MachineOK
  <1>13. /\ MachineOK(prog, u) /\ u.space = w.space /\ u.mem = w.mem /\ u.stack = Append(w.stack, Stop)
         /\ u.roots = w.roots
    BY <1>1, <1>12, StopPushed DEF u
  <1>14. RunsOK(vm.stack, runs, jump, Len(vm.roots))
    <2>1. r.base = 0 /\ r.prev = 0 /\ r.roots = 0 /\ r.caller = "main" /\ r.at = 0
      OBVIOUS
    <2> HIDE DEF r
    <2>2. Suspended(e, e)
      BY <1>8 DEF Suspended, Stops
    <2>3. Launch(e, e, 0, r.caller, r.at) /\ r.prev = Len(e) /\ r.base = Len(e) /\ ~ (Len(e) > 0)
      BY <1>8, <2>1 DEF Launch
    <2> HIDE DEF e
    <2>4. RunsOK(Append(e, Stop), Append(e, r), Len(e) + 1, 0)
      BY <1>8, <2>1, <2>2, <2>3, RunStarts
    <2>5. Len(e) + 1 = 1
      BY <1>8
    <2> QED BY <1>1, <1>8, <1>9, <1>10, <1>11, <1>13, <2>4, <2>5 DEF c, d
  <1>15. PcOK(prog, vm, pc, code, obj, todo)
    BY <1>1, <1>6, <1>10, <1>11, <1>13 DEF PcOK
  <1>16. \A i \in DOMAIN vm.roots : Value(vm.space, vm.mem, vm.roots[i])
    BY <1>8, <1>10, <1>11, <1>13
  <1> QED BY <1>1, <1>11, <1>13, <1>14, <1>15, <1>16 DEF MachineInv


-----------------------------------------------------------------------------
(* The theorems.                                                           *)

\* Every step keeps MachineInv, and the values.
LEMMA NextKeeps ==
  ASSUME MachineInv, Next
  PROVE  MachineInv' /\ Stays
  <1>1. CASE EvalStep
    BY <1>1, EvalVarKeeps, EvalGlobalKeeps, EvalLiteralKeeps, EvalAtomKeeps, EvalAppKeeps,
       PushArgKeeps, EvalFunKeeps, EvalLetKeeps, EvalCaseKeeps DEF EvalStep
  <1>2. CASE EnterStep
    BY <1>2, EnterIndKeeps, EnterThunkKeeps, EnterBlackholeKeeps, EnterEmptyStrKeeps,
       EnterStrKeeps, EnterValueKeeps DEF EnterStep
  <1>3. CASE RetStep
    BY <1>3, RetUpdateKeeps, NoAlternativeKeeps, RetCaseKeeps, NotAFunctionKeeps, RetPartialKeeps,
       RetApplyKeeps, RetPrimitiveKeeps, RetStrictKeeps, RetCatchKeeps DEF RetStep
  <1>4. CASE CallStep
    BY <1>4, CallIntAddKeeps, CallWhnfKeeps, CallCatchKeeps, CallRaiseKeeps, CallMutVarNewKeeps,
       CallMvarNewKeeps, CallMutVarReadKeeps, CallMutVarWriteKeeps, CallMvarTakeKeeps,
       CallMvarPutKeeps, BlockedKeeps, NotACellKeeps, CallFileSizeKeeps DEF CallStep
  <1>5. CASE ReturnStep
    BY <1>5, ReturnCellKeeps, ReturnHeadKeeps, ReturnMainKeeps, ReturnTokenKeeps, ReturnReportKeeps
       DEF ReturnStep
  <1>6. CASE UnwindStep
    BY <1>6, UnwindCatchKeeps, UnwindUpdateKeeps, UnwindFrameKeeps, UnwindRunKeeps, UnwindMainKeeps
       DEF UnwindStep
  <1> QED BY <1>1, <1>2, <1>3, <1>4, <1>5, <1>6 DEF Next

\* So does none.
LEMMA StutterKeeps ==
  ASSUME MachineInv, UNCHANGED vars
  PROVE  MachineInv'
  BY DEF MachineInv, vars, Running

\* Whatever the program and however often the collector runs, every object,
\* every frame and every register of the machine is one that its code expects
\* (the C code of src/eval.c reads fields of objects without a check).
THEOREM MachineInvariance == Spec => []MachineInv
  <1>1. Init => MachineInv
    BY InitKeeps
  <1>2. MachineInv /\ [Next]_vars => MachineInv'
    BY NextKeeps, StutterKeeps
  <1> QED BY <1>1, <1>2, PTL DEF Spec

\* Pointers lead to objects.
LEMMA InvariantNoStale ==
  ASSUME MachineInv
  PROVE  NoStale
  <1> DEFINE sp == vm.space
             m == vm.mem
  <1>1. prog \in Program /\ MachineOK(prog, vm) /\ sp \in Spaces
    BY MachineParts DEF MachineInv
  <1>2. \A p \in RootSet(vm) : Valid(p)
    BY <1>1, MachineCollectable DEF Valid
  <1>3. \A i \in DOMAIN m : \A k \in DOMAIN m[i].ptr : Valid(m[i].ptr[k])
    <2> SUFFICES ASSUME NEW i \in DOMAIN m, NEW k \in DOMAIN m[i].ptr
                 PROVE  Valid(m[i].ptr[k])
      OBVIOUS
    <2>1. Good(prog, sp, m, m[i])
      BY <1>1 DEF MachineOK
    <2> QED BY <1>1, <2>1, ObjectPointers DEF Valid, OnHeap
  <1>4. ASSUME pc = "enter", Running
        PROVE  Valid(obj) /\ obj # Null /\ Obj(vm, obj).kind # "ENV"
    <2>1. Value(sp, m, obj)
      BY <1>4 DEF MachineInv, PcOK
    <2>2. Valid(obj)
      BY <1>1, <2>1, PointersHere DEF Valid, OnHeap
    <2>3. obj # Null
      BY <1>1, <2>1, NullIsNoValue
    <2>4. StaticValue(obj) => Thing(obj[1], obj[2], <<>>).kind # "ENV"
      BY DEF StaticValue, Thing
    <2> QED BY <1>1, <2>1, <2>2, <2>3, <2>4, ValueObject
  <1> QED BY <1>2, <1>3, <1>4 DEF NoStale

\* No pointer outlives a collection unless it is a root, and what the machine
\* enters is an object: across every reservation and every nested run, the
\* machine and its primitives keep what they use on the stack, in a register or
\* registered (the rules at the top of src/eval.c).
THEOREM NothingStale == Spec => []NoStale
  <1>1. MachineInv => NoStale
    BY InvariantNoStale
  <1> QED BY <1>1, MachineInvariance, PTL

\* Update frames and black holes are the same.
LEMMA InvariantFrames ==
  ASSUME MachineInv
  PROVE  UpdateFramesMatch
  <1> DEFINE s == vm.stack
             m == vm.mem
             F == {i \in DOMAIN s : s[i].kind = "UPDATE"}
  <1>1. /\ MachineOK(prog, vm) /\ F = Updates(s)
        /\ \A i \in DOMAIN s : FrameOK(prog, vm.space, m, s[i])
        /\ HolesMatch(vm.space, m, s) /\ vm.space \in Spaces
    BY DEF MachineInv, MachineOK, Shape, Updates
  <1>2. ASSUME NEW i \in F
        PROVE  Obj(vm, s[i].a).kind = "BLACKHOLE"
    <2>1. At(vm.space, m, s[i].a)
      BY <1>1, <1>2 DEF FrameOK
    <2>2. Obj(vm, s[i].a) = m[s[i].a[2]]
      BY <1>1, <2>1 DEF At, Obj, OnHeap
    <2> QED BY <1>1, <1>2, <2>2 DEF HolesMatch
  <1>3. /\ \A i, j \in F : s[i].a = s[j].a => i = j
        /\ \A k \in DOMAIN m : m[k].kind = "BLACKHOLE" => \E i \in F : s[i].a = <<vm.space, k>>
    BY <1>1 DEF HolesMatch
  <1> QED BY <1>2, <1>3 DEF UpdateFramesMatch

\* Runs nest.
LEMMA InvariantRuns ==
  ASSUME MachineInv
  PROVE  RunsNest
  <1> SUFFICES ASSUME Running
               PROVE  /\ jump = Len(runs) /\ jump > 0
                      /\ \A i \in DOMAIN runs : runs[i].prev = i - 1
                      /\ {i \in DOMAIN vm.stack : vm.stack[i].kind = "STOP"} = {runs[i].base + 1 : i \in DOMAIN runs}
                      /\ \A i \in 1 .. Len(runs) - 1 : runs[i].base < runs[i + 1].base
                      /\ Len(vm.roots) = Caller.roots
    BY DEF RunsNest
  <1>1. RunsOK(vm.stack, runs, jump, Len(vm.roots))
    BY DEF MachineInv
  <1>2. Len(runs) \in Nat /\ DOMAIN runs = 1 .. Len(runs)
    BY <1>1, ListFacts DEF RunsOK
  <1>3. /\ jump = Len(runs) /\ jump > 0
        /\ \A i \in DOMAIN runs : runs[i].prev = i - 1
        /\ Len(vm.roots) = Caller.roots
    BY <1>1 DEF RunsOK, RunOK, Caller
  <1>4. {i \in DOMAIN vm.stack : vm.stack[i].kind = "STOP"} = {runs[i].base + 1 : i \in DOMAIN runs}
    BY <1>1 DEF RunsOK, Stops
  <1>5. \A i \in 1 .. Len(runs) - 1 : runs[i].base < runs[i + 1].base
    <2> SUFFICES ASSUME NEW i \in 1 .. Len(runs) - 1
                 PROVE  runs[i].base < runs[i + 1].base
      OBVIOUS
    <2>1. i \in DOMAIN runs /\ i + 1 \in DOMAIN runs /\ i < i + 1
      BY <1>2
    <2> QED BY <1>1, <2>1 DEF RunsOK
  <1> QED BY <1>3, <1>4, <1>5

\* A thunk is a black hole exactly while one update frame waits for its value,
\* and the runs that C code waits for nest: each has its stop frame, and a raise
\* jumps to the innermost one (eval_run, raise_exception and the loop of run()).
THEOREM StackIsConsistent == Spec => []StackConsistent
  <1>1. MachineInv => StackConsistent
    BY InvariantFrames, InvariantRuns DEF StackConsistent
  <1> QED BY <1>1, MachineInvariance, PTL

\* A step that makes no collection changes no object other than thunks, packed
\* strings, mutable cells and the argument block of a primitive.
THEOREM ValuesAreKept == Spec => ValuesStay
  <1>1. MachineInv /\ [Next]_vars
        => [gcs' = gcs => \A i \in DOMAIN vm.mem : Changes(i) \/ vm'.mem[i] = vm.mem[i]]_vars
    BY NextKeeps DEF Stays
  <1> QED BY <1>1, MachineInvariance, PTL DEF Spec, ValuesStay
=============================================================================
