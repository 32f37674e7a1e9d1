------------------------------ MODULE Machine ------------------------------
(***************************************************************************)
(* The lazy graph reducer of src/eval.c: machine(), run(), unwind() and    *)
(* the primitives that show what they must cope with - strict arguments,   *)
(* exceptions, mutable cells, and C code that evaluates a Haskell string   *)
(* by running the machine again (force_string).                            *)
(*                                                                         *)
(* The labels eval, enter and ret of machine() are values of pc, and an    *)
(* action is what the code does from one of them to the next goto.  A      *)
(* collection may happen in every reserve(): the size of the heap is not   *)
(* modelled, so the room a reservation leaves is exactly what it asked for.*)
(* `runs` is the C stack: the calls of run() that have not returned, each  *)
(* with its caller.                                                        *)
(***************************************************************************)
EXTENDS Objects

CONSTANTS
    Program,   \* records [main, globals]: an expression and the bodies it names
    Code,      \* the expressions of a program, each with its scope
    ConArity,  \* constructors, and how many fields each has
    MaxGC      \* bound: how many collections happen in a behaviour

VARIABLES
    prog,    \* the program being run
    vm,      \* the heap, the stack, the registers and the registered locals
    pc,      \* the label of machine(), or where unwind() or a C caller is
    code,    \* the expression being evaluated
    obj,     \* the object being entered
    todo,    \* CORE_APP: how many arguments are still to be pushed
    runs,    \* the active calls of run(): [base, prev, roots, caller, at, out]
    jump,    \* cur_jump: which of them a raise jumps to; 0 is none
    room,    \* the words of the last reservation that are not used yet
    gcs,     \* how many collections happened (a history counter)
    status   \* "running", or how the program ended

vars == <<prog, vm, pc, code, obj, todo, runs, jump, room, gcs, status>>
control == <<prog, code, obj, todo>>

Stop == Frame("STOP", Null, Null, <<>>, 0)
Arg(p) == Frame("ARG", p, Null, <<>>, 0)

Top(s) == s[Len(s)]
Pop(s, n) == SubSeq(s, 1, Len(s) - n)
FrameFromTop(s, i) == s[Len(s) - i]

Running == status = "running"
Eval(k) == Running /\ pc = "eval" /\ code.k = k
EnterKind(k) == Running /\ pc = "enter" /\ Obj(vm, obj).kind = k
Ret(k) == Running /\ pc = "ret" /\ Top(vm.stack).kind = k

-----------------------------------------------------------------------------
(* Steps that several handlers share.                                      *)

\* reserve(n): what it leaves.  Any reservation of room may have to collect.
Reserved(n, v) == {v} \cup (IF n > 0 /\ gcs < MaxGC THEN Collections(v) ELSE {})

\* w is v after the reservation of n words, mem the objects after the
\* allocations it was for.
Uses(n, w, mem) ==
    /\ room' = n - WordsSince(w, mem)
    /\ gcs' = IF w.space = vm.space THEN gcs ELSE gcs + 1

GotoEnter(p) == pc' = "enter" /\ obj' = p
GotoEval(e) == pc' = "eval" /\ code' = e
GotoRet == pc' = "ret"

End(s) == status' = s

\* run(start), called from C: a new stop frame, and a new target of a raise.
\* v is the machine when it starts, before the runs in rs.
StartRun(v, rs, prev, start, caller, at, out) ==
    /\ vm' = [v EXCEPT !.stack = Append(@, Stop)]
    /\ runs' = Append(rs, [base |-> Len(v.stack), prev |-> prev, roots |-> Len(v.roots),
                           caller |-> caller, at |-> at, out |-> out])
    /\ jump' = Len(rs) + 1
    /\ GotoEnter(start)

\* call_prim(): the frame of a primitive stays on the stack while it runs,
\* below what the primitive pushes.  The one at `at` returns p in the machine v.
ReturnAt(v, at, p) ==
    /\ vm' = [v EXCEPT !.stack = RemoveAt(@, at)]
    /\ GotoEnter(p)

\* It returns io_result(x): x survives the reservation as a root.
IoResult(v, x, at) ==
    \E w \in Reserved(4, [v EXCEPT !.roots = Append(@, x)]) :
        LET mem == Append(w.mem, Thing("CON", "IoRes", <<Unit, Top(w.roots)>>))
        IN  /\ Uses(4, w, mem)
            /\ ReturnAt([w EXCEPT !.mem = mem, !.roots = Pop(@, 1)], at, NewPtr(w, w.mem))

-----------------------------------------------------------------------------
(* eval                                                                    *)

EvalVar ==
    /\ Eval("VAR")
    /\ GotoEnter(Lookup(vm.mem, code, vm.env))
    /\ UNCHANGED <<prog, vm, code, todo, runs, jump, room, gcs, status>>

\* A global is an object made at the start, or a primitive.
EvalGlobal ==
    /\ Eval("GLOBAL") \/ Eval("PRIM")
    /\ GotoEnter(IF code.k = "PRIM" THEN PrimObject(code.f) ELSE vm.globals[code.g])
    /\ UNCHANGED <<prog, vm, code, todo, runs, jump, room, gcs, status>>

\* A literal goes to ret; make_int() reserves only when it allocates.
EvalLiteral ==
    /\ Running /\ pc = "eval" /\ code.k \in {"INT", "CHAR"}
    /\ LET static == IF code.k = "INT" THEN code.n \in SmallInt ELSE code.n \in SmallChar
           n == IF static THEN 0 ELSE 2
       IN  \E w \in Reserved(n, vm) :
              LET b == Boxed(w, w.mem, code.k, code.n, static)
              IN  /\ vm' = [w EXCEPT !.mem = b.mem, !.val = b.p]
                  /\ Uses(n, w, b.mem)
    /\ GotoRet
    /\ UNCHANGED <<control, runs, jump, status>>

EvalAtom ==
    /\ Running /\ pc = "eval" /\ code.k \in {"STR", "LAM", "CON"}
    /\ \E w \in Reserved(AtomSize(code), vm) :
          LET a == Atom(w, w.mem, code, w.env)
          IN  /\ vm' = [w EXCEPT !.mem = a.mem]
              /\ Uses(AtomSize(code), w, a.mem)
              /\ GotoEnter(a.p)
    /\ UNCHANGED <<prog, code, todo, runs, jump, status>>

EvalApp ==
    /\ Eval("APP")
    /\ todo' = Len(code.args)
    /\ pc' = "args"
    /\ UNCHANGED <<prog, vm, code, obj, runs, jump, room, gcs, status>>

\* The arguments are pushed from the last to the first, each with a
\* reservation of its own.
PushArg ==
    /\ Running /\ pc = "args" /\ todo > 0
    /\ \E w \in Reserved(AtomSize(code.args[todo]), vm) :
          LET a == Atom(w, w.mem, code.args[todo], w.env)
          IN  /\ vm' = [w EXCEPT !.mem = a.mem, !.stack = Append(@, Arg(a.p))]
              /\ Uses(AtomSize(code.args[todo]), w, a.mem)
    /\ todo' = todo - 1
    /\ UNCHANGED <<prog, pc, code, obj, runs, jump, status>>

EvalFun ==
    /\ Running /\ pc = "args" /\ todo = 0
    /\ GotoEval(code.fun)
    /\ UNCHANGED <<prog, vm, obj, todo, runs, jump, room, gcs, status>>

\* One frame for the group, and its binders.
GroupSize(binds) == 2 + Len(binds) + Total([i \in DOMAIN binds |-> BindSize(binds[i])])

EvalLet ==
    /\ Eval("LET")
    /\ \E w \in Reserved(2, vm) :
          LET mem == Group(w, code.binds, Len(code.binds))
          IN  /\ vm' = [w EXCEPT !.mem = mem, !.env = NewPtr(w, w.mem)]
              /\ Uses(GroupSize(code.binds), w, mem)
    /\ GotoEval(code.body)
    /\ UNCHANGED <<prog, obj, todo, runs, jump, status>>

EvalCase ==
    /\ Eval("CASE")
    /\ vm' = [vm EXCEPT !.stack = Append(@, Frame("CASE", Null, vm.env, code, 0))]
    /\ GotoEval(code.scrut)
    /\ UNCHANGED <<prog, obj, todo, runs, jump, room, gcs, status>>

-----------------------------------------------------------------------------
(* enter                                                                   *)

EnterInd ==
    /\ EnterKind("IND")
    /\ GotoEnter(Obj(vm, obj).ptr[1])
    /\ UNCHANGED <<prog, vm, code, todo, runs, jump, room, gcs, status>>

EnterThunk ==
    /\ EnterKind("THUNK")
    /\ LET o == Obj(vm, obj)
       IN  /\ vm' = [vm EXCEPT !.stack = Append(@, Frame("UPDATE", obj, Null, <<>>, 0)),
                               !.env = o.ptr[1],
                               !.mem[obj[2]].kind = "BLACKHOLE"]
           /\ GotoEval(o.code)
    /\ UNCHANGED <<prog, obj, todo, runs, jump, room, gcs, status>>

EnterBlackhole ==
    /\ EnterKind("BLACKHOLE")
    /\ End("loop")
    /\ UNCHANGED <<control, vm, pc, runs, jump, room, gcs>>

\* A packed string yields its first cell and becomes an indirection to it.
EnterEmptyStr ==
    /\ EnterKind("STR") /\ Obj(vm, obj).code = <<>>
    /\ vm' = [vm EXCEPT !.mem[obj[2]] = Thing("IND", <<>>, <<Nil>>)]
    /\ GotoEnter(Nil)
    /\ UNCHANGED <<prog, code, todo, runs, jump, room, gcs, status>>

StrRoom == 2 + 3 + 3

EnterStr ==
    /\ EnterKind("STR") /\ Obj(vm, obj).code # <<>>
    /\ \E w \in Reserved(StrRoom, [vm EXCEPT !.roots = Append(@, obj)]) :
          LET o == Top(w.roots)
              s == Obj(w, o).code
              head == Boxed(w, w.mem, "CHAR", s[1], s[1] \in SmallChar)
              tail == Append(head.mem, Thing("STR", Tail(s), <<>>))
              mem == Append(tail, Thing("CON", "Cons", <<head.p, NewPtr(w, head.mem)>>))
              cell == NewPtr(w, tail)
          IN  /\ vm' = [w EXCEPT !.mem = [mem EXCEPT ![o[2]] = Thing("IND", <<>>, <<cell>>)],
                                 !.val = cell, !.roots = Pop(@, 1)]
              /\ Uses(StrRoom, w, mem)
    /\ GotoRet
    /\ UNCHANGED <<control, runs, jump, status>>

EnterValue ==
    /\ Running /\ pc = "enter"
    /\ Obj(vm, obj).kind \in {"INT", "CHAR", "CON", "FUN", "PAP", "PRIM"}
    /\ vm' = [vm EXCEPT !.val = obj]
    /\ GotoRet
    /\ UNCHANGED <<control, runs, jump, room, gcs, status>>

-----------------------------------------------------------------------------
(* ret                                                                     *)

\* A thunk's frame: the black hole becomes an indirection to the value.
RetUpdate ==
    /\ Ret("UPDATE")
    /\ vm' = [vm EXCEPT !.mem[Top(vm.stack).a[2]] = Thing("IND", <<>>, <<vm.val>>),
                        !.stack = Pop(@, 1)]
    /\ UNCHANGED <<control, pc, runs, jump, room, gcs, status>>

\* select_alt(): the first alternative that matches, else the first default.
Matches(a, o) ==
    \/ a.k = "CON" /\ o.kind = "CON" /\ a.c = o.code
    \/ a.k \in {"INT", "CHAR"} /\ o.kind = a.k /\ a.n = o.code

Selected(alts, o) ==
    LET hits == {i \in DOMAIN alts : Matches(alts[i], o)}
        dflt == {i \in DOMAIN alts : alts[i].k = "DEFAULT"}
        best == IF hits # {} THEN hits ELSE dflt
    IN  {alts[i] : i \in {j \in best : \A h \in best : j <= h}}

NoAlternative ==
    /\ Ret("CASE") /\ Selected(Top(vm.stack).code.alts, Obj(vm, vm.val)) = {}
    /\ End("error")
    /\ UNCHANGED <<control, vm, pc, runs, jump, room, gcs>>

Binds(alt) == alt.k = "CON" /\ alt.arity > 0

\* The fields of a constructor become a frame; reg_env keeps the
\* environment of the case across the reservation.
RetCase ==
    /\ Ret("CASE")
    /\ \E alt \in Selected(Top(vm.stack).code.alts, Obj(vm, vm.val)) :
          LET popped == [vm EXCEPT !.stack = Pop(@, 1), !.env = Top(vm.stack).b]
          IN  /\ GotoEval(alt.body)
              /\ IF Binds(alt)
                 THEN \E w \in Reserved(2 + alt.arity, popped) :
                        LET frame == Thing("ENV", <<>>, <<w.env>> \o Obj(w, w.val).ptr)
                            mem == Append(w.mem, frame)
                        IN  /\ vm' = [w EXCEPT !.mem = mem, !.env = NewPtr(w, w.mem)]
                            /\ Uses(2 + alt.arity, w, mem)
                 ELSE vm' = popped /\ UNCHANGED <<room, gcs>>
    /\ UNCHANGED <<prog, obj, todo, runs, jump, status>>

\* args_on_stack(): the frames above the first that is no K_ARG.
ArgsOnStack(s) ==
    LET ends == {i \in 0 .. Len(s) : i < Len(s) => FrameFromTop(s, i).kind # "ARG"}
    IN  CHOOSE i \in ends : \A j \in ends : i <= j

Arity == [intAdd |-> 2, whnf |-> 1, raise |-> 1, catch |-> 3, mutVarNew |-> 2,
          mutVarRead |-> 2, mutVarWrite |-> 3, mvarNew |-> 1, mvarTake |-> 2,
          mvarPut |-> 3, fileSize |-> 2]

StrictWithoutToken ==
    [f \in DOMAIN Arity |-> CASE f = "intAdd" -> {1, 2} [] f \in {"raise", "catch"} -> {} [] OTHER -> {1}]
\* The arguments that are evaluated before the call (the mask of the table).
Strict == [intAdd |-> {1, 2}, whnf |-> {1}, raise |-> {}, catch |-> {3}, mutVarNew |-> {2},
           mutVarRead |-> {1, 2}, mutVarWrite |-> {1, 3}, mvarNew |-> {1},
           mvarTake |-> {1, 2}, mvarPut |-> {1, 3}, fileSize |-> {2}]

\* A function value: the function itself and the arguments a partial
\* application already has.
Applied(v) ==
    LET o == Obj(v, v.val)
    IN  IF o.kind = "PAP" THEN [fun |-> o.ptr[1], args |-> Tail(o.ptr)]
        ELSE [fun |-> v.val, args |-> <<>>]

FunArity(o) == IF o.kind = "FUN" THEN o.code.arity ELSE Arity[o.code]

NotAFunction ==
    /\ Ret("ARG") /\ Obj(vm, Applied(vm).fun).kind \notin {"FUN", "PRIM"}
    /\ End("error")
    /\ UNCHANGED <<control, vm, pc, runs, jump, room, gcs>>

\* How many arguments the value on top of K_ARG frames has and needs.
Have == Len(Applied(vm).args)
Needed == FunArity(Obj(vm, Applied(vm).fun))
IsFunction == Obj(vm, Applied(vm).fun).kind \in {"FUN", "PRIM"}

\* The n arguments on top of the stack, the first on top.
TakeReversed(v, n) == [i \in 1 .. n |-> FrameFromTop(v.stack, n - i).a]
TakeArgs(v, n) == [i \in 1 .. n |-> FrameFromTop(v.stack, i - 1).a]

\* Too few arguments: a bigger partial application.
RetPartial ==
    LET avail == ArgsOnStack(vm.stack)
    IN  /\ Ret("ARG") /\ IsFunction
        /\ Have + avail < Needed
        /\ \E w \in Reserved(2, vm) :
              LET f == Applied(w)
                  mem == Append(w.mem, Thing("PAP", <<>>, <<f.fun>> \o f.args \o TakeArgs(w, avail)))
              IN  /\ vm' = [w EXCEPT !.mem = mem, !.stack = Pop(@, avail), !.val = NewPtr(w, w.mem)]
                  /\ Uses(2 + Len(f.args) + avail, w, mem)
        /\ UNCHANGED <<control, pc, runs, jump, status>>

\* A function: its arguments are the frame of its body.
RetApply ==
    LET taken == Needed - Have
    IN  /\ Ret("ARG") /\ IsFunction
        /\ taken <= ArgsOnStack(vm.stack)
        /\ Obj(vm, Applied(vm).fun).kind = "FUN"
        /\ \E w \in Reserved(2, vm) :
              LET f == Applied(w)
                  fun == Obj(w, f.fun)
                  mem == Append(w.mem, Thing("ENV", <<>>, fun.ptr \o f.args \o TakeArgs(w, taken)))
              IN  /\ vm' = [w EXCEPT !.mem = mem, !.stack = Pop(@, taken), !.env = NewPtr(w, w.mem)]
                  /\ Uses(2 + Needed, w, mem)
                  /\ GotoEval(fun.code.body)
        /\ UNCHANGED <<prog, obj, todo, runs, jump, status>>

\* The next strict argument from the i-th on; the arity when there is none.
NextStrict(f, i) ==
    LET later == {j \in Strict[f] : j >= i}
    IN  IF later = {} THEN Arity[f] + 1 ELSE CHOOSE j \in later : \A h \in later : j <= h

\* The machine evaluates argument j of the primitive, or calls it.
Evaluate(f, j, p) ==
    IF j <= Arity[f] THEN GotoEnter(p) ELSE pc' = "call" /\ UNCHANGED obj

\* A primitive: its arguments are collected, the strict ones evaluated.
RetPrimitive ==
    LET taken == Needed - Have
    IN  /\ Ret("ARG") /\ IsFunction
        /\ taken <= ArgsOnStack(vm.stack)
        /\ Obj(vm, Applied(vm).fun).kind = "PRIM"
        /\ \E w \in Reserved(2, vm) :
              LET f == Applied(w)
                  name == Obj(w, f.fun).code
                  args == f.args \o TakeArgs(w, taken)
                  mem == Append(w.mem, Thing("PAP", <<>>, <<f.fun>> \o args))
                  j == NextStrict(name, 1)
              IN  /\ vm' = [w EXCEPT !.mem = mem,
                                     !.stack = Append(Pop(@, taken),
                                                      Frame("PRIM", NewPtr(w, w.mem), Null, name, j))]
                  /\ Uses(2 + Needed, w, mem)
                  /\ Evaluate(name, j, IF j <= Needed THEN args[j] ELSE Null)
        /\ UNCHANGED <<prog, code, todo, runs, jump, status>>

\* An argument of a primitive is evaluated.
RetStrict ==
    LET f == Top(vm.stack)
        mem == [vm.mem EXCEPT ![f.a[2]].ptr[1 + f.n] = vm.val]
        j == NextStrict(f.code, f.n + 1)
    IN  /\ Ret("PRIM")
        /\ vm' = [vm EXCEPT !.mem = mem, !.stack[Len(vm.stack)].n = j]
        /\ Evaluate(f.code, j, IF j <= Arity[f.code] THEN mem[f.a[2]].ptr[1 + j] ELSE Null)
        /\ UNCHANGED <<prog, code, todo, runs, jump, room, gcs, status>>

\* The action under a handler finished without an exception.
RetCatch ==
    /\ Ret("CATCH")
    /\ vm' = [vm EXCEPT !.stack = Pop(@, 1)]
    /\ UNCHANGED <<control, pc, runs, jump, room, gcs, status>>

-----------------------------------------------------------------------------
(* The primitives.                                                         *)

Calls(f) == Running /\ pc = "call" /\ Top(vm.stack).code = f
CallArg(i) == vm.mem[Top(vm.stack).a[2]].ptr[1 + i]

Return(v, p) == ReturnAt(v, Len(vm.stack), p)

CallIntAdd ==
    /\ Calls("intAdd")
    /\ LET sum == Obj(vm, CallArg(1)).code + Obj(vm, CallArg(2)).code
           n == IF sum \in SmallInt THEN 0 ELSE 2
       IN  \E w \in Reserved(n, vm) :
              LET b == Boxed(w, w.mem, "INT", sum, sum \in SmallInt)
              IN  /\ Uses(n, w, b.mem)
                  /\ Return([w EXCEPT !.mem = b.mem], b.p)
    /\ UNCHANGED <<prog, code, todo, runs, jump, status>>

\* The argument, which the machine has evaluated: seq on one argument.
CallWhnf ==
    /\ Calls("whnf")
    /\ Return(vm, CallArg(1))
    /\ UNCHANGED <<prog, code, todo, runs, jump, room, gcs, status>>

\* The action runs under a K_CATCH frame, applied to the world.
CallCatch ==
    /\ Calls("catch")
    /\ LET handled == Frame("CATCH", CallArg(2), CallArg(3), <<>>, 0)
       IN  Return([vm EXCEPT !.stack = @ \o <<handled, Arg(CallArg(3))>>], CallArg(1))
    /\ UNCHANGED <<prog, code, todo, runs, jump, room, gcs, status>>

\* raise_exception(): longjmp to the innermost run, whose call of the machine
\* forgets the roots of the primitives it called.
CallRaise ==
    /\ Calls("raise")
    /\ vm' = [vm EXCEPT !.exc = CallArg(1), !.roots = SubSeq(@, 1, runs[jump].roots)]
    /\ runs' = SubSeq(runs, 1, jump)
    /\ pc' = "unwind"
    /\ UNCHANGED <<control, jump, room, gcs, status>>

\* A new mutable cell is a constructor with one field; new_cell() reserves,
\* then io_result() does.
CellRoom == 2

NewCell(con, x) ==
    \E w \in Reserved(CellRoom, [vm EXCEPT !.roots = Append(@, x)]) :
        LET mem == Append(w.mem, Thing("CON", con, <<Top(w.roots)>>))
            v == [w EXCEPT !.mem = mem, !.roots = Pop(@, 1)]
            kept == Append(v.roots, NewPtr(w, w.mem))
        IN  \E u \in Reserved(4, [v EXCEPT !.roots = kept]) :
               LET result == Append(u.mem, Thing("CON", "IoRes", <<Unit, Top(u.roots)>>))
                   left == CellRoom - WordsSince(w, mem)
                   spare == 4 - WordsSince(u, result)
               IN  /\ room' = IF left < spare THEN left ELSE spare
                   /\ gcs' = gcs + (IF w.space = vm.space THEN 0 ELSE 1)
                                 + (IF u.space = w.space THEN 0 ELSE 1)
                   /\ gcs' <= MaxGC
                   /\ Return([u EXCEPT !.mem = result, !.roots = Pop(@, 1)], NewPtr(u, u.mem))

CallMutVarNew ==
    /\ Calls("mutVarNew")
    /\ NewCell("MutVar", CallArg(1))
    /\ UNCHANGED <<prog, code, todo, runs, jump, status>>

CallMvarNew ==
    /\ Calls("mvarNew")
    /\ NewCell("MVar", Null)
    /\ UNCHANGED <<prog, code, todo, runs, jump, status>>

AnyConstructor(con) == Obj(vm, CallArg(1)).kind = "CON"
CellIs(con) == Obj(vm, CallArg(1)).kind = "CON" /\ Obj(vm, CallArg(1)).code = con
Content == Obj(vm, CallArg(1)).ptr[1]
SetContent(p) == [vm EXCEPT !.mem[CallArg(1)[2]].ptr[1] = p]

CallMutVarRead ==
    /\ Calls("mutVarRead") /\ CellIs("MutVar")
    /\ IoResult(vm, Content, Len(vm.stack))
    /\ UNCHANGED <<prog, code, todo, runs, jump, status>>

CallMutVarWrite ==
    /\ Calls("mutVarWrite") /\ CellIs("MutVar")
    /\ Return(SetContent(CallArg(2)), Unit)
    /\ UNCHANGED <<prog, code, todo, runs, jump, room, gcs, status>>

CallMvarTake ==
    /\ Calls("mvarTake") /\ CellIs("MVar") /\ Content # Null
    /\ IoResult(SetContent(Null), Content, Len(vm.stack))
    /\ UNCHANGED <<prog, code, todo, runs, jump, status>>

CallMvarPut ==
    /\ Calls("mvarPut") /\ CellIs("MVar") /\ Content = Null
    /\ Return(SetContent(CallArg(2)), Unit)
    /\ UNCHANGED <<prog, code, todo, runs, jump, room, gcs, status>>

\* There is one thread: an operation that would wait ends the program.
Blocked ==
    /\ \/ Calls("mvarTake") /\ CellIs("MVar") /\ Content = Null
       \/ Calls("mvarPut") /\ CellIs("MVar") /\ Content # Null
    /\ End("blocked")
    /\ UNCHANGED <<control, vm, pc, runs, jump, room, gcs>>

\* Anything else where a cell should be is an internal error.
NotACell ==
    /\ \/ (Calls("mutVarRead") \/ Calls("mutVarWrite")) /\ ~CellIs("MutVar")
       \/ (Calls("mvarTake") \/ Calls("mvarPut")) /\ ~CellIs("MVar")
    /\ End("error")
    /\ UNCHANGED <<control, vm, pc, runs, jump, room, gcs>>

\* force_string() starts: its list is a root, and a nested run evaluates it.
ForceString(v, rs, prev, list, at) ==
    StartRun([v EXCEPT !.roots = Append(@, list)], rs, prev, list, "cell", at, <<>>)

CallFileSize ==
    /\ Calls("fileSize")
    /\ ForceString(vm, runs, jump, CallArg(1), Len(vm.stack))
    /\ UNCHANGED <<prog, code, todo, room, gcs, status>>

-----------------------------------------------------------------------------
(* The return of a run to the C code that called it.                       *)

Caller == runs[Len(runs)]
Returns(c) == Ret("STOP") /\ Caller.caller = c

\* The machine and the C stack after the return.
Popped == [vm EXCEPT !.stack = Pop(@, 1)]
Outer == Pop(runs, 1)

\* The end of force_string(): the caller goes on with the string.
StringForced ==
    LET v == [Popped EXCEPT !.roots = Pop(@, 1)]
    IN  IF Caller.at = 0
        THEN /\ End("uncaught") /\ vm' = v
             /\ runs' = Outer /\ jump' = Caller.prev
             /\ UNCHANGED <<pc, obj, room, gcs>>
        ELSE /\ runs' = Outer /\ jump' = Caller.prev
             /\ IoResult(v, IntObject(Len(Caller.out)), Caller.at)
             /\ UNCHANGED status

\* A cell of the list was evaluated: next its head.
ReturnCell ==
    /\ Returns("cell")
    /\ LET o == Obj(vm, vm.val)
       IN  IF o.kind = "CON" /\ Len(o.ptr) = 2
           THEN /\ StartRun([Popped EXCEPT !.roots[Len(vm.roots)] = o.ptr[2]], Outer, Caller.prev,
                            o.ptr[1], "head", Caller.at, Caller.out)
                /\ UNCHANGED <<room, gcs, status>>
           ELSE StringForced
    /\ UNCHANGED <<prog, code, todo>>

\* A character was evaluated: next the rest of the list.
ReturnHead ==
    /\ Returns("head")
    /\ LET o == Obj(vm, vm.val)
       IN  IF o.kind = "CHAR"
           THEN /\ StartRun(Popped, Outer, Caller.prev, Top(vm.roots), "cell", Caller.at,
                            Append(Caller.out, o.code))
                /\ UNCHANGED <<room, gcs, status>>
           ELSE StringForced
    /\ UNCHANGED <<prog, code, todo>>

\* main returned: the last effects hang from the state token of its result.
ReturnMain ==
    /\ Returns("main")
    /\ LET o == Obj(vm, vm.val)
       IN  IF o.kind = "CON" /\ o.code = "IoRes"
           THEN /\ StartRun([Popped EXCEPT !.roots = Append(@, vm.val)], Outer, Caller.prev,
                            o.ptr[1], "token", 0, <<>>)
                /\ UNCHANGED status
           ELSE /\ End("value") /\ vm' = Popped
                /\ runs' = Outer /\ jump' = Caller.prev
                /\ UNCHANGED <<pc, obj>>
    /\ UNCHANGED <<prog, code, todo, room, gcs>>

ReturnToken ==
    /\ Returns("token")
    /\ End("done")
    /\ vm' = [Popped EXCEPT !.val = Top(vm.roots), !.roots = Pop(@, 1)]
    /\ runs' = Outer /\ jump' = Caller.prev
    /\ UNCHANGED <<control, pc, room, gcs>>

\* exception_message(): the exception is evaluated and looked into.
ReturnReport ==
    /\ Returns("report")
    /\ LET o == Obj(vm, vm.val)
       IN  CASE o.kind = "CON" /\ o.code = "SomeException" ->
                  StartRun(Popped, Outer, Caller.prev, o.ptr[2], "report", 0, <<>>) /\ UNCHANGED status
             [] o.kind = "CON" /\ o.code = "ErrorCall" ->
                  ForceString(Popped, Outer, Caller.prev, o.ptr[1], 0) /\ UNCHANGED status
             [] OTHER ->
                  /\ End("uncaught") /\ vm' = Popped
                  /\ runs' = Outer /\ jump' = Caller.prev
                  /\ UNCHANGED <<pc, obj>>
    /\ UNCHANGED <<prog, code, todo, room, gcs>>

-----------------------------------------------------------------------------
(* unwind(): frames are popped down to a handler or the end of the run.    *)

Unwinds(k) == Running /\ pc = "unwind" /\ Top(vm.stack).kind = k

\* A handler: it is entered with the exception and the world as arguments.
UnwindCatch ==
    /\ Unwinds("CATCH")
    /\ LET f == Top(vm.stack)
       IN  /\ vm' = [vm EXCEPT !.stack = Pop(@, 1) \o <<Arg(f.b), Arg(vm.exc)>>, !.exc = Null]
           /\ GotoEnter(f.a)
    /\ UNCHANGED <<prog, code, todo, runs, jump, room, gcs, status>>

UnwindUpdateStays ==
    /\ Unwinds("UPDATE")
    /\ vm' = [vm EXCEPT !.mem[Top(vm.stack).a[2]].kind = "THUNK"]
    /\ UNCHANGED <<control, pc, runs, jump, room, gcs, status>>

\* The thunk under evaluation becomes a thunk again.
UnwindUpdate ==
    /\ Unwinds("UPDATE")
    /\ vm' = [vm EXCEPT !.mem[Top(vm.stack).a[2]].kind = "THUNK", !.stack = Pop(@, 1)]
    /\ UNCHANGED <<control, pc, runs, jump, room, gcs, status>>

UnwindFrame ==
    /\ Running /\ pc = "unwind" /\ Top(vm.stack).kind \in {"ARG", "CASE", "PRIM"}
    /\ vm' = [vm EXCEPT !.stack = Pop(@, 1)]
    /\ UNCHANGED <<control, pc, runs, jump, room, gcs, status>>

UnwindRunKeepsRoots ==
    /\ Unwinds("STOP")
    /\ Caller.prev # 0
    /\ vm' = Popped
    /\ runs' = SubSeq(runs, 1, Caller.prev)
    /\ jump' = Caller.prev
    /\ UNCHANGED <<control, pc, room, gcs, status>>

\* The end of a nested run: the exception jumps on to the run that called it,
\* which forgets the roots registered since.
UnwindRun ==
    /\ Unwinds("STOP")
    /\ Caller.prev # 0
    /\ vm' = [Popped EXCEPT !.roots = SubSeq(@, 1, runs[Caller.prev].roots)]
    /\ runs' = SubSeq(runs, 1, Caller.prev)
    /\ jump' = Caller.prev
    /\ UNCHANGED <<control, pc, room, gcs, status>>

\* The end of the outermost run: the exception is evaluated for its message.
\* The C frames below never go on: runtime_error() exits.
UnwindMain ==
    /\ Unwinds("STOP")
    /\ Caller.prev = 0
    /\ StartRun([Popped EXCEPT !.exc = Null], Outer, 0, vm.exc, "report", 0, <<>>)
    /\ UNCHANGED <<prog, code, todo, room, gcs, status>>

-----------------------------------------------------------------------------
(* Programs.  The desugarer numbers frames and slots: the scope of an      *)
(* expression is the sequence of the frames around it, the innermost       *)
(* first, each given as its number of slots.  Code[p] holds the            *)
(* expressions of p with their scopes.                                     *)

IsList(s) == s \in Seq(ToSet(s))

\* A variable is a slot of its scope, a constructor has all its fields, and
\* what e consists of is in scope too.
Scoped(p, e, s) ==
    LET in(x, t) == <<x, t>> \in Code[p]
        allIn(xs, t) == IsList(xs) /\ \A i \in DOMAIN xs : in(xs[i], t)
    IN  /\ s \in Seq(Nat)
        /\ e.k = "VAR" => e.up \in 0 .. Len(s) - 1 /\ e.slot \in 1 .. s[e.up + 1]
        /\ e.k = "GLOBAL" => e.g \in DOMAIN p.globals
        /\ e.k = "PRIM" => e.f \in DOMAIN Arity
        /\ e.k = "LAM" => e.arity \in Nat /\ in(e.body, <<e.arity>> \o s)
        /\ e.k = "CON" => /\ e.c \in DOMAIN ConArity /\ Len(e.args) = ConArity[e.c]
                          /\ allIn(e.args, s)
        /\ e.k = "APP" => in(e.fun, s) /\ allIn(e.args, s)
        /\ e.k = "LET" => LET t == <<Len(e.binds)>> \o s IN allIn(e.binds, t) /\ in(e.body, t)
        /\ e.k = "CASE" =>
              /\ in(e.scrut, s)
              /\ \A i \in DOMAIN e.alts :
                    LET alt == e.alts[i]
                    IN  /\ alt.k = "CON" => alt.c \in DOMAIN ConArity /\ alt.arity = ConArity[alt.c]
                        /\ in(alt.body, IF Binds(alt) THEN <<alt.arity>> \o s ELSE s)

ASSUME CodeAssumption ==
    \A p \in Program :
        /\ <<p.main, <<>>>> \in Code[p]
        /\ IsList(p.globals)
        /\ \A g \in DOMAIN p.globals : <<p.globals[g], <<>>>> \in Code[p]
        /\ \A c \in Code[p] : c = <<c[1], c[2]>> /\ Scoped(p, c[1], c[2])

\* The constructors that the machine builds or looks into have the fields that
\* it uses, and no program names a mutable cell.
ASSUME ConArityAssumption ==
    /\ \A c \in DOMAIN ConArity : ConArity[c] \in Nat
    /\ {"Unit", "Nil", "Cons", "IoRes"} \subseteq DOMAIN ConArity
    /\ ConArity["Unit"] = 0 /\ ConArity["Nil"] = 0
    /\ ConArity["Cons"] = 2 /\ ConArity["IoRes"] = 2
    /\ "SomeException" \in DOMAIN ConArity => ConArity["SomeException"] = 2
    /\ "ErrorCall" \in DOMAIN ConArity => ConArity["ErrorCall"] = 1
    /\ {"MutVar", "MVar"} \cap DOMAIN ConArity = {}

ASSUME MaxGCAssumption == MaxGC \in Nat

-----------------------------------------------------------------------------
(* init_globals() and eval_run().                                          *)

DirectGlobal(e) == e.k \in {"INT", "CHAR", "STR", "LAM"} \/ (e.k = "CON" /\ e.args = <<>>)

GlobalSize(e) == IF DirectGlobal(e) THEN AtomSize(e) ELSE 3

Blank == [space |-> "A", mem |-> <<>>, globals |-> <<>>, stack |-> <<>>,
          env |-> Null, val |-> Null, exc |-> Null, roots |-> <<>>]

\* The machine with the values of the first i globals.
Globals(bodies, i) ==
    LET made[j \in 0 .. i] ==
            IF j = 0 THEN Blank
            ELSE LET v == made[j - 1]
                     a == IF DirectGlobal(bodies[j]) THEN Atom(v, v.mem, bodies[j], Null)
                          ELSE [mem |-> Append(v.mem, Thing("THUNK", bodies[j], <<Null>>)),
                                p |-> NewPtr(v, v.mem)]
                 IN  [v EXCEPT !.mem = a.mem, !.globals = Append(@, a.p)]
    IN  made[i]

Start(p) ==
    LET v == Globals(p.globals, Len(p.globals))
        words == Total([i \in DOMAIN p.globals |-> GlobalSize(p.globals[i])])
    IN  [vm |-> [v EXCEPT !.mem = Append(@, Thing("THUNK", p.main, <<Null>>)),
                          !.stack = <<Stop>>],
         start |-> NewPtr(v, v.mem),
         room |-> words - WordsSince(Blank, v.mem)]

Init ==
    /\ prog \in Program
    /\ vm = Start(prog).vm
    /\ pc = "enter"
    /\ code = prog.main
    /\ obj = Start(prog).start
    /\ todo = 0
    /\ runs = <<[base |-> 0, prev |-> 0, roots |-> 0, caller |-> "main", at |-> 0, out |-> <<>>]>>
    /\ jump = 1
    /\ room = Start(prog).room
    /\ gcs = 0
    /\ status = "running"

EvalStep == EvalVar \/ EvalGlobal \/ EvalLiteral \/ EvalAtom \/ EvalApp \/ PushArg \/ EvalFun
            \/ EvalLet \/ EvalCase
EnterStep == EnterInd \/ EnterThunk \/ EnterBlackhole \/ EnterEmptyStr \/ EnterStr \/ EnterValue
RetStep == RetUpdate \/ NoAlternative \/ RetCase \/ NotAFunction \/ RetPartial \/ RetApply
           \/ RetPrimitive \/ RetStrict \/ RetCatch
CallStep == CallIntAdd \/ CallWhnf \/ CallCatch \/ CallRaise \/ CallMutVarNew \/ CallMvarNew
            \/ CallMutVarRead \/ CallMutVarWrite \/ CallMvarTake \/ CallMvarPut \/ Blocked
            \/ NotACell \/ CallFileSize

ReturnStep == ReturnCell \/ ReturnHead \/ ReturnMain \/ ReturnToken \/ ReturnReport
UnwindStep == UnwindCatch \/ UnwindUpdate \/ UnwindFrame \/ UnwindRun \/ UnwindMain

Next == EvalStep \/ EnterStep \/ RetStep \/ CallStep \/ ReturnStep \/ UnwindStep

Spec == Init /\ [][Next]_vars

\* One thread that nothing stops.
FairSpec == Spec /\ WF_vars(Next)

-----------------------------------------------------------------------------
(* Properties                                                              *)

\* "A sequence of allocations reserves its total size first" (the first rule
\* at the top of eval.c, which alloc() counts on): no handler and no primitive
\* allocates more words than it reserved.
RoomKept == room >= 0

\* The steps that do not keep to the rule: new_cell, and the first character of
\* a packed string when it has no static object.
Overdraws ==
    \/ Calls("mutVarNew") \/ Calls("mvarNew")
    \/ EnterKind("STR") /\ Obj(vm, obj).code # <<>> /\ Obj(vm, obj).code[1] \notin SmallChar

\* All other steps do, also after one that did not: what a let group, an atom, a
\* frame or a result takes is at most what bind_size, atom_size and the handlers say,
\* on either side of a collection.  A step that reserves nothing allocates nothing.
BuildsNothing == room' = room /\ vm'.space = vm.space /\ DOMAIN vm'.mem = DOMAIN vm.mem
RoomKeptOtherwise == RoomKept /\ [][RoomKept' \/ BuildsNothing \/ Overdraws]_vars

\* A pointer into the heap leads to an object of the current space.
Valid(p) == OnHeap(p) => p[1] = vm.space /\ p[2] \in DOMAIN vm.mem

\* No pointer survives a collection without being a root: what the machine
\* and the primitives keep across a reservation or a nested run is on the
\* stack, in a register or registered.  And what the machine enters is there: it
\* is no empty slot of a let group, no content of an empty cell and no frame.
NoStale ==
    /\ \A p \in RootSet(vm) : Valid(p)
    /\ \A i \in DOMAIN vm.mem : \A k \in DOMAIN vm.mem[i].ptr : Valid(vm.mem[i].ptr[k])
    /\ pc = "enter" /\ Running => Valid(obj) /\ obj # Null /\ Obj(vm, obj).kind # "ENV"

UpdateFramesMatch ==
    LET frames == {i \in DOMAIN vm.stack : vm.stack[i].kind = "UPDATE"}
    IN  /\ \A i \in frames : Obj(vm, vm.stack[i].a).kind = "BLACKHOLE"
        /\ \A i, j \in frames : vm.stack[i].a = vm.stack[j].a => i = j
        /\ \A k \in DOMAIN vm.mem : vm.mem[k].kind = "BLACKHOLE" =>
              \E i \in frames : vm.stack[i].a = <<vm.space, k>>

RunsNest ==
    Running =>
        /\ jump = Len(runs) /\ jump > 0
        /\ \A i \in DOMAIN runs : runs[i].prev = i - 1
        /\ {i \in DOMAIN vm.stack : vm.stack[i].kind = "STOP"} = {runs[i].base + 1 : i \in DOMAIN runs}
        /\ \A i \in 1 .. Len(runs) - 1 : runs[i].base < runs[i + 1].base
        /\ Len(vm.roots) = Caller.roots

\* A thunk is a black hole exactly while one update frame waits for its value:
\* an exception leaves no black hole behind, and no thunk is updated twice.
\* A raise jumps to the innermost run that has not returned; every run has its
\* stop frame where it says, in order; the registered locals are those of the
\* C calls that are still active.  So a raise that reaches a stop frame finds the
\* one at its base: "the stack of an exception is not consistent" is dead code
\* (unwind, run).
StackConsistent == UpdateFramesMatch /\ RunsNest

\* A value stays what it is: only thunks, packed strings and mutable cells are
\* overwritten, and the argument block of the primitive on top of the stack.
Changes(i) ==
    \/ vm.mem[i].kind \in {"THUNK", "BLACKHOLE", "STR"}
    \/ vm.mem[i].kind = "CON" /\ vm.mem[i].code \in {"MutVar", "MVar"}
    \/ \E j \in DOMAIN vm.stack : vm.stack[j].kind = "PRIM" /\ vm.stack[j].a = <<vm.space, i>>

ValuesStay ==
    [][gcs' = gcs => \A i \in DOMAIN vm.mem : Changes(i) \/ vm'.mem[i] = vm.mem[i]]_vars

\* Every program of the runs ends: with a value, an exception or an error.
Ends == <>(status # "running")
=============================================================================
