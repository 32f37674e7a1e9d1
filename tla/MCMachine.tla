----------------------------- MODULE MCMachine -----------------------------
(***************************************************************************)
(* Programs for the machine.  Each is small; together they make the        *)
(* machine take every step and meet the hard cases: recursive let groups,  *)
(* thunks under exceptions, handlers below nested runs, loops, partial and *)
(* over-application, mutable cells.  A few are ill-typed where the code     *)
(* checks for it (unsafeCoerce can bring a program there).                 *)
(***************************************************************************)
EXTENDS Machine

CONSTANT Fuel

Ref == INSTANCE Reference WITH ArityOf <- Arity, StrictOf <- Strict

\* Core, in short form.
V(up, slot) == [k |-> "VAR", up |-> up, slot |-> slot]
G(g) == [k |-> "GLOBAL", g |-> g]
P(f) == [k |-> "PRIM", f |-> f]
I(n) == [k |-> "INT", n |-> n]
Ch(c) == [k |-> "CHAR", n |-> c]
S(s) == [k |-> "STR", s |-> s]
Lam(n, b) == [k |-> "LAM", arity |-> n, body |-> b]
C(c, as) == [k |-> "CON", c |-> c, args |-> as]
App(f, as) == [k |-> "APP", fun |-> f, args |-> as]
Let(bs, b) == [k |-> "LET", binds |-> bs, body |-> b]
Case(e, as) == [k |-> "CASE", scrut |-> e, alts |-> as]
AltC(c, n, b) == [k |-> "CON", c |-> c, arity |-> n, body |-> b]
AltI(n, b) == [k |-> "INT", n |-> n, body |-> b]
Dflt(b) == [k |-> "DEFAULT", body |-> b]

U == C("Unit", <<>>)
Add(a, b) == App(P("intAdd"), <<a, b>>)
Raise(e) == App(P("raise"), <<e>>)
Prog(gs, m) == [globals |-> gs, main |-> m]

\* A result of an IO action: its value is bound as slot 2 of the new frame.
Then(io, b) == Case(io, <<AltC("IoRes", 2, b)>>)
IoDone(e) == C("IoRes", <<U, e>>)
Handler == Lam(2, C("IoRes", <<V(0, 2), Case(V(0, 1), <<AltC("Boom", 1, V(0, 1)), Dflt(I(9))>>)>>))

\* Let groups of two binders, each of every form that bind_atom tells apart:
\* two integers, a function and an integer, a pair and an integer, two
\* recursive boxes, two strings.
Number(other) == {I(1), I(9), V(0, other), Add(V(0, other), I(9)), Add(V(0, other), V(0, other)),
                  Raise(I(1))}
Function == {Lam(1, Add(V(0, 1), V(1, 2))), Lam(1, V(1, 2)), App(P("intAdd"), <<V(0, 2)>>), Raise(I(1))}
Pair == {C("Pair", <<V(0, 2), I(9)>>), C("Pair", <<Add(V(0, 2), I(1)), V(0, 2)>>)}
FromPair == Case(V(0, 1), <<AltC("Pair", 2, V(0, 2))>>)

GroupOf(B1, B2, Body) == {Prog(<<>>, Let(<<b1, b2>>, e)) : b1 \in B1, b2 \in B2, e \in Body}

Groups ==
    GroupOf(Number(2), Number(1),
            {V(0, 1), Add(V(0, 1), V(0, 2)), Case(V(0, 1), <<AltI(1, V(0, 2)), Dflt(V(0, 1))>>)})
    \cup GroupOf(Function, {I(9), Add(I(9), I(1)), App(V(0, 1), <<I(9)>>), Raise(I(1))},
            {App(V(0, 1), <<V(0, 2)>>), App(V(0, 1), <<App(V(0, 1), <<V(0, 2)>>)>>)})
    \cup GroupOf(Pair, {I(9), FromPair, Raise(I(1))},
            {Case(V(0, 1), <<AltC("Pair", 2, Add(V(0, 1), V(0, 2)))>>)})
    \cup GroupOf({C("Box", <<C("Box", <<V(0, 1)>>)>>)}, {C("Box", <<V(0, 1)>>), V(0, 1)},
            {Case(V(0, 2), <<AltC("Box", 1, Case(V(0, 1), <<AltC("Box", 1, V(0, 1))>>))>>)})
    \cup GroupOf({S(<<1>>)}, {C("Cons", <<Ch(1), V(0, 1)>>), C("Cons", <<Ch(2), V(0, 2)>>)},
            {Then(App(P("fileSize"), <<V(0, 1), U>>), Case(V(1, 2), <<AltC("Cons", 2, V(0, 1))>>))})

\* Exceptions: a thunk that raises is used again by the handler; a raise in a
\* string that C code forces; a raise in a handler; none at all; uncaught.
Retry == Let(<<Add(I(9), Raise(C("Boom", <<I(9)>>)))>>,
             App(P("catch"),
                 <<Lam(1, Then(App(P("fileSize"), <<S(<<1, 2>>), V(0, 1)>>), Add(V(2, 1), I(1)))),
                   Lam(2, App(P("catch"), <<Lam(1, IoDone(V(2, 1))), Handler, V(0, 2)>>)), U>>))

BadString(tail) == C("Cons", <<Ch(1), C("Cons", <<Ch(1), tail>>)>>)

InString(tail) ==
    App(P("catch"),
        <<Lam(1, Then(App(P("fileSize"), <<BadString(tail), V(0, 1)>>), IoDone(V(0, 2)))), Handler, U>>)

Exceptions ==
    {Prog(<<>>, e) : e \in
        {Retry,
         InString(Raise(C("Boom", <<I(9)>>))),
         InString(Add(Raise(C("Boom", <<I(1)>>)), I(1))),
         InString(C("Cons", <<Raise(I(9)), C("Nil", <<>>)>>)),
         InString(C("Cons", <<I(9), C("Nil", <<>>)>>)),
         InString(S(<<1, 2>>)),
         Then(InString(S(<<1>>)), InString(Raise(V(1, 2)))),
         App(P("catch"), <<Lam(1, Raise(I(1))), Lam(2, Raise(C("Boom", <<V(0, 1)>>))), U>>),
         App(P("fileSize"), <<BadString(Raise(C("Boom", <<I(9)>>))), U>>),
         Raise(C("SomeException", <<U, C("ErrorCall", <<S(<<1, 2>>)>>)>>)),
         Raise(C("ErrorCall", <<BadString(Raise(I(9)))>>)),
         C("IoRes", <<Raise(I(1)), I(1)>>)}}

\* Functions: partial and over-application, a function in a global, strings.
Twice == Lam(2, App(V(0, 1), <<App(V(0, 1), <<V(0, 2)>>)>>))

Functions ==
    {Prog(<<Twice, Add(I(9), I(9)), Add(G(3), I(1)), I(9)>>, e) : e \in
        {App(G(1), <<App(P("intAdd"), <<I(9)>>), G(2)>>),
         App(G(1), <<G(1), App(P("intAdd"), <<G(4)>>), G(2)>>),
         Add(G(2), App(Lam(2, Add(V(0, 1), V(0, 2))), <<G(2), I(1)>>)),
         G(3),
         App(I(1), <<I(1)>>),
         Case(I(1), <<AltI(2, I(1))>>),
         App(App(Lam(1, Lam(1, Add(V(1, 1), V(0, 1)))), <<I(1)>>), <<I(9)>>),
         App(Lam(1, P("whnf")), <<I(1), C("Pair", <<G(2), G(2)>>)>>),
         App(Lam(2, V(0, 1)), <<I(1)>>),
         Case(S(<<1>>), <<AltC("Cons", 2, Case(V(0, 2), <<AltC("Nil", 0, V(0, 1)), Dflt(I(2))>>))>>)}}

\* Mutable cells, and what each program must end with: a write is read back,
\* also when an exception follows it; an MVar hands its value over; the
\* operations that would wait forever; no cell where one is needed.
NewVar(e, w, b) == Then(App(P("mutVarNew"), <<e, w>>), b)
NewMVar(w, b) == Then(App(P("mvarNew"), <<w>>), b)
ReadBack(cell, token) == Then(App(P("mutVarRead"), <<cell, token>>), V(0, 2))

CellTests ==
    {<<Prog(<<>>, NewVar(I(9), U,
            ReadBack(V(0, 2), App(P("mutVarWrite"), <<V(0, 2), Add(I(9), I(1)), V(0, 1)>>)))), "value", 10>>,
     <<Prog(<<>>, NewVar(I(1), U,
            Then(App(P("catch"),
                     <<Lam(1, Case(App(P("mutVarWrite"), <<V(1, 2), I(9), V(0, 1)>>),
                                   <<AltC("Unit", 0, Raise(C("Boom", <<I(1)>>)))>>)),
                       Handler, V(0, 1)>>),
                 ReadBack(V(1, 2), V(0, 1))))), "value", 9>>,
     <<Prog(<<>>, NewMVar(U, Then(App(P("mvarTake"), <<V(0, 2),
            App(P("mvarPut"), <<V(0, 2), I(9), V(0, 1)>>)>>), V(0, 2)))), "value", 9>>,
     <<Prog(<<>>, NewMVar(U, App(P("mvarTake"), <<V(0, 2), V(0, 1)>>))), "blocked", 0>>,
     <<Prog(<<>>, NewMVar(U, App(P("mvarPut"), <<V(0, 2), I(1),
            App(P("mvarPut"), <<V(0, 2), I(1), V(0, 1)>>)>>))), "blocked", 0>>,
     <<Prog(<<>>, App(P("mutVarRead"), <<I(9), U>>)), "error", 0>>,
     <<Prog(<<>>, App(P("mutVarWrite"), <<C("Box", <<I(9)>>), I(9), U>>)), "error", 0>>,
     <<Prog(<<>>, App(P("mvarTake"), <<I(9), U>>)), "error", 0>>}

Cells == {t[1] : t \in CellTests}

\* A string with a character that has no static object.
WideString == Prog(<<>>, Case(S(<<7, 1>>), <<AltC("Cons", 2, V(0, 1))>>))

MCSmallInt == {0, 1, 2}
MCSmallChar == {1, 2}

MCConArity == [c \in {"Unit", "Nil"} |-> 0] @@ [c \in {"Box", "Boom", "ErrorCall"} |-> 1]
              @@ [c \in {"Cons", "IoRes", "Pair", "SomeException"} |-> 2]

\* The expressions of e, which is in the scope s.
RECURSIVE CodeIn(_, _)
CodeIn(e, s) ==
    LET all(xs, t) == UNION {CodeIn(xs[i], t) : i \in DOMAIN xs}
        alt(a) == CodeIn(a.body, IF Binds(a) THEN <<a.arity>> \o s ELSE s)
    IN  {<<e, s>>} \cup
        CASE e.k = "LAM"  -> CodeIn(e.body, <<e.arity>> \o s)
          [] e.k = "CON"  -> all(e.args, s)
          [] e.k = "APP"  -> CodeIn(e.fun, s) \cup all(e.args, s)
          [] e.k = "LET"  -> all(Append(e.binds, e.body), <<Len(e.binds)>> \o s)
          [] e.k = "CASE" -> CodeIn(e.scrut, s) \cup UNION {alt(e.alts[i]) : i \in DOMAIN e.alts}
          [] OTHER        -> {}

MCCode == [p \in Program |-> UNION {CodeIn(e, <<>>) : e \in {p.main} \cup ToSet(p.globals)}]

\* No atom of the programs is nested deeper than the bound.
ASSUME NestingAssumption ==
    \A p \in Program : \A c \in Code[p] : \A a \in Parts(c[1]) : Arguments(a) \subseteq Parts(c[1])

MCPrograms == Groups \cup Exceptions \cup Functions \cup Cells \cup {WideString}
MCCells == Cells

-----------------------------------------------------------------------------
\* A value as the reference names it; indirections are looked through.
Final(v, p) ==
    LET f[n \in Nat] == IF n = 0 THEN p ELSE IF Obj(v, f[n - 1]).kind = "IND"
                                              THEN Obj(v, f[n - 1]).ptr[1] ELSE f[n - 1]
    IN  Obj(v, f[Len(v.mem)])

SameValue(o, r) ==
    CASE o.kind \in {"INT", "CHAR"} -> r.k = o.kind /\ r.x = o.code
      [] o.kind = "CON"             -> r.k = "CON" /\ r.x = o.code /\ Len(r.args) = Len(o.ptr)
      [] OTHER                      -> r.k \in {"FUN", "PRIM"}

\* The machine computes what the program means, wherever collections happen:
\* the value, an exception, or "<<loop>>" only for what has no value.
AgreesWithMeaning ==
    ~Running =>
        LET r == Ref!Meaning(prog, Fuel)
        IN  r.t # "cell" =>
              CASE status \in {"value", "done"} -> r.t = "val" /\ SameValue(Obj(vm, vm.val), r)
                [] status = "uncaught"          -> r.t = "exc"
                [] status = "loop"              -> r.t = "bot"
                [] OTHER                        -> r.t = "err"

\* The state token orders the effects of the cell primitives: a read sees the
\* last write, whatever was collected or raised in between.
CellsKeepOrder ==
    ~Running => \A t \in CellTests :
        t[1] = prog =>
            /\ status = t[2]
            /\ status = "value" => Final(vm, vm.val).kind = "INT" /\ Final(vm, vm.val).code = t[3]
=============================================================================
