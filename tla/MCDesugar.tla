----------------------------- MODULE MCDesugar -----------------------------
EXTENDS DesugarCorrect

\* Syntax.
V(n) == [k |-> "VAR", n |-> n, evs |-> <<>>]
VE(n, evs) == [k |-> "VAR", n |-> n, evs |-> evs]
C(n) == [k |-> "CON", n |-> n, evs |-> <<>>]
I(n) == [k |-> "INT", i |-> n, evs |-> <<>>]
Ap(f, args) == FoldLeft(LAMBDA g, a : [k |-> "APP", f |-> g, a |-> a], f, args)
Ap1(f, a) == Ap(f, <<a>>)
Ap2(f, a, b) == Ap(f, <<a, b>>)
Lam(ps, e) == [k |-> "LAM", ps |-> ps, e |-> e]
Let(ds, e) == [k |-> "LET", decls |-> ds, e |-> e]
Case(e, alts) == [k |-> "CASE", e |-> e, alts |-> alts]
Tup(es) == [k |-> "TUP", items |-> es]
List(es) == [k |-> "LIST", items |-> es]
Infix(a, steps) == [k |-> "INFIX", a |-> a, steps |-> steps]
Step(op, e) == [op |-> op, e |-> e]
Op(n) == [n |-> n, evs |-> <<>>, con |-> FALSE]
COp(n) == [n |-> n, evs |-> <<>>, con |-> TRUE]
Raise(n) == Ap1(V("raise"), I(n))
Tru == C("True")

PV(n) == [k |-> "VAR", n |-> n]
PWild == [k |-> "WILD"]
PCon(c, ps) == [k |-> "CON", c |-> c, dicts |-> <<>>, ps |-> ps]
PTup(ps) == [k |-> "TUP", ps |-> ps]
PInt(n) == [k |-> "INT", i |-> n, evs |-> <<>>]
PAs(n, p) == [k |-> "AS", n |-> n, p |-> p]
PBang(p) == [k |-> "BANG", p |-> p]
PLazy(p) == [k |-> "LAZY", p |-> p]
PView(e, p) == [k |-> "VIEW", e |-> e, p |-> p]
PRec(c, fields, rest) == [k |-> "REC", c |-> c, dicts |-> <<>>, fields |-> fields, wildcard |-> rest]
Pun(n) == [n |-> n, pun |-> TRUE]
Named(n, p) == [n |-> n, pun |-> FALSE, p |-> p]
Upd(n, e) == [n |-> n, e |-> e]

Body(e) == [wheres |-> <<>>, guards |-> <<[stmts |-> <<>>, body |-> e]>>]
Guards(gs) == [wheres |-> <<>>, guards |-> gs]
G(stmts, e) == [stmts |-> stmts, body |-> e]
SExpr(e) == [k |-> "EXPR", e |-> e]
SBind(p, e) == [k |-> "BIND", p |-> p, e |-> e]
SLet(ds) == [k |-> "LET", decls |-> ds]
Alt(p, e) == [p |-> p, rhs |-> Body(e)]
Clause(ps, rhs) == [args |-> ps, rhs |-> rhs]
Fun(n, ps, rhs) == [k |-> "FUN", n |-> n, args |-> ps, rhs |-> rhs, dicts |-> <<>>]
FunD(n, ds, ps, e) == [k |-> "FUN", n |-> n, args |-> ps, rhs |-> Body(e), dicts |-> ds]
Def(n, ps, e) == Fun(n, ps, Body(e))
Val(n, e) == Def(n, <<>>, e)
Pat(p, e) == [k |-> "PAT", pat |-> p, rhs |-> Body(e)]

ConDecl(c, n) == [c |-> c, arity |-> n, ndicts |-> 0, fields |-> <<>>, prim |-> FALSE]
Record(c, fields) == [ConDecl(c, Len(fields)) EXCEPT !.fields = fields]
Data(cs) == [newtype |-> FALSE, cons |-> cs]
Newtype(c) == [newtype |-> TRUE, cons |-> <<c>>]
Meth(n, dicts, clauses) == [n |-> n, dicts |-> dicts, clauses |-> clauses]
Class(n, supers, methods) == [n |-> n, supers |-> supers, methods |-> methods]
Instance(n, cls, ctx, supers, methods) ==
    [n |-> n, cls |-> cls, ctx |-> ctx, supers |-> supers, methods |-> methods]
DV(n) == [k |-> "VAR", n |-> n]
Inst(m, n) == [k |-> "INST", inst |-> <<m, n>>, args |-> <<>>]
InstOf(m, n, args) == [k |-> "INST", inst |-> <<m, n>>, args |-> args]
Super(cls, i, ev) == [k |-> "SUPER", cls |-> cls, i |-> i, of |-> ev]

-----------------------------------------------------------------------------
\* The base modules, as one.
x == V("x")
y == V("y")
f == V("f")
NumInt == Inst(Base, "NumInt")
EqInt == Inst(Base, "EqInt")
NumT == Inst("Main", "NumT")
EqT == Inst("Main", "EqT")
KInt == Inst("Main", "KInt")
KN(ev) == InstOf("Main", "KN", <<ev>>)
MonadList == Inst(Base, "MonadList")
Lit(n) == [k |-> "INT", i |-> n, evs |-> <<NumInt>>]
LitT(n) == [k |-> "INT", i |-> n, evs |-> <<NumT>>]
PLit(n) == [k |-> "INT", i |-> n, evs |-> <<EqInt, NumInt>>]
PLitT(n) == [k |-> "INT", i |-> n, evs |-> <<EqT, NumT>>]

BaseDecls ==
    <<Def("append", <<PCon("Nil", <<>>), PV("y")>>, y),
      Def("append", <<PCon("Cons", <<PV("x"), PV("z")>>), PV("y")>>,
          Ap2(C("Cons"), x, Ap2(V("append"), V("z"), y))),
      Def("concatMap", <<PV("f"), PCon("Nil", <<>>)>>, C("Nil")),
      Def("concatMap", <<PV("f"), PCon("Cons", <<PV("x"), PV("z")>>)>>,
          Ap2(V("append"), Ap1(f, x), Ap2(V("concatMap"), f, V("z"))))>>
BaseClasses ==
    <<Class("Eq", <<>>, <<Meth("==", <<>>, <<>>)>>),
      Class("Num", <<>>, <<Meth("fromInteger", <<>>, <<>>), Meth("negate", <<>>, <<>>)>>),
      Class("Enum", <<>>, <<Meth("enumFromTo", <<>>, <<>>)>>),
      Class("Monad", <<>>,
            <<Meth(">>=", <<>>, <<>>),
              Meth(">>", <<"d">>, <<Clause(<<PV("x"), PV("y")>>,
                                       Body(Ap2(VE(">>=", <<DV("d")>>), x, Lam(<<PWild>>, y))))>>)>>)>>
Same(n) == Clause(<<PInt(n), PInt(n)>>, Body(Tru))
BaseInstances ==
    <<Instance("EqInt", <<Base, "Eq">>, <<>>, <<>>,
               <<Meth("==", <<>>, <<Same(1), Same(2), Same(-16), Clause(<<PWild, PWild>>, Body(C("False")))>>)>>),
      Instance("NumInt", <<Base, "Num">>, <<>>, <<>>,
               <<Meth("fromInteger", <<>>, <<Clause(<<PV("x")>>, Body(x))>>),
                 Meth("negate", <<>>, <<Clause(<<PInt(1)>>, Body(I(-1))), Clause(<<PInt(-16)>>, Body(I(-16))), Clause(<<PInt(2)>>, Body(I(-2)))>>)>>),
      Instance("EnumInt", <<Base, "Enum">>, <<>>, <<>>,
               <<Meth("enumFromTo", <<>>, <<Clause(<<PInt(1), PInt(2)>>, Body(List(<<I(1), I(2)>>))),
                                            Clause(<<PWild, PWild>>, Body(C("Nil")))>>)>>),
      Instance("MonadList", <<Base, "Monad">>, <<>>, <<>>,
               <<Meth(">>=", <<>>, <<Clause(<<PV("x"), PV("y")>>, Body(Ap2(V("concatMap"), y, x)))>>),
                 Meth(">>", <<>>, <<Clause(<<>>, Body(VE("$dm>>", <<MonadList>>)))>>)>>)>>

Scope(m, ns) == [n \in ns |-> <<m, n>>]
BaseScope == Scope(Base, {"True", "False", "Nil", "Cons", "append", "concatMap", "error", "raise", "intAdd",
                          "==", "fromInteger", "negate", ">>=", ">>", "$dm>>", "enumFromTo"})
NoTable == [n \in {} |-> 0]
Module(imports, own, decls) ==
    [imports |-> imports, scope |-> own @@ BaseScope, decls |-> decls, datas |-> <<>>, classes |-> <<>>,
     instances |-> <<>>, prims |-> NoTable, fixities |-> NoTable, rejected |-> FALSE, unsupported |-> FALSE]
BaseModule ==
    [Module(<<>>, NoTable, BaseDecls) EXCEPT
        !.datas = <<Data(<<ConDecl("False", 0), ConDecl("True", 0)>>),
                    Data(<<ConDecl("Nil", 0), ConDecl("Cons", 2)>>)>>,
        !.classes = BaseClasses, !.instances = BaseInstances,
        !.prims = [error |-> "raise", raise |-> "raise", intAdd |-> "intAdd"]]

\* The types, classes, functions and operators of Main.
MainDatas ==
    <<Data(<<ConDecl("A", 0), Record("B", <<"p", "q">>), Record("D", <<"q">>),
             ConDecl(":-", 2), ConDecl(":^", 2), ConDecl("Neg", 1), ConDecl("L", 1)>>),
      Newtype(Record("N", <<"n">>)),
      Data(<<[ConDecl("Box", 1) EXCEPT !.prim = TRUE]>>),
      Data(<<[ConDecl("E", 2) EXCEPT !.ndicts = 1]>>)>>
MainClasses ==
    <<Class("K", <<<<Base, "Eq">>>>,
            <<Meth("k", <<>>, <<>>),
              Meth("j", <<"d">>, <<Clause(<<PV("x")>>,
                  Body(Tup(<<Ap1(VE("k", <<DV("d")>>), x),
                             Ap2(VE("==", <<Super(<<"Main", "K">>, 1, DV("d"))>>), x, x)>>)))>>)>>)>>
Fresh(n, e) == Meth(n, <<>>, <<Clause(<<>>, Body(e))>>)
MainInstances ==
    <<Instance("NumT", <<Base, "Num">>, <<>>, <<>>, <<Fresh("fromInteger", C("L")), Fresh("negate", C("Neg"))>>),
      Instance("EqT", <<Base, "Eq">>, <<>>, <<>>,
               <<Meth("==", <<>>, <<Clause(<<PCon("L", <<PV("x")>>), PCon("L", <<PV("y")>>)>>,
                                           Body(Ap2(VE("==", <<EqInt>>), x, y))),
                                    Clause(<<PWild, PWild>>, Body(C("False")))>>)>>),
      Instance("KInt", <<"Main", "K">>, <<>>, <<EqInt>>,
               <<Meth("k", <<>>, <<Clause(<<PV("x")>>, Body(Ap2(V("intAdd"), x, Lit(1))))>>),
                 Fresh("j", VE("$dmj", <<KInt>>))>>),
      Instance("EqN", <<Base, "Eq">>, <<"d">>, <<>>,
               <<Meth("==", <<>>, <<Clause(<<PCon("N", <<PV("x")>>), PCon("N", <<PV("y")>>)>>,
                                           Body(Ap2(VE("==", <<DV("d")>>), y, x)))>>)>>),
      Instance("KN", <<"Main", "K">>, <<"d">>,
               <<InstOf("Main", "EqN", <<Super(<<"Main", "K">>, 1, DV("d"))>>)>>,
               <<Meth("k", <<>>, <<>>),
                 Meth("j", <<>>, <<Clause(<<PCon("N", <<PV("x")>>)>>, Body(Ap1(VE("j", <<DV("d")>>), x)))>>)>>)>>
MainDecls ==
    <<Def("+++", <<PV("x"), PV("y")>>, Ap2(C(":^"), Ap1(C("D"), x), y)),
      Def("===", <<PV("x"), PV("y")>>, Ap2(C(":-"), Ap1(C("D"), y), x)),
      Def("h", <<PV("x"), PV("y")>>, Ap2(C(":-"), y, x)),
      Def("down", <<PCon("B", <<PV("x"), PV("y")>>)>>, y),
      Pat(PTup(<<PV("one"), PLazy(PCon("B", <<PV("two"), PWild>>))>>), Tup(<<Lit(1), C("A")>>))>>
MainNames == {"A", "B", "D", ":-", ":^", "Neg", "L", "N", "Box", "E", "p", "q", "n", "k", "j", "$dmj",
              "+++", "===", "down", "one", "two", "main", "f", "g", "h"}
Fixities == (":-" :> Fixed(6, "LEFT")) @@ (":^" :> Fixed(8, "RIGHT"))
            @@ ("+++" :> Fixed(6, "RIGHT")) @@ ("===" :> Fixed(4, "NONE"))
MainOf(decls) ==
    [Module(<<Base>>, Scope("Main", MainNames), decls \o MainDecls) EXCEPT
        !.datas = MainDatas, !.classes = MainClasses, !.instances = MainInstances, !.fixities = Fixities]
Program(decls) == [Main |-> MainOf(decls), Base |-> BaseModule]
Main(e) == Program(<<Val("main", e)>>)

-----------------------------------------------------------------------------
\* A function of two clauses: every kind of pattern, arguments that fail when
\* they are evaluated, and guards that fall through.
Vars(p) ==
    LET names == pattern_vars(p)
    IN  IF Len(names) = 1 THEN V(names[1]) ELSE Tup([i \in DOMAIN names |-> V(names[i])])
Wild(c) == PCon(c, <<PWild, PWild>>)
MCPatterns ==
    {PWild, PV("x"), PBang(PWild), PBang(PV("x")), PAs("x", Wild("B")), PCon("A", <<>>),
     PCon("B", <<PLit(1), PV("x")>>), PCon("B", <<PV("x"), PCon("A", <<>>)>>),
     PCon("B", <<PBang(PV("x")), PLazy(PCon("B", <<PV("y"), PV("z")>>))>>),
     PLazy(PCon("B", <<PV("x"), PAs("z", Wild("B"))>>)), PLazy(PBang(PCon("B", <<PV("x"), PWild>>))),
     PView(V("down"), PCon("A", <<>>)), PView(V("down"), PCon("B", <<PV("x"), PWild>>)),
     PCon("B", <<PV("x"), PView(Ap1(C("B"), x), PCon("B", <<PLit(1), PV("z")>>))>>),
     PRec("B", <<Named("q", PV("x"))>>, FALSE), PRec("B", <<Pun("p")>>, FALSE),
     PRec("B", <<Named("q", PCon("A", <<>>))>>, TRUE), PRec("D", <<>>, FALSE),
     PLitT(1), [k |-> "INFIX", a |-> PV("x"), steps |-> <<Step(COp(":-"), PV("y")), Step(COp(":-"), PWild)>>],
     [k |-> "INFIX", a |-> PCon("A", <<>>), steps |-> <<Step(COp(":^"), PV("y")), Step(COp(":-"), PV("x"))>>]}
MCArguments ==
    {C("A"), Ap2(C("B"), Lit(1), C("A")), Ap2(C("B"), Lit(2), Ap2(C("B"), Lit(1), C("A"))),
     Ap2(C("B"), Raise(3), C("A")), Ap2(C("B"), Lit(1), Raise(4)), Raise(5), LitT(1),
     Infix(Infix(C("A"), <<Step(COp(":^"), C("A"))>>), <<Step(COp(":-"), Ap1(C("D"), C("A")))>>)}
Result(i, p) == Tup(<<Lit(i), Vars(p)>>)
MCRhs(p) ==
    {Body(Result(1, p)),
     Guards(<<G(<<SExpr(V("b"))>>, Result(2, p))>>),
     [Guards(<<G(<<SBind(Wild("B"), V("t")), SExpr(V("b"))>>, Tup(<<Lit(3), V("w")>>)),
               G(<<SLet(<<Val("u", V("b"))>>), SExpr(V("u"))>>, Tup(<<Lit(4), V("w")>>))>>)
         EXCEPT !.wheres = <<Val("w", Vars(p)), Def("u", <<PV("x")>>, V("w"))>>]}
MCClauses(p) ==
    {Program(<<Val("main", Ap2(V("g"), a, b)),
               Fun("g", <<PAs("t", p), PV("b")>>, r),
               Def("g", <<PCon("B", <<PWild, PV("v")>>), PBang(PWild)>>, Tup(<<Lit(5), Raise(2)>>))>>) :
        a \in MCArguments, b \in {Tru, C("False"), Raise(6)}, r \in MCRhs(p)}

\* Chains of operators and prefix minus.
Neg(e) == [k |-> "NEG", e |-> e, evs |-> <<NumT>>]
Operand0(i, negated) == IF negated THEN Neg(LitT(i)) ELSE LitT(i)
MCOps == {COp(":-"), COp(":^"), Op("+++"), Op("==="), Op("h")}
MCChain(a) ==
    {Program(<<Val("main", Infix(Operand0(1, 1 \in negs),
                                 <<Step(a, Operand0(2, 2 \in negs)), Step(b, Operand0(1, 3 \in negs))>> \o rest))>>) :
        b \in MCOps, negs \in {{}, {1}, {2}, {3}, {1, 3}},
        rest \in {<<>>} \cup {<<Step(c, LitT(2))>> : c \in MCOps}}

\* Lists: statements, qualifiers, sequences, strings.
ListAlt(n) == Ap2(C("Cons"), Lit(n), C("Nil"))
Two == List(<<Ap2(C("B"), Lit(1), C("A")), C("A"), Ap2(C("B"), Lit(2), Raise(7))>>)
Range12 == [k |-> "SEQ", n |-> "enumFromTo", evs |-> <<Inst(Base, "EnumInt")>>, items |-> <<Lit(1), Lit(2)>>]
Do(stmts) == [k |-> "DO", stmts |-> stmts, evs |-> <<MonadList>>]
Comp(e, stmts) == [k |-> "COMP", e |-> e, stmts |-> stmts]
MCStmts ==
    {SExpr(Two), SBind(PV("x"), Range12), SBind(PWild, Raise(8)),
     SBind(PCon("B", <<PV("x"), PWild>>), Two), SBind(PLazy(PCon("B", <<PV("x"), PWild>>)), Two),
     SLet(<<Pat(PTup(<<PV("y"), PV("z")>>), Tup(<<Lit(1), Raise(2)>>)), Val("x", y)>>)}
MCQuals ==
    (MCStmts \ {SExpr(Two)})
    \cup {SExpr(Tru), SExpr(Ap2(VE("==", <<EqInt>>), x, Lit(2))), SExpr(Raise(9))}
MCBlocks ==
    {Main(Let(<<Val("x", Lit(1))>>, Do(<<s, u, SExpr(List(<<x>>))>>))) :
        s \in MCStmts, u \in MCStmts}
    \cup {Main(Let(<<Val("x", Lit(1))>>, Comp(x, <<s, u>>))) :
            s \in MCQuals, u \in MCQuals}

\* Other expressions, each with arguments that fail and that do not.
Str(s) == [k |-> "STR", s |-> s, evs |-> <<>>]
If(c, a, b) == [k |-> "IF", cond |-> c, a |-> a, b |-> b]
LamCase(alts) == [k |-> "LAMCASE", alts |-> alts]
MultiIf(gs) == [k |-> "MIF", guards |-> gs]
TupSection(es) == [k |-> "SECTION", items |-> es]
Missed == [k |-> "MISSING"]
LSec(op, e) == [k |-> "LSEC", op |-> op, e |-> e]
RSec(op, e) == [k |-> "RSEC", op |-> op, e |-> e]
RCon(c, us) == [k |-> "RCON", n |-> c, fields |-> us]
RUpd(e, us) == [k |-> "RUPD", e |-> e, fields |-> us]
Sig(e, evs) == [k |-> "SIG", e |-> e, evs |-> evs]
Dicts(ds, e) == [k |-> "DICTS", dicts |-> ds, e |-> e]
PE(d, ps) == [k |-> "CON", c |-> "E", dicts |-> <<d>>, ps |-> ps]
EqAt(ev, a, b) == Ap2(VE("==", <<ev>>), a, b)
ShowBool(e) == If(e, Lit(1), Lit(2))
\* What deviates: constructors with a context between operands, variables of
\* a lazy pattern in it, literals about the largest long, 15.
COpE(evs) == [n |-> "E", evs |-> evs, con |-> TRUE]
MatchE(e, alts) == Case(e, <<Alt(PE("d", <<PV("x"), PV("y")>>), EqAt(DV("d"), x, y))>> \o alts)
MCDeviant(a) ==
    {MatchE(e, alts) : alts \in {<<>>, <<Alt(PWild, a)>>},
        e \in {Infix(a, <<Step(COpE(<<EqT>>), LitT(2))>>), Ap1(LSec(COpE(<<EqT>>), a), LitT(2)),
               Ap1(RSec(COpE(<<EqT>>), a), LitT(2)), Case(a, <<Alt(PWild, Ap([k |-> "CON", n |-> "E", evs |-> <<EqT>>], <<a, a>>))>>)}}
    \cup {Let(<<Val("x", C("A")), Val("y", LitT(2))>>,
                Case(a, <<Alt(PLazy(PView(Ap1(C("B"), v[1]), PCon("B", <<PV("x"), PV("y")>>))), v[2])>>)) :
            v \in {<<x, y>>, <<y, x>>, <<y, y>>, <<V("one"), x>>}}
    \cup {Case(LitT(m), <<Alt(PLitT(n), Lit(1)), Alt(PWild, LitT(n))>>) : m \in {-16, 15, 16, 17, 48}, n \in {15, 16, 17, 48}}
    \cup {[k |-> "NEG", e |-> Lit(16), evs |-> <<NumInt>>], Ap2(C("B"), Lit(16), Case(Lit(48), <<Alt(PLit(16), a)>>))}
MCExprs(a) ==
    {If(EqAt(EqT, a, LitT(1)), Lit(1), Raise(1)), MultiIf(<<G(<<SBind(PCon("L", <<PV("x")>>), a)>>, x)>>),
     MultiIf(<<G(<<SExpr(C("False"))>>, a), G(<<SBind(PWild, a), SExpr(Tru)>>, LitT(2))>>),
     Ap1(LamCase(<<Alt(PCon("L", <<PLit(1)>>), LitT(2)), Alt(PBang(PV("x")), x)>>), a),
     Ap2(TupSection(<<Missed, a, Missed>>), Lit(1), Lit(2)),
     Ap1(LSec(COp(":-"), a), C("A")), Ap1(RSec(COp(":-"), a), C("A")), Ap1(LSec(Op("h"), C("A")), a),
     Ap1(RSec(Op("==="), C("A")), a),
     Let(<<Def("u", <<PCon("A", <<>>)>>, Lit(1)), Def("u", <<PV("x")>>, Ap1(V("w"), C("A"))),
           Def("w", <<PV("x")>>, Ap1(V("u"), x)), Val("v", a)>>, Ap1(V("u"), V("v"))),
     Let(<<Pat(PCon("B", <<PV("x"), PV("y")>>), a), Val("v", Lit(2))>>, Tup(<<V("v"), y, x>>)),
     Let(<<FunD("u", <<"d">>, <<PV("x"), PV("y")>>, EqAt(DV("d"), x, y))>>,
         Tup(<<ShowBool(Ap2(VE("u", <<EqT>>), a, LitT(1))), ShowBool(Ap2(VE("u", <<EqInt>>), Lit(1), Lit(2)))>>)),
     Ap1(Sig(Dicts(<<"d">>, Lam(<<PV("x")>>, EqAt(DV("d"), x, x))), <<EqT>>), a),
     Case(Ap([k |-> "CON", n |-> "E", evs |-> <<EqT>>], <<a, LitT(2)>>),
          <<Alt(PE("d", <<PV("x"), PV("y")>>), EqAt(DV("d"), x, y))>>),
     Ap1(VE("j", <<KN(KN(KInt))>>), Ap1(C("N"), Ap1(C("N"), Lit(1)))), Ap1(VE("k", <<KN(KInt)>>), Ap1(C("N"), Lit(1))),
     Ap1(VE("k", <<KInt>>), Ap1(VE("k", <<KInt>>), Lit(1))),
     Ap1(V("p"), a), Ap1(V("q"), a), Ap1(V("n"), RUpd(Ap1(C("N"), Lit(1)), <<Upd("n", a)>>)),
     RUpd(a, <<Upd("q", LitT(3))>>), RUpd(a, <<Upd("q", a), Upd("p", Lit(3))>>),
     RCon("B", <<Upd("q", a)>>), RCon("D", <<>>), RCon("N", <<Upd("n", a)>>),
     Case(a, <<Alt(PRec("B", <<>>, TRUE), Tup(<<V("q"), V("p")>>)), Alt(PRec("D", <<Pun("q")>>, FALSE), Tup(<<V("q"), Lit(1)>>))>>),
     Case(Ap1(C("N"), a), <<Alt(PCon("N", <<PWild>>), Lit(1))>>),
     Case(Ap1(C("Box"), Case(a, <<Alt(PCon("A", <<>>), I(1))>>)), <<Alt(PCon("Box", <<PV("x")>>), Lit(1))>>),
     Case(Ap1(C("Box"), I(1)), <<Alt(PBang(PCon("Box", <<PV("x")>>)), x)>>),
     Case(Str(<<1, 2>>), <<Alt([k |-> "STR", s |-> <<1>>], LitT(1)),
                           Alt([k |-> "LIST", ps |-> <<[k |-> "CHAR", i |-> 1, evs |-> <<>>], PBang(PWild)>>], a)>>),
     Ap2(Lam(<<PCon("B", <<PWild, PWild>>), PV("x")>>, x), a, V("one")), Ap2(C("B"), V("two"), a),
     [k |-> "NEG", e |-> Lit(2), evs |-> <<NumInt>>], [k |-> "NEG", e |-> a, evs |-> <<NumT>>],
     Ap2(C("B"), Ap2(V("intAdd"), Lit(1), Raise(1)), a), C("B"), Ap1(C("B"), Lit(1))}
MCMains(a) == {Main(e) : e \in MCExprs(a) \cup MCDeviant(a)}

\* Imports: cycles, modules that are missing or were not accepted, no main.
MCModule(imports, v) ==
    [Module(imports, ("x" :> <<v, "x">>) @@ ("y" :> <<"P", "y">>), <<>>) EXCEPT
        !.decls = <<Pat(PTup(<<PV("x"), PWild>>), Tup(<<Lit(1), y>>)), Val("y", Lit(2))>>]
MCImports(main, imports) ==
    {[Main |-> [MainOf(main) EXCEPT !.imports = <<Base>> \o imports, !.scope = ("y" :> <<"P", "y">>) @@ @],
      Base |-> BaseModule,
      P |-> [MCModule(<<Base>> \o b, "P") EXCEPT !.unsupported = bad],
      Q |-> [MCModule(c, "Q") EXCEPT !.rejected = TRUE]] :
        b \in {<<>>, <<"Main">>, <<"Q">>}, c \in {<<>>, <<"Main", "X">>}, bad \in BOOLEAN}

MCInputs ==
    {MCClauses(p) : p \in MCPatterns} \cup {MCChain(a) : a \in MCOps} \cup {MCMains(a) : a \in MCArguments}
    \cup {MCBlocks, MCImports(<<Val("main", Lit(1))>>, <<>>), MCImports(<<>>, <<"P">>)}
    \cup {MCImports(<<Val("main", y)>>, imports) : imports \in {<<"P">>, <<"P", "Q">>, <<"X", "P">>}}
=============================================================================
