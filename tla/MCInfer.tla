------------------------------ MODULE MCInfer ------------------------------
EXTENDS InferCorrect

\* Types of the programs; a bound variable of a scheme has a negative number.
Integer == Con("I")
Bool == Con("B")
List(t) == App(Con("L"), t)
a1 == Bound(-1)

\* The syntax of types.
TV(n) == [tyvar |-> n]
TC(c) == [con |-> c]
TApp(f, t) == [fun |-> f, arg |-> t]
TFun(s, t) == [from |-> s, to |-> t]
TList(t) == [list |-> t]
Cls(c, t) == [cls |-> c, arg |-> t]
Sig(ps, t) == [ctx |-> ps, type |-> t]
ta == TV("a")
tb == TV("b")
tI == TC("I")
tBool == TC("B")

a2 == Bound(-2)
All(ps, t) == Scheme(<<-1>>, ps, t)

\* Eq and Ord have methods, Show one with a default.
MCSupers == [Eq |-> <<>>, Ord |-> <<"Eq">>, Num |-> <<>>, Frac |-> <<"Num">>, Show |-> <<>>]
Inst(t) == [head |-> t, ctx |-> <<>>]
ListInst(c) == [head |-> List(a1), ctx |-> <<Pred(c, a1)>>]
MCInstances ==
    [Eq |-> <<Inst(Integer), Inst(Con("D")), Inst(Bool), ListInst("Eq")>>,
     Ord |-> <<Inst(Integer), Inst(Bool)>>,
     Num |-> <<Inst(Integer), Inst(Con("D"))>>,
     Frac |-> <<Inst(Con("D"))>>,
     Show |-> <<Inst(Integer), Inst(Bool), ListInst("Show")>>]
MCNumClasses == {"Num", "Frac"}
MCCandidates == <<Integer, Con("D")>>

MCValues ==
    [eq |-> All(<<Pred("Eq", a1)>>, Fun(a1, Fun(a1, Bool))),
     lt |-> All(<<Pred("Ord", a1)>>, Fun(a1, Fun(a1, Bool))),
     show |-> All(<<Pred("Show", a1)>>, Fun(a1, List(Integer))),
     half |-> All(<<Pred("Frac", a1)>>, Fun(a1, a1)),
     sing |-> All(<<>>, Fun(a1, List(a1))),
     tru |-> Mono(Bool),
     P |-> Scheme(<<-1, -2>>, <<>>, Fun(a1, Fun(a2, App(App(Con("P"), a1), a2)))),
     MkN |-> All(<<Pred("Eq", a1), Pred("Num", a1), Pred("Show", a1)>>, Fun(a1, Con("N")))]

MCConstructors ==
    [P |-> [vars |-> <<-1, -2>>, exist |-> <<>>, ctx |-> <<>>, fields |-> <<a1, a2>>, tycon |-> "P"],
     MkN |-> [vars |-> <<>>, exist |-> <<-1>>,
              ctx |-> <<Pred("Eq", a1), Pred("Num", a1), Pred("Show", a1)>>,
              fields |-> <<a1>>, tycon |-> "N"]]

Method(n, t, d) == [name |-> n, sig |-> Scheme(<<>>, <<>>, t), deflt |-> d]
MCMethods ==
    [Eq |-> <<Method("eq", Fun(a1, Fun(a1, Bool)), <<>>)>>, Ord |-> <<Method("lt", Fun(a1, Fun(a1, Bool)), <<>>)>>,
     Num |-> <<>>, Frac |-> <<Method("half", Fun(a1, a1), <<>>)>>,
     Show |-> <<Method("show", Fun(a1, List(Integer)), <<[name |-> "show"]>>)>>]
Type(k, n, ps) == [kind |-> k, name |-> n, params |-> ps, rhs |-> NoType]
MCImports ==
    [tycons |-> [n \in {"I", "D", "B", "N"} |-> Type("data", n, <<>>)] @@ ("P" :> Type("data", "P", <<"a", "b">>))
                @@ [c \in DOMAIN MCSupers |-> Type("class", c, <<"a">>)],
     cons |-> MCConstructors, values |-> MCValues @@ ("show{default}" :> MCValues["show"]),
     classes |-> [c \in DOMAIN MCSupers |-> [supers |-> MCSupers[c], methods |-> MCMethods[c]]],
     insts |-> MCInstances]

-----------------------------------------------------------------------------
\* Expressions, patterns and bindings.
V(x) == [var |-> x]
Lit0 == [lit |-> 0]
Ap(f, args) == [head |-> V(f), args |-> args]
Ap1(f, e) == Ap(f, <<e>>)
Ap2(f, d, e) == Ap(f, <<d, e>>)
Clause(ps, e) == [pats |-> ps, body |-> e]
Lam(x, e) == Clause(<<V(x)>>, e)
LetIn(bs, e) == [binds |-> bs, body |-> e]
CaseOf(e, alts) == [scrut |-> e, alts |-> alts]
PCon(c, ps) == [con |-> c, args |-> ps]

Def(f, cs) == [name |-> f, sig |-> <<>>, clauses |-> cs]
Fn(f, x, e) == Def(f, <<Clause(<<V(x)>>, e)>>)
Val(f, e) == Def(f, <<Clause(<<>>, e)>>)
PatVal(p, e) == [pat |-> p, clauses |-> <<Clause(<<>>, e)>>]
Signed(s, b) == [b EXCEPT !.sig = <<s>>]

x == V("x")
y == V("y")
Tru == V("tru")

\* Three bindings that use each other, one of them without arguments.
MCGroup(last) ==
    {<<Fn("f", "x", d), Fn("g", "y", e), last>> :
        d \in {x, Lit0, Ap2("eq", x, Lit0), Ap1("g", x), V("h"), Ap1("sing", Ap1("g", x)), Ap2("lt", x, V("h")),
               LetIn(<<Val("k", Ap1("g", x))>>, Ap2("eq", V("k"), V("k"))),
               LetIn(<<PatVal(PCon("P", <<V("k"), V("m")>>), Ap2("P", Ap1("g", x), V("f")))>>, Ap1("m", V("k")))},
        e \in {y, Ap1("f", y), Ap2("eq", y, y), Ap1("f", Tru), Ap2("P", V("h"), y),
               Ap2("P", Ap1("f", y), Ap1("show", Lit0)), Ap1("f", Ap1("half", V("h"))),
               LetIn(<<Fn("k", "z", Ap2("P", V("z"), Ap1("f", y)))>>, Ap1("k", Ap1("k", y)))}}
MCLast == {Val("h", e) : e \in {Lit0, V("f"), V("eq"), V("half"), Ap1("f", Lit0), Ap1("g", Tru),
                                Ap1("half", Lit0), Ap2("P", Ap1("f", Tru), Ap1("f", Lit0))}}

\* A local function or value, and its uses.
MCLet(b) ==
    {<<Fn("f", "x", LetIn(<<b>>, e))>> :
        e \in {Ap1("g", Lit0), Ap2("P", Ap1("g", x), Ap1("g", Tru)), V("g"),
               Ap2("eq", Ap1("g", x), Ap1("g", x)), Ap2("P", V("g"), Ap1("half", x)),
               LetIn(<<Fn("h", "z", Ap2("P", Ap1("g", V("z")), x))>>, Ap1("h", Lit0))}}
MCLocal ==
    {Fn("g", "y", e) :
        e \in {x, y, Ap2("eq", x, y), Ap2("P", x, y), Ap1("show", y), Ap1("f", y), Lit0,
               Ap2("lt", Lit0, x), Lam("z", Ap2("eq", y, V("z"))), Ap1("half", x),
               LetIn(<<Fn("k", "z", Ap2("P", y, V("z")))>>, Ap2("P", Ap1("k", x), Ap1("k", Lit0)))}}
    \cup {Val("g", e) : e \in {V("show"), V("eq"), Lam("y", y), Lam("y", x), Ap1("eq", x), Ap1("P", x)}}

\* Signatures: polymorphic recursion, superclasses, and what a signature lacks.
MCSigned(s) ==
    {<<Signed(s, Fn("f", "x", d)), Fn("g", "y", e)>> :
        d \in {Ap2("eq", x, x), Ap2("lt", x, x), Ap2("eq", Ap1("sing", x), Ap1("sing", x)),
               Ap1("f", Ap1("sing", x)), Ap1("g", x), Ap1("f", x),
               LetIn(<<Fn("h", "z", Ap2("P", Ap2("eq", x, x), V("z")))>>,
                     CaseOf(Ap1("h", x), <<Clause(<<PCon("P", <<V("a"), V("b")>>)>>, V("a"))>>)),
               LetIn(<<Val("h", Ap2("eq", x, x))>>, V("h"))},
        e \in {Ap1("f", y), Ap1("f", Ap1("sing", y)), Ap1("f", Lit0)}}
MCSigs == {Sig(ps, TFun(ta, tBool)) : ps \in {<<>>, <<Cls("Eq", ta)>>, <<Cls("Ord", ta)>>,
                                             <<Cls("Show", ta), Cls("Eq", ta)>>}}

\* Patterns: of pairs, literals and an existential constructor.
MCMatch(b) ==
    {<<Def("f", <<Clause(<<p, V("y")>>, e)>>), b>> :
        p \in {V("x"), PCon("MkN", <<V("x")>>), PCon("P", <<V("x"), Lit0>>),
               PCon("P", <<PCon("MkN", <<Lit0>>), V("x")>>), PCon("P", <<Lit0, PCon("MkN", <<V("x")>>)>>),
               PCon("P", <<PCon("MkN", <<V("x")>>), V("z")>>),
               PCon("P", <<PCon("MkN", <<V("x")>>), PCon("MkN", <<V("z")>>)>>)},
        e \in {Ap1("show", V("y")), Ap1("show", x), Ap2("eq", x, Lit0), Ap2("P", y, x),
               Ap1("MkN", x), Ap2("eq", x, y), Ap2("P", Ap2("eq", x, y), Ap1("MkN", x))}}
    \cup {<<Def("f", <<Clause(<<Lit0, V("y")>>, e), Clause(<<V("x"), Lit0>>, x)>>), b>> :
            e \in {y, Tru, Ap2("f", y, y), Lit0, V("h")}}
MCUses ==
    {Val("h", Ap1("MkN", Lit0)), Fn("h", "z", Ap2("f", V("z"), Lit0)),
     PatVal(PCon("P", <<V("h"), V("k")>>), Ap2("P", V("f"), Lit0)),
     PatVal(PCon("P", <<V("h"), V("k")>>), Ap2("P", V("k"), Lit0)),
     PatVal(PCon("MkN", <<V("h")>>), Ap1("MkN", Tru)),
     PatVal(PCon("P", <<V("h"), Lit0>>), Ap2("P", Lam("z", V("z")), Lit0)),
     Fn("h", "z", CaseOf(V("z"), <<Clause(<<PCon("P", <<V("a"), V("b")>>)>>, Ap2("eq", V("a"), V("b"))),
                                   Clause(<<V("a")>>, Ap1("h", V("a")))>>)),
     Fn("h", "z", [head |-> Lam("k", Ap2("eq", V("k"), V("z"))), args |-> <<Lit0>>])}

\* Local bindings, some with signatures, under what a function knows of its
\* argument: nothing, a context, or the context of a constructor.
MCKnows == {Fn("f", "x", V("k")), Signed(Sig(<<Cls("Ord", ta), Cls("Num", ta)>>, TFun(ta, tBool)), Fn("f", "x", V("k"))),
            Def("f", <<Clause(<<PCon("MkN", <<V("x")>>)>>, V("k"))>>)}
MCInner(f) ==
    {<<[f EXCEPT !.clauses[1].body = LetIn(<<b, Val("k", d)>>, V("k"))]>> :
        b \in {Val("g", Ap1("eq", x)), Fn("g", "y", Ap2("eq", x, y)), Fn("g", "y", Ap2("eq", y, Lit0)),
               Signed(Sig(<<Cls("Eq", ta)>>, TFun(ta, tBool)), Fn("g", "y", Ap2("eq", y, y))),
               Signed(Sig(<<Cls("Eq", ta)>>, TFun(ta, tBool)), Fn("g", "y", Ap2("eq", x, x))),
               Signed(Sig(<<Cls("Num", ta)>>, TFun(ta, tBool)), Fn("g", "y", Ap2("eq", V("k"), Ap1("f", x)))),
               PatVal(PCon("P", <<V("g"), V("m")>>), Ap2("P", Ap1("eq", x), Lit0)),
               Fn("g", "y", CaseOf(Ap1("MkN", x), <<Clause(<<PCon("MkN", <<V("z")>>)>>, Ap2("eq", V("z"), V("z")))>>))},
        d \in {Ap1("g", x), Ap1("g", Lit0), Ap1("g", Ap1("sing", x)), Ap2("eq", Ap1("g", x), Ap1("f", x)),
               LetIn(<<Val("m", Ap1("g", x))>>, V("m")),
               LetIn(<<Val("m", Ap2("lt", x, x)), Fn("n", "y", Ap2("eq", V("m"), Ap1("g", x)))>>, Ap1("n", Lit0))}}

MCBindings ==
    {MCGroup(b) : b \in MCLast} \cup {MCLet(b) : b \in MCLocal}
    \cup {MCSigned(s) : s \in MCSigs} \cup {MCMatch(b) : b \in MCUses}
    \cup {MCInner(f) : f \in MCKnows}
Module(ds, bs) == [decls |-> ds, binds |-> bs]

\* Declarations.
Data(n, ps, cs) == [decl |-> "data", name |-> n, params |-> ps, cons |-> cs]
Field(n, t) == [name |-> n, type |-> t]
ConOf(n, ts) == [name |-> n, exist |-> <<>>, ctx |-> <<>>, fields |-> [i \in DOMAIN ts |-> Field("", ts[i])]]
Syn(n, ps, t) == [decl |-> "syn", name |-> n, params |-> ps, rhs |-> t]
Class(n, ss, sigs, body) == [decl |-> "class", name |-> n, var |-> "a", supers |-> ss, sigs |-> sigs, body |-> body]
SigDecl(n, ps, t) == [name |-> n, ctx |-> ps, type |-> t]
InstDecl(c, ps, t, body) == [decl |-> "inst", cls |-> c, ctx |-> ps, head |-> t, body |-> body]
Meth(n, ps, e) == [name |-> n, pats |-> ps, body |-> e]
tT(t) == TApp(TC("T"), t)
tP(s, t) == TApp(TApp(TC("P"), s), t)
DataT == Data("T", <<"a">>, <<ConOf("MkT", <<ta, tT(tP(ta, ta))>>), ConOf("End", <<>>)>>)
MkT(p, q) == PCon("MkT", <<p, q>>)

\* Instances of the classes there are, for a type that contains itself at
\* another type.
MCInstEq(ctx) ==
    {Module(<<DataT, InstDecl("Eq", ctx, tT(h), <<Meth("eq", <<MkT(V("x"), V("z")), MkT(V("y"), V("u"))>>, e)>>),
              i>>, <<Fn("f", "x", Ap2("eq", x, d))>>) :
        h \in {ta, tP(ta, tb)},
        e \in {Ap2("eq", x, y), Ap2("eq", V("z"), V("u")), Ap2("lt", x, y), Ap2("eq", x, Lit0)},
        i \in {InstDecl("Eq", <<Cls("Eq", ta), Cls("Eq", tb)>>, tP(ta, tb), <<>>),
               InstDecl("Ord", <<Cls("Ord", ta)>>, tT(ta), <<Meth("lt", <<V("x"), V("y")>>, Ap2("eq", x, y))>>)},
        d \in {Ap2("MkT", Lit0, V("End")), Ap2("MkT", Ap1("sing", x), V("End"))}}
MCContexts == {<<>>, <<Cls("Eq", ta)>>, <<Cls("Ord", ta)>>, <<Cls("Show", ta), Cls("Eq", ta)>>}

\* A class with a superclass, a method that is polymorphic itself, and defaults.
ClassC(ss, ctx, deflt) ==
    Class("C", ss, <<SigDecl("m", ctx, TFun(ta, TFun(tb, tP(ta, tb)))), SigDecl("n", <<>>, TFun(ta, tBool))>>, deflt)
\* A class under C, whose instance needs the one of C.
MCSubclass ==
    <<Class("E", <<"C">>, <<SigDecl("o", <<>>, TFun(ta, tBool))>>, <<Meth("o", <<V("x")>>, Ap1("n", x))>>),
      InstDecl("E", <<Cls("E", ta)>>, TList(ta), <<>>)>>
MCDefaults == {<<>>, <<Meth("n", <<V("x")>>, Ap2("eq", x, x))>>,
               <<Meth("n", <<V("x")>>, CaseOf(Ap2("m", x, x), <<Clause(<<PCon("P", <<V("y"), V("z")>>)>>, Ap2("eq", y, V("z")))>>))>>,
               <<Meth("m", <<V("x"), V("y")>>, Ap2("P", x, y)), Meth("n", <<V("x")>>, Ap1("n", x))>>,
               <<Meth("m", <<V("x"), V("y")>>, CaseOf(Ap2("m", y, x), <<Clause(<<PCon("P", <<V("u"), V("z")>>)>>, Ap2("P", V("z"), V("u")))>>))>>,
               <<Meth("m", <<V("x")>>, LetIn(<<Fn("k", "y", Ap2("eq", Ap1("show", y), Ap1("show", x)))>>,
                                           Lam("y", Ap2("P", x, y))))>>}
MCClass(deflt) ==
    {Module(<<InstDecl("C", cx, h, body), ClassC(ss, ctx, deflt)>> \o more, <<Fn("f", "x", d), Fn("g", "y", Ap1("f", y))>>) :
        ss \in {<<>>, <<"Eq">>, <<"Show", "Eq">>}, ctx \in {<<>>, <<Cls("Show", tb), Cls("C", tb)>>},
        <<h, cx>> \in {<<tI, <<>> >>, <<TList(ta), <<>> >>, <<TList(ta), <<Cls("C", ta)>> >>, <<TList(ta), <<Cls("Show", ta), Cls("Ord", ta)>> >>},
        body \in {<<>>, <<Meth("m", <<V("x"), V("y")>>, LetIn(<<Val("k", Ap2("eq", x, x))>>, Ap2("P", x, y)))>>,
                  <<Meth("n", <<V("x")>>, Ap2("eq", Ap1("show", x), Ap1("show", x)))>>},
        <<more, d>> \in {<< <<>>, Ap2("m", x, x)>>, << <<>>, Ap1("n", Ap1("sing", x))>>,
                        <<MCSubclass, Ap1("o", Ap1("sing", x))>>}}

\* Synonyms, records and what is wrong with declarations.
tS(t) == TApp(TC("S"), t)
MCSynonyms ==
    {Module(<<Syn("S", ps, r), Syn("R", <<"b">>, q), Data("U", <<"a">>, <<c>>),
              InstDecl("Ord", <<>>, TApp(TC("R"), tI), <<>>)>>,
            <<Signed(Sig(<<>>, t), Fn("f", "x", x))>>) :
        ps \in {<<"a">>, <<"a", "b">>, <<>>}, r \in {TList(ta), TFun(ta, tb), TC("U"), TApp(TC("R"), tI)},
        q \in {tS(tb), TList(tb), TApp(tS(tI), tb)},
        c \in {ConOf("MkU", <<tS(ta)>>), ConOf("MkU", <<TApp(TC("R"), tBool)>>)},
        t \in {TFun(TApp(TC("R"), tI), TList(tI)), TFun(tS(ta), tS(ta)), TFun(TApp(tS(ta), tI), TApp(TC("U"), tI))}}
RecordU(t, u) ==
    Data("U", <<"a">>, <<[ConOf("MkU", <<t, tBool>>) EXCEPT !.fields[1].name = "u", !.fields[2].name = "v"],
                         [ConOf("MkW", <<tBool, u>>) EXCEPT !.fields[1].name = "w", !.fields[2].name = "u"],
                         [ConOf("MkX", <<tb, TFun(tb, ta)>>) EXCEPT !.exist = <<"b">>, !.ctx = <<Cls("Show", tb)>>]>>)
MCRecords ==
    {Module(<<RecordU(t, t), InstDecl("Show", <<Cls("Show", ta)>>, TApp(TC("U"), ta), body)>>, <<Fn("f", "x", e)>>) :
        t \in {ta, TList(ta), tI},
        body \in {<<>>, <<Meth("show", <<V("x")>>, Ap1("show", Ap1("u", x)))>>,
                  <<Meth("show", <<PCon("MkX", <<V("x"), V("y")>>)>>, Ap1("show", x)),
                    Meth("show", <<PCon("MkU", <<V("x"), V("y")>>)>>, Ap1("show", y))>>,
                  <<Meth("size", <<V("x")>>, x)>>},
        e \in {Ap2("P", Ap1("u", x), Ap1("v", x)), Ap1("show", Ap2("MkW", Tru, x)),
               CaseOf(x, <<Clause(<<PCon("MkX", <<V("y"), V("z")>>)>>, Ap1("z", y))>>),
               CaseOf(x, <<Clause(<<PCon("MkX", <<V("y"), V("z")>>)>>, y)>>),
               Ap2("MkX", Lit0, Lam("y", x))}}
MCWrong ==
    {Module(<<RecordU(ta, tBool)>>, <<Fn("f", "x", Ap1("u", x))>>),
     Module(<<Data("U", <<"a">>, <<ConOf("MkU", <<tb>>)>>)>>, <<Fn("f", "x", x)>>),
     Module(<<Data("U", <<>>, <<ConOf("MkU", <<TApp(TC("Eq"), tI)>>)>>)>>, <<Fn("f", "x", x)>>),
     Module(<<InstDecl("Show", <<>>, tI, <<Meth("show", <<V("x")>>, V("x"))>>)>>, <<Fn("f", "x", Ap1("show", x))>>),
     Module(<<InstDecl("Show", <<>>, tI, <<>>)>>, <<Val("f", Ap1("show", Lit0))>>)}

MCInputs ==
    {{Module(<<>>, b) : b \in bs} : bs \in MCBindings}
    \cup {MCInstEq(ctx) : ctx \in MCContexts} \cup {MCClass(ds) : ds \in MCDefaults}
    \cup {MCSynonyms, MCRecords, MCWrong}

\* The name of a binding of the group, bound again inside.
MCShadow ==
    {{Module(<<>>, <<Fn("f", "x", d), Fn("g", "y", Ap2("P", Ap1("f", Tru), Ap1("f", Lit0)))>>) :
        d \in {x, [head |-> Lam("g", Ap1("g", x)), args |-> <<Lam("z", V("z"))>>],
               LetIn(<<Fn("g", "z", V("z"))>>, Ap1("g", x)), CaseOf(x, <<Clause(<<V("g")>>, V("g"))>>)}}}
=============================================================================
