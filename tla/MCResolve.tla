----------------------------- MODULE MCResolve -----------------------------
EXTENDS ResolveCorrect

\* Syntax, with the place of each name.
X(n, at) == [q |-> "", n |-> n, at |-> at]
XQ(q, n, at) == [q |-> q, n |-> n, at |-> at]
V(n, at) == [k |-> "NAME", x |-> X(n, at)]
Ap(es) == [k |-> "PARTS", items |-> es]
Tup(at, es) == [k |-> "TUPLE", at |-> at, items |-> es]
Infix(e, op, e2) == [k |-> "INFIX", e |-> e, steps |-> <<[x |-> op, e |-> e2]>>]
Lam(ps, e) == [k |-> "LAMBDA", ps |-> ps, e |-> e]
Let(ds, e) == [k |-> "LET", decls |-> ds, e |-> e]
Case(es, as) == [k |-> "CASE", items |-> es, alts |-> as]
Do(sts) == [k |-> "DO", stmts |-> sts]
Comp(sts, e) == [k |-> "COMP", stmts |-> sts, e |-> e]
Ifs(gs) == [k |-> "IFS", guards |-> gs]
SigE(e, t) == [k |-> "SIG", e |-> e, t |-> t]
Lit(kind, hash, at) == [k |-> "LIT", lit |-> kind, hash |-> hash, at |-> at]
Rec(x, fields) == [k |-> "RECORD", x |-> x, fields |-> fields, wildcard |-> FALSE]
Upd(e, fields) == [k |-> "UPDATE", e |-> e, fields |-> fields]
Named(x, e) == [x |-> x, pun |-> FALSE, e |-> e]
Pun(x) == [x |-> x, pun |-> TRUE]

PV(n, at) == [k |-> "VAR", x |-> X(n, at)]
PC(n, at, ps) == [k |-> "CON", x |-> X(n, at), ps |-> ps]
PT(ps) == [k |-> "PARTS", ps |-> ps]
PAs(n, at, p) == [k |-> "AS", x |-> X(n, at), p |-> p]
PView(e, p) == [k |-> "VIEW", e |-> e, p |-> p]
PSig(p, t) == [k |-> "SIG", p |-> p, t |-> t]
PInfix(p, op, p2) == [k |-> "INFIX", p |-> p, steps |-> <<[x |-> op, p |-> p2]>>]
PLit(kind, hash, neg, at) == [k |-> "LIT", lit |-> kind, hash |-> hash, negative |-> neg, at |-> at]
PRec(x, fields) == [k |-> "RECORD", x |-> x, fields |-> fields, wildcard |-> FALSE]
FieldP(x, p) == [x |-> x, pun |-> FALSE, p |-> p]

Body(e) == [wheres |-> <<>>, guards |-> <<[stmts |-> <<>>, e |-> e]>>]
Where(e, ds) == [Body(e) EXCEPT !.wheres = ds]
Guards(gs, ds) == [wheres |-> ds, guards |-> gs]
G(sts, e) == [stmts |-> sts, e |-> e]
SE(at, e) == [k |-> "EXPR", at |-> at, e |-> e]
SB(at, p, e) == [k |-> "BIND", at |-> at, p |-> p, e |-> e]
SL(ds) == [k |-> "LET", decls |-> ds]
Alt(p, x) == [p |-> p, rhs |-> x]
Fun(n, at, ps, x) == [k |-> "FUN", at |-> at, x |-> X(n, at), ps |-> ps, rhs |-> x]
Pat(at, p, x) == [k |-> "PAT", at |-> at, p |-> p, rhs |-> x]
Sig(at, xs, t) == [k |-> "SIG", at |-> at, names |-> xs, t |-> t]

TV(n, at) == [k |-> "VAR", x |-> X(n, at)]
TC(n, at) == [k |-> "CON", x |-> X(n, at)]
TAp(ts) == [k |-> "PARTS", items |-> ts]
TTup(at, ts) == [k |-> "TUPLE", at |-> at, items |-> ts]
TList(at, t) == [k |-> "LIST", at |-> at, t |-> t]
TUnit(at) == [k |-> "UNIT", at |-> at]
Arrow == [k |-> "ARROW"]
TQual(c, t) == [k |-> "QUAL", ctx |-> c, t |-> t]
TOp(at, n, a, b) == [k |-> "OP", at |-> at, x |-> X(n, at), items |-> <<a, b>>]
Forall_(bs, t) == [k |-> "FORALL", binders |-> bs, t |-> t]
B(n, at) == [n |-> n, at |-> at, kind |-> <<>>]
BK(n, at, t) == [n |-> n, at |-> at, kind |-> <<t>>]

ConD(x, args) == [x |-> x, nil |-> FALSE, gadt |-> FALSE, forall |-> <<>>, ctx |-> <<>>, args |-> args]
Data(x, cons) == [k |-> "DATA", at |-> x.at, x |-> x, vars |-> <<>>, kind |-> <<>>, cons |-> cons,
                  deriving |-> <<>>, via |-> FALSE]
Class(x, body) == [k |-> "CLASS", at |-> x.at, x |-> x, vars |-> <<>>, ctx |-> <<>>, fundeps |-> FALSE,
                   body |-> body]
Instance(x, args, body) == [k |-> "INSTANCE", at |-> x.at, x |-> x, args |-> args, ctx |-> <<>>,
                            headless |-> FALSE, body |-> body]

-----------------------------------------------------------------------------
\* The program: a builtin module that defines what the syntax needs, a library
\* with a class, and the module M.
T(n) == <<"term", n>>
Ty(n) == <<"type", n>>
Source(name, own, imports) ==
    [name |-> name, own |-> own, kids |-> [t \in {} |-> {}], prelude |-> FALSE, supported |-> TRUE,
     imports |-> imports, hasExports |-> FALSE, exports |-> <<>>]
Import(m, q) == [module |-> m, alias |-> q, qualified |-> q # m, package |-> FALSE,
                 hasItems |-> FALSE, hiding |-> FALSE, items |-> <<>>]
Syntax_ == {T("fromInteger"), T(">>"), T(">>="), T("negate"), T("=="), T("enumFromTo"), Ty("Integer"), Ty("Int#")}
Lib == {T("x"), T("y"), T("meth"), Ty("Cls")}
M == {T("f"), T("x"), T("R"), T("fld"), T("P"), T("pf"), Ty("T"), Ty("Cls2"), T("op2")}
Entry(m) == [scope |-> Fine(NoScope), exports |-> Fine(OwnScope(m, "exports"))]
Modules(own) ==
    [n \in {"B1", "B2", "L"} |->
        Entry(Source(n, CASE n = "B1" -> own [] n = "B2" -> Syntax_ [] n = "L" -> Lib, <<>>))]
ScopeOf(imports) == ModuleScope(Modules({}), [e \in {} |-> {}], <<>>, Source("M", M, imports)).val
Program(imports, decls) ==
    [modules |-> Modules({T("negate")}), builtins |-> <<"B0", "B1", "B2">>,
     kids |-> (<<"L", Ty("Cls")>> :> {T("meth")}), patsyns |-> {<<"M", T("P")>>},
     scope |-> ScopeOf(imports), decls |-> decls]
\* The library is imported under its name, or only qualified.
Open == <<Import("L", "L")>>
Behind == <<Import("L", "Q")>>
Module(imports, decls) == [imports |-> imports, decls |-> decls]
Of(decls) == Module(Open, decls)

\* Which binder a name finds: functions, groups, lambdas, cases, statements.
Ns == {"x", "y"}
Uses == {"x", "y", "g"}
Nested ==
    {Of(<<Fun("f", 1, <<PV(a, 2)>>,
              Guards(<<G(<<SB(3, PV(b, 4), V(u, 3))>>, Lam(<<PV(c, 6)>>, Ap(<<V(u, 7), V(v, 8)>>)))>>,
                     <<Fun("g", 9, <<PV(d, 10)>>, Body(V(v, 11)))>>)),
          Fun("x", 12, <<>>, Body(Ap(<<V(u, 13), V("f", 14)>>)))>>) :
        a \in Ns, b \in Ns, c \in Ns, d \in Ns, u \in Uses, v \in Uses}
Groups ==
    {Of(<<Fun("f", 1, <<PV("x", 2)>>,
              Body(Let(<<Sig(3, <<X(a, 3)>>, TC("T", 4)),
                         Fun(a, 5, <<PV(b, 6)>>, Body(V(u, 7))),
                         Fun(a, 8, <<PC("R", 9, <<PV(b, 10)>>)>>, Where(V(b, 11), <<Fun("g", 12, <<>>, Body(V(u, 13)))>>)),
                         Pat(14, PT(<<PV("h", 15), PAs("z", 16, PV(c, 17))>>), Body(Ap(<<V(u, 18), V("h", 19)>>)))>>,
                       Ap(<<V(u, 20), V(a, 21), V("z", 22), V(c, 23)>>))))>>) :
        a \in {"x", "y"}, b \in Ns, c \in {"g", "w"}, u \in {"x", "y", "g", "z"}}
Statements ==
    {Of(<<Fun("f", 1, <<PV(a, 2)>>,
              Body(Do(<<SB(3, PV(b, 3), V(u, 4)), SE(5, V(u, 5)), SL(<<Fun(c, 7, <<>>, Body(V(v, 8)))>>),
                        SB(9, PV("z", 9), Comp(<<SB(10, PV(c, 11), V(v, 12)), SE(13, V(c, 14))>>, V(u, 15))),
                        SE(16, Ifs(<<G(<<SB(17, PV(b, 18), V(u, 19))>>, V(b, 20)), G(<<>>, V(v, 21))>>))>>))),
          Fun("x", 30, <<>>, Body(Case(<<V("x", 31)>>, <<Alt(PV(a, 32), Where(V(u, 33), <<Fun(b, 34, <<>>, Body(V(a, 35)))>>)),
                                                        Alt(PT(<<>>), Body(V(a, 36)))>>)))>>) :
        a \in Ns, b \in Ns, c \in Ns, u \in Ns, v \in Ns}

\* The other forms of expressions and patterns, in one function.
Exprs(a) ==
    <<Lit("INTEGER", "", 10), Lit("INTEGER", "Int#", 10), Lit("FLOAT", "", 10), Lit("CHAR", "", 10),
      Lit("STRING", "Addr#", 10), Tup(10, <<V(a, 11), V("R", 12)>>), SigE(V(a, 10), TV("t", 11)),
      Infix(V(a, 10), X("y", 11), V("x", 12)), [k |-> "LSEC", e |-> V(a, 10), x |-> XQ("L", "y", 11)],
      [k |-> "RSEC", x |-> X(a, 10), e |-> V("y", 11)], [k |-> "NEG", at |-> 10, e |-> V(a, 11)],
      [k |-> "SEQ", at |-> 10, items |-> <<V(a, 11), V("x", 12)>>, method |-> "enumFromTo"],
      Rec(X("R", 10), <<Named(X("fld", 11), V(a, 12)), Pun(X("x", 13))>>),
      Upd(V(a, 10), <<Named(X("fld", 11), V(a, 12)), Pun(X("y", 13))>>),
      Case(<<>>, <<Alt(PV(a, 10), Body(V(a, 11)))>>), [k |-> "SYNTAX", at |-> 10], V("nowhere", 10)>>
Pats(a) ==
    <<PC("R", 3, <<PV(a, 4), PV("w", 5)>>), PInfix(PV(a, 3), X("R", 4), PT(<<PV("w", 5)>>)),
      PSig(PV(a, 3), TList(4, TC("T", 5))), PView(Lam(<<PV("x", 3)>>, V("x", 4)), PV(a, 5)),
      PRec(X("R", 3), <<FieldP(X("fld", 4), PV(a, 5)), Pun(X("w", 6))>>),
      PRec(X("P", 3), <<FieldP(X("pf", 4), PV(a, 5)), Pun(X("w", 6))>>),
      PLit("INTEGER", "", TRUE, 3), PLit("FLOAT", "", FALSE, 3), PLit("INTEGER", "Int#", FALSE, 3),
      PLit("STRING", "", FALSE, 3), [k |-> "TYARG", t |-> TC("T", 3)], [k |-> "WILD"]>>
Forms ==
    {Of(<<Fun("f", 1, <<p, PV("z", 8)>>, Body(e)), Fun("x", 20, <<PV("y", 21)>>, Body(V("y", 22)))>>) :
        p \in UNION {ToSet(Pats(a)) : a \in Ns}, e \in UNION {ToSet(Exprs(a)) : a \in Ns}}

\* Types: foralls in and around signatures, and the variables they scope.
SigTypes ==
    {Forall_(<<B("a", 2), BK("b", 3, TV("a", 4))>>, TQual(TAp(<<TC("Cls", 5), TV("a", 6)>>), TAp(<<Arrow, TV("b", 7)>>))),
     Forall_(<<B("a", 2)>>, Forall_(<<B("b", 3), B("a", 4)>>, TTup(5, <<TV("a", 6), TV("b", 7)>>))),
     TQual(TTup(2, <<TC("Cls", 3), TOp(4, "T", TV("a", 5), TUnit(6))>>), TV("a", 7))}
Types_ ==
    {Of(<<Sig(1, <<X(n, 1)>>, t),
          Fun("f", 10, <<PV("x", 11)>>,
              Where(SigE(V("x", 12), TV("a", 13)),
                    <<Sig(14, <<X("g", 14), X("h", 15)>>, u),
                      Fun("g", 20, <<PV("y", 21)>>, Body(SigE(V("y", 22), TAp(<<TV("a", 23), TV("c", 24)>>)))),
                      Fun("h", 25, <<>>, Body(SigE(V("x", 26), Forall_(<<B("c", 27)>>, TV("c", 28)))))>>)),
          Fun("x", 40, <<PV("z", 41)>>, Body(SigE(V("z", 42), TV("b", 43))))>>) :
        n \in {"f", "x"}, t \in SigTypes,
        u \in {Forall_(<<B("c", 16)>>, TV("c", 17)), Forall_(<<B("a", 16), B("c", 17)>>, TAp(<<TV("a", 18), TV("c", 19)>>)),
               TAp(<<TV("a", 16), TV("c", 17)>>)}}

\* Every kind of declaration: classes and instances number for themselves.
DataDecls ==
    {[Data(X("T", 1), <<[ConD(X("R", 5), <<TV("a", 7), TV("b", 8)>>) EXCEPT
                            !.forall = bs, !.ctx = <<TTup(6, <<TC("Cls", 6)>>)>>]>>)
        EXCEPT !.vars = <<BK("a", 2, TC("T", 2))>>, !.kind = ks, !.deriving = <<TC("Cls", 9)>>] :
        bs \in {<<>>, <<B("b", 3), BK("a", 4, TV("b", 4))>>}, ks \in {<<>>, <<TC("T", 3)>>}}
Methods(n, at) ==
    <<Fun(n, at, <<PV("y", at + 1)>>, Body(Lam(<<PV("x", at + 2)>>, Ap(<<V("x", at + 3), V("y", at + 4), V(n, at + 5)>>))))>>
OtherDecls(n) ==
    {[k |-> "PATSYNSIG", names |-> <<X("P", 11)>>, t |-> Forall_(<<B("a", 12)>>, TV("a", 13))],
     [k |-> "PATSYN", x |-> X("P", 11), p |-> PC("R", 12, <<PV("x", 13)>>),
      body |-> <<[Fun("P", 14, <<PV("y", 15)>>, Body(Ap(<<V("y", 16), V("x", 17)>>))) EXCEPT !.k = "FUN"]>>],
     [k |-> "INSTANCETYPE", items |-> <<TC("T", 11), TV("a", 12)>>],
     [k |-> "FOREIGN", x |-> X("f", 11), t |-> TC("T", 12)],
     [k |-> "SYNONYM", x |-> X("T", 11), vars |-> <<B("a", 12)>>, t |-> TV("a", 13)],
     [k |-> "FAMILY", x |-> X("T", 11), vars |-> <<B("a", 12)>>, kind |-> <<TC("T", 13)>>, injective |-> FALSE],
     [k |-> "FIXITY"],
     [Class(X("Cls2", 11), <<Sig(20, <<X(n, 20)>>, Forall_(<<B("a", 21)>>, TV("a", 22))),
                             [k |-> "FAMILY", at |-> 23, x |-> X("T", 23), vars |-> <<>>, kind |-> <<>>, injective |-> FALSE],
                             [k |-> "DEFAULTSIG", at |-> 24, t |-> TV("a", 24)]>> \o Methods("op2", 30))
        EXCEPT !.ctx = <<TC("Cls", 12)>>],
     Instance(X("Cls2", 11), <<TC("T", 12)>>, Methods("op2", 20) \o Methods("f", 30))}
\* An instance of a class that is in scope under a qualifier only: the names of
\* its methods are not.
InstanceOf(q) ==
    [Instance(XQ(q, "Cls", 12), <<TC("T", 13)>>,
              <<[k |-> "SIG", at |-> 14, t |-> TC("T", 14)],
                [k |-> "INSTANCE", at |-> 15, items |-> <<TC("T", 15)>>]>>
              \o Methods("meth", 20) \o Methods("nowhere", 30))
        EXCEPT !.ctx = <<TC("T", 11)>>]
After == Fun("x", 50, <<PV("y", 51)>>, Body(Ap(<<V("y", 52), V("f", 53)>>)))
Before == Fun("f", 1, <<PV("y", 2), PV("z", 3)>>, Body(Ap(<<V("z", 4), V("x", 5)>>)))
Declarations ==
    {Of(<<d, After>>) : d \in DataDecls}
    \cup {Of(<<Before, d, After>>) : d \in UNION {OtherDecls(n) : n \in {"x", "op2"}}}
    \cup {Module(imports, <<Before, InstanceOf(q), After>>) : imports \in {Open, Behind}, q \in {"", "Q", "L"}}

\* View patterns in local pattern bindings: they bind names of the group, of
\* each other and their own, and have pattern bindings inside them.
Viewed(b, c, u) ==
    {Lam(<<PV(b, 6)>>, Lam(<<PV(c, 7)>>, Ap(<<V(u, 8), V(b, 9)>>))),
     Case(<<V(u, 6)>>, <<Alt(PV(b, 7), Body(V(b, 8))), Alt(PV(b, 9), Body(V(c, 10)))>>),
     Let(<<Fun(b, 6, <<PV(c, 7)>>, Body(V(c, 8)))>>, Lam(<<PV(c, 9)>>, Ap(<<V(b, 10), V(u, 11)>>))),
     Let(<<Pat(6, PAs(b, 6, PV("w", 7)), Body(Lam(<<PV(c, 8)>>, V(c, 9))))>>, Lam(<<PV(c, 10)>>, V(u, 11)))}
Views ==
    {Of(<<Fun("f", 1, <<PV("x", 2)>>,
              Body(Let(<<Pat(3, PT(<<PV("x", 4), PView(e, PV("z", 13)), PV("v", 14)>>), Body(Lam(<<PV(b, 15)>>, V(b, 16)))),
                         Fun("g", 17, <<PV("x", 18)>>, Body(V("x", 19)))>>,
                       Ap(<<V("x", 20), V("z", 21), V("v", 22)>>))))>>) :
        b \in {"y", "v"}, e \in UNION {Viewed(b, c, u) : b \in {"x", "y", "z"}, c \in {"x", "y"}, u \in {"x", "z"}}}

\* Signatures and bindings of one name in any order: of the module, of a group
\* and of a class.
TypesUsed(at) == Ap(<<SigE(V("f", at), TV("a", at + 1)), SigE(V("f", at + 2), TV("b", at + 3))>>)
SigOf(v, at) == Sig(at, <<X("x", at)>>, Forall_(<<B(v, at + 1)>>, TV(v, at + 2)))
BindingOf(at) == Fun("x", at, <<>>, Body(TypesUsed(at + 1)))
Grouped(at, ds) == Fun("f", at, <<>>, Where(TypesUsed(at + 1), ds))
Item(k, at) ==
    CASE k = "signature" -> SigOf("a", at)
      [] k = "binding"   -> BindingOf(at)
      [] k = "group"     -> Grouped(at, <<SigOf("b", at + 10), BindingOf(at + 20)>>)
      [] k = "late"      -> Grouped(at, <<BindingOf(at + 10), SigOf("b", at + 20)>>)
      [] k = "unsigned"  -> Grouped(at, <<BindingOf(at + 10)>>)
      [] k = "class"     -> Class(X("Cls2", at), <<SigOf("a", at + 10), BindingOf(at + 20)>>)
      [] k = "instance"  -> Instance(X("Cls2", at), <<TC("T", at + 1)>>, <<BindingOf(at + 10)>>)
Signatures ==
    {Of([i \in 1 .. 3 |-> Item(ks[i], 100 * i)]) :
        ks \in [1 .. 3 -> {"signature", "binding", "group", "late", "unsigned", "class", "instance"}]}

\* What the resolver refuses.
Wrong == [k |-> "?"]
InfixArgs == [Fun("g", 2, <<>>, Body(V("x", 3))) EXCEPT !.k = "INFIXFUN"]
RefusedDecls ==
    {Fun("f", 1, <<Wrong>>, Body(V("x", 2))), Fun("f", 1, <<>>, Body(Wrong)), InfixArgs,
     Fun("f", 1, <<>>, Where(V("x", 2), <<InfixArgs>>)), Fun("f", 1, <<>>, Where(V("x", 2), <<Wrong>>)),
     Fun("f", 1, <<>>, Body([Rec(X("R", 2), <<>>) EXCEPT !.wildcard = TRUE])),
     Fun("f", 1, <<[PRec(X("R", 2), <<>>) EXCEPT !.wildcard = TRUE]>>, Body(V("x", 3))),
     Sig(1, <<X("f", 1)>>, Wrong), [k |-> "OTHER"], [Data(X("T", 1), <<>>) EXCEPT !.via = TRUE],
     Data(X("T", 1), <<[ConD(X("R", 2), <<>>) EXCEPT !.gadt = TRUE]>>),
     [k |-> "FAMILY", x |-> X("T", 1), vars |-> <<>>, kind |-> <<>>, injective |-> TRUE],
     [Class(X("Cls2", 1), <<>>) EXCEPT !.fundeps = TRUE], Class(X("Cls2", 1), <<Wrong>>),
     [Instance(X("Cls2", 1), <<>>, <<>>) EXCEPT !.headless = TRUE], Instance(X("Cls2", 1), <<>>, <<Wrong>>),
     [k |-> "PATSYN", x |-> X("P", 1), p |-> PV("x", 2), body |-> <<InfixArgs>>]}
Refused == {Of(<<d, After>>) : d \in RefusedDecls}

MCInputs ==
    {{Program(m.imports, m.decls) : m \in modules} :
        modules \in {Nested, Groups, Statements, Forms, Types_, Views, Signatures, Declarations, Refused}}

-----------------------------------------------------------------------------
\* What the reference may say of a small module: the same up to the ids, two
\* ids that are one, one that is two, and records that are missing, more,
\* elsewhere or of something else.
Renamed(out, f) ==
    [i \in DOMAIN out |-> IF out[i].target.k = "local"
                          THEN [out[i] EXCEPT !.target.id = f[i][@]] ELSE out[i]]
Ids(out) == {out[i].target.id : i \in {i \in DOMAIN out : out[i].target.k = "local"}}
Changed(out) ==
    UNION {{RemoveAt(out, i), Append(out, out[i]),
            [out EXCEPT ![i].at = @ + 1], [out EXCEPT ![i].target = Syntax], [out EXCEPT ![i].target = Unbound],
            [out EXCEPT ![i].target = Local(0)], [out EXCEPT ![i].ns = "type"],
            [out EXCEPT ![i].target = [k |-> "top", e |-> <<"M", T("x")>>]]} : i \in DOMAIN out}
Ided(out) ==
    {Renamed(out, [i \in DOMAIN out |-> f]) : f \in [Ids(out) -> 0 .. 2]}
    \cup {Renamed(out, [i \in DOMAIN out |-> IF i = j THEN f ELSE [id \in Ids(out) |-> id]]) :
             j \in DOMAIN out, f \in [Ids(out) -> 0 .. 2]}
MCDumps(out) ==
    IF Len(out) > 7 \/ Cardinality(Ids(out)) > 3 THEN {out, Reverse(out)}
    ELSE {out} \cup Changed(out) \cup Ided(out)
=============================================================================
