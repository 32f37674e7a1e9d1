---------------------------- MODULE InferCorrect ----------------------------
(***************************************************************************)
(* What inference promises: the types of the report, sound levels, and     *)
(* dictionaries that prove what they stand for.                            *)
(***************************************************************************)
EXTENDS Infer

-----------------------------------------------------------------------------
(* What the declarations say (sections 4.1 to 4.3 of the report).  A type  *)
(* variable of the program is bound by its name.                           *)

Decls(k) == {d \in ToSet(prog.decls) : d.decl = k}
Called(k, n) == {d \in Decls(k) : d.name = n}
FnOf(pairs) == [n \in {p[1] : p \in pairs} |-> (CHOOSE p \in pairs : p[1] = n)[2]]

\* The variables of a type, and its constructors with the number of arguments.
RECURSIVE VarsOf(_), Applied(_), Expand(_)
VarsOf(t) ==
    CASE "tyvar" \in DOMAIN t -> {t.tyvar}
      [] "from" \in DOMAIN t -> VarsOf(t.from) \cup VarsOf(t.to)
      [] "list" \in DOMAIN t -> VarsOf(t.list)
      [] "fun" \in DOMAIN t -> VarsOf(t.fun) \cup VarsOf(t.arg)
      [] OTHER -> {}
Applied(t) ==
    CASE "tyvar" \in DOMAIN t -> {}
      [] "from" \in DOMAIN t -> Applied(t.from) \cup Applied(t.to)
      [] "list" \in DOMAIN t -> Applied(t.list)
      [] OTHER -> (IF "con" \in DOMAIN TypeHead(t) THEN {<<TypeHead(t).con, Len(TypeArgs(t))>>} ELSE {})
                  \cup UNION {Applied(u) : u \in ToSet(TypeArgs(t))}

\* A synonym stands for its right-hand side.
Expand(t) ==
    LET head == TypeHead(t)
        args == [i \in DOMAIN TypeArgs(t) |-> Expand(TypeArgs(t)[i])]
        apply(f, us) == FoldLeft(App, f, us)
        full(d) == apply(Subst(<<>>, Expand(d.rhs), [n \in ToSet(d.params) |->
                                    args[CHOOSE i \in DOMAIN d.params : d.params[i] = n]]),
                         SubSeq(args, Len(d.params) + 1, Len(args)))
    IN  CASE "tyvar" \in DOMAIN t -> Bound(t.tyvar)
          [] "from" \in DOMAIN t -> Fun(Expand(t.from), Expand(t.to))
          [] "list" \in DOMAIN t -> App(Con("L"), Expand(t.list))
          [] "con" \in DOMAIN head /\ Called("syn", head.con) = {} -> apply(Con(head.con), args)
          [] "con" \in DOMAIN head /\ Called("syn", head.con) # {} ->
                full(CHOOSE d \in Called("syn", head.con) : TRUE)
          [] OTHER -> apply(Expand(head), args)

PredOf(q) == Pred(q.cls, Expand(q.arg))
VarsOfQual(q) == VarsOf(q.type) \cup UNION {VarsOf(c.arg) : c \in ToSet(q.ctx)}
OfScheme(s) == [vars |-> {Bound(v) : v \in ToSet(s.vars)}, preds |-> ToSet(s.preds), body |-> s.body]

\* A qualified type, for every variable that is not in scope.
SaysIn(scope, q) ==
    [vars |-> {Bound(n) : n \in VarsOfQual(q) \ scope}, preds |-> {PredOf(c) : c \in ToSet(q.ctx)},
     body |-> Expand(q.type)]
Says(q) == SaysIn({}, q)

IllFormed(t) ==
    \E x \in Applied(t) :
        \/ Called("class", x[1]) # {} \/ x[1] \in DOMAIN Imports.classes
        \/ \E d \in Called("syn", x[1]) : x[2] < Len(d.params)
Malformed(q) == IllFormed(q.type) \/ \E c \in ToSet(q.ctx) : IllFormed(c.arg)

\* Classes: superclasses, instances, and methods at a variable of the class.
Classes == DOMAIN Imports.classes \cup {d.name : d \in Decls("class")}
SupersOf(c) == IF c \in DOMAIN Imports.classes THEN Imports.classes[c].supers
               ELSE (CHOOSE d \in Called("class", c) : TRUE).supers
InstancesOf(c) ==
    LET own == SelectSeq(prog.decls, LAMBDA d : d.decl = "inst" /\ d.cls = c)
    IN  (IF c \in DOMAIN Imports.classes THEN Imports.insts[c] ELSE <<>>)
        \o [i \in DOMAIN own |-> [head |-> Expand(own[i].head),
                                 ctx |-> [k \in DOMAIN own[i].ctx |-> PredOf(own[i].ctx[k])]]]
MethodsOf(c) ==
    IF c \in DOMAIN Imports.classes
    THEN {[name |-> m.name, var |-> Bound(-1), type |-> OfScheme(m.sig)] : m \in ToSet(Imports.classes[c].methods)}
    ELSE UNION {{[name |-> s.name, var |-> Bound(d.var), type |-> SaysIn({d.var}, s)] : s \in ToSet(d.sigs)} :
                   d \in Called("class", c)}
WithClass(c, m) == [m.type EXCEPT !.vars = @ \cup {m.var}, !.preds = @ \cup {Pred(c, m.var)}]

\* Data types: constructors and selectors.
DataOf(d) == FoldLeft(App, Con(d.name), [i \in DOMAIN d.params |-> Bound(d.params[i])])
Fields(c) == [i \in DOMAIN c.fields |-> Expand(c.fields[i].type)]
ConsRead ==
    FnOf(UNION {{<<c.name, [vars |-> d.params, exist |-> c.exist, tycon |-> d.name, fields |-> Fields(c),
                            ctx |-> [i \in DOMAIN c.ctx |-> PredOf(c.ctx[i])]]>> : c \in ToSet(d.cons)} :
                   d \in Decls("data")}) @@ Imports.cons

ValuesOf(d) ==
    LET bound(ns) == {Bound(n) : n \in ToSet(ns)}
        con(c) == [vars |-> bound(d.params \o c.exist), preds |-> {PredOf(q) : q \in ToSet(c.ctx)},
                   body |-> FoldRight(Fun, Fields(c), DataOf(d))]
        selector(f) == [vars |-> bound(d.params), preds |-> {}, body |-> Fun(DataOf(d), Expand(f.type))]
    IN  UNION {{<<c.name, con(c)>>} \cup {<<f.name, selector(f)>> : f \in {g \in ToSet(c.fields) : g.name # ""}} :
                  c \in ToSet(d.cons)}
ValuesRead ==
    FnOf(UNION {ValuesOf(d) : d \in Decls("data")}
         \cup UNION {{<<m.name, WithClass(d.name, m)>> : m \in MethodsOf(d.name)} : d \in Decls("class")})
    @@ [x \in DOMAIN Imports.values |-> OfScheme(Imports.values[x])]

\* What is wrong with the declarations themselves.
TypesIn(d) ==
    CASE d.decl = "syn" -> {d.rhs}
      [] d.decl = "data" -> UNION {{f.type : f \in ToSet(c.fields)} \cup {q.arg : q \in ToSet(c.ctx)} : c \in ToSet(d.cons)}
      [] d.decl = "class" -> UNION {{s.type} \cup {q.arg : q \in ToSet(s.ctx)} : s \in ToSet(d.sigs)}
      [] d.decl = "inst" -> {d.head} \cup {q.arg : q \in ToSet(d.ctx)}
Unbound(d) ==
    \/ d.decl = "syn" /\ ~(VarsOf(d.rhs) \subseteq ToSet(d.params))
    \/ d.decl = "data" /\ \E c \in ToSet(d.cons) :
          ~(UNION {VarsOf(f.type) : f \in ToSet(c.fields)} \subseteq ToSet(d.params) \cup ToSet(c.exist))
SynonymCycle ==
    LET syns == {d.name : d \in Decls("syn")}
        uses(n) == syns \cap UNION {{x[1] : x \in Applied(d.rhs)} : d \in Called("syn", n)}
        reach[k \in 0 .. Cardinality(syns)] ==
            IF k = 0 THEN [n \in syns |-> uses(n)]
            ELSE [n \in syns |-> reach[k - 1][n] \cup UNION {uses(m) : m \in reach[k - 1][n]}]
    IN  \E n \in syns : n \in reach[Cardinality(syns)][n]
FieldsDiffer ==
    \E d \in Decls("data") : \E a, b \in UNION {ToSet(c.fields) : c \in ToSet(d.cons)} :
        a.name = b.name /\ a.name # "" /\ Expand(a.type) # Expand(b.type)
Overlaps ==
    \E c \in {d.cls : d \in Decls("inst")} : \E i, j \in DOMAIN InstancesOf(c) :
        i < j /\ Match(InstancesOf(c)[i].head, Zonk(<<>>, InstancesOf(c)[j].head), <<>>) # {}
NoMember ==
    \E d \in Decls("inst") : \E b \in ToSet(d.body) : b.name \notin {m.name : m \in MethodsOf(d.cls)}

DeclsWhy ==
    CASE SynonymCycle -> "cycle"
      [] ~SynonymCycle /\ \E d \in ToSet(prog.decls) : Unbound(d) \/ \E t \in TypesIn(d) : IllFormed(t) -> "type"
      [] OTHER -> IF NoMember THEN "member" ELSE IF FieldsDiffer THEN "field" ELSE IF Overlaps THEN "overlap" ELSE ""

InstanceRead(d) ==
    [vars |-> {Bound(n) : n \in VarsOf(d.head) \cup UNION {VarsOf(q.arg) : q \in ToSet(d.ctx)}},
     ctx |-> {PredOf(q) : q \in ToSet(d.ctx)}, head |-> Expand(d.head), supers |-> ToSet(SupersOf(d.cls)),
     methods |-> {[var |-> m.var, type |-> m.type, clauses |-> ClausesOf(d.body, m.name)] :
                     m \in {n \in MethodsOf(d.cls) : ClausesOf(d.body, n.name) # <<>>}}]
ModuleRead ==
    LET defaults(d) == {[type |-> WithClass(d.name, m), clauses |-> ClausesOf(d.body, m.name)] :
                           m \in {n \in MethodsOf(d.name) : ClausesOf(d.body, n.name) # <<>>}}
    IN  IF DeclsWhy # "" THEN [why |-> DeclsWhy]
        ELSE [why |-> "", binds |-> prog.binds, defaults |-> UNION {defaults(d) : d \in Decls("class")},
              insts |-> {InstanceRead(d) : d \in Decls("inst")}]

Report == INSTANCE TypeSystem WITH
    Known <- [classes |-> [c \in Classes |-> [supers |-> SupersOf(c)]],
              insts |-> [c \in Classes |-> InstancesOf(c)]],
    Imported <- ValuesRead, DataCons <- ConsRead

-----------------------------------------------------------------------------
(* Levels                                                                  *)

\* Generalization by levels (infer_scc, occurs) stands for "not free in the environment": when a
\* component is about to be generalized, the types of the names around it have
\* no variable deeper than the level around it.
LevelsSound ==
    (Doing("default") \/ Doing("quantify")) =>
        \A i \in {j \in DOMAIN locals : locals[j].mono # Top.group} :
            \A m \in Metas(ref, locals[i].type.body) : lvl[m] <= level

-----------------------------------------------------------------------------
(* Evidence                                                                *)

\* Evidence proves a predicate at a place when each part does and each
\* variable is a parameter of a binding or a pattern around the place.
RECURSIVE Proves(_, _, _)
Proves(e, p, at) ==
    CASE e.ev = "hole" ->
            /\ ZonkPred(ref, holes[e.hole].pred) = p
            /\ Proves(holes[e.hole].ev, p, at)
      [] e.ev = "var" ->
            /\ ZonkPred(ref, binders[e.var].pred) = p
            /\ \E q \in binders[e.var].at : IsPrefix(q, at)
      [] e.ev = "inst" ->
            LET i == env.insts[e.cls][e.inst]
            IN  /\ e.cls = p.cls /\ Len(e.args) = Len(i.ctx)
                /\ \E m \in Match(i.head, p.arg, <<>>) :
                      \A k \in DOMAIN i.ctx : Proves(e.args[k], SubstPred(ref, i.ctx[k], m), at)
      [] e.ev = "super" -> env.classes[e.cls].supers[e.index] = p.cls /\ Proves(e.of, Pred(e.cls, p.arg), at)
      [] OTHER -> FALSE

DictsAt(p) == IF p \in DOMAIN dicts THEN dicts[p] ELSE <<>>

\* The names that an expression uses, each with the place of the use and the
\* numbers of dictionaries that what it stands for takes: scope gives those
\* of the names around it.
RECURSIVE Uses(_, _, _)
Taking(names, scope) == [n \in names |-> {0}] @@ scope
UsesOfClauses(cs, at, scope) ==
    UNION {Uses(cs[j].body, at \o <<j, 0>>, Taking(UNION {PatNames(p) : p \in ToSet(cs[j].pats)}, scope)) :
              j \in DOMAIN cs}
BindingsAt(bs, at, scope) ==
    [n \in UNION {Names(b) : b \in ToSet(bs)} |->
        {Len(DictsAt(Append(at, CHOOSE i \in DOMAIN bs : n \in Names(bs[i]))))}] @@ scope
UsesOfBindings(bs, at, scope) ==
    UNION {UsesOfClauses(bs[i].clauses, Append(at, i), scope) : i \in DOMAIN bs}

Uses(e, at, scope) ==
    CASE "var" \in DOMAIN e ->
            IF e.var \in DOMAIN scope THEN {[place |-> Append(at, 0), takes |-> scope[e.var]]} ELSE {}
      [] "head" \in DOMAIN e ->
            (IF "var" \in DOMAIN e.head THEN Uses(e.head, at, scope) ELSE Uses(e.head, Append(at, 0), scope))
            \cup UNION {Uses(e.args[i], Append(at, i), scope) : i \in DOMAIN e.args}
      [] "pats" \in DOMAIN e ->
            Uses(e.body, Append(at, 0), Taking(UNION {PatNames(p) : p \in ToSet(e.pats)}, scope))
      [] "binds" \in DOMAIN e ->
            LET inner == BindingsAt(e.binds, at, scope)
            IN  UsesOfBindings(e.binds, at, inner) \cup Uses(e.body, Append(at, 0), inner)
      [] "alts" \in DOMAIN e ->
            Uses(e.scrut, Append(at, 0), scope) \cup UsesOfClauses(e.alts, at, scope)
      [] OTHER -> {}

\* A method takes the dictionary of its class and those that its clauses take
\* in each instance; a default method, those of its own clauses.
ClassMembers == UNION {{<<c, i>> : i \in DOMAIN env.classes[c].methods} : c \in DOMAIN env.classes}
NameOf(x) == env.classes[x[1]].methods[x[2]].name
PlacesIn(k, x) ==
    {p \in {<<-j, x[2]>> : j \in {i \in DOMAIN prog.decls : prog.decls[i].decl = k
                                  /\ (IF k = "inst" THEN prog.decls[i].cls ELSE prog.decls[i].name) = x[1]}} :
        p \in DOMAIN dicts}
DefaultTakes(x) == {Len(dicts[p]) : p \in PlacesIn("class", x)}
MethodTakes(x) == DefaultTakes(x) \cup {1 + Len(dicts[p]) : p \in PlacesIn("inst", x)}
ModuleScope ==
    BindingsAt(prog.binds, <<>>,
        FnOf({<<NameOf(x), MethodTakes(x)>> : x \in ClassMembers}
             \cup {<<tc_default_name(NameOf(x)), DefaultTakes(x)>> : x \in ClassMembers}))
ModuleUses ==
    LET clauses(x, p) == IF prog.decls[-p[1]].decl = "class" THEN env.classes[x[1]].methods[x[2]].deflt
                         ELSE MethodClauses(x[1], x[2], prog.decls[-p[1]].body)
    IN  UsesOfBindings(prog.binds, <<>>, ModuleScope)
        \cup UNION {UNION {UsesOfClauses(clauses(x, p), p, ModuleScope) : p \in PlacesIn("class", x) \cup PlacesIn("inst", x)} :
                       x \in ClassMembers}

\* In a module that passes, each overloaded use has its dictionaries: each
\* proves its class at its type with what is in scope there, and a use of a
\* binding passes as many as the binding takes (solve_one, infer_scc,
\* tc_check_binding; the desugarer relies on it).
EvidenceFits ==
    status = "ok" =>
        /\ \A p \in DOMAIN evs : \A i \in DOMAIN evs[p] :
              LET e == evs[p][i]
              IN  Proves(e, ZonkPred(ref, IF e.ev = "hole" THEN holes[e.hole].pred ELSE binders[e.var].pred), p)
        /\ \A u \in ModuleUses : \A n \in u.takes : Len(evs[u.place]) = n
        /\ \A j \in {i \in DOMAIN prog.decls : prog.decls[i].decl = "inst"} :
              Len(evs[<<-j, 0>>]) = Len(env.classes[prog.decls[j].cls].supers)

-----------------------------------------------------------------------------
(* The types of the report                                                 *)

TypeOf(x) == locals[Innermost(x)].type

\* The scheme of the code and of the report are the same up to the names of
\* the variables.
SameScheme(s, r, reportRef) ==
    \E m \in Match(Zonk(ref, s.body), Zonk(reportRef, r.body), <<>>) :
        /\ \A v, w \in DOMAIN m : m[v] = m[w] => v = w
        /\ {m[v] : v \in DOMAIN m} = {v \in r.vars : v.meta \in Metas(reportRef, r.body)}
        /\ {Pred(p.cls, m[p.arg.bound]) : p \in {q \in {ZonkPred(ref, z) : z \in ToSet(s.preds)} :
                              IsBound(q.arg) /\ q.arg.bound \in DOMAIN m}}
           = {p \in r.preds : p.arg.meta \in Metas(reportRef, r.body)}

\* The code accepts the modules that the report accepts, declarations included,
\* with the same principal types.  It accepts more: it does not look for skolems
\* that escape, keeps a context that is not on a variable, gives a selector the
\* type of the field in the first constructor that has it, and does not look
\* for instances that overlap.  It accepts less in one case: the context that a
\* constructor brings does not serve the literals among the patterns of its
\* clause, only what is behind them (tc_con_pat).
AgreesWithReport ==
    Ended =>
        \E r \in {Report!TypedModule(ModuleRead)} :
            IF r.why = ""
            THEN /\ status = "ok"
                 /\ \A b \in ToSet(prog.binds) : ~HasSig(b) =>
                       \A n \in Names(b) : SameScheme(TypeOf(n), r.env[n], r.ref)
            ELSE status = "ok" => r.why \in {"escape", "context", "field", "overlap"}

\* "A binding group without signatures is split into strongly connected
\* components" (docs/PLAN.md): two bindings are in one component when each
\* depends on the other by the names that are free in it (tc_bind_group).
SplitsIntoComponents ==
    Doing("group") =>
        LET bs == SelectSeq(Top.binds, LAMBDA b : ~HasSig(b))
            uses(i) == {j \in DOMAIN bs : Report!FreeInBinding(bs[i]) \cap Names(bs[j]) # {}}
            reach[n \in 0 .. Len(bs)] ==
                IF n = 0 THEN [i \in DOMAIN bs |-> {i}]
                ELSE [i \in DOMAIN bs |-> reach[n - 1][i] \cup UNION {uses(j) : j \in reach[n - 1][i]}]
            sees == reach[Len(bs)]
        IN  {ToSet(c) : c \in ToSet(Components(bs))}
            = {{j \in sees[i] : i \in sees[j]} : i \in DOMAIN bs}

-----------------------------------------------------------------------------
\* Checking ends: the solver begins another round only when what is wanted got
\* smaller, and the final defaulting another one only when fewer variables are
\* open (solve, solve_final).
RECURSIVE SizeOf(_)
SizeOf(t) == IF IsApp(t) THEN 1 + SizeOf(t.fun) + SizeOf(t.arg) ELSE 1
Size(i) == SizeOf(Zonk(ref, wanted[i].pred.arg))
Sizes == {Size(i) : i \in DOMAIN wanted}
Count(n) == Cardinality({i \in DOMAIN wanted : Size(i) = n})
\* Some were replaced by smaller ones.
Smaller == \E n \in Sizes : /\ Count(n)' < Count(n)
                           /\ \A k \in Sizes \cup Sizes' : k > n => Count(k)' = Count(k)
Open == {m \in DOMAIN ref : ref[m] = NoType}

Advances ==
    [][/\ Doing("solve") /\ Len(todo') = Len(todo) => Smaller
       /\ Doing("final") /\ status' = "run" => Cardinality(Open') < Cardinality(Open)]_vars
=============================================================================
