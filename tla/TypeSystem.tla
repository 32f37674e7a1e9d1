----------------------------- MODULE TypeSystem -----------------------------
(***************************************************************************)
(* What the language says about the types of a program: inference as the   *)
(* Haskell 2010 report describes it (sections 4.5.1, 4.5.2, 4.3.4 and      *)
(* 4.5.5), on environments and sets.  There are no levels, no evidence and *)
(* no order of constraints: a variable is generalized when it is not free  *)
(* in the environment, and a context is what remains when the givens and   *)
(* the instances have been used up.                                        *)
(*                                                                         *)
(* The inference is a chain of results: records [ref, ids, ps, why, t, ts, *)
(* env, gs, sks], where ps are the constraints so far, why is the reason   *)
(* of a failure or "", and the others are what the last step returns: a    *)
(* type, types of patterns, an environment, givens and skolems.            *)
(***************************************************************************)
EXTENDS Types

CONSTANTS
    Known,      \* what is known of classes
    Imported,   \* the environment outside the bindings
    DataCons,   \* the constructors of patterns
    Says(_),    \* the scheme that a signature says
    Malformed(_)    \* a signature that says nothing

\* A scheme of the environment: forall vars (types). preds (a set) => body.
Poly(vs, ps, t) == [vars |-> vs, preds |-> ps, body |-> t]

RECURSIVE Replace(_, _)
Replace(t, m) ==
    CASE t \in DOMAIN m -> m[t]
      [] t \notin DOMAIN m /\ IsApp(t) -> App(Replace(t.fun, m), Replace(t.arg, m))
      [] OTHER -> t

Failing(s, why) == [s EXCEPT !.why = IF @ = "" THEN why ELSE @]
Fresh(s) == [s EXCEPT !.ref = Append(@, NoType), !.t = Meta(Len(s.ref) + 1)]
FreshSkolem(s) == [s EXCEPT !.ids = @ + 1, !.t = Skolem(s.ids + 1)]
Adding(s, ps) == [s EXCEPT !.ps = @ \cup ps]

\* Each type of vs with a fresh one: s.t becomes the map.
FreshMap(s, vs) ==
    LET f(acc, v) == [s |-> Fresh(acc.s), m |-> acc.m @@ (v :> Fresh(acc.s).t)]
        r == FoldSet(LAMBDA v, acc : f(acc, v), [s |-> s, m |-> <<>>], vs)
    IN  [r.s EXCEPT !.t = r.m]

RECURSIVE Unified(_, _, _), Equated(_, _, _)
Unified(s, a, b) == IF s.why = "" THEN Equated(s, Zonk(s.ref, a), Zonk(s.ref, b)) ELSE s

Binding(s, m, t) == IF m \in Metas(s.ref, t) THEN Failing(s, "type") ELSE [s EXCEPT !.ref[m] = t]

Equated(s, a, b) ==
    CASE a = b -> s
      [] a # b /\ IsMeta(a) -> Binding(s, a.meta, b)
      [] a # b /\ ~IsMeta(a) /\ IsMeta(b) -> Binding(s, b.meta, a)
      [] a # b /\ IsApp(a) /\ IsApp(b) -> Unified(Unified(s, a.fun, b.fun), a.arg, b.arg)
      [] OTHER -> Failing(s, "type")

\* A result of the type t.
OfType(r, t) == Unified(r, r.t, t)

RECURSIVE SkolemsOf(_), ClassesAbove(_), Simplified(_, _, _)
SkolemsOf(t) == CASE IsApp(t) -> SkolemsOf(t.fun) \cup SkolemsOf(t.arg)
                  [] "skolem" \in DOMAIN t -> {t}
                  [] OTHER -> {}

EnvSkolems(s, env) == UNION {SkolemsOf(Zonk(s.ref, env[x].body)) : x \in DOMAIN env}
FixedMetas(s, env) ==
    UNION {Metas(s.ref, env[x].body) \ {v.meta : v \in {u \in env[x].vars : IsMeta(u)}} : x \in DOMAIN env}

\* A class and its superclasses.
ClassesAbove(c) == {c} \cup UNION {ClassesAbove(d) : d \in ToSet(Known.classes[c].supers)}
Entailed(gs, p) == \E g \in gs : g.arg = p.arg /\ p.cls \in ClassesAbove(g.cls)

\* What is left of a constraint: givens discharge it, instances reduce it.
Simplified(ref, gs, p) ==
    CASE Entailed(gs, p) -> {}
      [] ~Entailed(gs, p) /\ FromInstances(Known, ref, p) = {} -> {p}
      [] OTHER ->
            UNION {UNION {Simplified(ref, gs, SubstPred(ref, c, x.types)) :
                             c \in ToSet(Known.insts[p.cls][x.inst].ctx)} : x \in FromInstances(Known, ref, p)}

ZonkAll(s, ps) == {ZonkPred(s.ref, p) : p \in ps}
Left(s, gs, ps) == UNION {Simplified(s.ref, ZonkAll(s, gs), p) : p \in ZonkAll(s, ps)}

\* The default of an ambiguous variable with the constraints ps.
Defaulted(s, v, ps) ==
    LET cs == {p.cls : p \in {q \in Left(s, {}, ps) : q.arg = Meta(v)}}
        good == SelectSeq(Candidates, LAMBDA t : \A c \in cs : HasInstance(Known, c, t))
    IN  IF good # <<>> /\ \E c \in cs : ClassesAbove(c) \cap NumClasses # {}
        THEN [s EXCEPT !.ref[v] = good[1]] ELSE Failing(s, "ambiguous")

DefaultedAll(s, vs, ps) == FoldSet(LAMBDA v, acc : Defaulted(acc, v, ps), s, vs)

-----------------------------------------------------------------------------
RECURSIVE FreeIn(_), FreeInBinding(_), BoundBy(_), Typed(_, _, _), Clause(_, _, _), Clauses(_, _, _, _),
          Pattern(_, _), Patterns(_, _, _), ConPattern(_, _, _, _), ClauseBody(_, _, _, _),
          TypedInside(_, _), Alternatives(_, _, _), Arguments(_, _, _),
          Grouped(_, _, _), Groups(_, _, _, _)

BoundBy(p) == CASE "var" \in DOMAIN p -> {p.var}
                [] "con" \in DOMAIN p -> UNION {BoundBy(q) : q \in ToSet(p.args)}
                [] OTHER -> {}

FreeInClause(c) == FreeIn(c.body) \ UNION {BoundBy(p) : p \in ToSet(c.pats)}
BindersOf(b) == IF "pat" \in DOMAIN b THEN BoundBy(b.pat) ELSE {b.name}
FreeInBinding(b) == UNION {FreeInClause(c) : c \in ToSet(b.clauses)}

FreeIn(e) ==
    CASE "var" \in DOMAIN e   -> {e.var}
      [] "head" \in DOMAIN e  -> FreeIn(e.head) \cup UNION {FreeIn(a) : a \in ToSet(e.args)}
      [] "pats" \in DOMAIN e  -> FreeInClause(e)
      [] "binds" \in DOMAIN e -> (FreeIn(e.body) \cup UNION {FreeInBinding(b) : b \in ToSet(e.binds)})
                                 \ UNION {BindersOf(b) : b \in ToSet(e.binds)}
      [] "alts" \in DOMAIN e  -> FreeIn(e.scrut) \cup UNION {FreeInClause(c) : c \in ToSet(e.alts)}
      [] OTHER -> {}

\* A pattern of the type s.t: its variables join s.env.
Pattern(s, p) ==
    CASE "var" \in DOMAIN p -> [s EXCEPT !.env = (p.var :> Poly({}, {}, s.t)) @@ @]
      [] "lit" \in DOMAIN p -> Adding(s, {Pred("Eq", s.t), Pred("Num", s.t)})
      [] OTHER -> ConPattern(FreshMap(s, {Bound(v) : v \in ToSet(DataCons[p.con].vars)}),
                             s.t, DataCons[p.con], p.args)

\* A constructor pattern, where u.t is the map for the type's variables.
ConPattern(u, type, c, args) ==
    LET sks == [i \in DOMAIN c.exist |-> Skolem(u.ids + i)]
        m == u.t @@ [v \in {Bound(w) : w \in ToSet(c.exist)} |->
                        sks[CHOOSE i \in DOMAIN c.exist : Bound(c.exist[i]) = v]]
        result == FoldLeft(LAMBDA f, v : App(f, m[Bound(v)]), Con(c.tycon), c.vars)
        start == [Unified(u, type, result) EXCEPT !.ids = @ + Len(sks), !.sks = @ \cup ToSet(sks),
                     !.gs = @ \cup {Pred(q.cls, Replace(q.arg, m)) : q \in ToSet(c.ctx)}]
    IN  Patterns(start, args, [i \in DOMAIN c.fields |-> Replace(c.fields[i], m)])

Patterns(s, ps, types) ==
    IF ps = <<>> THEN s
    ELSE Patterns(Pattern([s EXCEPT !.t = Head(types)], Head(ps)), Tail(ps), Tail(types))

\* What comes out of a clause: its skolems do not.  A clause whose patterns
\* have a literal of a type that only its constructors know to be a number is
\* legal; it is told apart as "literal".
ClauseEnd(ps, env, s, body) ==
    LET left == Left(body, s.gs, body.ps)
        ofLiterals == {p \in Left(body, {}, s.ps) : SkolemsOf(p.arg) \cap s.sks # {}}
        type == FoldRight(LAMBDA a, t : Fun(a, t), s.ts, body.t)
        escaped == EnvSkolems(body, env) \cup SkolemsOf(Zonk(body.ref, type))
        why == IF \E p \in left : SkolemsOf(p.arg) \cap s.sks # {} THEN "instance"
               ELSE IF escaped \cap s.sks # {} THEN "escape"
               ELSE IF ofLiterals # {} THEN "literal" ELSE ""
    IN  Failing([body EXCEPT !.ps = ps \cup left, !.t = type], why)

ClauseBody(ps, env, s, e) == ClauseEnd(ps, env, s, Typed(s, s.env, e))

\* A clause: the givens of its patterns are for its patterns and its body.
Clause(s, env, c) ==
    LET start == [s EXCEPT !.ps = {}, !.env = env, !.gs = {}, !.sks = {}]
        matched(r) == [Patterns(r, c.pats, r.t) EXCEPT !.ts = r.t]
    IN  ClauseBody(s.ps, env, matched(FreshMap(start, DOMAIN c.pats)), c.body)

\* Clauses of the type t.
Clauses(s, env, cs, t) ==
    IF cs = <<>> THEN s ELSE Clauses(OfType(Clause(s, env, Head(cs)), t), env, Tail(cs), t)

\* The argument x of a function of the type t.
Applied(x, t) == LET f == Fresh(x) IN [Unified(f, t, Fun(x.t, f.t)) EXCEPT !.t = f.t]

Typed(s, env, e) ==
    CASE s.why # "" -> s
      [] "var" \in DOMAIN e ->
            LET u == FreshMap(s, env[e.var].vars)
            IN  [Adding(u, {Pred(p.cls, Replace(Zonk(s.ref, p.arg), u.t)) : p \in env[e.var].preds})
                    EXCEPT !.t = Replace(Zonk(s.ref, env[e.var].body), u.t)]
      [] "lit" \in DOMAIN e -> LET f == Fresh(s) IN Adding(f, {Pred("Num", f.t)})
      [] "head" \in DOMAIN e ->
            Arguments(Typed(s, env, e.head), env, e.args)
      [] "pats" \in DOMAIN e -> Clause(s, env, e)
      [] "binds" \in DOMAIN e -> TypedInside(Grouped(s, env, e.binds), e.body)
      [] "alts" \in DOMAIN e -> Alternatives(Typed(s, env, e.scrut), env, e.alts)

TypedInside(s, e) == Typed(s, s.env, e)

Alternatives(s, env, cs) ==
    LET f == Fresh(s)
    IN  [Clauses(f, env, cs, Fun(s.t, f.t)) EXCEPT !.t = f.t]

Arguments(s, env, es) ==
    IF es = <<>> THEN s ELSE Arguments(Applied(Typed(s, env, Head(es)), s.t), env, Tail(es))

-----------------------------------------------------------------------------
(* Binding groups                                                          *)

\* A binding whose names have the types mono.
OneType(s, env, mono, b) ==
    LET names(r) == FoldSet(LAMBDA n, acc : Unified(acc, r.env[n].body, mono[n]),
                            Failing(r, IF r.sks = {} THEN "" ELSE "existential"), BoundBy(b.pat))
        start(r) == [r EXCEPT !.env = <<>>, !.gs = {}, !.sks = {}]
    IN  IF "pat" \in DOMAIN b
        THEN names(Pattern(start(Typed(s, env, b.clauses[1].body)), b.pat))
        ELSE Clauses(s, env, b.clauses, mono[b.name])

IsRestricted(bs) == \E b \in bs : "pat" \in DOMAIN b \/ b.clauses[1].pats = <<>>

\* The schemes of names with the types mono, whose variables vs are not free
\* in the environment, when kept is what is left of their constraints.  The
\* constraints ps are those around.
Schemes(s, env, mono, vs, kept, ps, restricted) ==
    LET own == {p \in kept : Metas(s.ref, p.arg) \cap vs # {}}
        gen == IF restricted THEN vs \ UNION {Metas(s.ref, p.arg) : p \in own} ELSE vs
        context == IF restricted THEN {} ELSE own
        out == [s EXCEPT !.ps = ps \cup (kept \ context),
                         !.env = [x \in DOMAIN mono |->
                                     Poly({Meta(m) : m \in gen}, context, Zonk(s.ref, mono[x]))] @@ env]
    IN  IF \E p \in context : ~IsMeta(p.arg) THEN Failing(out, "context") ELSE out

\* A variable of a constraint that is in no type and not free in the
\* environment is ambiguous, and is defaulted.
Generalized(s, env, mono, ps, restricted) ==
    LET fixed == FixedMetas(s, env)
        vs == UNION {Metas(s.ref, mono[x]) : x \in DOMAIN mono} \ fixed
        left == Left(s, {}, s.ps)
        ambiguous == UNION {Metas(s.ref, p.arg) : p \in left} \ (fixed \cup vs)
        after(r) == Schemes(r, env, mono, vs, Left(r, {}, left), ps, restricted)
    IN  after(DefaultedAll(s, ambiguous, left))

\* The bindings of a component: recursive uses have one type.
Component(s, env, bs) ==
    LET start == FreshMap(s, UNION {BindersOf(b) : b \in bs})
        infer(r, mono) ==
            LET inside == [x \in DOMAIN mono |-> Poly({}, {}, mono[x])] @@ env
            IN  FoldSet(LAMBDA b, acc : OneType(acc, inside, mono, b), [r EXCEPT !.ps = {}], bs)
        finish(r, mono) == Generalized(infer(r, mono), env, mono, s.ps, IsRestricted(bs))
    IN  finish(start, start.t)

ExplicitEnd(ps, env, sks, gs, s) ==
    LET left == Left(s, gs, s.ps)
        why == IF \E p \in left : SkolemsOf(p.arg) \cap sks # {} THEN "instance"
               ELSE IF EnvSkolems(s, env) \cap sks # {} THEN "escape" ELSE ""
    IN  [Failing(s, why) EXCEPT !.ps = ps \cup left, !.env = env]

\* Skolems for the variables vs, and a type and constraints at types m.
SkolemMap(s, vs) == [v \in vs |-> Skolem(s.ids + (CHOOSE i \in 1 .. Cardinality(vs) : SetToSeq(vs)[i] = v))]
AtTypes(ps, m) == {Pred(p.cls, Replace(p.arg, m)) : p \in ps}

\* Clauses with a signature have exactly the type that it says.
Explicit(s, env, sig, cs) ==
    LET m == SkolemMap(s, sig.vars)
        start == [s EXCEPT !.ids = @ + Cardinality(sig.vars), !.ps = {}]
    IN  ExplicitEnd(s.ps, env, {m[v] : v \in sig.vars}, AtTypes(sig.preds, m),
                    Clauses(start, env, cs, Replace(sig.body, m)))

\* An instance [vars, ctx, head, supers, methods]: where its context holds,
\* so do the superclasses at its head, and each method [var, type, clauses]
\* has the type of the class at the head.
Instance(s, env, i) ==
    LET m == SkolemMap(s, i.vars)
        head == Replace(i.head, m)
        at(x) == Poly(x.type.vars, AtTypes(x.type.preds, x.var :> head), Replace(x.type.body, x.var :> head))
        start == [s EXCEPT !.ids = @ + Cardinality(i.vars), !.ps = {Pred(c, head) : c \in i.supers}]
    IN  ExplicitEnd(s.ps, env, {m[v] : v \in i.vars}, AtTypes(i.ctx, m),
                    FoldSet(LAMBDA x, acc : Explicit(acc, env, at(x), x.clauses), start, i.methods))

\* The components of the bindings without a signature, each after those that
\* it depends on.
Groups(s, env, bs, edge) ==
    IF bs = {} \/ s.why # "" THEN [s EXCEPT !.env = env]
    ELSE LET ready == {c \in SUBSET bs : /\ c # {}
                                         /\ \A b \in c : edge[b] \subseteq c}
             least == CHOOSE c \in ready : \A d \in ready : ~(d \subseteq c) \/ d = c
             after(r) == Groups(r, r.env, bs \ least, [b \in bs \ least |-> edge[b] \ least])
         IN  after(Component(s, env, least))

Grouped(s, env, binds) ==
    LET bs == ToSet(binds)
        signed == {b \in bs : "pat" \notin DOMAIN b /\ b.sig # <<>>}
        env1 == [x \in {b.name : b \in signed} |->
                    Says((CHOOSE b \in signed : b.name = x).sig[1])] @@ env
        others == bs \ signed
        edge == [b \in others |-> {c \in others : FreeInBinding(b) \cap BindersOf(c) # {}}]
        reach[n \in 0 .. Cardinality(others)] ==
            IF n = 0 THEN edge
            ELSE [b \in others |-> reach[n - 1][b] \cup UNION {reach[n - 1][c] : c \in reach[n - 1][b]}]
        explicit(r) == FoldSet(LAMBDA b, acc : Explicit(acc, r.env, Says(b.sig[1]), b.clauses), r, signed)
    IN  IF \E b \in signed : Malformed(b.sig[1]) THEN Failing(s, "signature")
        ELSE explicit(Groups(s, env1, others, reach[Cardinality(others)]))

\* The module [why, binds, defaults, insts], where why is what is wrong with
\* its declarations: what is left at the end is defaulted, or has no instance.
TypedModule(p) ==
    LET start == [ref |-> <<>>, ids |-> 0, ps |-> {}, why |-> p.why, t |-> NoType, ts |-> <<>>,
                  env |-> <<>>, gs |-> {}, sks |-> {}]
        defaults(r) == FoldSet(LAMBDA d, acc : Explicit(acc, r.env, d.type, d.clauses), r, p.defaults)
        instances(r) == FoldSet(LAMBDA i, acc : Instance(acc, r.env, i), r, p.insts)
        solved(r, ps) == Failing(r, IF Left(r, {}, ps) # {} THEN "instance" ELSE "")
        end(r, ps) == solved(DefaultedAll(r, UNION {Metas(r.ref, q.arg) : q \in ps}, ps), ps)
        module(r) == IF r.why # "" THEN r ELSE end(r, Left(r, {}, r.ps))
    IN  IF p.why # "" THEN start ELSE module(instances(defaults(Grouped(start, Imported, p.binds))))
=============================================================================
