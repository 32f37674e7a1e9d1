--------------------------- MODULE ResolveCorrect ---------------------------
(***************************************************************************)
(* What the resolver promises.  The names of a module mean what the scopes *)
(* of the Haskell report say (chapters 3 and 4, and the scoped type        *)
(* variables of GHC), written here with environments: a function from the  *)
(* names in scope to their binders.  A binder is the place where it stands *)
(* or, in a group of declarations, the group and the name.  The report     *)
(* says nothing of numbers: a binder also says in which sequence the       *)
(* resolver numbers it.  The expression of a view pattern, which the       *)
(* report does not have, is in the scope around the patterns (for GHC also *)
(* in that of the variables on its left).                                  *)
(*                                                                         *)
(* The resolver does not do what the report says in two cases, which the   *)
(* property excepts.  To tell them, the walk also leaves marks, in name    *)
(* spaces of their own: where a signature scopes its variables, where a    *)
(* binding is and which type variables are in it, where a pattern binding  *)
(* is, and which of its variables come after a pattern binding inside it.  *)
(***************************************************************************)
EXTENDS Resolve

\* In a view pattern of a local pattern binding, `since` are the names bound
\* since its group began.
NoEnv == [term |-> [n \in {} |-> {}], type |-> [n \in {} |-> {}], seq |-> <<"file", 0>>,
          view |-> FALSE, since |-> {}]

\* A binder is `taken` when the resolver takes it for one that it has.
Binder(seq, at, n) == [seq |-> seq, at |-> at, n |-> n, taken |-> FALSE]
Bound(b) == [k |-> "local", b |-> b]
Means(at, ns, m) == {[at |-> at, ns |-> ns, means |-> m]}
Mark(at, ns) == Means(at, ns, [k |-> "mark"])
Marks(ms, ns) == {m \in ms : m.ns = ns}
Places(ms, ns) == {m.at : m \in Marks(ms, ns)}
Extend(env, ns, binders) ==
    [env EXCEPT ![ns] = [n \in {b.n : b \in binders} |-> CHOOSE b \in binders : b.n = n] @@ @]
Union(S, Op(_)) == UNION {Op(x) : x \in S}
UnionOf(seq, Op(_)) == UNION {Op(seq[i]) : i \in DOMAIN seq}

Meaning(env, ns, x) ==
    IF x.q = "" /\ x.n \in DOMAIN env[ns] THEN Bound(env[ns][x.n]) ELSE TopName(ns, x)
Use(env, x) == Means(x.at, "term", Meaning(env, "term", x))
TopUse(ns, x) == Means(x.at, ns, TopName(ns, x))
Applied(at, n) == Means(at, "term", program_builtin("term", n))
Typed(at, n) ==
    IF program_builtin("type", n) = Unbound THEN {}
    ELSE Means(at, "type", program_builtin("type", n))

-----------------------------------------------------------------------------
(* Types                                                                   *)

RECURSIVE InType(_, _), InKinds(_, _)
TypeBinders(seq, bs) == {Binder(seq, bs[i].at, bs[i].n) : i \in DOMAIN bs}
InTypes(env, ts) == UnionOf(ts, LAMBDA t : InType(env, t))

\* The kind of each binder sees the binders before it.
InKinds(env, bs) ==
    IF bs = <<>> THEN {}
    ELSE InTypes(env, bs[1].kind)
         \cup InKinds(Extend(env, "type", TypeBinders(env.seq, <<bs[1]>>)), Tail(bs))

InContext(env, t) == IF t.k = "TUPLE" THEN InTypes(env, t.items) ELSE InType(env, t)

InType(env, t) ==
    CASE t.k = "VAR" ->
            Mark(t.x.at, "type variable")
            \cup (IF t.x.n \in DOMAIN env.type
                  THEN Means(t.x.at, "type", Meaning(env, "type", t.x)) ELSE {})
      [] t.k = "FORALL" ->
            LET own == [env EXCEPT !.seq = <<"forall", t.binders[1].at>>]
                inner == Extend(own, "type", TypeBinders(own.seq, t.binders))
            IN  InKinds(own, t.binders) \cup InType([inner EXCEPT !.seq = env.seq], t.t)
      [] t.k = "CON" -> TopUse("type", t.x)
      [] t.k = "UNIT" -> Means(t.at, "type", Syntax)
      [] t.k = "PARTS" -> InTypes(env, t.items)
      [] t.k = "LIST" -> Means(t.at, "type", Syntax) \cup InType(env, t.t)
      [] t.k = "TUPLE" -> Means(t.at, "type", Syntax) \cup InTypes(env, t.items)
      [] t.k = "OP" -> Means(t.at, "type", TopName("type", t.x)) \cup InTypes(env, t.items)
      [] t.k = "QUAL" -> InContext(env, t.ctx) \cup InType(env, t.t)
      [] OTHER -> {}

\* What a signature says, and the variables that it brings into scope.
Scoped(env, t) == IF t.k = "FORALL" THEN TypeBinders(env.seq, t.binders) ELSE {}
InSig(env, t) ==
    IF t.k = "FORALL"
    THEN InKinds(env, t.binders) \cup InType(Extend(env, "type", Scoped(env, t)), t.t)
    ELSE InType(env, t)

\* Marks for a signature and for a binding of a group.
SigMarks(d, group) ==
    IF d.t.k = "FORALL"
    THEN UNION {Means(x.at, "signature", [k |-> "sig", n |-> x.n, group |-> group]) : x \in ToSet(d.names)}
    ELSE {}
BindingMark(d, group, within) ==
    Means(d.x.at, "binding", [k |-> "binding", n |-> d.x.n, group |-> group,
                              vars |-> Places(within, "type variable")])

\* The variables that the signature of n among these declarations scopes.
ScopedOver(env, ds, n) ==
    UnionOf(ds, LAMBDA d : IF d.k = "SIG" /\ \E x \in ToSet(d.names) : x.n = n
                           THEN Scoped(env, d.t) ELSE {})

-----------------------------------------------------------------------------
(* Patterns, expressions and local declarations                            *)

RECURSIVE Variables(_), Within(_, _, _)
InPat(env, p) == Within("pat", env, p)
In(env, e) == Within("expr", env, e)
InRhs(env, x) == Within("rhs", env, x)
InStmts(env, sts, last) == Within("stmts", env, [sts |-> sts, last |-> last])
InDecl(env, d) == Within("decl", env, d)
InMatch(env, ps, x) == Within("match", env, [ps |-> ps, body |-> x])

\* The variables that a pattern binds, as names.
Variables(p) ==
    LET all(ps) == UnionOf(ps, Variables)
    IN  CASE p.k = "VAR" -> {p.x}
          [] p.k = "AS" -> {p.x} \cup Variables(p.p)
          [] p.k \in {"CON", "PARTS"} -> all(p.ps)
          [] p.k = "INFIX" -> Variables(p.p) \cup UnionOf(p.steps, LAMBDA st : Variables(st.p))
          [] p.k = "RECORD" ->
                UnionOf(p.fields, LAMBDA f : IF f.pun THEN {f.x} ELSE Variables(f.p))
          [] p.k \in {"SIG", "VIEW"} -> Variables(p.p)
          [] OTHER -> {}

NumericLit(p) ==
    IF p.lit = "INTEGER" THEN Typed(p.at, "Integer") \cup Applied(p.at, "fromInteger")
    ELSE IF p.lit = "FLOAT" THEN Applied(p.at, "fromRational") ELSE {}
InLit(p) == IF p.hash # "" THEN Typed(p.at, p.hash) ELSE NumericLit(p)

\* What a pattern uses.
UsedInPat(env, p) ==
    LET all(ps) == UnionOf(ps, LAMBDA q : InPat(env, q))
        synonym(x) == TopName("term", x).k = "top" /\ TopName("term", x).e \in input.patsyns
    IN  CASE p.k = "CON" -> TopUse("term", p.x) \cup all(p.ps)
          [] p.k = "INFIX" -> InPat(env, p.p) \cup UnionOf(p.steps, LAMBDA st : TopUse("term", st.x))
                              \cup UnionOf(p.steps, LAMBDA st : InPat(env, st.p))
          [] p.k = "PARTS" -> all(p.ps)
          [] p.k = "AS" -> InPat(env, p.p)
          [] p.k = "SIG" -> InPat(env, p.p) \cup InType(env, p.t)
          [] p.k = "VIEW" -> In(env, p.e) \cup InPat(env, p.p)
          [] p.k = "TYARG" -> InType(env, p.t)
          [] p.k = "RECORD" ->
                TopUse("term", p.x)
                \cup UnionOf(p.fields, LAMBDA f : IF f.pun THEN {} ELSE InPat(env, f.p))
                \cup (IF synonym(p.x) THEN {} ELSE UnionOf(p.fields, LAMBDA f : TopUse("term", f.x)))
          [] p.k = "LIT" ->
                InLit(p) \cup (IF p.hash = "" /\ p.lit \in {"INTEGER", "FLOAT"}
                               THEN Applied(p.at, "==") ELSE {})
                \cup (IF p.hash = "" /\ p.negative THEN Applied(p.at, "negate") ELSE {})
          [] OTHER -> {}

\* These variables as the binders they are, and patterns that bind them.
AtBinders(env, xs) == Union(xs, LAMBDA x : Means(x.at, "term", Bound(env.term[x.n])))
Names(xs) == {x.n : x \in xs}
Since(env, names) == [env EXCEPT !.since = IF env.view THEN @ \cup names ELSE {}]
WithPats(env, ps) ==
    LET xs == UnionOf(ps, Variables)
        binder(x) == [Binder(env.seq, x.at, x.n) EXCEPT !.taken = x.n \in env.since]
    IN  Since(Extend(env, "term", {binder(x) : x \in xs}), Names(xs))
InPats(env, ps) ==
    UnionOf(ps, LAMBDA p : InPat(env, p) \cup AtBinders(WithPats(env, ps), Variables(p)))
UsedInMatch(env, ps, x) == InPats(env, ps) \cup InRhs(WithPats(env, ps), x)

\* A group binds its functions and the variables of its patterns.
NamesOf(ds) ==
    UnionOf(ds, LAMBDA d : IF d.k = "FUN" THEN {d.x.n}
                           ELSE IF d.k = "PAT" THEN Names(Variables(d.p)) ELSE {})
WithGroup(env, ds) ==
    Since(Extend(env, "term", {Binder(env.seq, ds[1].at, n) : n \in NamesOf(ds)}), NamesOf(ds))

\* A binding: as it is named, and what is in it.  The type variables of the
\* signature that stands with it are in scope.
InBinding(env, ds, d, named, group) ==
    LET within == InMatch(Extend(env, "type", ScopedOver(env, ds, d.x.n)), d.ps, d.rhs)
    IN  named \cup within \cup BindingMark(d, group, within)

InPatternBinding(env, ds, d) ==
    LET used == InPat([env EXCEPT !.view = TRUE, !.since = NamesOf(ds)], d.p)
        after(x) == \E at \in Places(used, "pattern binding") : at < x.at
    IN  used \cup Mark(d.at, "pattern binding") \cup AtBinders(env, Variables(d.p))
        \cup Union({x \in Variables(d.p) : after(x)}, LAMBDA x : Mark(x.at, "renewed"))
        \cup InRhs([env EXCEPT !.view = FALSE, !.since = {}], d.rhs)

InGroup(env, ds) ==
    LET one(d) ==
            CASE d.k = "SIG" ->
                    UnionOf(d.names, LAMBDA x : Use(env, x)) \cup InSig(env, d.t)
                    \cup SigMarks(d, ds[1].at)
              [] d.k = "PAT" -> InPatternBinding(env, ds, d)
              [] d.k = "FUN" -> InBinding(env, ds, d, Use(env, d.x), ds[1].at)
              [] OTHER -> {}
    IN  UnionOf(ds, one)

\* Statements scope over the ones after them, and over `last`.
UsedInStmts(env, sts, last) ==
    IF sts = <<>> THEN UnionOf(last, LAMBDA e : In(env, e))
    ELSE LET st == sts[1]
             rest(inner) == InStmts(inner, Tail(sts), last)
         IN  CASE st.k = "EXPR" -> In(env, st.e) \cup rest(env)
               [] st.k = "BIND" ->
                     In(env, st.e) \cup InPats(env, <<st.p>>) \cup rest(WithPats(env, <<st.p>>))
               [] st.k = "LET" ->
                     InGroup(WithGroup(env, st.decls), st.decls) \cup rest(WithGroup(env, st.decls))

InGuarded(env, gs) == UnionOf(gs, LAMBDA g : InStmts(env, g.stmts, <<g.e>>))
UsedInRhs(env, x) ==
    IF x.wheres = <<>> THEN InGuarded(env, x.guards)
    ELSE LET inner == WithGroup(env, x.wheres)
         IN  InGuarded(inner, x.guards) \cup InGroup(inner, x.wheres)

Sequenced(sts) ==
    UNION {CASE sts[i].k = "EXPR" -> Applied(sts[i].at, ">>")
             [] sts[i].k = "BIND" -> Applied(sts[i].at, ">>=")
             [] sts[i].k = "LET" -> {} : i \in 1 .. Len(sts) - 1}

UsedIn(env, e) ==
    LET all(es) == UnionOf(es, LAMBDA a : In(env, a))
        field(f) == IF f.pun THEN Use(env, f.x) ELSE In(env, f.e)
    IN  CASE e.k = "NAME" -> Use(env, e.x)
          [] e.k = "SYNTAX" -> Means(e.at, "term", Syntax)
          [] e.k = "LIT" -> InLit(e)
          [] e.k = "PARTS" -> all(e.items)
          [] e.k = "TUPLE" -> all(e.items) \cup Means(e.at, "term", Syntax)
          [] e.k = "SIG" -> In(env, e.e) \cup InType(env, e.t)
          [] e.k = "INFIX" -> In(env, e.e) \cup UnionOf(e.steps, LAMBDA st : Use(env, st.x) \cup In(env, st.e))
          [] e.k \in {"LSEC", "RSEC"} -> In(env, e.e) \cup Use(env, e.x)
          [] e.k = "LAMBDA" -> InPats(env, e.ps) \cup In(WithPats(env, e.ps), e.e)
          [] e.k = "LET" -> InStmts(env, <<[k |-> "LET", decls |-> e.decls]>>, <<e.e>>)
          [] e.k = "CASE" -> all(e.items) \cup UnionOf(e.alts, LAMBDA a : InMatch(env, <<a.p>>, a.rhs))
          [] e.k = "NEG" -> In(env, e.e) \cup Applied(e.at, "negate")
          [] e.k = "SEQ" -> all(e.items) \cup Applied(e.at, e.method)
          [] e.k = "DO" -> InStmts(env, e.stmts, <<>>) \cup Sequenced(e.stmts)
          [] e.k = "COMP" -> InStmts(env, e.stmts, <<e.e>>)
          [] e.k = "IFS" -> InGuarded(env, e.guards)
          [] e.k = "RECORD" -> TopUse("term", e.x) \cup UnionOf(e.fields, field)
          [] e.k = "UPDATE" ->
                In(env, e.e) \cup UnionOf(e.fields, field)
                \cup UnionOf(e.fields, LAMBDA f : IF f.pun THEN {} ELSE TopUse("term", f.x))
          [] OTHER -> {}

-----------------------------------------------------------------------------
(* Declarations                                                            *)

\* A method of an instance is the one of its class.
MethodOf(d, class) ==
    IF TopName("term", d.x) # Unbound \/ class = Unbound THEN TopUse("term", d.x)
    ELSE IF class.e \in DOMAIN input.kids /\ <<"term", d.x.n>> \in input.kids[class.e]
         THEN Means(d.x.at, "term", [k |-> "top", e |-> <<class.e[1], <<"term", d.x.n>>>>])
         ELSE TopUse("term", d.x)

Own(env, d) == [env EXCEPT !.seq = <<"item", d.at>>]
Signature(env, d, group) ==
    UnionOf(d.names, LAMBDA x : TopUse("term", x)) \cup InSig(env, d.t) \cup SigMarks(d, group)

\* The declarations of the module are a group.  No signature stands with the
\* methods of a class or an instance: a class has them for all instances.
TopLevel == 0
NoGroup == -1

InConstructor(env, c) ==
    LET inner == Extend(env, "type", TypeBinders(env.seq, c.forall))
    IN  InKinds(env, c.forall) \cup UnionOf(c.ctx, LAMBDA t : InContext(inner, t))
        \cup InTypes(inner, c.args)
        \cup (IF c.nil THEN Means(c.x.at, "term", Syntax) ELSE TopUse("term", c.x))

Kinds(env, tvs) == UnionOf(tvs, LAMBDA v : InTypes(env, v.kind))
InClassItem(env, d) ==
    CASE d.k = "SIG" -> Signature(Own(env, d), d, d.at)
      [] d.k = "FAMILY" -> TopUse("type", d.x) \cup InTypes(env, d.kind)
      [] d.k = "DEFAULTSIG" -> InType(env, d.t)
      [] d.k = "FUN" -> InBinding(Own(env, d), <<>>, d, TopUse("term", d.x), NoGroup)
InInstanceItem(env, d, class) ==
    CASE d.k = "FUN" -> InBinding(Own(env, d), <<>>, d, MethodOf(d, class), NoGroup)
      [] d.k = "SIG" -> InType(env, d.t)
      [] d.k = "INSTANCE" -> InTypes(env, d.items)

UsedInDecl(env, d) ==
    CASE d.k = "SIG" -> Signature(env, d, TopLevel)
      [] d.k = "PATSYNSIG" -> UnionOf(d.names, LAMBDA x : TopUse("term", x)) \cup InType(env, d.t)
      [] d.k = "PATSYN" ->
            TopUse("term", d.x) \cup InPats(env, <<d.p>>)
            \cup UnionOf(d.body, LAMBDA eq : InMatch(env, eq.ps, eq.rhs))
      [] d.k = "INSTANCETYPE" -> InTypes(env, d.items)
      [] d.k = "FOREIGN" -> TopUse("term", d.x) \cup InType(env, d.t)
      [] d.k = "FUN" -> InBinding(env, input.decls, d, TopUse("term", d.x), TopLevel)
      [] d.k = "DATA" ->
            TopUse("type", d.x) \cup Kinds(env, d.vars) \cup InTypes(env, d.kind)
            \cup UnionOf(d.cons, LAMBDA c : InConstructor(env, c)) \cup InTypes(env, d.deriving)
      [] d.k = "SYNONYM" -> TopUse("type", d.x) \cup Kinds(env, d.vars) \cup InType(env, d.t)
      [] d.k = "FAMILY" -> TopUse("type", d.x) \cup InTypes(env, d.kind)
      [] d.k = "CLASS" ->
            TopUse("type", d.x) \cup UnionOf(d.ctx, LAMBDA t : InContext(env, t))
            \cup Kinds(env, d.vars) \cup UnionOf(d.body, LAMBDA i : InClassItem(env, i))
      [] d.k = "INSTANCE" ->
            TopUse("type", d.x) \cup UnionOf(d.ctx, LAMBDA t : InContext(env, t))
            \cup InTypes(env, d.args)
            \cup UnionOf(d.body, LAMBDA i : InInstanceItem(env, i, TopName("type", d.x)))
      [] OTHER -> {}

Within(part, env, x) ==
    CASE part = "pat"   -> UsedInPat(env, x)
      [] part = "expr"  -> UsedIn(env, x)
      [] part = "rhs"   -> UsedInRhs(env, x)
      [] part = "stmts" -> UsedInStmts(env, x.sts, x.last)
      [] part = "match" -> UsedInMatch(env, x.ps, x.body)
      [] part = "decl"  -> UsedInDecl(env, x)

Meanings == UnionOf(input.decls, LAMBDA d : InDecl(NoEnv, d))

-----------------------------------------------------------------------------
(* Properties                                                              *)

Kinded(target) == IF target.k = "local" THEN [k |-> "local"] ELSE target
Ours == {[at |-> r.out[i].at, ns |-> r.out[i].ns, means |-> Kinded(r.out[i].target)] : i \in DOMAIN r.out}
IdAt(m) == {r.out[i].target.id : i \in {i \in DOMAIN r.out :
                /\ r.out[i].at = m.at /\ r.out[i].ns = m.ns /\ r.out[i].target.k = "local"}}

\* The resolver gives a binding the variables of the last signature of its
\* name before it: not its own when that comes later, and one of another group
\* or of a class when there is none of its own between (sig_scopes is never
\* cut back).
StrangeScope(ms) ==
    LET sigs(b) == {s \in Marks(ms, "signature") : s.means.n = b.means.n}
        own(b) == {s \in sigs(b) : s.means.group = b.means.group}
        before(b) == {s \in sigs(b) : s.at < b.at}
        noted(b) == {s \in before(b) : \A t \in before(b) : t.at <= s.at}
    IN  UNION {b.means.vars : b \in {b \in Marks(ms, "binding") : noted(b) # own(b)}}

\* In a view pattern of a local pattern binding, a variable that a pattern
\* binds is taken for a binder of its name made since the group began; and the
\* variables after a pattern binding in there are new (bind_existing is set
\* until a pattern binding ends).
StrangeBinder(ms, m) == m.means.b.taken \/ m.at \in Places(ms, "renewed")

\* Every name of a module that the resolver does not refuse has one record,
\* in the order of the text, that says what it means: the entity that the
\* scope of the module has, or the binder of the innermost scope around it.
\* Two local names of one numbering have one id exactly when they have one
\* binder (resolve.c, the whole walk: the stacks of binders and their marks,
\* and the numbering).  Excepted are the type variables under StrangeScope and
\* the ids under StrangeBinder.
AgreesWithReport ==
    status = "resolved" => \A found \in {Meanings} :
        LET strange == StrangeScope(found)
            plain(ms) == {m \in ms : ~(m.ns = "type" /\ m.at \in strange)}
            meanings == plain(Marks(found, "term") \cup Marks(found, "type"))
            locals == {m \in meanings : m.means.k = "local" /\ ~StrangeBinder(found, m)}
        IN  /\ plain(Ours) = {[m EXCEPT !.means = Kinded(@)] : m \in meanings}
            /\ Cardinality({i \in DOMAIN r.out : plain({r.out[i]}) # {}}) = Cardinality(meanings)
            /\ \A i \in 1 .. Len(r.out) - 1 : r.out[i].at <= r.out[i + 1].at
            /\ \A a \in locals, b \in locals :
                  a.means.b.seq = b.means.b.seq => (IdAt(a) = IdAt(b) <=> a.means.b = b.means.b)

\* The comparison with the reference says that two resolutions agree exactly
\* when they have records at the same places, with the same names and other
\* targets, whose local names are the same up to the choice of the ids
\* (compare.c, resolve_compare(), by the rules of resolve.h).
AgreeExactly ==
    status \in {"agree", "differ"} =>
        LET same(i) == /\ r.out[i].at = theirs[i].at /\ r.out[i].ns = theirs[i].ns
                       /\ Kinded(r.out[i].target) = Kinded(theirs[i].target)
            locals == {i \in DOMAIN r.out : r.out[i].target.k = "local"}
            partition == \A i, j \in locals :
                (r.out[i].target = r.out[j].target) <=> (theirs[i].target = theirs[j].target)
        IN  status = "agree" <=>
                Len(r.out) = Len(theirs) /\ (\A i \in DOMAIN r.out : same(i)) /\ partition
=============================================================================
