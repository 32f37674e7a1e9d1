---------------------------- MODULE Declarations ----------------------------
(***************************************************************************)
(* The declarations of a module (src/tc_decl.c): from the syntax of data   *)
(* types, synonyms, classes and instances to what inference uses.          *)
(*                                                                         *)
(* A type of the syntax is a variable [tyvar], a constructor [con], an     *)
(* application [fun, arg], a function [from, to] or a list [list]; a       *)
(* constraint is [cls, arg].  An environment is a record: tycons, cons     *)
(* (the constructors of patterns), values (schemes), classes and, for each *)
(* class, its instances in order.  The bound variables of a declaration    *)
(* are numbered -1, -2, ...                                                *)
(***************************************************************************)
EXTENDS Types

\* What does not convert: tc_fail(), found in the result.
Wrong == [wrong |-> TRUE]
RECURSIVE IsWrong(_)
IsWrong(t) == t = Wrong \/ (IsApp(t) /\ (IsWrong(t.fun) \/ IsWrong(t.arg)))

RECURSIVE ty_apps(_, _), TypeHead(_), TypeArgs(_)
ty_apps(t, args) == IF args = <<>> THEN t ELSE ty_apps(App(t, Head(args)), Tail(args))
TypeHead(t) == IF "fun" \in DOMAIN t THEN TypeHead(t.fun) ELSE t
TypeArgs(t) == IF "fun" \in DOMAIN t THEN Append(TypeArgs(t.fun), t.arg) ELSE <<>>

\* Numbers for the variables ns, after k others.
Numbers(ns, k) == [i \in DOMAIN ns |-> -(k + i)]
BoundAs(ns, k) == [n \in ToSet(ns) |-> Bound(-(k + CHOOSE i \in DOMAIN ns : ns[i] = n))]

-----------------------------------------------------------------------------
(* Types.  vars are the types of the variables in scope, filling the       *)
(* synonyms whose right-hand sides are being converted.                    *)

RECURSIVE conv(_, _, _, _)

\* The right-hand side of a synonym, in the scope of its parameters.
fill_synonym(env, filling, syn) ==
    conv(env, BoundAs(syn.params, 0), filling \cup {syn.name}, syn.rhs)

\* A synonym takes its parameters, and what it stands for the other arguments.
apply_tycon(env, filling, c, args) ==
    LET t == env.tycons[c]
        n == Len(t.params)
        rhs == fill_synonym(env, filling, t)
        m == [v \in ToSet(Numbers(t.params, 0)) |-> args[-v]]
    IN  CASE c \notin DOMAIN env.tycons -> Wrong
          [] c \in DOMAIN env.tycons /\ t.kind = "class" -> Wrong
          [] c \in DOMAIN env.tycons /\ t.kind = "syn" ->
                IF c \in filling \/ IsWrong(rhs) \/ Len(args) < n THEN Wrong
                ELSE ty_apps(Subst(<<>>, rhs, m), SubSeq(args, n + 1, Len(args)))
          [] OTHER -> ty_apps(Con(c), args)

conv(env, vars, filling, t) ==
    LET of(u) == conv(env, vars, filling, u)
        head == TypeHead(t)
        args == [i \in DOMAIN TypeArgs(t) |-> of(TypeArgs(t)[i])]
    IN  CASE "tyvar" \in DOMAIN t -> IF t.tyvar \in DOMAIN vars THEN vars[t.tyvar] ELSE Wrong
          [] "from" \in DOMAIN t -> Fun(of(t.from), of(t.to))
          [] "list" \in DOMAIN t -> App(Con("L"), of(t.list))
          [] "con" \in DOMAIN head -> apply_tycon(env, filling, head.con, args)
          [] OTHER -> ty_apps(of(head), args)

Converted(env, vars, t) == conv(env, vars, {}, t)

\* A constraint: the class must be one, and the type convert.
conv_pred(env, vars, p) ==
    Pred(p.cls, IF p.cls \in DOMAIN env.classes THEN Converted(env, vars, p.arg) ELSE Wrong)
conv_ctx(env, vars, ctx) == [i \in DOMAIN ctx |-> conv_pred(env, vars, ctx[i])]

\* The type variables of a type that are not in scope, in order of appearance.
RECURSIVE free_tyvars(_, _, _)
free_tyvars(scope, t, out) ==
    CASE "tyvar" \in DOMAIN t ->
            IF t.tyvar \in scope \/ Contains(out, t.tyvar) THEN out ELSE Append(out, t.tyvar)
      [] "fun" \in DOMAIN t -> free_tyvars(scope, t.arg, free_tyvars(scope, t.fun, out))
      [] "from" \in DOMAIN t -> free_tyvars(scope, t.to, free_tyvars(scope, t.from, out))
      [] "list" \in DOMAIN t -> free_tyvars(scope, t.list, out)
      [] OTHER -> out
FreeOfQual(scope, ctx, t) ==
    free_tyvars(scope, t, FoldLeft(LAMBDA out, p : free_tyvars(scope, p.arg, out), <<>>, ctx))

-----------------------------------------------------------------------------
(* Data types                                                              *)

\* A constructor [name, exist, ctx, fields] of the data type d; a field is
\* [name, type], with "" for no name.
declare_con(env, d, c) ==
    LET vars == BoundAs(d.params, 0) @@ BoundAs(c.exist, Len(d.params))
    IN  [vars |-> Numbers(d.params, 0), exist |-> Numbers(c.exist, Len(d.params)),
         ctx |-> conv_ctx(env, vars, c.ctx), tycon |-> d.name,
         fields |-> [i \in DOMAIN c.fields |-> Converted(env, vars, c.fields[i].type)]]

DataType(d) == ty_apps(Con(d.name), [i \in DOMAIN d.params |-> Bound(-i)])
con_scheme(d, con) ==
    Scheme(con.vars \o con.exist, con.ctx, FoldRight(Fun, con.fields, DataType(d)))

\* The selector of a field has the type of the field's first appearance.
Selectors(d, cons) ==
    LET all == FlattenSeq([k \in DOMAIN d.cons |->
                  [i \in DOMAIN d.cons[k].fields |->
                      [name |-> d.cons[k].fields[i].name, type |-> cons[k].fields[i]]]])
        named == {all[i].name : i \in DOMAIN all} \ {""}
        first(n) == all[CHOOSE i \in DOMAIN all : all[i].name = n /\ \A j \in 1 .. i - 1 : all[j].name # n]
    IN  [n \in named |-> Scheme(Numbers(d.params, 0), <<>>, Fun(DataType(d), first(n).type))]

DeclareCons(env, d, cons) ==
    LET at(n) == CHOOSE k \in DOMAIN d.cons : d.cons[k].name = n
        names == {d.cons[k].name : k \in DOMAIN d.cons}
    IN  [env EXCEPT !.cons = [n \in names |-> cons[at(n)]] @@ @,
                    !.values = [n \in names |-> con_scheme(d, cons[at(n)])] @@ Selectors(d, cons) @@ @]

declare_cons(env, d) == DeclareCons(env, d, [k \in DOMAIN d.cons |-> declare_con(env, d, d.cons[k])])

-----------------------------------------------------------------------------
(* Classes.  The class variable is -1; the scheme of a method is that of   *)
(* its class around that of its signature.                                 *)

tc_default_name(n) == n \o "{default}"
ClassScheme(c) == Scheme(<<-1>>, <<Pred(c, Bound(-1))>>, NoType)

\* conv_sigma(): a qualified type [ctx, type] binds the variables that are not
\* in scope.
conv_sigma(env, scope, q) ==
    LET own == FreeOfQual(ToSet(scope), q.ctx, q.type)
        vars == BoundAs(scope, 0) @@ BoundAs(own, Len(scope))
    IN  Scheme(Numbers(own, Len(scope)), conv_ctx(env, vars, q.ctx), Converted(env, vars, q.type))

\* One scheme around another, as an occurrence sees them.
Nested(outer, inner) == Scheme(outer.vars \o inner.vars, outer.preds \o inner.preds, inner.body)

\* The clauses of a method in the body of a class or an instance.
ClausesOf(body, n) == SelectSeq(body, LAMBDA c : c.name = n)

ClassMethods(env, c) ==
    [i \in DOMAIN c.sigs |->
        [name |-> c.sigs[i].name, sig |-> conv_sigma(env, <<c.var>>, c.sigs[i]),
         deflt |-> ClausesOf(c.body, c.sigs[i].name)]]

\* The methods as values: the names ns of those of ms.
MethodSchemes(c, ms, ns) ==
    [n \in ToSet(ns) |-> Nested(ClassScheme(c), ms[CHOOSE i \in DOMAIN ms : ns[i] = n].sig)]

DeclareMethods(env, c, ms) ==
    LET defaults == SelectSeq(ms, LAMBDA m : m.deflt # <<>>)
    IN  [env EXCEPT
            !.classes[c.name] = [supers |-> c.supers, methods |-> ms],
            !.values = MethodSchemes(c.name, ms, [i \in DOMAIN ms |-> ms[i].name])
                       @@ MethodSchemes(c.name, defaults,
                              [i \in DOMAIN defaults |-> tc_default_name(defaults[i].name)])
                       @@ @]

fill_class(env, c) == DeclareMethods(env, c, ClassMethods(env, c))

-----------------------------------------------------------------------------
(* Instances                                                               *)

InstanceOf(env, d) ==
    LET ns == FreeOfQual({}, d.ctx, d.head)
        vars == BoundAs(ns, 0)
    IN  [vars |-> Numbers(ns, 0), ctx |-> conv_ctx(env, vars, d.ctx),
         head |-> Converted(env, vars, d.head), body |-> d.body]

tc_add_instance(env, d) == [env EXCEPT !.insts[d.cls] = Append(@, InstanceOf(env, d))]

-----------------------------------------------------------------------------
(* The declarations of a module                                            *)

OfKind(decls, k) == SelectSeq(decls, LAMBDA d : d.decl = k)

\* The names come first: types and classes may refer to each other.
declare_names(env, decls) ==
    LET types == {d \in ToSet(decls) : d.decl \in {"data", "syn", "class"}}
        classes == {d.name : d \in ToSet(OfKind(decls, "class"))}
        info(d) == [kind |-> d.decl, name |-> d.name,
                    params |-> IF d.decl = "class" THEN <<d.var>> ELSE d.params,
                    rhs |-> IF d.decl = "syn" THEN d.rhs ELSE NoType]
    IN  [env EXCEPT
            !.tycons = [n \in {d.name : d \in types} |-> info(CHOOSE d \in types : d.name = n)] @@ @,
            !.classes = [n \in classes |-> [supers |-> <<>>, methods |-> <<>>]] @@ @,
            !.insts = [n \in classes |-> <<>>] @@ @]

BadSynonym(env, d) == IsWrong(fill_synonym(env, {}, env.tycons[d.name]))

\* The declarations, in an environment that has their names.
declarations(env, decls) ==
    FoldLeft(tc_add_instance,
             FoldLeft(declare_cons, FoldLeft(fill_class, env, OfKind(decls, "class")), OfKind(decls, "data")),
             OfKind(decls, "inst"))

\* Some declaration fails: names that are not there, or types.
BadNames(env, decls) ==
    \/ \E d \in ToSet(OfKind(decls, "syn")) : BadSynonym(env, d)
    \/ \E d \in ToSet(OfKind(decls, "class")) : ~(ToSet(d.supers) \subseteq DOMAIN env.classes)
    \/ \E d \in ToSet(OfKind(decls, "inst")) : d.cls \notin DOMAIN env.classes

BadCtx(ctx) == \E i \in DOMAIN ctx : IsWrong(ctx[i].arg)
BadScheme(s) == BadCtx(s.preds) \/ IsWrong(s.body)
BadTypes(env) ==
    \/ \E n \in DOMAIN env.values : BadScheme(env.values[n])
    \/ \E c \in DOMAIN env.insts : \E i \in ToSet(env.insts[c]) : BadCtx(i.ctx) \/ IsWrong(i.head)
=============================================================================
