------------------------------ MODULE Resolve ------------------------------
(***************************************************************************)
(* The resolution of one module (src/resolve.c), the order of its records  *)
(* (src/record.c) and their comparison with those of the reference         *)
(* (src/compare.c; src/main.c, check_module).  A record is [at, ns,        *)
(* target].                                                                *)
(*                                                                         *)
(* A node of the syntax is a record with a kind k.  A name in it is a      *)
(* record [q, n, at]: qualifier, name and place.  A place is a number that *)
(* stands for a span: places are ordered as spans are.  Nodes that only    *)
(* pass the walk on to their parts, in order, have the kind "PARTS".       *)
(*                                                                         *)
(* The Resolver is a record that the walk threads.  An unsupported         *)
(* construct sets err, and the records are thrown away at the end.         *)
(***************************************************************************)
EXTENDS Scopes, FiniteSetsExt

CONSTANTS
    Inputs,    \* sets of records [modules, builtins, kids, patsyns, scope, decls]:
               \* the program, and the scope and declarations of the module
    Dumps(_)   \* what the reference may say of a module, given our records

VARIABLES
    input,     \* the program and the module
    decl,      \* the next declaration of the module
    r,         \* the Resolver
    status,    \* "resolving", "refused", "resolved", "agree" or "differ"
    theirs     \* the dump of the reference

vars == <<input, decl, r, status, theirs>>

-----------------------------------------------------------------------------
(* The records                                                             *)

\* The merge of merge_sort(): of two records at one place the left one is
\* first.
RECURSIVE merge(_, _)
merge(a, b) ==
    CASE a = <<>> -> b
      [] b = <<>> -> a
      [] a # <<>> /\ b # <<>> ->
            IF b[1].at < a[1].at THEN <<b[1]>> \o merge(a, Tail(b))
            ELSE <<a[1]>> \o merge(Tail(a), b)

RECURSIVE occvec_sort(_)
occvec_sort(v) ==
    LET mid == Len(v) \div 2
    IN  IF Len(v) < 2 THEN v
        ELSE merge(occvec_sort(SubSeq(v, 1, mid)), occvec_sort(SubSeq(v, mid + 1, Len(v))))

\* idmap_entry(): the map with val for key, unless it has one.
idmap_entry(m, key, val) == m @@ (key :> val)
NoIds == [id \in {} |-> 0]

AgreesForth(our, their, forth, back) ==
    /\ our.ns = their.ns /\ our.target.k = their.target.k
    /\ our.target.k = "top" => our.target = their.target
    /\ our.target.k = "local" => forth[our.target.id] = their.target.id

\* Whether two records at one place agree, given the ids that were paired.
AgreesAt(our, their, forth, back) ==
    /\ our.ns = their.ns /\ our.target.k = their.target.k
    /\ our.target.k = "top" => our.target = their.target
    /\ our.target.k = "local" =>
          /\ forth[our.target.id] = their.target.id
          /\ back[their.target.id] = our.target.id

resolve_compare(ours, others) ==
    LET step(acc, i) ==
            LET our == ours[i]
                their == others[i]
                local == our.target.k = "local" /\ their.target.k = "local"
                forth == IF local THEN idmap_entry(acc.forth, our.target.id, their.target.id)
                         ELSE acc.forth
                back == IF local THEN idmap_entry(acc.back, their.target.id, our.target.id)
                        ELSE acc.back
            IN  [ok |-> acc.ok /\ our.at = their.at /\ AgreesAt(our, their, forth, back),
                 forth |-> forth, back |-> back]
        shared == IF Len(ours) < Len(others) THEN Len(ours) ELSE Len(others)
        walked == FoldLeft(step, [ok |-> TRUE, forth |-> NoIds, back |-> NoIds],
                           [i \in 1 .. shared |-> i])
    IN  IF walked.ok /\ Len(ours) = Len(others) THEN "agree" ELSE "differ"

-----------------------------------------------------------------------------
NoResolver ==
    [locals |-> <<>>, tylocals |-> <<>>, sigs |-> [n \in {} |-> <<>>], bound |-> <<>>,
     existing |-> FALSE, from |-> 0, next |-> 0, out |-> <<>>, err |-> FALSE]

unsupported(s) == [s EXCEPT !.err = TRUE]

-----------------------------------------------------------------------------
(* Names                                                                   *)

Local(id) == [k |-> "local", id |-> id]
Top(e) == [k |-> "top", e |-> EntityKey(e)]
Syntax == [k |-> "syntax"]
Unbound == [k |-> "error"]

emit(s, at, ns, target) ==
    [s EXCEPT !.out = Append(@, [at |-> at, ns |-> ns, target |-> target])]

\* Where a stack of binders, innermost last, binds a name after `from`.
Binders(stack, from, n) == {i \in from + 1 .. Len(stack) : stack[i].n = n}
Innermost(stack, from, n) == Local(stack[Max(Binders(stack, from, n))].id)

TopName(space, x) ==
    LET names == Qualifier(input.scope, x.q)
        key == <<space, x.n>>
    IN  IF key \in DOMAIN names THEN Top(names[key]) ELSE Unbound

lookup_q(s, space, x) ==
    IF space = "term" /\ x.q = "" /\ Binders(s.locals, 0, x.n) # {}
    THEN Innermost(s.locals, 0, x.n)
    ELSE TopName(space, x)

use(s, space, x) == emit(s, x.at, space, lookup_q(s, space, x))

\* The name as the builtin modules export it, the first of them first.
program_builtin(space, n) ==
    LET key == <<space, n>>
        gives(b) == /\ b \in DOMAIN input.modules /\ input.modules[b].exports.ok
                    /\ key \in DOMAIN input.modules[b].exports.val
        giving == SelectSeq(input.builtins, gives)
    IN  IF giving = <<>> THEN Unbound ELSE Top(input.modules[giving[1]].exports.val[key])

use_builtin(s, at, n) == emit(s, at, "term", program_builtin("term", n))
use_if_there(s, at, type) ==
    LET t == program_builtin("type", type)
    IN  IF t = Unbound THEN s ELSE emit(s, at, "type", t)

bind_local(s, n) == [s EXCEPT !.locals = Append(@, [n |-> n, id |-> s.next]), !.next = @ + 1]

\* What a scope opened after `s` is closed to.
leave(s1, s) == [s1 EXCEPT !.locals = s.locals]
leave_types(s1, s) == [s1 EXCEPT !.tylocals = s.tylocals]

Visit(Walk(_, _), s, items) == FoldLeft(Walk, s, items)

-----------------------------------------------------------------------------
(* Types                                                                   *)

RECURSIVE ty(_, _)

TyVar(s, x) ==
    IF Binders(s.tylocals, 0, x.n) = {} THEN s
    ELSE emit(s, x.at, "type", Innermost(s.tylocals, 0, x.n))

tys(s, ts) == Visit(LAMBDA acc, t : ty(acc, t), s, ts)

\* Each kind sees the variables before it.
bind_tyvar(s, b) ==
    LET k == tys(s, b.kind)
    IN  [k EXCEPT !.tylocals = Append(@, [n |-> b.n, id |-> k.next]), !.next = @ + 1]
bind_tyvars(s, binders) == Visit(bind_tyvar, s, binders)

binder_kinds(s, binders) == Visit(LAMBDA acc, b : tys(acc, b.kind), s, binders)

\* The binders of a forall inside a type number from zero.
Forall(s, t) ==
    LET bound == bind_tyvars([s EXCEPT !.next = 0], t.binders)
    IN  leave_types(ty([bound EXCEPT !.next = s.next], t.t), s)

\* A tuple of constraints is no tuple type.
context(s, t) == IF t.k = "TUPLE" THEN tys(s, t.items) ELSE ty(s, t)

ty(s, t) ==
    CASE t.k = "VAR"    -> TyVar(s, t.x)
      [] t.k = "WILD"   -> s
      [] t.k = "FORALL" -> Forall(s, t)
      [] t.k = "CON"    -> use(s, "type", t.x)
      [] t.k = "UNIT"   -> emit(s, t.at, "type", Syntax)
      [] t.k = "ARROW"  -> s       \* `->`, `[]` and `(,)` have no record
      [] t.k = "PARTS"  -> tys(s, t.items)
      [] t.k = "LIST"   -> ty(emit(s, t.at, "type", Syntax), t.t)
      [] t.k = "TUPLE"  -> emit(tys(s, t.items), t.at, "type", Syntax)
      [] t.k = "OP"     -> tys(emit(s, t.at, "type", lookup_q(s, "type", t.x)), t.items)
      [] t.k = "QUAL"   -> ty(context(s, t.ctx), t.t)
      [] OTHER          -> unsupported(s)

\* The type of a signature: the variables of an outer forall are noted for
\* the bindings that it names.
sig_type(s, t, names) ==
    LET bound == bind_tyvars(s, t.binders)
        scoped == SubSeq(bound.tylocals, Len(s.tylocals) + 1, Len(bound.tylocals))
        noted == [bound EXCEPT !.sigs = [n \in ToSet(names) |-> scoped] @@ @]
    IN  IF t.k # "FORALL" THEN ty(s, t) ELSE leave_types(ty(noted, t.t), s)

push_sig_scope(s, n) ==
    IF n \in DOMAIN s.sigs THEN [s EXCEPT !.tylocals = @ \o s.sigs[n]] ELSE s

-----------------------------------------------------------------------------
(* Patterns: their binders are collected in `bound`                        *)

\* Patterns, expressions and declarations contain each other: one recursive
\* operator takes a part to the function that walks it.
RECURSIVE walk(_, _, _)
pat(s, p) == walk("pat", s, p)
expr(s, e) == walk("expr", s, e)
rhs(s, x) == walk("rhs", s, x)
group_decls(s, group, ds) == walk("group", s, [from |-> group, decls |-> ds])
clause(s, d) == walk("clause", s, d)
equation(s, d) == walk("equation", s, d)

new_binder(s, x) ==
    [emit(s, x.at, "term", Local(s.next)) EXCEPT
        !.bound = Append(@, [n |-> x.n, id |-> s.next]), !.next = @ + 1]

\* In a pattern binding, the variable is a binder that bind_group made.
pat_binder(s, x) ==
    IF s.existing /\ Binders(s.locals, s.from, x.n) # {}
    THEN emit(s, x.at, "term", Innermost(s.locals, s.from, x.n))
    ELSE new_binder(s, x)

all_pats(s, ps) == Visit(LAMBDA acc, p : pat(acc, p), s, ps)

\* A literal in a pattern also names the comparison.
IntegerPat(s, p) ==
    LET converted == CASE p.lit = "INTEGER" ->
                             use_builtin(use_if_there(s, p.at, "Integer"), p.at, "fromInteger")
                       [] p.lit = "FLOAT" -> use_builtin(s, p.at, "fromRational")
        signed == IF p.negative THEN use_builtin(converted, p.at, "negate") ELSE converted
    IN  use_builtin(signed, p.at, "==")

LitPat(s, p) ==
    CASE p.hash # ""                                -> use_if_there(s, p.at, p.hash)
      [] p.hash = "" /\ p.lit \in {"INTEGER", "FLOAT"} -> IntegerPat(s, p)
      [] p.hash = "" /\ p.lit \in {"CHAR", "STRING"}   -> s

\* The fields of a pattern synonym have no records.
FieldPat(s, f, patsyn) ==
    LET named == IF patsyn THEN s ELSE use(s, "term", f.x)
    IN  IF f.pun THEN pat_binder(named, f.x) ELSE pat(named, f.p)

RecordPat(s, p) ==
    LET con == lookup_q(s, "term", p.x)
        patsyn == con.k = "top" /\ con.e \in input.patsyns
        fields == Visit(LAMBDA acc, f : FieldPat(acc, f, patsyn),
                        emit(s, p.x.at, "term", con), p.fields)
    IN  IF p.wildcard THEN unsupported(s) ELSE fields

Pattern(s, p) ==
    CASE p.k = "VAR"    -> pat_binder(s, p.x)
      [] p.k = "WILD"   -> s
      [] p.k = "CON"    -> all_pats(use(s, "term", p.x), p.ps)
      [] p.k = "INFIX"  -> Visit(LAMBDA acc, st : pat(use(acc, "term", st.x), st.p),
                                 pat(s, p.p), p.steps)
      [] p.k = "PARTS"  -> all_pats(s, p.ps)
      [] p.k = "AS"     -> pat(pat_binder(s, p.x), p.p)
      [] p.k = "SIG"    -> ty(pat(s, p.p), p.t)
      [] p.k = "VIEW"   -> pat(expr(s, p.e), p.p)
      [] p.k = "TYARG"  -> ty(s, p.t)
      [] p.k = "RECORD" -> RecordPat(s, p)
      [] p.k = "LIT"    -> LitPat(s, p)
      [] OTHER          -> unsupported(s)

\* The binders of the patterns come into scope after the last one.
pats(s, ps) ==
    LET walked == all_pats([s EXCEPT !.bound = <<>>], ps)
    IN  [walked EXCEPT !.locals = @ \o walked.bound, !.bound = s.bound]

\* The variables of a pattern, in order.
RECURSIVE pat_vars(_)
pat_vars(p) ==
    LET inAll(ps) == FlattenSeq([i \in DOMAIN ps |-> pat_vars(ps[i])])
        field(f) == IF f.pun THEN <<f.x.n>> ELSE pat_vars(f.p)
    IN  CASE p.k = "VAR" -> <<p.x.n>>
          [] p.k = "AS" -> <<p.x.n>> \o pat_vars(p.p)
          [] p.k \in {"CON", "PARTS"} -> inAll(p.ps)
          [] p.k = "INFIX" -> pat_vars(p.p) \o inAll([i \in DOMAIN p.steps |-> p.steps[i].p])
          [] p.k = "RECORD" -> FlattenSeq([i \in DOMAIN p.fields |-> field(p.fields[i])])
          [] p.k \in {"SIG", "VIEW"} -> pat_vars(p.p)
          [] OTHER -> <<>>

-----------------------------------------------------------------------------
(* Groups of local declarations                                            *)

\* Every clause, every variable of a pattern and every signature of one name
\* makes a binder.
Made(d) ==
    CASE d.k \in {"FUN", "INFIXFUN"} -> <<d.x.n>>
      [] d.k = "PAT" -> pat_vars(d.p)
      [] d.k = "SIG" /\ Len(d.names) = 1 -> <<d.names[1].n>>
      [] OTHER -> <<>>

bind_group(s, ds) ==
    LET one(acc, d) == FoldLeft(bind_local, acc, Made(d))
        bound == FoldLeft(one, s, ds)
    IN  IF \E d \in ToSet(ds) : d.k \notin {"FUN", "INFIXFUN", "PAT", "SIG", "FIXITY"}
        THEN unsupported(bound) ELSE bound

\* A name that the group does not bind has no record.
LocalSig(s, group, d) ==
    LET one(acc, x) == IF Binders(acc.locals, group, x.n) = {} THEN acc
                       ELSE emit(acc, x.at, "term", Innermost(acc.locals, group, x.n))
    IN  sig_type(FoldLeft(one, s, d.names), d.t, [i \in DOMAIN d.names |-> d.names[i].n])

LocalPat(s, group, d) ==
    LET matched == pat([s EXCEPT !.existing = TRUE, !.from = group, !.bound = <<>>], d.p)
    IN  rhs([matched EXCEPT !.existing = FALSE, !.bound = s.bound], d.rhs)

\* The arguments and the right-hand side of a clause.
Clause(s, d) ==
    LET inner == rhs(pats(push_sig_scope(s, d.x.n), d.ps), d.rhs)
    IN  leave(leave_types(inner, s), s)

DeclGroup(s, g) ==
    LET one(acc, d) ==
            CASE d.k = "SIG" -> LocalSig(acc, g.from, d)
              [] d.k = "PAT" -> LocalPat(acc, g.from, d)
              [] d.k = "FUN" -> clause(use(acc, "term", d.x), d)
              [] d.k = "INFIXFUN" -> unsupported(acc)   \* (x `f` y) z = ...
              [] OTHER -> acc
    IN  FoldLeft(one, s, g.decls)

let_group(s, ds) == group_decls(bind_group(s, ds), Len(s.locals), ds)

\* Each statement sees the binders of the ones before it.
stmt(s, st) ==
    CASE st.k = "EXPR" -> expr(s, st.e)
      [] st.k = "BIND" -> pats(expr(s, st.e), <<st.p>>)
      [] st.k = "LET"  -> let_group(s, st.decls)
stmts(s, sts) == Visit(stmt, s, sts)

guarded(s, g) == leave(expr(stmts(s, g.stmts), g.e), s)

\* The body, which may be guarded, comes before the `where` declarations.
RightSide(s, x) ==
    LET body == Visit(guarded, bind_group(s, x.wheres), x.guards)
    IN  leave(group_decls(body, Len(s.locals), x.wheres), s)

\* An equation of an explicitly bidirectional pattern synonym.
Equation(s, d) ==
    IF d.k = "FUN" THEN leave(rhs(pats(s, d.ps), d.rhs), s) ELSE unsupported(s)

-----------------------------------------------------------------------------
(* Expressions                                                             *)

exprs(s, es) == Visit(LAMBDA acc, e : expr(acc, e), s, es)
alts(s, as) == Visit(LAMBDA acc, a : leave(rhs(pats(acc, <<a.p>>), a.rhs), acc), s, as)

LitExpr(s, e) ==
    CASE e.hash # "" -> use_if_there(s, e.at, e.hash)
      [] e.hash = "" /\ e.lit = "INTEGER" ->
            use_builtin(use_if_there(s, e.at, "Integer"), e.at, "fromInteger")
      [] e.hash = "" /\ e.lit = "FLOAT" -> use_builtin(s, e.at, "fromRational")
      [] e.hash = "" /\ e.lit \in {"CHAR", "STRING"} -> s

\* Each statement but the last names the method that sequences it.
DoStmts(s, sts) ==
    LET sequenced(acc, i) ==
            LET inner == stmt(acc, sts[i])
            IN  CASE i = Len(sts) \/ sts[i].k = "LET" -> inner
                  [] i < Len(sts) /\ sts[i].k = "EXPR" -> use_builtin(inner, sts[i].at, ">>")
                  [] i < Len(sts) /\ sts[i].k = "BIND" -> use_builtin(inner, sts[i].at, ">>=")
    IN  FoldLeft(sequenced, s, [i \in DOMAIN sts |-> i])

\* A pun is a variable; the name of another field has no record.
ConField(s, f) == IF f.pun THEN use(s, "term", f.x) ELSE expr(s, f.e)
UpdateField(s, f) ==
    LET named == use(s, "term", f.x) IN IF f.pun THEN named ELSE expr(named, f.e)

Expression(s, e) ==
    CASE e.k = "NAME"   -> use(s, "term", e.x)
      [] e.k = "SYNTAX" -> emit(s, e.at, "term", Syntax)
      [] e.k = "LIT"    -> LitExpr(s, e)
      [] e.k = "PARTS"  -> exprs(s, e.items)
      [] e.k = "TUPLE"  -> emit(exprs(s, e.items), e.at, "term", Syntax)
      [] e.k = "SIG"    -> ty(expr(s, e.e), e.t)
      [] e.k = "INFIX"  -> Visit(LAMBDA acc, st : expr(use(acc, "term", st.x), st.e),
                                 expr(s, e.e), e.steps)
      [] e.k = "LSEC"   -> use(expr(s, e.e), "term", e.x)
      [] e.k = "RSEC"   -> expr(use(s, "term", e.x), e.e)
      [] e.k = "LAMBDA" -> leave(expr(pats(s, e.ps), e.e), s)
      [] e.k = "LET"    -> leave(expr(let_group(s, e.decls), e.e), s)
      [] e.k = "CASE"   -> alts(exprs(s, e.items), e.alts)
      [] e.k = "NEG"    -> use_builtin(expr(s, e.e), e.at, "negate")
      [] e.k = "SEQ"    -> use_builtin(exprs(s, e.items), e.at, e.method)
      [] e.k = "DO"     -> leave(DoStmts(s, e.stmts), s)
      [] e.k = "COMP"   -> leave(expr(stmts(s, e.stmts), e.e), s)
      [] e.k = "IFS"    -> Visit(guarded, s, e.guards)
      [] e.k = "RECORD" -> IF e.wildcard THEN unsupported(s)
                           ELSE Visit(ConField, use(s, "term", e.x), e.fields)
      [] e.k = "UPDATE" -> Visit(UpdateField, expr(s, e.e), e.fields)
      [] OTHER          -> unsupported(s)

-----------------------------------------------------------------------------
(* The declarations of a module                                            *)

\* An instance method whose class is in scope only by the name of the class
\* is found among the children of the class.
Method(x, class) ==
    LET there == lookup_q(r, "term", x)
        key == <<"term", x.n>>
    IN  IF there = Unbound /\ class # Unbound /\ class.e \in DOMAIN input.kids
           /\ key \in input.kids[class.e]
        THEN [k |-> "top", e |-> <<class.e[1], key>>]
        ELSE there

NoClass == Unbound
NotReset(s) == s
Reset(s) == [s EXCEPT !.next = 0]
Renumbered(s1, s) == [s1 EXCEPT !.next = s.next]
Numbering(reset, s1, s) == IF reset THEN Renumbered(s1, s) ELSE NotReset(s1)

\* A top-level binding, a class default or an instance method.  The last two
\* number their binders from zero.
top_bind(s, d, class, reset) ==
    LET named == emit(s, d.x.at, "term", Method(d.x, class))
        start == IF reset THEN Reset(named) ELSE NotReset(named)
    IN  IF d.k # "FUN" THEN unsupported(s) ELSE Numbering(reset, clause(start, d), s)

TypeSig(s, d) ==
    sig_type(Visit(LAMBDA acc, x : use(acc, "term", x), s, d.names), d.t,
             [i \in DOMAIN d.names |-> d.names[i].n])

Constructor(s, c) ==
    LET bound == bind_tyvars(s, c.forall)
        constrained == Visit(context, bound, c.ctx)
        named == IF c.nil THEN emit(constrained, c.x.at, "term", Syntax)
                 ELSE use(constrained, "term", c.x)
    IN  IF c.gadt THEN unsupported(s) ELSE leave_types(tys(named, c.args), s)

data_decl(s, d) ==
    LET head == tys(binder_kinds(use(s, "type", d.x), d.vars), d.kind)
        built == Visit(Constructor, head, d.cons)
    IN  IF d.via THEN unsupported(s) ELSE tys(built, d.deriving)

\* The head may have a kind signature; a parameter may not.
TypeFamily(s, d) ==
    IF d.injective \/ \E v \in ToSet(d.vars) : v.kind # <<>> THEN unsupported(s)
    ELSE tys(use(s, "type", d.x), d.kind)

\* A default signature is named by the class; a method signature numbers its
\* binders from zero.
ClassItem(s, d) ==
    CASE d.k = "SIG"        -> Renumbered(TypeSig(Reset(s), d), s)
      [] d.k = "FAMILY"     -> TypeFamily(s, d)
      [] d.k = "DEFAULTSIG" -> ty(s, d.t)
      [] d.k = "FUN"        -> top_bind(s, d, NoClass, TRUE)
      [] OTHER              -> unsupported(s)

class_decl(s, d) ==
    LET named == use(s, "type", d.x)
        head == binder_kinds(Visit(context, named, d.ctx), d.vars)
    IN  IF d.fundeps THEN unsupported(s) ELSE Visit(ClassItem, head, d.body)

InstanceItem(s, d, class) ==
    CASE d.k = "FUN"      -> top_bind(s, d, class, TRUE)
      [] d.k = "SIG"      -> ty(s, d.t)
      [] d.k = "INSTANCE" -> tys(s, d.items)
      [] OTHER            -> unsupported(s)

\* The head of an instance is a class applied to types.
instance_decl(s, d) ==
    LET head == tys(use(Visit(context, s, d.ctx), "type", d.x), d.args)
        class == TopName("type", d.x)
    IN  IF d.headless THEN unsupported(s)
        ELSE Visit(LAMBDA acc, item : InstanceItem(acc, item, class), head, d.body)

\* The binders of the pattern are seen by nothing.
pattern_synonym(s, d) ==
    LET matched == pat([use(s, "term", d.x) EXCEPT !.bound = <<>>], d.p)
    IN  Visit(equation, [matched EXCEPT !.bound = s.bound], d.body)

foreign(s, d) == ty(use(s, "term", d.x), d.t)
type_synonym(s, d) == ty(binder_kinds(use(s, "type", d.x), d.vars), d.t)
pattern_signature(s, d) == ty(Visit(LAMBDA acc, x : use(acc, "term", x), s, d.names), d.t)

top_decl(s, d) ==
    CASE d.k = "SIG"       -> TypeSig(s, d)
      [] d.k = "FIXITY"    -> s
      [] d.k = "PATSYNSIG" -> pattern_signature(s, d)
      [] d.k = "PATSYN"    -> pattern_synonym(s, d)
      [] d.k = "INSTANCETYPE" -> tys(s, d.items)
      [] d.k = "FOREIGN"   -> foreign(s, d)
      [] d.k \in {"FUN", "INFIXFUN", "PAT"} -> top_bind(s, d, NoClass, FALSE)
      [] d.k = "DATA"      -> data_decl(s, d)
      [] d.k = "SYNONYM"   -> type_synonym(s, d)
      [] d.k = "FAMILY"    -> TypeFamily(s, d)
      [] d.k = "CLASS"     -> class_decl(s, d)
      [] d.k = "INSTANCE"  -> instance_decl(s, d)
      [] d.k = "OTHER"     -> unsupported(s)

walk(part, s, x) ==
    CASE part = "pat"   -> Pattern(s, x)
      [] part = "expr"  -> Expression(s, x)
      [] part = "rhs"   -> RightSide(s, x)
      [] part = "group" -> DeclGroup(s, x)
      [] part = "clause" -> Clause(s, x)
      [] part = "equation" -> Equation(s, x)
      [] part = "decl"  -> top_decl(s, x)

-----------------------------------------------------------------------------
(* resolve_module() and the comparison                                     *)

\* The next declaration.
Walk ==
    /\ status = "resolving" /\ decl <= Len(input.decls)
    /\ \E s \in {walk("decl", r, input.decls[decl])} :
          /\ r' = s
          /\ status' = IF s.err THEN "refused" ELSE status
    /\ decl' = decl + 1
    /\ UNCHANGED <<input, theirs>>

\* Every declaration is walked: the records are sorted by place.
Sort ==
    /\ status = "resolving" /\ decl > Len(input.decls)
    /\ r' = [r EXCEPT !.out = occvec_sort(@)]
    /\ status' = "resolved"
    /\ UNCHANGED <<input, decl, theirs>>

\* check_module() compares the records with a dump of the reference, which is
\* sorted when it is read.
Compare ==
    /\ status = "resolved"
    /\ \E other \in {occvec_sort(dump) : dump \in Dumps(r.out)} :
          /\ theirs' = other
          /\ status' = resolve_compare(r.out, other)
    /\ UNCHANGED <<input, decl, r>>

Stopped == status \in {"refused", "agree", "differ"} /\ UNCHANGED vars

Init ==
    /\ \E S \in Inputs : input \in S
    /\ decl = 1
    /\ r = NoResolver
    /\ status = "resolving"
    /\ theirs = <<>>

Next == Walk \/ Sort \/ Compare \/ Stopped

Spec == Init /\ [][Next]_vars
=============================================================================
