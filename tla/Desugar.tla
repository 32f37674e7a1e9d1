------------------------------ MODULE Desugar ------------------------------
(***************************************************************************)
(* The desugarer (src/desugar.c): from the syntax of every module that     *)
(* Main reaches to Core, with variables as addresses (Reference says what  *)
(* Core means).  A first pass over the modules declares constructors and   *)
(* fixities, a second one defines the globals.                             *)
(*                                                                         *)
(* The nodes of the syntax are records with a kind k.  Notes of the        *)
(* typechecker are part of them: evs are the dictionaries that a name      *)
(* takes, dicts the dictionary parameters of a binding or of a pattern.    *)
(* Addresses are slots from 1.  fail_at, which gives up with longjmp, is   *)
(* the code FailAt: a global that holds it ends the desugarer.             *)
(* Operators are resolved by their fixities first (src/fixity.c): the      *)
(* typechecker gives fixity_resolve the same tokens, and sees the same     *)
(* tree.                                                                   *)
(***************************************************************************)
EXTENDS Integers, SequencesExt

CONSTANTS
    Inputs,     \* the programs, in sets
    LongMax     \* the largest long

VARIABLES
    modules,    \* the program: its modules by name
    phase,      \* "reach", "declare", "define", "done" or "failed"
    reached,    \* the modules that Main reaches, in the order they are found
    at,         \* the next one to work on
    types,      \* the data types: [module, newtype, box, cons]
    cons,       \* the constructors: [c, arity, ndicts, fields, type]
    fixities,   \* the declared fixities
    globals,    \* the code of the globals, and their primitives
    hidden      \* counter of hidden globals

vars == <<modules, phase, reached, at, types, cons, fixities, globals, hidden>>

MainModule == "Main"
Base == "Base"      \* stands for the GHC modules that desugaring needs

-----------------------------------------------------------------------------
(* Chains of operators.  A token is an operand, a prefix minus, or an      *)
(* operator with its fixity; a tree is a leaf, a negation or an operator   *)
(* with two trees.                                                         *)

Fixed(prec, assoc) == [prec |-> prec, assoc |-> assoc]
fixity_default == Fixed(9, "LEFT")

Operand(e) == [k |-> "EXP", e |-> e]
Minus(e) == [k |-> "NEG", e |-> e]
Operator(o, fix) == [k |-> "OP", op |-> o, fix |-> fix]

Leaf(e) == [k |-> "LEAF", e |-> e]
NegTree(e, t) == [k |-> "NEG", e |-> e, l |-> t]
BinTree(o, l, r) == [k |-> "BIN", op |-> o, l |-> l, r |-> r]

\* Two operators that do not combine, and an operator that ends the operand
\* of the one before it.
ConflictMixed(op1, op2) == op1.prec = op2.prec /\ op1.assoc # op2.assoc
Conflict(op1, op2) == op1.prec = op2.prec /\ (op1.assoc # op2.assoc \/ op1.assoc = "NONE")
Ends(op1, op2) == op1.prec > op2.prec \/ (op1.prec = op2.prec /\ op1.assoc = "LEFT")

\* The parser: the tokens left, the tree so far, and whether it failed.
RECURSIVE fix_parse(_, _), fix_parse1(_, _)

fix_parse(p, op1) ==
    LET t == Head(p.toks)
        rest == [p EXCEPT !.toks = Tail(@), !.tree = Leaf(t.e)]
        operand == fix_parse(rest, Fixed(6, "LEFT"))
    IN  CASE t.k = "NEG" /\ op1.prec >= 6 -> [p EXCEPT !.err = TRUE]
          [] t.k = "NEG" /\ op1.prec < 6 ->
                fix_parse1([operand EXCEPT !.tree = NegTree(t.e, @)], op1)
          [] OTHER -> fix_parse1(rest, op1)

fix_parse1(p, op1) ==
    IF p.err \/ p.toks = <<>> THEN p
    ELSE LET t == Head(p.toks)
             right == fix_parse([p EXCEPT !.toks = Tail(@)], t.fix)
         IN  CASE Conflict(op1, t.fix) -> [p EXCEPT !.err = TRUE]
               [] ~Conflict(op1, t.fix) /\ Ends(op1, t.fix) -> p
               [] OTHER -> fix_parse1([right EXCEPT !.tree = BinTree(t.op, p.tree, @)], op1)

fixity_resolve(toks) ==
    fix_parse([toks |-> toks, tree |-> Leaf(0), err |-> FALSE], Fixed(-1, "NONE"))

-----------------------------------------------------------------------------
(* Core                                                                    *)

\* What a long keeps of a number, as a two's complement.
Long(n) == ((n + LongMax + 1) % (2 * (LongMax + 1))) - (LongMax + 1)
core_int(n) == [k |-> "INT", n |-> Long(n)]
core_char(c) == [k |-> "CHAR", n |-> c]
core_str(str) == [k |-> "STR", s |-> str]
core_global(key) == [k |-> "GLOBAL", g |-> key]
core_lam(n, body) == [k |-> "LAM", arity |-> n, body |-> body]
core_case(e, alts) == [k |-> "CASE", scrut |-> e, alts |-> alts]
core_con(con, args) == [k |-> "CON", c |-> con.c, args |-> args]
core_let(binds, body) ==
    IF binds = <<>> THEN body ELSE [k |-> "LET", binds |-> binds, body |-> body]

\* An application to more arguments: (f a) b is f a b.
core_app(f, args) ==
    CASE args = <<>> -> f
      [] args # <<>> /\ f.k = "APP" -> [f EXCEPT !.args = @ \o args]
      [] OTHER -> [k |-> "APP", fun |-> f, args |-> args]

\* Op(1), ..., Op(n): evaluated here, once.
Each(n, Op(_)) == [i \in 1 .. n |-> Op(i)] \o <<>>

ConAlt(con, body) == [k |-> "CON", c |-> con.c, arity |-> con.arity, body |-> body]
IntAlt(n, body) == [k |-> "INT", n |-> Long(n), body |-> body]
CharAlt(c, body) == [k |-> "CHAR", n |-> c, body |-> body]
DefaultAlt(body) == [k |-> "DEFAULT", body |-> body]

FailAt == [k |-> "FAIL"]

-----------------------------------------------------------------------------
(* Local variables: a scope is the module, the number of frames, and the   *)
(* frame and slot of each name.                                            *)

TopScope(m) == [m |-> m, depth |-> 0, locals |-> [n \in {} |-> {}]]
push_frame(s) == [s EXCEPT !.depth = @ + 1]
var_here(s, slot) == [frame |-> s.depth - 1, slot |-> slot]
bind(s, n, v) == [s EXCEPT !.locals = (n :> v) @@ @]
var_code(s, v) == [k |-> "VAR", up |-> s.depth - 1 - v.frame, slot |-> v.slot]

\* A new frame with these names, slot by slot.
Framed(s, names) ==
    FoldLeft(LAMBDA sc, i : bind(sc, names[i], var_here(sc, i)), push_frame(s),
             [i \in DOMAIN names |-> i])

-----------------------------------------------------------------------------
(* Names, constructors and dictionaries                                    *)

Entities(s) == modules[s.m].scope
known_global(n) == core_global(<<Base, n>>)

NoCon == [c |-> "", arity |-> 0, ndicts |-> 0, fields |-> <<>>, type |-> 0]
tuple_con(n) == [NoCon EXCEPT !.c = <<"Unit", "Solo", "Tup2", "Tup3">>[n + 1], !.arity = n]
con_by_name(s, n) ==
    CASE n = "Unit" -> tuple_con(0)
      [] n = "Nil" -> cons[<<Base, "Nil">>]
      [] n \in DOMAIN Entities(s) /\ Entities(s)[n] \in DOMAIN cons -> cons[Entities(s)[n]]
      [] OTHER -> NoCon

\* Whether the constructor is erased, whether a match on it still evaluates,
\* and how many constructors its type has: a tuple is alone in its type.
Erased(con) == con.type # 0 /\ types[con.type].newtype
Box(con) == con.type # 0 /\ types[con.type].box
Siblings(con) == IF con.type = 0 THEN 1 ELSE Len(types[con.type].cons)

\* A constructor as a function: a wrapper global, unless it is a value.
WrapperKey(con) == <<"{con}", con.c>>
con_value(con) ==
    IF con.arity = 0 /\ ~Erased(con) THEN core_con(con, <<>>) ELSE core_global(WrapperKey(con))
Wrapper(con) ==
    IF Erased(con) THEN core_lam(1, [k |-> "VAR", up |-> 0, slot |-> 1])
    ELSE core_lam(con.arity,
                  core_con(con, Each(con.arity, LAMBDA i : [k |-> "VAR", up |-> 0, slot |-> i])))

name_code(s, n) ==
    CASE n \in DOMAIN s.locals -> var_code(s, s.locals[n])
      [] n \notin DOMAIN s.locals /\ con_by_name(s, n) # NoCon -> con_value(con_by_name(s, n))
      [] n \notin DOMAIN s.locals /\ con_by_name(s, n) = NoCon /\ n \in DOMAIN Entities(s) ->
            core_global(Entities(s)[n])
      [] OTHER -> FailAt

super_name(c, i) == c \o "{super" \o ToString(i) \o "}"

\* The code of a dictionary.
RECURSIVE ev_code(_, _)
ev_code(s, ev) ==
    CASE ev.k = "VAR" -> IF ev.n \in DOMAIN s.locals THEN var_code(s, s.locals[ev.n]) ELSE FailAt
      [] ev.k = "INST" ->
            core_app(core_global(ev.inst), Each(Len(ev.args), LAMBDA i : ev_code(s, ev.args[i])))
      [] ev.k = "SUPER" ->
            core_app(core_global(<<ev.cls[1], super_name(ev.cls[2], ev.i)>>), <<ev_code(s, ev.of)>>)

ev_codes(s, evs) == Each(Len(evs), LAMBDA i : ev_code(s, evs[i]))
apply_evs(s, code, evs) == core_app(code, ev_codes(s, evs))

tc_ev_is_int(ev) == ev.k = "INST" /\ ev.inst = <<Base, "NumInt">>

fromInteger(s, ev, n) == core_app(known_global("fromInteger"), <<ev_code(s, ev), core_int(n)>>)

\* What a failed match goes on with.
fail_error == [k |-> "ERROR"]
fail_var(v) == [k |-> "VAR", var |-> v]
fail_nil == [k |-> "NIL"]
fail_code(s, f) ==
    CASE f.k = "VAR" -> var_code(s, f.var)
      [] f.k = "NIL" -> core_con(cons[<<Base, "Nil">>], <<>>)
      [] f.k = "ERROR" -> core_app(known_global("error"), <<core_str(<<1>>)>>)

literal_code(s, lit) ==
    CASE lit.k = "INT" ->
            IF lit.evs # <<>> /\ ~tc_ev_is_int(lit.evs[1]) THEN fromInteger(s, lit.evs[1], lit.i)
            ELSE core_int(lit.i)
      [] lit.k = "CHAR" -> core_char(lit.i)
      [] lit.k = "STR" -> core_str(lit.s)

-----------------------------------------------------------------------------
(* Chains of operators                                                     *)

op_fixity(s, op) ==
    IF op.n \notin DOMAIN s.locals /\ op.n \in DOMAIN Entities(s)
                                   /\ Entities(s)[op.n] \in DOMAIN fixities
    THEN fixities[Entities(s)[op.n]]
    ELSE fixity_default

push_operand(e) == IF e.k = "NEG" THEN <<Minus(e), Operand(e.e)>> ELSE <<Operand(e)>>

\* The tokens of a chain a op b op c ...
Chain(s, x) ==
    push_operand(x.a)
    \o FlattenSeq([i \in DOMAIN x.steps |->
                      <<Operator(x.steps[i].op, op_fixity(s, x.steps[i].op))>>
                      \o push_operand(x.steps[i].e)])

-----------------------------------------------------------------------------
(* Patterns                                                                *)

RECURSIVE pattern_vars(_)
pattern_vars(p) ==
    CASE p.k = "VAR" -> <<p.n>>
      [] p.k = "AS" -> <<p.n>> \o pattern_vars(p.p)
      [] p.k \in {"CON", "TUP", "LIST"} ->
            FlattenSeq([i \in DOMAIN p.ps |-> pattern_vars(p.ps[i])])
      [] p.k = "INFIX" ->
            pattern_vars(p.a) \o FlattenSeq([i \in DOMAIN p.steps |-> pattern_vars(p.steps[i].e)])
      [] p.k = "REC" ->
            FlattenSeq([i \in DOMAIN p.fields |->
                           IF p.fields[i].pun THEN <<p.fields[i].n>> ELSE pattern_vars(p.fields[i].p)])
      [] p.k \in {"LAZY", "BANG", "VIEW"} -> pattern_vars(p.p)
      [] OTHER -> <<>>

VarPat(n) == [k |-> "VAR", n |-> n]
WildPat == [k |-> "WILD"]
BangPat(p) == [k |-> "BANG", p |-> p]
ListPat(ps) == [k |-> "LIST", ps |-> ps]

\* The pattern of a field of a record pattern: the last one that names it.
FieldPat(p, field) ==
    LET named == SelectSeq(p.fields, LAMBDA f : f.n = field)
    IN  CASE named # <<>> /\ ~Last(named).pun -> Last(named).p
          [] named = <<>> /\ ~p.wildcard -> WildPat
          [] OTHER -> VarPat(field)

FieldPats(p, con) ==
    [i \in 1 .. con.arity - con.ndicts |->
        IF i \in DOMAIN con.fields THEN FieldPat(p, con.fields[i]) ELSE WildPat]

RECURSIVE fnode_to_pat(_)
fnode_to_pat(t) ==
    IF t.k = "LEAF" THEN t.e
    ELSE [k |-> "CON", c |-> t.op.n, dicts |-> <<>>, ps |-> <<fnode_to_pat(t.l), fnode_to_pat(t.r)>>]

\* A constructor pattern: the constructor, its dictionaries, the sub-patterns.
con_pattern(s, p) ==
    CASE p.k = "CON" -> [con |-> con_by_name(s, p.c), dicts |-> p.dicts, subs |-> p.ps]
      [] p.k = "TUP" -> [con |-> tuple_con(Len(p.ps)), dicts |-> <<>>, subs |-> p.ps]
      [] p.k = "LIST" ->
            IF p.ps = <<>> THEN [con |-> cons[<<Base, "Nil">>], dicts |-> <<>>, subs |-> <<>>]
            ELSE [con |-> cons[<<Base, "Cons">>], dicts |-> <<>>,
                  subs |-> <<Head(p.ps), ListPat(Tail(p.ps))>>]
      [] p.k = "REC" ->
            [con |-> con_by_name(s, p.c), dicts |-> p.dicts,
             subs |-> FieldPats(p, con_by_name(s, p.c))]

-----------------------------------------------------------------------------
(* Groups of declarations: the clauses of a function in a row are one.     *)

Joins(groups, d) ==
    groups # <<>> /\ d.k = "FUN" /\ Last(groups).k = "FUN" /\ Last(groups).n = d.n
Grouping(groups, d) ==
    CASE d.k = "SIG" -> groups
      [] d.k # "SIG" /\ Joins(groups, d) ->
            [groups EXCEPT ![Len(groups)].clauses = Append(@, d)]
      [] d.k = "FUN" /\ ~Joins(groups, d) ->
            Append(groups, [k |-> "FUN", n |-> d.n, dicts |-> d.dicts, clauses |-> <<d>>])
      [] OTHER -> Append(groups, d)
bind_groups(decls) == FoldLeft(Grouping, <<>>, decls)

\* The names of the slots of a group: the value of a pattern is hidden.
SlotNames(g) == IF g.k = "FUN" THEN <<g.n>> ELSE <<"">> \o pattern_vars(g.pat)

\* The scope and the code around a group of local declarations.
begin_decls(s, groups) ==
    IF groups = <<>> THEN s
    ELSE Framed(s, FlattenSeq([i \in DOMAIN groups |-> SlotNames(groups[i])]))

\* Several ways to go on, each tried when the one before it fails: the later
\* ones are let-bound, way i + 1 in slot i.
Branching(s, n) == IF n = 1 THEN s ELSE push_frame(s)
NextFailLost(s, i, n, fail) == IF i + 1 < n THEN fail_var(var_here(s, i)) ELSE fail
NextFail(s, i, n, fail) == IF i < n THEN fail_var(var_here(s, i)) ELSE fail
Branches(codes) == core_let(Tail(codes), Head(codes))

-----------------------------------------------------------------------------
(* Matching, clauses, right-hand sides and expressions.                    *)
(* The functions of the code that call each other do so through Code: a    *)
(* job names one of them and has its arguments.                            *)

RECURSIVE Code(_, _)
ds_expr(s, e) == Code(s, [job |-> "expr", e |-> e])
fnode_code(s, t) == Code(s, [job |-> "fnode", t |-> t])
ds_exprs(s, es) == Each(Len(es), LAMBDA i : ds_expr(s, es[i]))
ds_rhs(s, rhs, fail) == Code(s, [job |-> "rhs", rhs |-> rhs, fail |-> fail])
ds_guarded(s, g, fail) == Code(s, [job |-> "guarded", g |-> g, fail |-> fail])
ds_clauses(s, g) == Code(s, [job |-> "clauses", g |-> g])
match(s, ps, vs, cont, fail) ==
    Code(s, [job |-> "match", ps |-> ps, vs |-> vs, cont |-> cont, fail |-> fail])

\* What a match goes on to.
ThenExpr(e) == [k |-> "EXPR", e |-> e]
ThenRhs(rhs, fail) == [k |-> "RHS", rhs |-> rhs, fail |-> fail]
ThenGuards(g, fail) == [k |-> "GUARDS", g |-> g, fail |-> fail]
ThenVar(n) == [k |-> "VAR", n |-> n]

\* When all patterns are matched.
matched(s, cont) ==
    CASE cont.k = "EXPR" -> ds_expr(s, cont.e)
      [] cont.k = "RHS" -> ds_rhs(s, cont.rhs, cont.fail)
      [] cont.k = "GUARDS" -> ds_guarded(s, cont.g, cont.fail)
      [] cont.k = "VAR" -> var_code(s, s.locals[cont.n])

BadPattern(cp) ==
    cp.con = NoCon \/ Len(cp.subs) # cp.con.arity - cp.con.ndicts \/ Len(cp.dicts) # cp.con.ndicts

\* A constructor pattern cp; inner is the scope with the frame of its fields.
match_con(s, inner, cp, v, ps, vs, cont, fail) ==
    CASE BadPattern(cp) -> FailAt
      [] ~BadPattern(cp) /\ Erased(cp.con) ->
            match(s, <<IF Box(cp.con) THEN BangPat(cp.subs[1]) ELSE cp.subs[1]>> \o ps, <<v>> \o vs,
                  cont, fail)
      [] OTHER ->
            core_case(var_code(s, v),
                <<ConAlt(cp.con,
                         match(inner, cp.subs \o ps,
                               [i \in DOMAIN cp.subs |-> var_here(inner, cp.con.ndicts + i)] \o vs,
                               cont, fail))>>
                \o IF Siblings(cp.con) > 1 THEN <<DefaultAlt(fail_code(s, fail))>> ELSE <<>>)

FieldsFrameAlways(s, cp) == Framed(s, cp.dicts)
FieldsFrame(s, cp) == IF cp.con.arity = 0 THEN s ELSE Framed(s, cp.dicts)

\* ~p: each variable of p is a thunk that matches p on demand.
match_lazy(s, inner, names, p, v, ps, vs, cont, fail) ==
    IF names = <<>> THEN match(s, ps, vs, cont, fail)
    ELSE core_let(Each(Len(names), LAMBDA i : match(inner, <<p>>, <<v>>, ThenVar(names[i]), fail_error)),
                  match(inner, ps, vs, cont, fail))

\* An overloaded literal is compared with (==), any other is a case.
Overloaded(p) == Len(p.evs) = 2 /\ (p.k # "INT" \/ ~tc_ev_is_int(p.evs[2]))
LiteralAlt(p, body) == IF p.k = "INT" THEN IntAlt(p.i, body) ELSE CharAlt(p.i, body)
match_literal(s, p, v, body, fail) ==
    IF Overloaded(p)
    THEN core_case(core_app(known_global("=="), <<ev_code(s, p.evs[1]), var_code(s, v),
                                                  fromInteger(s, p.evs[2], p.i)>>),
                   <<ConAlt(cons[<<Base, "True">>], body), DefaultAlt(fail_code(s, fail))>>)
    ELSE core_case(var_code(s, v), <<LiteralAlt(p, body), DefaultAlt(fail_code(s, fail))>>)

CharPat(c) == [k |-> "CHAR", i |-> c, evs |-> <<>>]

match1(s, p, v, ps, vs, cont, fail) ==
    CASE p.k = "WILD" -> match(s, ps, vs, cont, fail)
      [] p.k = "VAR" -> match(bind(s, p.n, v), ps, vs, cont, fail)
      [] p.k = "AS" -> match(bind(s, p.n, v), <<p.p>> \o ps, <<v>> \o vs, cont, fail)
      [] p.k = "BANG" ->
            core_case(var_code(s, v),
                      <<DefaultAlt(match(s, <<p.p>> \o ps, <<v>> \o vs, cont, fail))>>)
      [] p.k = "LAZY" ->
            match_lazy(s, Framed(s, pattern_vars(p.p)), pattern_vars(p.p), p.p, v, ps, vs, cont, fail)
      [] p.k \in {"INT", "CHAR"} ->
            match_literal(s, p, v, match(s, ps, vs, cont, fail), fail)
      [] p.k = "STR" ->
            match(s, <<ListPat([i \in DOMAIN p.s |-> CharPat(p.s[i])])>> \o ps, <<v>> \o vs, cont, fail)
      [] p.k = "INFIX" ->
            IF fixity_resolve(Chain(s, p)).err THEN FailAt
            ELSE match(s, <<fnode_to_pat(fixity_resolve(Chain(s, p)).tree)>> \o ps, <<v>> \o vs,
                       cont, fail)
      [] p.k \in {"CON", "TUP", "LIST", "REC"} ->
            match_con(s, FieldsFrame(s, con_pattern(s, p)), con_pattern(s, p), v, ps, vs, cont, fail)
      [] p.k = "VIEW" ->
            LET inner == push_frame(s)
            IN  core_let(<<core_app(ds_expr(inner, p.e), <<var_code(inner, v)>>)>>,
                         match(inner, <<p.p>> \o ps, <<var_here(inner, 1)>> \o vs, cont, fail))

\* The clauses of a function with n arguments.
ClausesBody(s, inner, cs, n) ==
    CASE n = 0 -> IF Len(cs) = 1 THEN ds_rhs(s, cs[1].rhs, fail_error) ELSE FailAt
      [] n > 0 ->
            core_lam(n, Branches(Each(Len(cs), LAMBDA i :
                match(inner, cs[i].args, [j \in 1 .. n |-> var_here(push_frame(s), j)],
                      ThenRhs(cs[i].rhs, NextFail(inner, i, Len(cs), fail_error)),
                      NextFail(inner, i, Len(cs), fail_error)))))

clauses_body(s, cs) ==
    IF \E i \in DOMAIN cs : Len(cs[i].args) # Len(cs[1].args) THEN FailAt
    ELSE ClausesBody(s, Branching(push_frame(s), Len(cs)), cs, Len(cs[1].args))

\* ... inside the lambda of its dictionary parameters.
clauses_code(s, g) ==
    IF g.dicts = <<>> THEN clauses_body(s, g.clauses)
    ELSE core_lam(Len(g.dicts), clauses_body(Framed(s, g.dicts), g.clauses))

ds_pattern_var(s, g, value, n) == match(s, <<g.pat>>, <<value>>, ThenVar(n), fail_error)

\* The code of local groups; the slots of a group are after those before it.
GroupCode(s, g, slot) ==
    IF g.k = "FUN" THEN <<ds_clauses(s, g)>>
    ELSE <<ds_rhs(s, g.rhs, fail_error)>>
         \o [i \in DOMAIN pattern_vars(g.pat) |-> ds_pattern_var(s, g, var_here(s, slot), pattern_vars(g.pat)[i])]
Bindings(s, groups) ==
    LET slots == [i \in DOMAIN groups |-> Len(SlotNames(groups[i]))]
        first(i) == 1 + FoldLeft(LAMBDA n, m : n + m, 0, SubSeq(slots, 1, i - 1))
    IN  FlattenSeq([i \in DOMAIN groups |-> GroupCode(s, groups[i], first(i))])

\* One guarded alternative: its guards, then its body.
guarded_code(s, g, fail) ==
    LET rest == [g EXCEPT !.stmts = Tail(@)]
        stmt == Head(g.stmts)
        inner == push_frame(s)
        local == begin_decls(s, bind_groups(stmt.decls))
    IN  CASE g.stmts = <<>> -> ds_expr(s, g.body)
          [] g.stmts # <<>> /\ stmt.k = "EXPR" ->
                core_case(ds_expr(s, stmt.e),
                          <<ConAlt(cons[<<Base, "True">>], ds_guarded(s, rest, fail)),
                            DefaultAlt(fail_code(s, fail))>>)
          [] g.stmts # <<>> /\ stmt.k = "BIND" ->
                core_let(<<ds_expr(inner, stmt.e)>>,
                         match(inner, <<stmt.p>>, <<var_here(inner, 1)>>, ThenGuards(rest, fail), fail))
          [] g.stmts # <<>> /\ stmt.k = "LET" ->
                core_let(Bindings(local, bind_groups(stmt.decls)), ds_guarded(local, rest, fail))

ds_guard_alts(s, inner, gs, fail) ==
    Branches(Each(Len(gs), LAMBDA i : ds_guarded(inner, gs[i], NextFail(inner, i, Len(gs), fail))))

rhs_code(s, rhs, fail) ==
    LET groups == bind_groups(rhs.wheres)
        local == begin_decls(s, groups)
    IN  core_let(Bindings(local, groups),
                 ds_guard_alts(local, Branching(local, Len(rhs.guards)), rhs.guards, fail))

\* The alternatives of a case on the variable v.
AltCode(inner, v, alt, fail) == match(inner, <<alt.p>>, <<v>>, ThenRhs(alt.rhs, fail), fail)
ds_alts(s, v, alts) ==
    LET inner == Branching(s, Len(alts))
    IN  IF alts = <<>> THEN FailAt
        ELSE Branches(Each(Len(alts), LAMBDA i :
                AltCode(inner, v, alts[i], NextFail(inner, i, Len(alts), fail_error))))

\* An application: the head and the arguments of a chain of applications.
RECURSIVE Spine(_)
Spine(e) == IF e.k = "APP" THEN [Spine(e.f) EXCEPT !.args = Append(@, e.a)] ELSE [head |-> e, args |-> <<>>]

\* Whether a constructor has just the arguments it takes.
Saturates(con, evs, args) == ~Erased(con) /\ con.arity = Len(args) + Len(evs)
ConApp(s, con, evs, codes, f) ==
    CASE con # NoCon /\ Erased(con) /\ Len(codes) = 1 -> codes[1]
      [] con # NoCon /\ Saturates(con, evs, codes) ->
            core_con(con, ev_codes(s, evs) \o codes)
      [] OTHER -> core_app(f, codes)

HeadCon(s, e) == IF e.k = "CON" THEN con_by_name(s, e.n) ELSE NoCon
con_code(con) == IF con = NoCon THEN FailAt ELSE con_value(con)

ds_app(s, e) ==
    LET spine == Spine(e)
    IN  ConApp(s, HeadCon(s, spine.head), IF spine.head.k = "CON" THEN spine.head.evs ELSE <<>>,
               ds_exprs(s, spine.args), ds_expr(s, spine.head))

\* An operator as a function, and with two operands.  A constructor does not
\* take the dictionaries of its note here.
op_code(s, op) ==
    IF op.con THEN con_code(con_by_name(s, op.n)) ELSE apply_evs(s, name_code(s, op.n), op.evs)
op_apply(s, op, l, r) ==
    LET con == con_by_name(s, op.n)
    IN  IF op.con /\ con # NoCon /\ con.arity = 2 /\ ~Erased(con) THEN core_con(con, <<l, r>>)
        ELSE core_app(op_code(s, op), <<l, r>>)

negate_code(s, evs, code) ==
    CASE evs = <<>> -> FailAt
      [] evs # <<>> /\ code.k = "INT" /\ tc_ev_is_int(evs[1]) -> core_int(-code.n)
      [] OTHER -> core_app(known_global("negate"), <<ev_code(s, evs[1]), code>>)

tree_code(s, t) ==
    CASE t.k = "LEAF" -> ds_expr(s, t.e)
      [] t.k = "NEG" -> negate_code(s, t.e.evs, fnode_code(s, t.l))
      [] t.k = "BIN" -> op_apply(s, t.op, fnode_code(s, t.l), fnode_code(s, t.r))
infix_code(s, r) == IF r.err THEN FailAt ELSE fnode_code(s, r.tree)

\* The fields of a record, by position: the last update that names it.
Update(updates, con, i) == SelectSeq(updates, LAMBDA u : u.n = con.fields[i])
Updates(updates, con, i) == i \in DOMAIN con.fields /\ Update(updates, con, i) # <<>>
ds_record_con(con, codes) ==
    CASE con = NoCon \/ con.ndicts > 0 -> FailAt
      [] con # NoCon /\ con.ndicts = 0 /\ Erased(con) -> codes[1]
      [] OTHER -> core_con(con, codes)

\* e { f = x }: a case on the constructors that have the fields; the new
\* values are in the first slots of a let, and the record in the next.
HasFields(con, updates) == \A i \in DOMAIN updates : \E j \in DOMAIN con.fields : con.fields[j] = updates[i].n
UpdateArg(con, updates, j) ==
    LET named == {i \in DOMAIN updates : updates[i].n = con.fields[j]}
    IN  IF named = {} THEN [k |-> "VAR", up |-> 0, slot |-> j]
        ELSE [k |-> "VAR", up |-> 1, slot |-> CHOOSE i \in named : \A h \in named : h <= i]
UpdateAlt(con, updates) ==
    ConAlt(con, core_con(con, Each(con.arity, LAMBDA j : UpdateArg(con, updates, j))))
FieldTypes(s, field) ==
    {i \in DOMAIN types : /\ types[i].module = Entities(s)[field][1]
                          /\ \E j \in DOMAIN types[i].cons :
                                field \in ToSet(types[i].cons[j].fields)}
ds_record_update(inner, type, updates, values, record) ==
    LET able == SelectSeq(type.cons, LAMBDA con : HasFields(con, updates) /\ con.ndicts = 0)
    IN  IF type.newtype THEN values[1]
        ELSE core_let(Append(values, record),
                 core_case([k |-> "VAR", up |-> 0, slot |-> Len(updates) + 1],
                     [i \in DOMAIN able |-> UpdateAlt(able[i], updates)]
                     \o <<DefaultAlt(fail_code(inner, fail_error))>>))

cons_code(head, tail) == core_con(cons[<<Base, "Cons">>], <<head, tail>>)
BoolCase(s, cond, yes, no) == core_case(cond, <<ConAlt(cons[<<Base, "True">>], yes), DefaultAlt(no)>>)

\* The rest of a block after its first statement.
After(e) == [e EXCEPT !.stmts = Tail(@)]

\* A statement of a do block, or a qualifier of a list comprehension, and rest.
ds_do(s, inner, e, stmt, rest) ==
    CASE Len(e.stmts) = 1 -> IF stmt.k = "EXPR" THEN ds_expr(s, stmt.e) ELSE FailAt
      [] Len(e.stmts) > 1 /\ stmt.k = "EXPR" ->
            core_app(apply_evs(s, known_global(">>"), e.evs), <<ds_expr(s, stmt.e), ds_expr(s, rest)>>)
      [] Len(e.stmts) > 1 /\ stmt.k = "BIND" ->
            core_app(apply_evs(s, known_global(">>="), e.evs),
                <<ds_expr(s, stmt.e),
                  core_lam(1, match(inner, <<stmt.p>>, <<var_here(inner, 1)>>, ThenExpr(rest), fail_error))>>)
ds_comp(s, inner, e, stmt, rest) ==
    CASE stmt.k = "EXPR" ->
            BoolCase(s, ds_expr(s, stmt.e), ds_expr(s, rest), fail_code(s, fail_nil))
      [] stmt.k = "BIND" ->
            core_app(known_global("concatMap"),
                <<core_lam(1, match(inner, <<stmt.p>>, <<var_here(inner, 1)>>, ThenExpr(rest), fail_nil)),
                  ds_expr(s, stmt.e)>>)
LetExpr(decls, e) == [k |-> "LET", decls |-> decls, e |-> e]

\* A tuple section: the missing components are the arguments of a lambda.
Missing(items, i) == Cardinality({j \in 1 .. i : items[j].k = "MISSING"})

expr_code(s, e) ==
    LET inner == push_frame(s)
    IN  CASE e.k = "VAR" -> apply_evs(s, name_code(s, e.n), e.evs)
          [] e.k = "CON" -> apply_evs(s, con_code(con_by_name(s, e.n)), e.evs)
          [] e.k \in {"INT", "CHAR", "STR"} -> literal_code(s, e)
          [] e.k = "APP" -> ds_app(s, e)
          [] e.k = "DICTS" -> core_lam(Len(e.dicts), ds_expr(Framed(s, e.dicts), e.e))
          [] e.k = "SIG" -> apply_evs(s, ds_expr(s, e.e), e.evs)
          [] e.k = "INFIX" -> infix_code(s, fixity_resolve(Chain(s, e)))
          [] e.k = "NEG" -> negate_code(s, e.evs, ds_expr(s, e.e))
          [] e.k = "LAM" ->
                core_lam(Len(e.ps), match(inner, e.ps, [i \in DOMAIN e.ps |-> var_here(inner, i)],
                                          ThenExpr(e.e), fail_error))
          [] e.k = "LAMCASE" -> core_lam(1, ds_alts(inner, var_here(inner, 1), e.alts))
          [] e.k = "LET" ->
                LET local == begin_decls(s, bind_groups(e.decls))
                IN  core_let(Bindings(local, bind_groups(e.decls)), ds_expr(local, e.e))
          [] e.k = "IF" -> BoolCase(s, ds_expr(s, e.cond), ds_expr(s, e.a), ds_expr(s, e.b))
          [] e.k = "CASE" ->
                core_let(<<ds_expr(inner, e.e)>>, ds_alts(inner, var_here(inner, 1), e.alts))
          [] e.k = "MIF" -> ds_guard_alts(s, Branching(s, Len(e.guards)), e.guards, fail_error)
          [] e.k \in {"DO", "COMP"} /\ e.stmts # <<>> /\ Head(e.stmts).k = "LET" ->
                IF e.k = "DO" /\ Len(e.stmts) = 1 THEN FailAt
                ELSE ds_expr(s, LetExpr(Head(e.stmts).decls, After(e)))
          [] e.k = "DO" /\ e.stmts # <<>> /\ Head(e.stmts).k # "LET" ->
                ds_do(s, inner, e, Head(e.stmts), After(e))
          [] e.k = "COMP" /\ e.stmts # <<>> /\ Head(e.stmts).k # "LET" ->
                ds_comp(s, inner, e, Head(e.stmts), After(e))
          [] e.k = "COMP" /\ e.stmts = <<>> -> cons_code(ds_expr(s, e.e), fail_code(s, fail_nil))
          [] e.k = "TUP" ->
                core_con(tuple_con(Len(e.items)), ds_exprs(s, e.items))
          [] e.k = "SECTION" ->
                core_lam(Missing(e.items, Len(e.items)),
                    core_con(tuple_con(Len(e.items)),
                        Each(Len(e.items), LAMBDA i :
                            IF e.items[i].k = "MISSING" THEN var_code(inner, var_here(inner, Missing(e.items, i)))
                            ELSE ds_expr(inner, e.items[i]))))
          [] e.k = "LIST" ->
                FoldRight(cons_code, ds_exprs(s, e.items), fail_code(s, fail_nil))
          [] e.k = "SEQ" ->
                core_app(apply_evs(s, known_global(e.n), e.evs), ds_exprs(s, e.items))
          [] e.k = "LSEC" -> core_app(op_code(s, e.op), <<ds_expr(s, e.e)>>)
          [] e.k = "RSEC" ->
                core_lam(1, op_apply(inner, e.op, var_code(inner, var_here(inner, 1)), ds_expr(inner, e.e)))
          [] e.k = "RCON" ->
                LET con == con_by_name(s, e.n)
                IN  ds_record_con(con,
                        Each(con.arity, LAMBDA i :
                            IF Updates(e.fields, con, i) THEN ds_expr(s, Last(Update(e.fields, con, i)).e)
                            ELSE fail_code(s, fail_error)))
          [] e.k = "RUPD" ->
                LET found == FieldTypes(s, e.fields[1].n)
                    type == types[CHOOSE i \in found : \A j \in found : i <= j]
                    scope == IF type.newtype THEN s ELSE inner
                IN  IF found = {} THEN FailAt
                    ELSE ds_record_update(inner, type, e.fields,
                            Each(Len(e.fields), LAMBDA i : ds_expr(scope, e.fields[i].e)), ds_expr(inner, e.e))
          [] OTHER -> FailAt

Code(s, j) ==
    CASE j.job = "expr" -> expr_code(s, j.e)
      [] j.job = "fnode" -> tree_code(s, j.t)
      [] j.job = "rhs" -> rhs_code(s, j.rhs, j.fail)
      [] j.job = "guarded" -> guarded_code(s, j.g, j.fail)
      [] j.job = "clauses" -> clauses_code(s, j.g)
      [] j.job = "match" /\ j.ps = <<>> -> matched(s, j.cont)
      [] j.job = "match" /\ j.ps # <<>> ->
            match1(s, Head(j.ps), Head(j.vs), Tail(j.ps), Tail(j.vs), j.cont, j.fail)

-----------------------------------------------------------------------------
(* The two passes                                                          *)

Init ==
    /\ modules \in UNION Inputs
    /\ phase = "reach" /\ reached = <<MainModule>> /\ at = 1
    /\ types = <<>> /\ cons = [k \in {} |-> {}] /\ fixities = [k \in {} |-> {}]
    /\ globals = [k \in {} |-> {}] /\ hidden = 0

Fail ==
    /\ phase' = "failed"
    /\ UNCHANGED <<modules, reached, at, types, cons, fixities, globals, hidden>>

\* The imports of the next module that was reached.
Reach ==
    /\ phase = "reach" /\ at <= Len(reached)
    /\ LET imports == modules[reached[at]].imports
           new(found, m) == IF Contains(found, m) THEN found ELSE Append(found, m)
       IN  IF ToSet(imports) \subseteq DOMAIN modules
           THEN /\ reached' = FoldLeft(new, reached, imports)
                /\ at' = at + 1
                /\ UNCHANGED <<modules, phase, types, cons, fixities, globals, hidden>>
           ELSE Fail

\* A module that the typechecker rejected matters only when it is reached.
Reached ==
    /\ phase = "reach" /\ at > Len(reached)
    /\ IF \E m \in ToSet(reached) : modules[m].rejected THEN Fail
       ELSE /\ phase' = "declare" /\ at' = 1
            /\ UNCHANGED <<modules, reached, types, cons, fixities, globals, hidden>>

\* A constructor of the type that gets the number t.
ConInfo(c, t) ==
    [c |-> c.c, arity |-> c.arity + c.ndicts, ndicts |-> c.ndicts, fields |-> c.fields, type |-> t]

\* A data type of one constructor with one field of a primitive type, no
\* newtype and not existential, is a box.
IsBox(d) ==
    /\ ~d.newtype /\ Len(d.cons) = 1
    /\ d.cons[1].arity = 1 /\ d.cons[1].ndicts = 0 /\ d.cons[1].prim

TypeInfo(m, d, t) ==
    [module |-> m, newtype |-> d.newtype \/ IsBox(d), box |-> IsBox(d),
     cons |-> [i \in DOMAIN d.cons |-> ConInfo(d.cons[i], t)]]
dict_con(c) == [c |-> "{Dict}" \o c.n, arity |-> Len(c.supers) + Len(c.methods), ndicts |-> 0,
                fields |-> <<>>, prim |-> FALSE]
ClassType(c) == [newtype |-> FALSE, cons |-> <<dict_con(c)>>]

KeysOf(m, ds) == UNION {{<<m, c.c>> : c \in ToSet(d.cons)} : d \in ToSet(ds)}
ConAt(infos, k) == CHOOSE con \in UNION {ToSet(t.cons) : t \in ToSet(infos)} : con.c = k[2]

\* The first pass over a module.
Declare ==
    /\ phase = "declare" /\ at <= Len(reached)
    /\ LET m == reached[at]
           src == modules[m]
           datas == src.datas \o [i \in DOMAIN src.classes |-> ClassType(src.classes[i])]
           infos == [i \in DOMAIN datas |-> TypeInfo(m, datas[i], Len(types) + i)]
       IN  IF src.unsupported THEN Fail
           ELSE /\ types' = types \o infos
                /\ cons' = [k \in KeysOf(m, datas) |-> ConAt(infos, k)] @@ cons
                /\ fixities' = [k \in {<<m, n>> : n \in DOMAIN src.fixities} |-> src.fixities[k[2]]]
                               @@ fixities
                /\ globals' = [k \in {<<m, n>> : n \in DOMAIN src.prims} |->
                                  [k |-> "PRIM", f |-> src.prims[k[2]]]] @@ globals
                /\ at' = at + 1
                /\ UNCHANGED <<modules, phase, reached, hidden>>

\* The constructors that desugaring and the evaluator use by name.
Declared ==
    /\ phase = "declare" /\ at > Len(reached)
    /\ IF {<<Base, c>> : c \in {"False", "True", "Nil", "Cons"}} \subseteq DOMAIN cons
       THEN /\ phase' = "define" /\ at' = 1
            /\ UNCHANGED <<modules, reached, types, cons, fixities, globals, hidden>>
       ELSE Fail

\* The globals of a top-level group; h is the counter of hidden globals.
GroupGlobals(m, g, h) ==
    LET key == <<m, "pat{" \o ToString(h) \o "}">>
        inner == push_frame(TopScope(m))
    IN  IF g.k = "FUN" THEN <<m, g.n>> :> ds_clauses(TopScope(m), g)
        ELSE (key :> ds_rhs(TopScope(m), g.rhs, fail_error))
             @@ [k \in {<<m, n>> : n \in ToSet(pattern_vars(g.pat))} |->
                    core_let(<<core_global(key)>>, ds_pattern_var(inner, g, var_here(inner, 1), k[2]))]

\* \d -> case d of C x1 .. xn -> xi
SelectAlt(con, i) == ConAlt(con, [k |-> "VAR", up |-> 0, slot |-> i])
field_selector(con, i) ==
    core_lam(1, core_case([k |-> "VAR", up |-> 0, slot |-> 1], <<SelectAlt(con, i)>>))

tc_default_name(n) == "$dm" \o n
Method(n, dicts, clauses) == [k |-> "FUN", n |-> n, dicts |-> dicts, clauses |-> clauses]
MethodCode(s, meth) ==
    IF meth.clauses = <<>> THEN fail_code(s, fail_error)
    ELSE ds_clauses(s, Method(meth.n, meth.dicts, meth.clauses))
Supers(c) == [k \in {super_name(c.n, i) : i \in DOMAIN c.supers} |->
                 CHOOSE i \in DOMAIN c.supers : k = super_name(c.n, i)]
MethodAt(c, n) == CHOOSE i \in DOMAIN c.methods : c.methods[i].n = n
ClassGlobals(m, c) ==
    LET con == cons[<<m, dict_con(c).c>>]
        defaults == SelectSeq(c.methods, LAMBDA meth : meth.clauses # <<>>)
    IN  [k \in {<<m, n>> : n \in DOMAIN Supers(c)} |-> field_selector(con, Supers(c)[k[2]])]
        @@ [k \in {<<m, meth.n>> : meth \in ToSet(c.methods)} |->
               field_selector(con, Len(c.supers) + MethodAt(c, k[2]))]
        @@ [k \in {<<m, tc_default_name(meth.n)>> : meth \in ToSet(defaults)} |->
               LET meth == CHOOSE d \in ToSet(defaults) : k[2] = tc_default_name(d.n)
               IN  MethodCode(TopScope(m), meth)]

\* The dictionary of an instance, inside the lambda of its context.
InstanceFields(s, inst, con) ==
    core_con(con, [i \in DOMAIN inst.supers |-> ev_code(s, inst.supers[i])]
                  \o [i \in DOMAIN inst.methods |-> MethodCode(s, inst.methods[i])])
InstanceCode(m, inst, con) ==
    IF inst.ctx = <<>> THEN InstanceFields(TopScope(m), inst, con)
    ELSE core_lam(Len(inst.ctx), InstanceFields(Framed(TopScope(m), inst.ctx), inst, con))
InstanceCon(inst) == cons[<<inst.cls[1], "{Dict}" \o inst.cls[2]>>]

\* A record field as a function: of the constructors that have it.
SelectorCode(m, field, able) ==
    IF types[able[1].type].newtype THEN core_lam(1, [k |-> "VAR", up |-> 0, slot |-> 1])
    ELSE core_lam(1, core_case([k |-> "VAR", up |-> 0, slot |-> 1],
            [i \in DOMAIN able |->
                SelectAlt(able[i], able[i].ndicts + (CHOOSE j \in DOMAIN able[i].fields : able[i].fields[j] = field))]
            \o IF Siblings(able[1]) > Len(able)
               THEN <<DefaultAlt(fail_code(push_frame(TopScope(m)), fail_error))>> ELSE <<>>))
FieldsOf(m) == UNION {UNION {ToSet(con.fields) : con \in ToSet(t.cons)} :
                         t \in {u \in ToSet(types) : u.module = m}}
SelectorGlobals(m) ==
    [k \in {<<m, f>> : f \in FieldsOf(m)} |->
        LET t == CHOOSE t \in ToSet(types) :
                    t.module = m /\ \E con \in ToSet(t.cons) : k[2] \in ToSet(con.fields)
        IN  SelectorCode(m, k[2], SelectSeq(t.cons, LAMBDA con : k[2] \in ToSet(con.fields)))]

Merged(fs) == FoldLeft(LAMBDA f, g : g @@ f, [k \in {} |-> {}], fs)
PatternsIn(groups, i) == Len(SelectSeq(SubSeq(groups, 1, i), LAMBDA g : g.k = "PAT"))
ModuleGlobals(m) ==
    LET src == modules[m]
        groups == bind_groups(src.decls)
    IN  Merged([i \in DOMAIN groups |-> GroupGlobals(m, groups[i], hidden + PatternsIn(groups, i - 1))]
               \o [i \in DOMAIN src.classes |-> ClassGlobals(m, src.classes[i])]
               \o [i \in DOMAIN src.instances |->
                      <<m, src.instances[i].n>> :> InstanceCode(m, src.instances[i], InstanceCon(src.instances[i]))]
               \o <<SelectorGlobals(m)>>)

\* What is inside a piece of code: the globals it names, whether it failed.
RECURSIVE Mentions(_)
Inside(code) ==
    CASE code.k = "LAM" -> <<code.body>>
      [] code.k = "LET" -> Append(code.binds, code.body)
      [] code.k = "CASE" -> <<code.scrut>> \o [i \in DOMAIN code.alts |-> code.alts[i].body]
      [] code.k = "APP" -> <<code.fun>> \o code.args
      [] code.k = "CON" -> code.args
      [] OTHER -> <<>>
Mentions(code) ==
    CASE code.k = "GLOBAL" -> {code.g}
      [] code.k = "FAIL" -> {<<"", "FAIL">>}
      [] OTHER -> UNION {Mentions(sub) : sub \in ToSet(Inside(code))}

\* The second pass over a module.
Define ==
    /\ phase = "define" /\ at <= Len(reached)
    /\ \E new \in {ModuleGlobals(reached[at])} :
           IF \E k \in DOMAIN new : <<"", "FAIL">> \in Mentions(new[k]) THEN Fail
           ELSE /\ globals' = new @@ globals
                /\ hidden' = hidden + PatternsIn(modules[reached[at]].decls, Len(modules[reached[at]].decls))
                /\ at' = at + 1
                /\ UNCHANGED <<modules, phase, reached, types, cons, fixities>>

\* Every global that an expression names must have a body.
Mentioned == UNION {Mentions(globals[k]) : k \in DOMAIN globals}
WrappersIn(keys) ==
    LET wrapped == {con \in {cons[k] : k \in DOMAIN cons} : WrapperKey(con) \in keys}
    IN  [k \in {WrapperKey(con) : con \in wrapped} |-> Wrapper(CHOOSE con \in wrapped : WrapperKey(con) = k)]
Finish ==
    /\ phase = "define" /\ at > Len(reached)
    /\ \E names \in {Mentioned} : \E all \in {WrappersIn(names) @@ globals} :
           IF names \subseteq DOMAIN all /\ <<MainModule, "main">> \in DOMAIN globals
           THEN /\ phase' = "done" /\ globals' = all
                /\ UNCHANGED <<modules, reached, at, types, cons, fixities, hidden>>
           ELSE Fail

Next == Reach \/ Reached \/ Declare \/ Declared \/ Define \/ Finish
Spec == Init /\ [][Next]_vars
=============================================================================
