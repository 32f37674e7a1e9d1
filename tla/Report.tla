------------------------------- MODULE Report -------------------------------
(***************************************************************************)
(* What the Haskell 2010 report says a program means: a call-by-name       *)
(* evaluator of the syntax that Desugar translates, with names for         *)
(* variables and no Core.  Patterns are matched as section 3.17 describes, *)
(* from left to right, clause after clause; the other constructs are       *)
(* defined by the translations that the report gives (sections 3.3 to      *)
(* 3.15, 4.4.3), which need names that no program has: "%...".             *)
(*                                                                         *)
(* An environment is a stack of frames, the innermost first: a name with a *)
(* thunk, or a group of declarations.  A result is a value, "exc" with     *)
(* what was raised, "no" when all alternatives fail, or "bot" when the     *)
(* fuel is used up.                                                        *)
(***************************************************************************)
EXTENDS Integers, Sequences, SequencesExt

CONSTANTS
    Long(_),        \* what an Int keeps of an Integer
    Deviations      \* what is not as the report says it: "literal", "operator", "lazy"

Bot == [t |-> "bot"]
No == [t |-> "no"]
Exc(th) == [t |-> "exc", th |-> th]
IntValue(n) == [t |-> "val", k |-> "INT", n |-> n]
CharValue(n) == [t |-> "val", k |-> "CHAR", n |-> n]
ConValue(c, ths) == [t |-> "val", k |-> "CON", c |-> c, args |-> ths]
Stuck == [t |-> "err"]
\* A function of n arguments, with those it has already.
FunValue(what, n) == [t |-> "val", k |-> "FUN", what |-> what, n |-> n, args |-> <<>>]
DictValue(inst, ths) == [t |-> "val", k |-> "DICT", inst |-> inst, args |-> ths]

Delay(e, env) == [k |-> "E", e |-> e, env |-> env]
DelayRhs(rhs, env) == [k |-> "RHS", rhs |-> rhs, env |-> env]
\* The variable n of the pattern p matched against th.
Pick(n, p, th, env) == [k |-> "PICK", n |-> n, p |-> p, th |-> th, env |-> env]
Value(v) == [k |-> "V", v |-> v]

\* Environments.
Top(ms, m) == [ms |-> ms, m |-> m, frames |-> <<>>]
With(env, n, th) == [env EXCEPT !.frames = <<[n |-> n, th |-> th]>> \o @]
WithGroup(env, decls) ==
    IF decls = <<>> THEN env ELSE [env EXCEPT !.frames = <<[n |-> "", decls |-> decls]>> \o @]
WithAll(env, ns, ths) == FoldLeft(LAMBDA acc, i : With(acc, ns[i], ths[i]), env, [i \in DOMAIN ns |-> i])

\* Syntax.
Var(n) == [k |-> "VAR", n |-> n, evs |-> <<>>]
Known(n) == [k |-> "KNOWN", n |-> n, evs |-> <<>>]
KnownAt(n, es) == [k |-> "KNOWN", n |-> n, evs |-> es]
App1(f, a) == [k |-> "APP", f |-> f, a |-> a]
App2(f, a, b) == App1(App1(f, a), b)
ConExpr(c) == [k |-> "KNOWNCON", n |-> c]
Lambda(n, e) == [k |-> "LAM", ps |-> <<[k |-> "VAR", n |-> n]>>, e |-> e]
Plain(e) == [wheres |-> <<>>, guards |-> <<[stmts |-> <<>>, body |-> e]>>]
Alt(p, e) == [p |-> p, rhs |-> Plain(e)]
VarP(n) == [k |-> "VAR", n |-> n]
WildP == [k |-> "WILD"]
KnownP(c, ps) == [k |-> "KNOWNCON", c |-> c, ps |-> ps]
CaseOf(e, alts) == [k |-> "CASE", e |-> e, alts |-> alts]
Error == App1(Known("error"), [k |-> "STR", s |-> <<1>>])

\* The variables of a pattern, and what a frame binds.
RECURSIVE Bound(_)
Bound(p) ==
    CASE p.k = "VAR" -> {p.n}
      [] p.k = "AS" -> {p.n} \cup Bound(p.p)
      [] p.k \in {"LAZY", "BANG", "VIEW"} -> Bound(p.p)
      [] p.k \in {"CON", "TUP", "LIST"} -> UNION {Bound(q) : q \in ToSet(p.ps)}
      [] p.k = "REC" -> UNION {IF f.pun THEN {f.n} ELSE Bound(f.p) : f \in ToSet(p.fields)}
      [] p.k = "INFIX" -> Bound(p.a) \cup UNION {Bound(x.e) : x \in ToSet(p.steps)}
      [] OTHER -> {}

Binds(d, n) == CASE d.k = "FUN" -> d.n = n [] d.k = "PAT" -> n \in Bound(d.pat) [] OTHER -> FALSE
FunGroup(decls, n) == SelectSeq(decls, LAMBDA d : d.k = "FUN" /\ d.n = n)
FrameBinds(f, n) == f.n = n \/ (f.n = "" /\ \E d \in ToSet(f.decls) : Binds(d, n))

-----------------------------------------------------------------------------
(* Operators (4.4.2, 10.6): the tree of a chain is the one in which every  *)
(* operand binds tighter than the operator it is an operand of.            *)

TopFixity(t) == CASE t.k = "LEAF" -> [prec |-> 10, assoc |-> "LEFT"]
                  [] t.k = "NEG" -> [prec |-> 6, assoc |-> "LEFT"]
                  [] t.k = "BIN" -> t.fix
Tighter(t, fix, side) ==
    \/ TopFixity(t).prec > fix.prec
    \/ TopFixity(t).prec = fix.prec /\ fix.assoc = side /\ TopFixity(t).assoc = side

RECURSIVE Trees(_)
Trees(toks) ==
    LET splits == {i \in 2 .. (Len(toks) - 1) : toks[i].k = "OP"}
        halves(i) == {[k |-> "BIN", op |-> toks[i].op, fix |-> toks[i].fix, l |-> l, r |-> r] :
                         l \in {t \in Trees(SubSeq(toks, 1, i - 1)) : Tighter(t, toks[i].fix, "LEFT")},
                         r \in {t \in Trees(SubSeq(toks, i + 1, Len(toks))) :
                                   Tighter(t, toks[i].fix, "RIGHT")}}
        negated == {[k |-> "NEG", e |-> toks[1].e, l |-> t] :
                       t \in {u \in Trees(Tail(toks)) : TopFixity(u).prec > 6}}
    IN  IF toks = <<>> THEN {}
        ELSE (IF Len(toks) = 1 /\ toks[1].k = "EXP" THEN {[k |-> "LEAF", e |-> toks[1].e]} ELSE {})
             \cup (IF toks[1].k = "NEG" THEN negated ELSE {})
             \cup UNION {halves(i) : i \in splits}

\* The fixity that a name has in a module: a local name has the default one.
FixityOf(env, n) ==
    LET key == env.ms[env.m].scope[n]
        table == env.ms[key[1]].fixities
    IN  IF /\ \A i \in DOMAIN env.frames : ~FrameBinds(env.frames[i], n)
           /\ n \in DOMAIN env.ms[env.m].scope /\ key[2] \in DOMAIN table
        THEN table[key[2]]
        ELSE [prec |-> 9, assoc |-> "LEFT"]

OperandTokens(e) ==
    IF e.k = "NEG" THEN <<[k |-> "NEG", e |-> e], [k |-> "EXP", e |-> e.e]>> ELSE <<[k |-> "EXP", e |-> e]>>
ChainTokens(env, x) ==
    OperandTokens(x.a)
    \o FlattenSeq([i \in DOMAIN x.steps |->
                      <<[k |-> "OP", op |-> x.steps[i].op, fix |-> FixityOf(env, x.steps[i].op.n)]>>
                      \o OperandTokens(x.steps[i].e)])
TreeOf(env, x) == CHOOSE t \in Trees(ChainTokens(env, x)) : TRUE

\* "operator": a constructor between its operands takes no dictionaries.
OpEvs(op) == IF op.con /\ "operator" \in Deviations THEN <<>> ELSE op.evs
OpExpr(op) == [k |-> IF op.con THEN "CON" ELSE "VAR", n |-> op.n, evs |-> OpEvs(op)]

RECURSIVE TreeExpr(_), TreePat(_)
TreeExpr(t) ==
    CASE t.k = "LEAF" -> t.e
      [] t.k = "NEG" -> App1(KnownAt("negate", t.e.evs), TreeExpr(t.l))
      [] t.k = "BIN" -> App2(OpExpr(t.op), TreeExpr(t.l), TreeExpr(t.r))
TreePat(t) ==
    IF t.k = "LEAF" THEN t.e
    ELSE [k |-> "CON", c |-> t.op.n, dicts |-> <<>>, ps |-> <<TreePat(t.l), TreePat(t.r)>>]

-----------------------------------------------------------------------------
(* Translations                                                            *)

ListExpr(es) == FoldRight(LAMBDA e, acc : App2(ConExpr("Cons"), e, acc), es, ConExpr("Nil"))
TupleNames == <<"Unit", "Solo", "Tup2", "Tup3">>
TupleExpr(es) == FoldLeft(App1, ConExpr(TupleNames[Len(es) + 1]), es)

LetExpr(decls, e) == [k |-> "LET", decls |-> decls, e |-> e]
Matching(p, yes, no) == Lambda("%x", CaseOf(Var("%x"), <<Alt(p, yes), Alt(WildP, no)>>))

\* A statement, or a qualifier, and the rest of its block.
DoExpr(e, stmt, rest) ==
    CASE Len(e.stmts) = 1 -> stmt.e
      [] Len(e.stmts) > 1 /\ stmt.k = "EXPR" -> App2(KnownAt(">>", e.evs), stmt.e, rest)
      [] Len(e.stmts) > 1 /\ stmt.k = "LET" -> LetExpr(stmt.decls, rest)
      [] Len(e.stmts) > 1 /\ stmt.k = "BIND" ->
            App2(KnownAt(">>=", e.evs), stmt.e, Matching(stmt.p, rest, Error))
CompExpr(stmt, rest) ==
    CASE stmt.k = "EXPR" ->
            CaseOf(stmt.e, <<Alt(KnownP("True", <<>>), rest), Alt(WildP, ConExpr("Nil"))>>)
      [] stmt.k = "LET" -> LetExpr(stmt.decls, rest)
      [] stmt.k = "BIND" -> App2(Known("concatMap"), Matching(stmt.p, rest, ConExpr("Nil")), stmt.e)

Kernel(env, e) ==
    CASE e.k = "INFIX" -> TreeExpr(TreeOf(env, e))
      [] e.k = "NEG" -> App1(KnownAt("negate", e.evs), e.e)
      [] e.k = "LAMCASE" -> Lambda("%x", CaseOf(Var("%x"), e.alts))
      [] e.k = "IF" -> CaseOf(e.cond, <<Alt(KnownP("True", <<>>), e.a), Alt(KnownP("False", <<>>), e.b)>>)
      [] e.k = "MIF" ->
            CaseOf(ConExpr("Unit"), <<[p |-> WildP, rhs |-> [wheres |-> <<>>, guards |-> e.guards]]>>)
      [] e.k = "TUP" -> TupleExpr(e.items)
      [] e.k = "LIST" -> ListExpr(e.items)
      [] e.k = "SEQ" -> FoldLeft(App1, KnownAt(e.n, e.evs), e.items)
      [] e.k = "LSEC" -> App1(OpExpr(e.op), e.e)
      [] e.k = "RSEC" -> Lambda("%x", App2(OpExpr(e.op), Var("%x"), e.e))
      [] e.k = "SECTION" ->
            LET holes == SelectSeq([i \in DOMAIN e.items |-> i], LAMBDA i : e.items[i].k = "MISSING")
                name(i) == "%" \o ToString(i)
            IN  [k |-> "LAM", ps |-> [i \in DOMAIN holes |-> VarP(name(holes[i]))],
                 e |-> TupleExpr([i \in DOMAIN e.items |->
                                     IF e.items[i].k = "MISSING" THEN Var(name(i)) ELSE e.items[i]])]
      [] e.k = "DO" -> DoExpr(e, Head(e.stmts), [e EXCEPT !.stmts = Tail(@)])
      [] e.k = "COMP" ->
            IF e.stmts = <<>> THEN ListExpr(<<e.e>>)
            ELSE CompExpr(Head(e.stmts), [e EXCEPT !.stmts = Tail(@)])

-----------------------------------------------------------------------------
(* Declarations                                                            *)

\* The constructors of a module: with their type, and the fields they have.
ConsOf(src) == UNION {{[c |-> c.c, arity |-> c.arity, ndicts |-> c.ndicts, fields |-> c.fields,
                        newtype |-> d.newtype,
                        box |-> ~d.newtype /\ Len(d.cons) = 1 /\ c.prim /\ c.arity = 1 /\ c.ndicts = 0,
                        all |-> d.cons] : c \in ToSet(d.cons)} : d \in ToSet(src.datas)}
IsCon(ms, key) == \E c \in ConsOf(ms[key[1]]) : c.c = key[2]
ConAt(ms, key) == CHOOSE c \in ConsOf(ms[key[1]]) : c.c = key[2]
FieldOwner(src, field) == CHOOSE c \in ConsOf(src) : field \in ToSet(c.fields)
TupleCon(n) == [c |-> TupleNames[n + 1], arity |-> n, ndicts |-> 0, fields |-> <<>>,
                newtype |-> FALSE, box |-> FALSE, all |-> <<>>]
NamedCon(env, c) == IF c = "Unit" THEN TupleCon(0) ELSE ConAt(env.ms, env.ms[env.m].scope[c])
KnownCon(env, c) == ConAt(env.ms, <<"Base", c>>)
\* The constructor that a translation names.
SyntaxCon(env, c) ==
    LET tuples == {i \in DOMAIN TupleNames : TupleNames[i] = c}
    IN  IF tuples = {} THEN KnownCon(env, c) ELSE TupleCon((CHOOSE i \in tuples : TRUE) - 1)
ConFun(con) ==
    CASE con.newtype \/ con.box -> FunValue([k |-> "ERASED"], 1)
      [] con.arity + con.ndicts = 0 -> ConValue(con.c, <<>>)
      [] OTHER -> FunValue([k |-> "CON", c |-> con.c], con.arity + con.ndicts)

\* The parts of a constructor pattern.
FieldOf(p, field) ==
    LET named == SelectSeq(p.fields, LAMBDA f : f.n = field)
    IN  IF named = <<>> THEN (IF p.wildcard THEN VarP(field) ELSE WildP)
        ELSE IF Last(named).pun THEN VarP(field) ELSE Last(named).p
PatCon(env, p) == CASE p.k \in {"CON", "REC"} -> NamedCon(env, p.c)
                    [] p.k = "TUP" -> TupleCon(Len(p.ps))
                    [] p.k = "KNOWNCON" -> KnownCon(env, p.c)
                    [] p.k = "LIST" -> KnownCon(env, IF p.ps = <<>> THEN "Nil" ELSE "Cons")
PatArgs(con, p) ==
    CASE p.k = "LIST" -> IF p.ps = <<>> THEN <<>> ELSE <<Head(p.ps), [p EXCEPT !.ps = Tail(@)]>>
      [] p.k = "REC" -> [i \in 1 .. con.arity |->
                            IF i \in DOMAIN con.fields THEN FieldOf(p, con.fields[i]) ELSE WildP]
      [] OTHER -> p.ps
PatDicts(p) == IF p.k \in {"CON", "REC"} THEN p.dicts ELSE <<>>

-----------------------------------------------------------------------------
(* Evaluation                                                              *)

\* A job of the evaluator, with fuel: evaluate an expression, force a thunk,
\* apply a value, enter a function with all its arguments, match a pattern or
\* several, try clauses or guarded alternatives in turn.
RECURSIVE Run(_, _)
Eval(e, env, n) == Run([job |-> "eval", e |-> e, env |-> env], n)
Force(th, n) == Run([job |-> "force", th |-> th], n)
Apply(v, ths, n) == Run([job |-> "apply", v |-> v, ths |-> ths], n)
Enter(w, ths, n) == Run([job |-> "enter", w |-> w, ths |-> ths], n)
Match(p, th, env, n) == Run([job |-> "match", p |-> p, th |-> th, env |-> env], n)
MatchAll(ps, ths, env, n) == Run([job |-> "matchAll", ps |-> ps, ths |-> ths, env |-> env], n)
Clauses(cs, ths, env, n) == Run([job |-> "clauses", cs |-> cs, ths |-> ths, env |-> env], n)
GuardAlts(gs, env, n) == Run([job |-> "guardAlts", gs |-> gs, env |-> env], n)
Guarded(g, env, n) == Run([job |-> "guarded", g |-> g, env |-> env], n)

\* When no alternative matches, the result is an error.
Settled(r, env, n) == IF r.t = "no" THEN Eval(Error, env, n) ELSE r

\* Functions, groups of clauses, dictionaries.
ClausesFun(cs, env) == FunValue([k |-> "CLAUSES", cs |-> cs, env |-> env], Len(cs[1].args))
Abstracted(dicts, e, env) == FunValue([k |-> "DICTS", dicts |-> dicts, e |-> e, env |-> env], Len(dicts))
GroupExpr(dicts, cs) ==
    LET group == [k |-> "GROUP", cs |-> cs]
    IN  IF dicts = <<>> THEN group ELSE [k |-> "DICTS", dicts |-> dicts, e |-> group]
EvThunks(evs, env) == [i \in DOMAIN evs |-> Delay([k |-> "EV", ev |-> evs[i]], env)] \o <<>>

InstanceAt(ms, key) == CHOOSE inst \in ToSet(ms[key[1]].instances) : inst.n = key[2]
InstanceEnv(d, ms) == WithAll(Top(ms, d.inst[1]), InstanceAt(ms, d.inst).ctx, d.args)
MethodOf(inst, n) == CHOOSE meth \in ToSet(inst.methods) : meth.n = n
MethodExpr(meth) == IF meth.clauses = <<>> THEN Error ELSE GroupExpr(meth.dicts, meth.clauses)

\* The thunk of a declared name, in the scope of its declarations.
Declared(decls, x, env) ==
    LET cs == FunGroup(decls, x)
        d == CHOOSE d \in ToSet(decls) : d.k = "PAT" /\ x \in Bound(d.pat)
    IN  IF cs # <<>> THEN Delay(GroupExpr(cs[1].dicts, cs), env)
        ELSE Pick(x, d.pat, DelayRhs(d.rhs, env), env)

MethodsOf(src) == UNION {ToSet(c.methods) : c \in ToSet(src.classes)}
GlobalThunk(ms, key) ==
    LET src == ms[key[1]]
        declared == \E d \in ToSet(src.decls) : Binds(d, key[2])
        defaults == {meth \in MethodsOf(src) : key[2] = "$dm" \o meth.n}
    IN  CASE key[2] \in DOMAIN src.prims ->
                Value(FunValue([k |-> "PRIM", f |-> src.prims[key[2]]],
                               IF src.prims[key[2]] = "raise" THEN 1 ELSE 2))
          [] declared -> Declared(src.decls, key[2], Top(ms, key[1]))
          [] \E meth \in MethodsOf(src) : meth.n = key[2] ->
                Value(FunValue([k |-> "METHOD", n |-> key[2], ms |-> ms], 1))
          [] defaults # {} -> Delay(MethodExpr(CHOOSE meth \in defaults : TRUE), Top(ms, key[1]))
          [] OTHER -> Value(FunValue([k |-> "FIELD", n |-> key[2], m |-> key[1], ms |-> ms], 1))

\* The thunk of a name.
NameThunk(env, x) ==
    LET binding == {i \in DOMAIN env.frames : FrameBinds(env.frames[i], x)}
        i == CHOOSE i \in binding : \A j \in binding : i <= j
        f == env.frames[i]
    IN  CASE binding = {} -> GlobalThunk(env.ms, env.ms[env.m].scope[x])
          [] binding # {} /\ f.n # "" -> f.th
          [] OTHER -> Declared(f.decls, x, [env EXCEPT !.frames = SubSeq(@, i, Len(@))])

WithDicts(v, evs, env, n) == Apply(v, EvThunks(evs, env), n)

\* A record with new values for some fields: its constructor has them all.
Updated(v, con, updates, env) ==
    [v EXCEPT !.args = [i \in DOMAIN @ |->
        LET us == SelectSeq(updates, LAMBDA u : i > con.ndicts /\ u.n = con.fields[i - con.ndicts])
        IN  IF us = <<>> THEN @[i] ELSE Delay(Last(us).e, env)]]
RecordUpdate(v, e, env, n) ==
    LET m == env.ms[env.m].scope[e.fields[1].n][1]
        con == ConAt(env.ms, <<m, v.c>>)
    IN  IF FieldOwner(env.ms[m], e.fields[1].n).newtype THEN Eval(e.fields[1].e, env, n)
        ELSE IF v.t # "val" THEN v
        ELSE IF \A u \in ToSet(e.fields) : u.n \in ToSet(con.fields) THEN Updated(v, con, e.fields, env)
        ELSE Eval(Error, env, n)

\* A field of a record expression, the last one that names it.
FieldThunk(fields, name, env) ==
    LET us == SelectSeq(fields, LAMBDA u : u.n = name)
    IN  Delay(IF us = <<>> THEN Error ELSE Last(us).e, env)

AltClauses(alts) == [i \in DOMAIN alts |-> [args |-> <<alts[i].p>>, rhs |-> alts[i].rhs]]

EvidenceOf(ev, env, n) ==
    LET d == Eval([k |-> "EV", ev |-> ev.of], env, n)
    IN  CASE ev.k = "VAR" -> Force(NameThunk(env, ev.n), n)
          [] ev.k = "INST" -> DictValue(ev.inst, EvThunks(ev.args, env))
          [] ev.k = "SUPER" ->
                IF d.t # "val" THEN d
                ELSE Eval([k |-> "EV", ev |-> InstanceAt(env.ms, d.inst).supers[ev.i]], InstanceEnv(d, env.ms), n)

\* Primitives, methods and fields, of what their arguments are.
Primitive(f, vs, ths) ==
    CASE f = "raise" -> Exc(ths[1])
      [] f = "intAdd" /\ vs[1].t # "val" -> vs[1]
      [] f = "intAdd" /\ vs[1].t = "val" /\ vs[2].t # "val" -> vs[2]
      [] OTHER -> IntValue(vs[1].n + vs[2].n)
MethodResult(w, d, n) ==
    IF d.t # "val" THEN d
    ELSE Eval(MethodExpr(MethodOf(InstanceAt(w.ms, d.inst), w.n)), InstanceEnv(d, w.ms), n)
Selected(w, v, n) ==
    LET env == Top(w.ms, w.m)
        owner == FieldOwner(w.ms[w.m], w.n)
        con == ConAt(w.ms, <<w.m, v.c>>)
        i == CHOOSE i \in DOMAIN con.fields : con.fields[i] = w.n
    IN  CASE v.t # "val" \/ owner.newtype \/ owner.box -> v
          [] v.t = "val" /\ w.n \in ToSet(con.fields) -> Force(v.args[con.ndicts + i], n)
          [] OTHER -> Eval(Error, env, n)

\* An Int keeps some bits of a literal, another type all; "literal": no type
\* gets more than an Int.
IsInt(ev) == ev.k = "INST" /\ ev.inst = <<"Base", "NumInt">>
Literal(e) == IF IsInt(e.evs[1]) \/ "literal" \in Deviations THEN Long(e.i) ELSE e.i

Evaluated(e, env, n) ==
    CASE e.k = "VAR" -> WithDicts(Force(NameThunk(env, e.n), n), e.evs, env, n)
      [] e.k = "KNOWN" -> WithDicts(Force(GlobalThunk(env.ms, <<"Base", e.n>>), n), e.evs, env, n)
      [] e.k = "CON" -> WithDicts(ConFun(NamedCon(env, e.n)), e.evs, env, n)
      [] e.k = "KNOWNCON" -> ConFun(SyntaxCon(env, e.n))
      [] e.k = "EV" -> EvidenceOf(e.ev, env, n)
      [] e.k = "INT" ->
            IF e.evs = <<>> THEN IntValue(e.i)
            ELSE Eval(App1(KnownAt("fromInteger", e.evs), [e EXCEPT !.evs = <<>>, !.i = Literal(e)]), env, n)
      [] e.k = "CHAR" -> CharValue(e.i)
      [] e.k = "STR" -> Eval(ListExpr([i \in DOMAIN e.s |-> [k |-> "CHAR", i |-> e.s[i]]]), env, n)
      [] e.k = "APP" -> Apply(Eval(e.f, env, n), <<Delay(e.a, env)>>, n)
      [] e.k = "SIG" -> WithDicts(Eval(e.e, env, n), e.evs, env, n)
      [] e.k = "LAM" -> ClausesFun(<<[args |-> e.ps, rhs |-> Plain(e.e)]>>, env)
      [] e.k = "DICTS" -> Abstracted(e.dicts, e.e, env)
      [] e.k = "GROUP" ->
            IF e.cs[1].args # <<>> THEN ClausesFun(e.cs, env)
            ELSE Enter([k |-> "CLAUSES", cs |-> e.cs, env |-> env], <<>>, n)
      [] e.k = "LET" -> Eval(e.e, WithGroup(env, e.decls), n)
      [] e.k = "CASE" ->
            Enter([k |-> "CLAUSES", cs |-> AltClauses(e.alts), env |-> env], <<Delay(e.e, env)>>, n)
      [] e.k = "RCON" ->
            LET con == NamedCon(env, e.n)
                ths == [i \in DOMAIN con.fields |-> FieldThunk(e.fields, con.fields[i], env)]
            IN  IF con.newtype \/ con.box THEN Force(ths[1], n) ELSE ConValue(con.c, ths)
      [] e.k = "RUPD" -> RecordUpdate(Eval(e.e, env, n), e, env, n)
      [] OTHER -> Eval(Kernel(env, e), env, n)

Forced(th, n) ==
    CASE th.k = "V" -> th.v
      [] th.k = "E" -> Eval(th.e, th.env, n)
      [] th.k = "RHS" ->
            Enter([k |-> "CLAUSES", cs |-> <<[args |-> <<>>, rhs |-> th.rhs]>>, env |-> th.env], <<>>, n)
      [] th.k = "PICK" ->
            Enter([k |-> "CLAUSES", cs |-> <<[args |-> <<th.p>>, rhs |-> Plain(Var(th.n))]>>, env |-> th.env],
                  <<th.th>>, n)

Applied(v, ths, n) ==
    LET all == v.args \o ths
    IN  CASE v.t # "val" \/ ths = <<>> -> v
          [] v.t = "val" /\ ths # <<>> /\ Len(all) < v.n -> [v EXCEPT !.args = all]
          [] OTHER -> Apply(Enter(v.what, SubSeq(all, 1, v.n), n), SubSeq(all, v.n + 1, Len(all)), n)

\* A function and all its arguments.
Entered(w, ths, n) ==
    CASE w.k = "CLAUSES" -> Settled(Clauses(w.cs, ths, w.env, n), w.env, n)
      [] w.k = "DICTS" -> Eval(w.e, WithAll(w.env, w.dicts, ths), n)
      [] w.k = "CON" -> ConValue(w.c, ths)
      [] w.k = "ERASED" -> Force(ths[1], n)
      [] w.k = "PRIM" -> Primitive(w.f, [i \in DOMAIN ths |-> Force(ths[i], n)] \o <<>>, ths)
      [] w.k = "METHOD" -> MethodResult(w, Force(ths[1], n), n)
      [] w.k = "FIELD" -> Selected(w, Force(ths[1], n), n)

\* A pattern and what it is matched against: the environment that the match
\* leaves ("ok"), or why it does not succeed.
Matched(env) == [t |-> "ok", env |-> env]
MatchLiteral(p, th, env, n) ==
    LET equal == App2(KnownAt("==", <<p.evs[1]>>), Var("%v"), [p EXCEPT !.evs = <<p.evs[2]>>])
        v == Force(th, n)
        same == Eval(equal, With(env, "%v", th), n)
    IN  CASE Len(p.evs) < 2 /\ v.t = "val" -> IF v.n = p.i THEN Matched(env) ELSE No
          [] Len(p.evs) < 2 /\ v.t # "val" -> v
          [] Len(p.evs) = 2 /\ same.t = "val" -> IF same.c = "True" THEN Matched(env) ELSE No
          [] OTHER -> same
MatchCon(con, p, th, env, n) ==
    LET v == Force(th, n)
        inner == WithAll(env, PatDicts(p), v.args)
        subs == PatArgs(con, p)
    IN  CASE con.newtype -> Match(subs[1], th, env, n)
          [] ~con.newtype /\ v.t # "val" -> v
          [] ~con.newtype /\ v.t = "val" /\ con.box -> Match(subs[1], Value(v), env, n)
          [] ~con.newtype /\ v.t = "val" /\ v.k = "FUN" -> Stuck
          [] ~con.newtype /\ v.t = "val" /\ v.k = "CON" /\ v.c # con.c -> No
          [] OTHER -> MatchAll(subs, SubSeq(v.args, con.ndicts + 1, Len(v.args)), inner, n)

\* "lazy": ~p matched against th is the declaration p = th, whose variables
\* the expressions in p see.
LazyGroup(p, th, env) ==
    WithGroup(With(env, "%l", th), <<[k |-> "PAT", pat |-> p, rhs |-> Plain(Var("%l"))]>>)

MatchOne(p, th, env, n) ==
    CASE p.k = "WILD" -> Matched(env)
      [] p.k = "VAR" -> Matched(With(env, p.n, th))
      [] p.k = "AS" -> Match(p.p, th, With(env, p.n, th), n)
      [] p.k = "BANG" ->
            LET v == Force(th, n)
            IN  IF v.t # "val" THEN v ELSE Match(p.p, th, env, n)
      [] p.k = "LAZY" ->
            LET names == SetToSeq(Bound(p.p))
            IN  IF "lazy" \in Deviations THEN Matched(LazyGroup(p.p, th, env))
                ELSE Matched(WithAll(env, names, [i \in DOMAIN names |-> Pick(names[i], p.p, th, env)]))
      [] p.k \in {"INT", "CHAR"} -> MatchLiteral(p, th, env, n)
      [] p.k = "STR" ->
            LET chars == [i \in DOMAIN p.s |-> [k |-> "CHAR", i |-> p.s[i], evs |-> <<>>]]
            IN  Match([k |-> "LIST", ps |-> chars], th, env, n)
      [] p.k = "INFIX" -> Match(TreePat(TreeOf(env, p)), th, env, n)
      [] p.k = "VIEW" ->
            Match(p.p, Delay(App1(p.e, Var("%v")), With(env, "%v", th)), env, n)
      [] OTHER -> MatchCon(PatCon(env, p), p, th, env, n)

MatchEach(ps, ths, env, n) ==
    LET r == Match(Head(ps), Head(ths), env, n)
    IN  CASE ps = <<>> -> Matched(env)
          [] ps # <<>> /\ r.t # "ok" -> r
          [] OTHER -> MatchAll(Tail(ps), Tail(ths), r.env, n)

\* The first clause whose patterns match and of which a guard succeeds.
TryClauses(cs, ths, env, n) ==
    LET m == MatchAll(Head(cs).args, ths, env, n)
        r == IF m.t # "ok" THEN m ELSE GuardAlts(Head(cs).rhs.guards, WithGroup(m.env, Head(cs).rhs.wheres), n)
    IN  CASE cs = <<>> -> No
          [] cs # <<>> /\ r.t # "no" -> r
          [] OTHER -> Clauses(Tail(cs), ths, env, n)
TryGuards(gs, env, n) ==
    LET r == Guarded(Head(gs), env, n)
    IN  CASE gs = <<>> -> No
          [] gs # <<>> /\ r.t # "no" -> r
          [] OTHER -> GuardAlts(Tail(gs), env, n)
TryGuard(g, env, n) ==
    LET stmt == Head(g.stmts)
        rest == [g EXCEPT !.stmts = Tail(@)]
        v == Eval(stmt.e, env, n)
        m == Match(stmt.p, Delay(stmt.e, env), env, n)
    IN  CASE g.stmts = <<>> -> Eval(g.body, env, n)
          [] g.stmts # <<>> /\ stmt.k = "EXPR" ->
                IF v.t # "val" THEN v ELSE IF v.c = "True" THEN Guarded(rest, env, n) ELSE No
          [] g.stmts # <<>> /\ stmt.k = "BIND" -> IF m.t = "ok" THEN Guarded(rest, m.env, n) ELSE m
          [] g.stmts # <<>> /\ stmt.k = "LET" -> Guarded(rest, WithGroup(env, stmt.decls), n)

Run(j, n) ==
    CASE n = 0 -> Bot
      [] n > 0 /\ j.job = "eval" -> Evaluated(j.e, j.env, n - 1)
      [] n > 0 /\ j.job = "force" -> Forced(j.th, n - 1)
      [] n > 0 /\ j.job = "apply" -> Applied(j.v, j.ths, n - 1)
      [] n > 0 /\ j.job = "enter" -> Entered(j.w, j.ths, n - 1)
      [] n > 0 /\ j.job = "match" -> MatchOne(j.p, j.th, j.env, n - 1)
      [] n > 0 /\ j.job = "matchAll" -> MatchEach(j.ps, j.ths, j.env, n - 1)
      [] n > 0 /\ j.job = "clauses" -> TryClauses(j.cs, j.ths, j.env, n - 1)
      [] n > 0 /\ j.job = "guardAlts" -> TryGuards(j.gs, j.env, n - 1)
      [] n > 0 /\ j.job = "guarded" -> TryGuard(j.g, j.env, n - 1)

\* What a program shows: the value of main, as words in prefix order.
RECURSIVE Shown(_, _)
Shown(r, n) ==
    CASE r.t \in {"bot", "err"} -> <<<<r.t>>>>
      [] r.t = "exc" -> <<<<"raise">>>> \o Shown(Force(r.th, n), n)
      [] r.t = "val" /\ r.k \in {"INT", "CHAR"} -> <<<<r.k, r.n>>>>
      [] r.t = "val" /\ r.k = "CON" ->
            <<<<r.c, Len(r.args)>>>> \o FlattenSeq([i \in DOMAIN r.args |-> Shown(Force(r.args[i], n), n)])
      [] OTHER -> <<<<"function">>>>
Shows(ms, n) == Shown(Eval(Var("main"), Top(ms, "Main"), n), n)
=============================================================================
