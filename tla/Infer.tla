------------------------------- MODULE Infer -------------------------------
(***************************************************************************)
(* Type inference with dictionaries (src/tc_expr.c, and the unification of *)
(* src/tc_type.c): expressions, patterns, and binding groups, which are    *)
(* split into components, inferred, generalized by levels, and given       *)
(* dictionary parameters; then the default methods and the instances of    *)
(* the module (check_module in src/tc_decl.c).                             *)
(*                                                                         *)
(* The calls of the C code are a stack of tasks: `todo`, the next one      *)
(* first.  A task with the work of a loop body or of the code behind a     *)
(* call is pushed where the code makes the call.                           *)
(*                                                                         *)
(* A place in the program is a path: the number of the child at each node, *)
(* 0 for the body, the head or the scrutinee, and -j for declaration j.    *)
(***************************************************************************)
EXTENDS Declarations

CONSTANTS
    Imports,    \* the environment that the module imports
    Inputs      \* the programs, in sets: records [decls, binds]

VARIABLES
    prog,       \* the declarations and the top-level bindings of the module
    env,        \* what is declared: see Declarations
    ref,        \* what each meta variable stands for
    lvl,        \* the level of each meta variable
    level,      \* the current level
    ids,        \* counter of skolems, bound variables and groups
    wanted,     \* the wanteds not solved yet, in order
    holes,      \* every wanted there was, and its evidence
    givens,     \* the scopes of givens, innermost first
    locals,     \* the names in scope: [name, type, mono, at]
    occs,       \* the occurrences of the members of each group
    evs,        \* notes: the dictionaries an occurrence takes
    dicts,      \* notes: the dictionary parameters of a binding or a pattern
    binders,    \* each dictionary variable: its predicate and its scope
    patGivens,  \* the givens of the patterns of the current clause
    todo,       \* the stack of tasks
    status      \* "run", "ok" or "failed"

module    == <<prog, env>>
typeVars  == <<ref, lvl, ids>>
solveVars == <<wanted, holes>>
scopeVars == <<level, givens, locals>>
noteVars  == <<evs, dicts, binders>>
vars == <<module, typeVars, solveVars, scopeVars, noteVars, occs, patGivens, todo, status>>

-----------------------------------------------------------------------------
(* Tasks                                                                   *)

UnifyTask(a, b)      == [do |-> "unify", a |-> a, b |-> b]
ExprTask(e, t, at)   == [do |-> "expr", e |-> e, type |-> t, at |-> at]
PatTask(p, t, at, c) == [do |-> "pat", pat |-> p, type |-> t, at |-> at, clause |-> c]
SolveTask(l)         == [do |-> "solve", level |-> l]

\* Clauses with a type: schemes, the outer one first.
CheckTask(ss, cs, at) == [do |-> "check", sigs |-> ss, clauses |-> cs, at |-> at]

\* The rest of an application: arguments left, their types so far.
SpineTask(f, es, ts, t, at) ==
    [do |-> "spine", fun |-> f, args |-> es, types |-> ts, type |-> t, at |-> at]

\* The rest of a clause: its first i patterns are done.
ClauseTask(c, i, t, at, n) ==
    [do |-> "clause", clause |-> c, i |-> i, fun |-> t, at |-> at, nlocals |-> n]

\* Back to the scope at the time of the task.
LeaveTask == [do |-> "leave", nlocals |-> Len(locals), givens |-> givens, level |-> level]

Top == todo[1]
Doing(k) == status = "run" /\ todo # <<>> /\ Top.do = k
Then(tasks) == todo' = tasks \o Tail(todo)

Fail ==
    /\ status' = "failed"
    /\ UNCHANGED <<module, typeVars, solveVars, scopeVars, noteVars, occs, patGivens, todo>>

\* n new meta variables of the current level, the first of them, and the types.
FreshMetas(n) ==
    /\ ref' = ref \o [i \in 1 .. n |-> NoType]
    /\ lvl' = lvl \o [i \in 1 .. n |-> level]
New(i) == Meta(Len(ref) + i)

-----------------------------------------------------------------------------
(* Unification                                                             *)

UnifySame ==
    /\ Doing("unify")
    /\ Prune(ref, Top.a) = Prune(ref, Top.b)
    /\ Then(<<>>)
    /\ UNCHANGED <<module, typeVars, solveVars, scopeVars, noteVars, occs, patGivens, status>>

KeepLevels(m, t) == lvl
\* The metas of the type sink to the level of the meta that stands for it.
SinkLevels(m, t) ==
    [i \in DOMAIN lvl |-> IF i \in Metas(ref, t) /\ lvl[i] > lvl[m] THEN lvl[m] ELSE lvl[i]]

\* Of two meta variables the deeper one is bound.
UnifyMeta ==
    /\ Doing("unify")
    /\ LET a == Prune(ref, Top.a)
           b == Prune(ref, Top.b)
           bindB == ~IsMeta(a) \/ (IsMeta(b) /\ lvl[b.meta] > lvl[a.meta])
           m == (IF bindB THEN b ELSE a).meta
           t == IF bindB THEN a ELSE b
       IN  /\ a # b /\ (IsMeta(a) \/ IsMeta(b))
           /\ IF m \in Metas(ref, t) THEN Fail
              ELSE /\ ref' = [ref EXCEPT ![m] = t]
                   /\ lvl' = SinkLevels(m, t)
                   /\ Then(<<>>)
                   /\ UNCHANGED <<module, ids, solveVars, scopeVars, noteVars, occs, patGivens, status>>

UnifyParts ==
    /\ Doing("unify")
    /\ LET a == Prune(ref, Top.a)
           b == Prune(ref, Top.b)
       IN  /\ a # b /\ ~IsMeta(a) /\ ~IsMeta(b)
           /\ IF IsApp(a) /\ IsApp(b)
              THEN /\ Then(<<UnifyTask(a.fun, b.fun), UnifyTask(a.arg, b.arg)>>)
                   /\ UNCHANGED <<module, typeVars, solveVars, scopeVars, noteVars, occs, patGivens, status>>
              ELSE Fail

-----------------------------------------------------------------------------
(* Expressions                                                             *)

\* The positions of a name in the scope, and the innermost one.
Positions(x) == {i \in DOMAIN locals : locals[i].name = x}
Innermost(x) == CHOOSE i \in Positions(x) : \A j \in Positions(x) : j <= i

SchemeOf(x) == IF Positions(x) # {} THEN locals[Innermost(x)].type ELSE env.values[x]
GroupOf(x) == IF Positions(x) # {} THEN locals[Innermost(x)].mono ELSE 0

Head1(e) == IF "head" \in DOMAIN e THEN e.head ELSE e
Args(e) == IF "head" \in DOMAIN e THEN e.args ELSE <<>>

\* The types of a scheme's variables at an occurrence.
FreshFor(sch) == [v \in ToSet(sch.vars) |-> New(CHOOSE i \in DOMAIN sch.vars : sch.vars[i] = v)]

NewWanteds(ps, gs) == [i \in DOMAIN ps |-> Wanted(ps[i], Len(holes) + i, gs)]

\* Wanteds for ps at a place, whose note takes their holes, under givens gs.
WantUnder(gs, ps, at) ==
    /\ wanted' = wanted \o NewWanteds(ps, gs)
    /\ holes' = holes \o [i \in DOMAIN ps |-> Hole(ps[i], at)]
    /\ evs' = evs @@ (at :> [i \in DOMAIN ps |-> HoleEv(Len(holes) + i)])
Want(ps, at) == WantUnder(givens, ps, at)

\* A name, with or without arguments.  The occurrence of a member of a group
\* under inference has the one type, and gets the dictionaries later.
Name ==
    /\ Doing("expr") /\ "var" \in DOMAIN Head1(Top.e)
    /\ LET x == Head1(Top.e).var
           sch == SchemeOf(x)
           m == FreshFor(sch)
           place == Append(Top.at, 0)
           spine(t) == SpineTask(t, Args(Top.e), <<>>, Top.type, Top.at)
       IN  IF GroupOf(x) # 0
           THEN /\ occs' = [occs EXCEPT ![GroupOf(x)] = Append(@, place)]
                /\ evs' = evs @@ (place :> <<>>)
                /\ Then(<<spine(sch.body)>>)
                /\ UNCHANGED <<ref, lvl, solveVars>>
           ELSE /\ FreshMetas(Len(sch.vars))
                /\ Want([i \in DOMAIN sch.preds |-> SubstPred(ref, sch.preds[i], m)], place)
                /\ Then(<<spine(Subst(ref, sch.body, m))>>)
                /\ UNCHANGED occs
    /\ UNCHANGED <<module, ids, scopeVars, dicts, binders, patGivens, status>>

\* An application whose head is not a name.
AppHead ==
    /\ Doing("expr") /\ "head" \in DOMAIN Top.e /\ "var" \notin DOMAIN Top.e.head
    /\ FreshMetas(1)
    /\ Then(<<ExprTask(Top.e.head, New(1), Append(Top.at, 0)),
              SpineTask(New(1), Top.e.args, <<>>, Top.type, Top.at)>>)
    /\ UNCHANGED <<module, ids, solveVars, scopeVars, noteVars, occs, patGivens, status>>

\* split_fun(): what is applied, or has a pattern, is made a function type.
NeedsFun ==
    \/ Doing("spine") /\ Top.args # <<>>
    \/ Doing("clause") /\ Top.i < Len(Top.clause.pats)

FunType == Prune(ref, Top.fun)
SeenFun == IsFun(Zonk(ref, Top.fun))
ArgType == Prune(ref, FunType.fun).arg
ResultType == FunType.arg

SplitFun ==
    /\ NeedsFun /\ ~SeenFun
    /\ FreshMetas(2)
    /\ todo' = <<UnifyTask(FunType, Fun(New(1), New(2)))>> \o todo
    /\ UNCHANGED <<module, ids, solveVars, scopeVars, noteVars, occs, patGivens, status>>

SpineArg ==
    /\ Doing("spine") /\ Top.args # <<>> /\ SeenFun
    /\ LET n == Len(Top.types) + 1
       IN  Then(<<[Top EXCEPT !.fun = ResultType, !.args = Tail(@),
                              !.types = Append(@, [arg |-> Head(Top.args), type |-> ArgType])]>>)
    /\ UNCHANGED <<module, typeVars, solveVars, scopeVars, noteVars, occs, patGivens, status>>

\* The result is unified before the arguments are looked at.
SpineResult ==
    /\ Doing("spine") /\ Top.args = <<>>
    /\ Then(<<UnifyTask(Top.fun, Top.type)>>
            \o [i \in DOMAIN Top.types |->
                   ExprTask(Top.types[i].arg, Top.types[i].type, Append(Top.at, i))])
    /\ UNCHANGED <<module, typeVars, solveVars, scopeVars, noteVars, occs, patGivens, status>>

\* An integer literal.
Literal ==
    /\ Doing("expr") /\ "lit" \in DOMAIN Top.e
    /\ Want(<<Pred("Num", Top.type)>>, Top.at)
    /\ Then(<<>>)
    /\ UNCHANGED <<module, typeVars, scopeVars, dicts, binders, occs, patGivens, status>>

\* A lambda is one clause.
Lambda ==
    /\ Doing("expr") /\ "pats" \in DOMAIN Top.e
    /\ Then(<<ClauseTask(Top.e, 0, Top.type, Top.at, Len(locals))>>)
    /\ UNCHANGED <<module, typeVars, solveVars, scopeVars, noteVars, occs, patGivens, status>>

Let ==
    /\ Doing("expr") /\ "binds" \in DOMAIN Top.e
    /\ Then(<<[do |-> "group", binds |-> Top.e.binds, at |-> Top.at],
              ExprTask(Top.e.body, Top.type, Append(Top.at, 0)), LeaveTask>>)
    /\ UNCHANGED <<module, typeVars, solveVars, scopeVars, noteVars, occs, patGivens, status>>

\* case: an alternative is a clause with one pattern, of the scrutinee's type.
Case ==
    /\ Doing("expr") /\ "alts" \in DOMAIN Top.e
    /\ FreshMetas(1)
    /\ Then(<<ExprTask(Top.e.scrut, New(1), Append(Top.at, 0))>>
            \o FlattenSeq([i \in DOMAIN Top.e.alts |->
                  LET at == Append(Top.at, i)
                  IN  <<PatTask(Top.e.alts[i].pats[1], New(1), Append(at, 1), at),
                        ClauseTask(Top.e.alts[i], 1, Top.type, at, Len(locals))>>]))
    /\ UNCHANGED <<module, ids, solveVars, scopeVars, noteVars, occs, patGivens, status>>

-----------------------------------------------------------------------------
(* Patterns and clauses                                                    *)

Local(x, sch, g, at) == [name |-> x, type |-> sch, mono |-> g, at |-> at]

PatVar ==
    /\ Doing("pat") /\ "var" \in DOMAIN Top.pat
    /\ locals' = Append(locals, Local(Top.pat.var, Mono(Top.type), 0, Top.at))
    /\ Then(<<>>)
    /\ UNCHANGED <<module, typeVars, solveVars, level, givens, noteVars, occs, patGivens, status>>

PatLit ==
    /\ Doing("pat") /\ "lit" \in DOMAIN Top.pat
    /\ Want(<<Pred("Eq", Top.type), Pred("Num", Top.type)>>, Top.at)
    /\ Then(<<>>)
    /\ UNCHANGED <<module, typeVars, scopeVars, dicts, binders, occs, patGivens, status>>

\* The dictionaries of n new parameters, and what is known of them.
NewDicts(n) == [i \in 1 .. n |-> ids + i]
BindDicts(ps, at) ==
    binders @@ [d \in {ids + i : i \in DOMAIN ps} |-> [pred |-> ps[d - ids], at |-> {at}]]

\* A constructor: fresh types for its variables, skolems for the existential
\* ones, whose context the clause will have as givens.
PatCon ==
    /\ Doing("pat") /\ "con" \in DOMAIN Top.pat
    /\ LET c == env.cons[Top.pat.con]
           nctx == Len(c.ctx)
           n == Len(c.vars)
           m == [v \in ToSet(c.vars) |-> New(CHOOSE i \in DOMAIN c.vars : c.vars[i] = v)]
                @@ [v \in ToSet(c.exist) |->
                       Skolem(ids + nctx + (CHOOSE i \in DOMAIN c.exist : c.exist[i] = v))]
           result == FoldLeft(LAMBDA f, v : App(f, m[v]), Con(c.tycon), c.vars)
           ctx == [i \in 1 .. nctx |-> SubstPred(ref, c.ctx[i], m)]
       IN  /\ FreshMetas(n)
           /\ ids' = ids + nctx + Len(c.exist)
           /\ patGivens' = patGivens \o [i \in 1 .. nctx |-> Given(ctx[i], VarEv(ids + i))]
           /\ dicts' = dicts @@ (Top.at :> NewDicts(nctx))
           /\ binders' = BindDicts(ctx, Top.clause)
           /\ Then(<<UnifyTask(Top.type, result)>>
                   \o [i \in DOMAIN Top.pat.args |->
                          PatTask(Top.pat.args[i], Subst(ref, c.fields[i], m),
                                  Append(Top.at, i), Top.clause)])
    /\ UNCHANGED <<module, solveVars, scopeVars, evs, occs, status>>

ClausePat ==
    /\ Doing("clause") /\ Top.i < Len(Top.clause.pats) /\ SeenFun
    /\ LET k == Top.i + 1
       IN  Then(<<PatTask(Top.clause.pats[k], ArgType, Append(Top.at, k), Top.at),
                  [Top EXCEPT !.i = k, !.fun = ResultType]>>)
    /\ UNCHANGED <<module, typeVars, solveVars, scopeVars, noteVars, occs, patGivens, status>>

\* The givens of the patterns are those of the body.
ClauseBody ==
    /\ Doing("clause") /\ Top.i = Len(Top.clause.pats)
    /\ givens' = IF patGivens = <<>> THEN givens ELSE <<GivenScope(env, ref, patGivens)>> \o givens
    /\ patGivens' = <<>>
    /\ Then(<<ExprTask(Top.clause.body, Top.fun, Append(Top.at, 0)),
              [LeaveTask EXCEPT !.nlocals = Top.nlocals]>>)
    /\ UNCHANGED <<module, typeVars, solveVars, level, locals, noteVars, occs, status>>

Leave ==
    /\ Doing("leave")
    /\ locals' = SubSeq(locals, 1, Top.nlocals)
    /\ givens' = Top.givens
    /\ level' = Top.level
    /\ Then(<<>>)
    /\ UNCHANGED <<module, typeVars, solveVars, noteVars, occs, patGivens, status>>

-----------------------------------------------------------------------------
(* Binding groups.  A binding is a function [name, sig, clauses], where sig *)
(* is a qualified type or empty, or a pattern [pat, clauses] with one      *)
(* clause that has no pattern of its own.                                  *)

IsPatBinding(b) == "pat" \in DOMAIN b
HasSig(b) == ~IsPatBinding(b) /\ b.sig # <<>>
SigOf(b) == conv_sigma(env, <<>>, b.sig[1])

RECURSIVE PatNames(_), Mentions(_), BindingMentions(_)

PatNames(p) ==
    CASE "var" \in DOMAIN p -> {p.var}
      [] "con" \in DOMAIN p -> UNION {PatNames(p.args[i]) : i \in DOMAIN p.args}
      [] OTHER -> {}

Names(b) == IF IsPatBinding(b) THEN PatNames(b.pat) ELSE {b.name}

\* Every name that an expression mentions, also those bound inside it.
Mentions(e) ==
    CASE "var" \in DOMAIN e   -> {e.var}
      [] "head" \in DOMAIN e  -> Mentions(e.head) \cup UNION {Mentions(a) : a \in ToSet(e.args)}
      [] "pats" \in DOMAIN e  -> Mentions(e.body)
      [] "binds" \in DOMAIN e -> Mentions(e.body) \cup UNION {BindingMentions(b) : b \in ToSet(e.binds)}
      [] "alts" \in DOMAIN e  -> Mentions(e.scrut) \cup UNION {Mentions(c.body) : c \in ToSet(e.alts)}
      [] OTHER                -> {}

BindingMentions(b) == UNION {Mentions(c.body) : c \in ToSet(b.clauses)}

RECURSIVE Connect(_, _, _)

\* Tarjan's algorithm from v over the graph `edge`; t holds the search.
Connect(edge, v, t) ==
    LET start == [t EXCEPT !.n = @ + 1, !.index[v] = t.n + 1, !.low[v] = t.n + 1,
                           !.stack = Append(@, v)]
        visit(s, w) ==
            CASE <<v, w>> \notin edge -> s
              [] <<v, w>> \in edge /\ s.index[w] = 0 ->
                    LET r == Connect(edge, w, s)
                    IN  IF r.low[w] < r.low[v] THEN [r EXCEPT !.low[v] = r.low[w]] ELSE r
              [] <<v, w>> \in edge /\ s.index[w] > 0 ->
                    IF Contains(s.stack, w) /\ s.index[w] < s.low[v]
                    THEN [s EXCEPT !.low[v] = s.index[w]] ELSE s
        done == FoldLeft(visit, start, [w \in DOMAIN t.index |-> w])
        k == CHOOSE i \in DOMAIN done.stack : done.stack[i] = v
    IN  IF done.low[v] = done.index[v]
        THEN [done EXCEPT !.stack = SubSeq(@, 1, k - 1),
                          !.sccs = Append(@, Reverse(SubSeq(done.stack, k, Len(done.stack))))]
        ELSE done

\* The components of a sequence of bindings, callees first, as positions.
Components(bs) ==
    LET zero == [v \in DOMAIN bs |-> 0]
        edge == {x \in (DOMAIN bs) \X (DOMAIN bs) :
                    BindingMentions(bs[x[1]]) \cap Names(bs[x[2]]) # {}}
        visit(t, v) == IF t.index[v] = 0 THEN Connect(edge, v, t) ELSE t
    IN  FoldLeft(visit, [n |-> 0, index |-> zero, low |-> zero, stack |-> <<>>, sccs |-> <<>>],
                 [v \in DOMAIN bs |-> v]).sccs

\* tc_bind_group(): the signatures are in scope of all bindings; then the
\* components of the others, then the bindings with a signature.
Group ==
    /\ Doing("group")
    /\ LET bs == [i \in DOMAIN Top.binds |-> [b |-> Top.binds[i], at |-> Append(Top.at, i)]]
           signed == SelectSeq(bs, LAMBDA x : HasSig(x.b))
           others == SelectSeq(bs, LAMBDA x : ~HasSig(x.b))
           sccs == Components([i \in DOMAIN others |-> others[i].b])
       IN  IF \E x \in ToSet(signed) : BadScheme(SigOf(x.b)) THEN Fail
           ELSE
           /\ locals' = locals \o [i \in DOMAIN signed |->
                            Local(signed[i].b.name, SigOf(signed[i].b), 0, signed[i].at)]
           /\ Then([k \in DOMAIN sccs |->
                       [do |-> "scc", scc |-> [i \in DOMAIN sccs[k] |-> others[sccs[k][i]]]]]
                   \o [i \in DOMAIN signed |->
                          CheckTask(<<SigOf(signed[i].b)>>, signed[i].b.clauses, signed[i].at)])
           /\ UNCHANGED <<module, typeVars, solveVars, level, givens, noteVars, occs, patGivens, status>>

-----------------------------------------------------------------------------
(* infer_scc()                                                             *)

\* The variables that a component binds, each with the place of its binding.
Binders(scc) ==
    FlattenSeq([i \in DOMAIN scc |->
        LET ns == SetToSeq(Names(scc[i].b))
        IN  [j \in DOMAIN ns |-> [name |-> ns[j], at |-> scc[i].at]]])

IsRestricted(scc) ==
    \E i \in DOMAIN scc : IsPatBinding(scc[i].b) \/ scc[i].b.clauses[1].pats = <<>>

\* The component's own wanteds are collected apart from the outer ones.
EnterScc ==
    /\ Doing("scc")
    /\ LET scc == Top.scc
           bs == Binders(scc)
           n == Len(bs)
           g == Len(occs) + 1
           mono(x) == New(CHOOSE i \in 1 .. n : bs[i].name = x)
           \* the right-hand side, then the pattern, then its variables
           patTasks(i) ==
              <<ClauseTask(scc[i].b.clauses[1], 0, New(n + i), Append(scc[i].at, 1), Len(locals) + n),
                PatTask(scc[i].b.pat, New(n + i), Append(scc[i].at, 2), scc[i].at),
                [do |-> "patvars", nlocals |-> Len(locals) + n,
                 monos |-> [x \in Names(scc[i].b) |-> mono(x)]]>>
           tasks(i) == IF IsPatBinding(scc[i].b) THEN patTasks(i)
                       ELSE [j \in DOMAIN scc[i].b.clauses |->
                               ClauseTask(scc[i].b.clauses[j], 0, mono(scc[i].b.name),
                                          Append(scc[i].at, j), Len(locals) + n)]
       IN  /\ ref' = ref \o [i \in 1 .. n + Len(scc) |-> NoType]
           /\ lvl' = lvl \o [i \in 1 .. n + Len(scc) |-> level + 1]
           /\ locals' = locals \o [i \in 1 .. n |-> Local(bs[i].name, Mono(New(i)), g, bs[i].at)]
           /\ occs' = Append(occs, <<>>)
           /\ level' = level + 1
           /\ wanted' = <<>>
           /\ Then(FlattenSeq([i \in DOMAIN scc |-> tasks(i)])
                   \o <<SolveTask(level),
                        [do |-> "default", scc |-> scc, bs |-> bs, monos |-> [i \in 1 .. n |-> New(i)],
                         group |-> g, work |-> wanted]>>)
    /\ UNCHANGED <<module, ids, holes, givens, noteVars, patGivens, status>>

\* The variables of a pattern binding have the types the group gave them.
PatVars ==
    /\ Doing("patvars")
    /\ IF patGivens # <<>> THEN Fail
       ELSE /\ LET xs == SetToSeq(DOMAIN Top.monos)
               IN  Then([i \in DOMAIN xs |->
                           UnifyTask(locals[Innermost(xs[i])].type.body, Top.monos[xs[i]])])
            /\ locals' = SubSeq(locals, 1, Top.nlocals)
            /\ UNCHANGED <<module, typeVars, solveVars, level, givens, noteVars, occs, patGivens, status>>

\* One pass over the wanteds; again as long as one was solved.
SolveWanteds ==
    /\ Doing("solve")
    /\ LET pass == SolvePass(env, ref, wanted, holes)
       IN  /\ wanted' = pass.rest
           /\ holes' = pass.holes
           /\ todo' = IF pass.progress THEN todo ELSE Tail(todo)
           /\ level' = IF pass.progress THEN level ELSE Top.level
    /\ UNCHANGED <<module, typeVars, givens, locals, noteVars, occs, patGivens, status>>

\* The metas of the types that are deeper than the level around the group.
Generalizable(monos) ==
    SelectSeq(FoldLeft(LAMBDA out, t : AddMetas(Zonk(ref, t), out), <<>>, monos),
              LAMBDA m : lvl[m] > level)

PredMetas(w) == Metas(ref, w.pred.arg)

\* Wanteds with an inner meta that is not in the types are ambiguous.
DefaultAmbiguous ==
    /\ Doing("default")
    /\ LET gen == Generalizable(Top.monos)
           amb == SelectSeq(wanted, LAMBDA w : \E m \in PredMetas(w) : lvl[m] > level /\ ~Contains(gen, m))
           new == ApplyDefaults(env, ref, amb)
           task == [do |-> "quantify", scc |-> Top.scc, bs |-> Top.bs, monos |-> Top.monos,
                    group |-> Top.group, work |-> Top.work, gen |-> gen]
       IN  /\ ref' = new
           /\ Then((IF new # ref THEN <<SolveTask(level)>> ELSE <<>>) \o <<task>>)
    /\ UNCHANGED <<module, lvl, ids, solveVars, scopeVars, noteVars, occs, patGivens, status>>

RestrictNothing(ms) == lvl
\* The monomorphism restriction: constrained variables stay metas of the
\* level around the group.
Restrict1(ms) == [i \in DOMAIN lvl |-> IF i \in ms /\ lvl[i] > level THEN level ELSE lvl[i]]

\* The metas of the wanteds on variables of gen, each wanted in its turn.
Lowered(gen) ==
    FoldLeft(LAMBDA acc, w : IF PredMetas(w) \cap acc.gen = {} THEN acc
                             ELSE [gen |-> acc.gen \ PredMetas(w), low |-> acc.low \cup PredMetas(w)],
             [gen |-> gen, low |-> {}], wanted).low

\* The distinct predicates of some wanteds, in order.
Distinct(ws) ==
    FoldLeft(LAMBDA out, w : IF Contains(out, ZonkPred(ref, w.pred)) THEN out
                             ELSE Append(out, ZonkPred(ref, w.pred)), <<>>, ws)

\* The variables get bound variables, the wanteds on them become dictionary
\* parameters of all bindings of the group, and the other wanteds float out.
Generalize ==
    /\ Doing("quantify")
    /\ LET restricted == IsRestricted(Top.scc)
           gen == ToSet(Top.gen)
           inner(w) == PredMetas(w) \cap gen # {}
           lowered == IF restricted THEN Lowered(gen) ELSE {}
           quantify == IF restricted THEN <<>> ELSE SelectSeq(wanted, inner)
           rest == IF restricted THEN wanted ELSE SelectSeq(wanted, LAMBDA w : ~inner(w))
           qs == SelectSeq(Top.gen, LAMBDA m : ref[m] = NoType /\ m \notin lowered)
           ps == Distinct(quantify)
           ds == NewDicts(Len(ps))
           var(m) == ids + Len(ps) + (CHOOSE i \in DOMAIN qs : qs[i] = m)
           newRef == [m \in DOMAIN ref |-> IF Contains(qs, m) THEN Bound(var(m)) ELSE ref[m]]
           vs == [i \in DOMAIN qs |-> var(qs[i])]
           param(w) == ids + (CHOOSE i \in DOMAIN ps : ps[i] = ZonkPred(ref, w.pred))
           type(i) == Scheme(vs, ps, Top.monos[i])
           members == {i \in DOMAIN Top.scc : ~IsPatBinding(Top.scc[i].b)}
       IN  /\ ref' = newRef
           /\ lvl' = Restrict1(lowered)
           /\ ids' = ids + Len(ps) + Len(qs)
           /\ holes' = [h \in DOMAIN holes |->
                           IF \E w \in ToSet(quantify) : w.hole = h
                           THEN [holes[h] EXCEPT !.ev = VarEv(param(holes[h]))]
                           ELSE holes[h]]
           /\ evs' = [p \in DOMAIN evs |->
                         IF Contains(occs[Top.group], p) THEN evs[p] \o [j \in DOMAIN ds |-> VarEv(ds[j])]
                         ELSE evs[p]]
           /\ dicts' = [p \in {Top.scc[i].at : i \in members} |-> ds] @@ dicts
           /\ binders' = binders @@ [d \in ToSet(ds) |->
                             [pred |-> ps[d - ids], at |-> {Top.scc[i].at : i \in members}]]
           /\ locals' = [i \in DOMAIN locals |->
                            IF locals[i].mono = Top.group
                            THEN [locals[i] EXCEPT !.mono = 0,
                                     !.type = type(CHOOSE j \in DOMAIN Top.bs : Top.bs[j].name = locals[i].name)]
                            ELSE locals[i]]
           /\ wanted' = Top.work \o rest
           /\ Then(<<>>)
    /\ UNCHANGED <<module, level, givens, occs, patGivens, status>>

-----------------------------------------------------------------------------
(* tc_check_binding()                                                      *)

\* Skolems for the variables vs, after n dictionaries.
SkolemsFor(vs, n) ==
    [v \in ToSet(vs) |-> Skolem(ids + n + (CHOOSE i \in DOMAIN vs : vs[i] = v))]

\* The variables of each scheme are skolems, and its context is a scope of
\* givens while the clauses are checked and the wanteds solved.
CheckBinding ==
    /\ Doing("check")
    /\ LET ss == Top.sigs
           vs == FlattenSeq([k \in DOMAIN ss |-> ss[k].vars])
           before(k) == FlattenSeq([j \in 1 .. k - 1 |-> ss[j].preds])
           n == Len(before(Len(ss) + 1))
           m == SkolemsFor(vs, n)
           ps == [i \in 1 .. n |-> SubstPred(ref, before(Len(ss) + 1)[i], m)]
           gs(k) == [i \in DOMAIN ss[k].preds |->
                       LET d == Len(before(k)) + i IN Given(ps[d], VarEv(ids + d))]
           scopes == SelectSeq([k \in DOMAIN ss |-> GivenScope(env, ref, gs(k))], LAMBDA g : g # <<>>)
       IN  /\ ids' = ids + n + Len(vs)
           /\ givens' = Reverse(scopes) \o givens
           /\ level' = level + 1
           /\ dicts' = (Top.at :> NewDicts(n)) @@ dicts
           /\ binders' = BindDicts(ps, Top.at)
           /\ Then([j \in DOMAIN Top.clauses |->
                       ClauseTask(Top.clauses[j], 0, Subst(ref, ss[Len(ss)].body, m),
                                  Append(Top.at, j), Len(locals))]
                   \o <<SolveTask(level + 1), LeaveTask>>)
    /\ UNCHANGED <<module, ref, lvl, solveVars, locals, evs, occs, patGivens, status>>

-----------------------------------------------------------------------------
(* check_instance()                                                        *)

\* The clauses of method i in an instance: its own, or the default.
MethodClauses(c, i, body) ==
    LET m == env.classes[c].methods[i]
        own == ClausesOf(body, m.name)
    IN  CASE own # <<>> -> own
          [] own = <<>> /\ m.deflt # <<>> -> <<[pats |-> <<>>, body |-> [var |-> tc_default_name(m.name)]]>>
          [] OTHER -> <<>>

AtHead(sch, head) ==
    Scheme(sch.vars, [i \in DOMAIN sch.preds |-> SubstPred(ref, sch.preds[i], head)],
           Subst(ref, sch.body, head))

\* The context of an instance is given; the superclasses at its head are
\* wanted, and its methods have the types of the class at the head.
CheckInstance ==
    /\ Doing("instance")
    /\ LET c == env.classes[Top.cls]
           n == Len(Top.inst.ctx)
           m == SkolemsFor(Top.inst.vars, n)
           ps == [i \in 1 .. n |-> SubstPred(ref, Top.inst.ctx[i], m)]
           head == Subst(ref, Top.inst.head, m)
           gs == <<GivenScope(env, ref, [i \in 1 .. n |-> Given(ps[i], VarEv(ids + i))])>> \o givens
           checks == [i \in DOMAIN c.methods |->
                         CheckTask(<<AtHead(c.methods[i].sig, -1 :> head)>>,
                                   MethodClauses(Top.cls, i, Top.inst.body), Append(Top.at, i))]
       IN  /\ ids' = ids + n + Len(Top.inst.vars)
           /\ level' = level + 1
           /\ givens' = gs
           /\ dicts' = (Top.at :> NewDicts(n)) @@ dicts
           /\ binders' = BindDicts(ps, Top.at)
           /\ WantUnder(gs, [i \in DOMAIN c.supers |-> Pred(c.supers[i], head)], Append(Top.at, 0))
           /\ Then(SelectSeq(checks, LAMBDA t : t.clauses # <<>>)
                   \o <<[do |-> "members", cls |-> Top.cls, body |-> Top.inst.body],
                        SolveTask(level + 1), LeaveTask>>)
    /\ UNCHANGED <<module, ref, lvl, locals, occs, patGivens, status>>

\* Every binding of an instance is a method.
Members ==
    /\ Doing("members")
    /\ LET names == {m.name : m \in ToSet(env.classes[Top.cls].methods)}
       IN  IF \E b \in ToSet(Top.body) : b.name \notin names THEN Fail
           ELSE /\ Then(<<>>)
                /\ UNCHANGED <<module, typeVars, solveVars, scopeVars, noteVars, occs, patGivens, status>>

-----------------------------------------------------------------------------
(* check_module(): the declarations, the top-level group, the defaults of  *)
(* the classes (check_defaults), the instances, then solve_final()         *)

DefaultTasks(e, j) ==
    LET c == prog.decls[j].name
        ms == e.classes[c].methods
        check(i) == CheckTask(<<ClassScheme(c), ms[i].sig>>, ms[i].deflt, <<-j, i>>)
    IN  SelectSeq([i \in DOMAIN ms |-> check(i)], LAMBDA t : t.clauses # <<>>)

InstanceTask(e, j) ==
    [do |-> "instance", cls |-> prog.decls[j].cls, inst |-> InstanceOf(e, prog.decls[j]), at |-> <<-j>>]

Declare ==
    /\ Doing("declare")
    /\ \E named \in {declare_names(Imports, prog.decls)} :
       IF BadNames(named, prog.decls) THEN Fail
       ELSE \E e \in {declarations(named, prog.decls)} :
            IF BadTypes(e) THEN Fail
            ELSE LET kind(k) == SelectSeq([j \in DOMAIN prog.decls |-> j], LAMBDA j : prog.decls[j].decl = k)
                 IN  /\ env' = e
                     /\ Then(<<[do |-> "group", binds |-> prog.binds, at |-> <<>>]>>
                             \o FlattenSeq([i \in DOMAIN kind("class") |-> DefaultTasks(e, kind("class")[i])])
                             \o [i \in DOMAIN kind("inst") |-> InstanceTask(e, kind("inst")[i])]
                             \o <<SolveTask(0), [do |-> "final"]>>)
                     /\ UNCHANGED <<prog, typeVars, solveVars, scopeVars, noteVars, occs, patGivens, status>>

Final ==
    /\ Doing("final")
    /\ LET new == ApplyDefaults(env, ref, wanted)
       IN  IF wanted = <<>>
           THEN /\ Then(<<>>) /\ status' = "ok"
                /\ UNCHANGED <<module, typeVars, solveVars, scopeVars, noteVars, occs, patGivens>>
           ELSE IF new = ref THEN Fail
           ELSE /\ ref' = new
                /\ todo' = <<SolveTask(level)>> \o todo
                /\ UNCHANGED <<module, lvl, ids, solveVars, scopeVars, noteVars, occs, patGivens, status>>

Init ==
    /\ \E ps \in Inputs : \E p \in ps : prog = p
    /\ ref = <<>> /\ lvl = <<>> /\ level = 0 /\ ids = 0
    /\ wanted = <<>> /\ holes = <<>> /\ givens = <<>>
    /\ locals = <<>> /\ occs = <<>>
    /\ evs = <<>> /\ dicts = <<>> /\ binders = <<>>
    /\ patGivens = <<>>
    /\ env = Imports
    /\ todo = <<[do |-> "declare"]>>
    /\ status = "run"

\* The module is checked, or an error ended the check.
Ended == status # "run"
Stop == Ended /\ UNCHANGED vars

Next ==
    \/ UnifySame \/ UnifyMeta \/ UnifyParts
    \/ Name \/ AppHead \/ SplitFun \/ SpineArg \/ SpineResult
    \/ Literal \/ Lambda \/ Let \/ Case
    \/ PatVar \/ PatLit \/ PatCon \/ ClausePat \/ ClauseBody \/ Leave
    \/ Group \/ EnterScc \/ PatVars \/ SolveWanteds \/ DefaultAmbiguous \/ Generalize
    \/ CheckBinding \/ Declare \/ CheckInstance \/ Members \/ Final \/ Stop

Spec == Init /\ [][Next]_vars
=============================================================================
