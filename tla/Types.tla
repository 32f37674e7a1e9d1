------------------------------- MODULE Types --------------------------------
(***************************************************************************)
(* The types of the typechecker (src/tc_type.c) and the evidence of        *)
(* classes (src/tc.h).  A meta variable is a number; the store `ref` gives  *)
(* for each one the type it stands for, or NoType.  The types are of rank   *)
(* one: a scheme stands outside, and there are no type families.           *)
(*                                                                         *)
(* What is known of classes is part of an environment: classes, with the   *)
(* superclasses (supers) of each in order, and insts, the instances of each *)
(* in order: records [head, ctx].                                          *)
(***************************************************************************)
EXTENDS Integers, Sequences, FiniteSets, SequencesExt

CONSTANTS
    NumClasses, \* the classes called Num and Fractional
    Candidates  \* the types that defaulting tries: Integer and Double

NoType == [none |-> TRUE]
Meta(i) == [meta |-> i]
Skolem(i) == [skolem |-> i]
Bound(i) == [bound |-> i]
Con(c) == [con |-> c]
App(f, a) == [fun |-> f, arg |-> a]
Fun(a, b) == App(App(Con("->"), a), b)

IsMeta(t) == "meta" \in DOMAIN t
IsApp(t) == "fun" \in DOMAIN t
IsBound(t) == "bound" \in DOMAIN t
IsFun(t) == IsApp(t) /\ IsApp(t.fun) /\ t.fun.fun = Con("->")

\* forall vars. preds => body, where vars are numbers of bound variables.
Scheme(vars, preds, body) == [vars |-> vars, preds |-> preds, body |-> body]
Mono(t) == Scheme(<<>>, <<>>, t)

Pred(c, t) == [cls |-> c, arg |-> t]

RECURSIVE Prune(_, _), Zonk(_, _), Subst(_, _, _), AddMetas(_, _), Match(_, _, _)

\* The type that a chain of meta variables ends in.
Prune(ref, t) == IF IsMeta(t) /\ ref[t.meta] # NoType THEN Prune(ref, ref[t.meta]) ELSE t

\* The type with every meta variable that stands for something replaced.
Zonk(ref, t) ==
    LET p == Prune(ref, t)
    IN  IF IsApp(p) THEN App(Zonk(ref, p.fun), Zonk(ref, p.arg)) ELSE p

ZonkPred(ref, p) == Pred(p.cls, Zonk(ref, p.arg))

\* The bound variables in the domain of m are replaced.
Subst(ref, t, m) ==
    LET p == Prune(ref, t)
    IN  CASE IsApp(p)                          -> App(Subst(ref, p.fun, m), Subst(ref, p.arg, m))
          [] IsBound(p) /\ p.bound \in DOMAIN m -> m[p.bound]
          [] OTHER                             -> p

SubstPred(ref, p, m) == Pred(p.cls, Subst(ref, p.arg, m))

\* out and the meta variables of a zonked type, each once, in order.
AddMetas(t, out) ==
    CASE IsMeta(t) -> IF Contains(out, t.meta) THEN out ELSE Append(out, t.meta)
      [] IsApp(t)  -> AddMetas(t.arg, AddMetas(t.fun, out))
      [] OTHER     -> out

Metas(ref, t) == ToSet(AddMetas(Zonk(ref, t), <<>>))

\* One-way matching of a pattern with bound variables against a zonked type:
\* at most one way to extend m.
Match(pat, t, m) ==
    CASE IsBound(pat) ->
            IF pat.bound \in DOMAIN m THEN (IF m[pat.bound] = t THEN {m} ELSE {})
            ELSE {m @@ (pat.bound :> t)}
      [] IsApp(pat) /\ IsApp(t) ->
            UNION {Match(pat.arg, t.arg, n) : n \in Match(pat.fun, t.fun, m)}
      [] OTHER -> IF pat = t THEN {m} ELSE {}

-----------------------------------------------------------------------------
(* Evidence                                                                *)

NoEv == [ev |-> "none"]
HoleEv(h) == [ev |-> "hole", hole |-> h]
VarEv(d) == [ev |-> "var", var |-> d]
InstEv(c, i, args) == [ev |-> "inst", cls |-> c, inst |-> i, args |-> args]
SuperEv(of, c, i) == [ev |-> "super", of |-> of, cls |-> c, index |-> i]

Given(p, e) == [pred |-> p, ev |-> e]

RECURSIVE AddGiven(_, _, _, _, _)

\* A given and its superclasses join a scope of givens, unless they are there.
AddGiven(env, ref, scope, p, e) ==
    IF \E i \in DOMAIN scope : ZonkPred(ref, scope[i].pred) = ZonkPred(ref, p) THEN scope
    ELSE FoldLeft(LAMBDA s, i : AddGiven(env, ref, s, Pred(env.classes[p.cls].supers[i], p.arg), SuperEv(e, p.cls, i)),
                  Append(scope, Given(p, e)),
                  [i \in DOMAIN env.classes[p.cls].supers |-> i])

GivenScope(env, ref, gs) == FoldLeft(LAMBDA s, g : AddGiven(env, ref, s, g.pred, g.ev), <<>>, gs)

-----------------------------------------------------------------------------
(* The solver.  A wanted is a record [pred, hole, givens], where givens are *)
(* the scopes around it, innermost first.  holes gives for each hole what   *)
(* it is for (pred, at) and its evidence (ev).                              *)

Wanted(p, h, g) == [pred |-> p, hole |-> h, givens |-> g]
Hole(p, at) == [pred |-> p, at |-> at, ev |-> NoEv]

GivenOfClass(ref, w) ==
    LET same == SelectSeq(FlattenSeq(w.givens), LAMBDA g : g.pred.cls = w.pred.cls)
    IN  {same[i].ev : i \in DOMAIN same \cap {1}}

\* The evidence of the first given that is the predicate.
FromGivens(ref, w) ==
    LET all == FlattenSeq(w.givens)
        same == SelectSeq(all, LAMBDA g : ZonkPred(ref, g.pred) = ZonkPred(ref, w.pred))
    IN  {same[i].ev : i \in DOMAIN same \cap {1}}

\* The first instance that matches: its number and the types of its variables.
FromInstances(env, ref, p) ==
    LET t == Zonk(ref, p.arg)
        ways(i) == Match(env.insts[p.cls][i].head, t, <<>>)
        fits == {i \in DOMAIN env.insts[p.cls] : ways(i) # {}}
        first == {i \in fits : \A k \in fits : i <= k}
    IN  UNION {{[inst |-> i, types |-> m] : m \in ways(i)} : i \in first}

ContextAtHead(env, ref, p, x) ==
    [j \in DOMAIN env.insts[p.cls][x.inst].ctx |-> Pred(env.insts[p.cls][x.inst].ctx[j].cls, p.arg)]
\* The context of an instance at the types that it matched.
ContextOf(env, ref, p, x) ==
    [j \in DOMAIN env.insts[p.cls][x.inst].ctx |-> SubstPred(ref, env.insts[p.cls][x.inst].ctx[j], x.types)]

\* One wanted of a pass: solved by a given, by an instance whose context
\* becomes new wanteds, or kept.
SolveOne(env, ref, acc, w) ==
    LET given == FromGivens(ref, w)
        inst == FromInstances(env, ref, w.pred)
    IN  CASE given # {} ->
                [acc EXCEPT !.holes[w.hole].ev = CHOOSE e \in given : TRUE, !.progress = TRUE]
          [] given = {} /\ inst # {} ->
                LET x == CHOOSE y \in inst : TRUE
                    new == ContextOf(env, ref, w.pred, x)
                    n == Len(acc.holes)
                IN  [rest |-> acc.rest \o [j \in DOMAIN new |-> Wanted(new[j], n + j, w.givens)],
                     holes |-> [acc.holes EXCEPT ![w.hole].ev =
                                   InstEv(w.pred.cls, x.inst, [j \in DOMAIN new |-> HoleEv(n + j)])]
                               \o [j \in DOMAIN new |-> Hole(new[j], acc.holes[w.hole].at)],
                     progress |-> TRUE]
          [] OTHER -> [acc EXCEPT !.rest = Append(@, w)]

SolvePass(env, ref, ws, hs) ==
    FoldLeft(LAMBDA acc, w : SolveOne(env, ref, acc, w),
             [rest |-> <<>>, holes |-> hs, progress |-> FALSE], ws)

-----------------------------------------------------------------------------
(* Defaulting                                                              *)

RECURSIVE IsNumeric(_, _)
IsNumeric(env, c) == c \in NumClasses \/ \E d \in ToSet(env.classes[c].supers) : IsNumeric(env, d)

HasInstance(env, c, t) == \E i \in DOMAIN env.insts[c] : Match(env.insts[c][i].head, t, <<>>) # {}

\* A meta variable with a numeric class becomes the first candidate that has
\* an instance for each of its classes.
DefaultMeta(env, ref, ws, m) ==
    LET classes == {p.cls : p \in {q \in {ws[i].pred : i \in DOMAIN ws} : Zonk(ref, q.arg) = Meta(m)}}
        good == SelectSeq(Candidates, LAMBDA t : \A c \in classes : HasInstance(env, c, t))
    IN  IF good # <<>> /\ \E c \in classes : IsNumeric(env, c)
        THEN [ref EXCEPT ![m] = good[1]]
        ELSE ref

ApplyDefaults(env, ref, ws) ==
    LET args == SelectSeq([i \in DOMAIN ws |-> Zonk(ref, ws[i].pred.arg)], IsMeta)
        metas == FoldLeft(LAMBDA out, t : AddMetas(t, out), <<>>, args)
    IN  FoldLeft(LAMBDA r, m : DefaultMeta(env, r, ws, m), ref, metas)
=============================================================================
