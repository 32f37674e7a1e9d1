----------------------------- MODULE Reference -----------------------------
(***************************************************************************)
(* What a Core program means: a call-by-name evaluator with no heap, no    *)
(* stack and no sharing.  An environment is a frame [up, slots] around an  *)
(* outer one, its slots closures [e, env]; a let group's closures are made *)
(* when they are looked up.  A result is [t, ...]: "val" with a value,     *)
(* "exc" with the closure that was raised, "err" for a run-time error,     *)
(* "cell" for what needs a store, "bot" when the fuel is used up.          *)
(***************************************************************************)
EXTENDS Integers, Sequences, SequencesExt

CONSTANTS ArityOf, StrictOf

Closure(e, env) == [e |-> e, env |-> env]
Value(k, x, env, args) == [t |-> "val", k |-> k, x |-> x, env |-> env, args |-> args]
Bot == [t |-> "bot"]
Err == [t |-> "err"]

Empty == [up |-> <<>>, slots |-> <<>>, binds |-> <<>>]
Inner(env, slots) == [up |-> env, slots |-> slots, binds |-> <<>>]
Group(env, binds) == [up |-> env, slots |-> <<>>, binds |-> binds]

Out(env, n) == LET f[i \in 0 .. n] == IF i = 0 THEN env ELSE f[i - 1].up IN f[n]

Slot(env, i) == IF env.binds = <<>> THEN env.slots[i] ELSE Closure(env.binds[i], env)

IntExpr(n) == [k |-> "INT", n |-> n]
UnitExpr == [k |-> "CON", c |-> "Unit", args |-> <<>>]

RECURSIVE Ev(_, _, _, _), Apply(_, _, _, _), Prim(_, _, _, _), Chars(_, _, _)

\* The value of e; g are the bodies of the globals, n is the fuel.
Ev(g, e, env, n) ==
    IF n = 0 THEN Bot
    ELSE CASE e.k = "VAR"    -> LET c == Slot(Out(env, e.up), e.slot) IN Ev(g, c.e, c.env, n - 1)
           [] e.k = "GLOBAL" -> Ev(g, g[e.g], Empty, n - 1)
           [] e.k \in {"INT", "CHAR"} -> Value(e.k, e.n, Empty, <<>>)
           [] e.k = "PRIM"   -> Value("PRIM", e.f, Empty, <<>>)
           [] e.k = "LAM"    -> Value("FUN", e, env, <<>>)
           [] e.k = "CON"    -> Value("CON", e.c, Empty, [i \in DOMAIN e.args |-> Closure(e.args[i], env)])
           [] e.k = "STR"    ->
                 IF e.s = <<>> THEN Value("CON", "Nil", Empty, <<>>)
                 ELSE Value("CON", "Cons", Empty,
                            <<Closure([k |-> "CHAR", n |-> e.s[1]], Empty),
                              Closure([k |-> "STR", s |-> Tail(e.s)], Empty)>>)
           [] e.k = "APP"    ->
                 Apply(g, Ev(g, e.fun, env, n - 1),
                       [i \in DOMAIN e.args |-> Closure(e.args[i], env)], n - 1)
           [] e.k = "LET"    -> Ev(g, e.body, Group(env, e.binds), n - 1)
           [] e.k = "CASE"   ->
                 LET v == Ev(g, e.scrut, env, n - 1)
                     fits(a) == CASE a.k = "CON" -> v.k = "CON" /\ v.x = a.c
                                  [] a.k \in {"INT", "CHAR"} -> v.k = a.k /\ v.x = a.n
                                  [] OTHER -> FALSE
                     good == SelectSeq(e.alts, fits)
                     any == SelectSeq(e.alts, LAMBDA a : a.k = "DEFAULT")
                     alt == Head(good \o any)
                 IN  IF v.t # "val" THEN v
                     ELSE IF good \o any = <<>> THEN Err
                     ELSE Ev(g, alt.body,
                             IF alt.k = "CON" /\ alt.arity > 0 THEN Inner(env, v.args) ELSE env, n - 1)

\* A value applied to closures.
Apply(g, v, cs, n) ==
    LET all == v.args \o cs
        need == IF v.k = "FUN" THEN v.x.arity ELSE ArityOf[v.x]
        rest == SubSeq(all, need + 1, Len(all))
        taken == SubSeq(all, 1, need)
        r == IF v.k = "FUN" THEN Ev(g, v.x.body, Inner(v.env, taken), n - 1)
             ELSE Prim(g, v.x, taken, n - 1)
    IN  IF n = 0 THEN Bot
        ELSE IF v.t # "val" \/ cs = <<>> THEN v
        ELSE IF v.k \notin {"FUN", "PRIM"} THEN Err
        ELSE IF Len(all) < need THEN [v EXCEPT !.args = all]
        ELSE Apply(g, r, rest, n - 1)

\* A primitive and its arguments.
Prim(g, f, cs, n) ==
    LET ev(i) == Ev(g, cs[i].e, cs[i].env, n - 1)
        failed == {i \in StrictOf[f] : ev(i).t # "val"}
        io(e) == Value("CON", "IoRes", Empty, <<Closure(UnitExpr, Empty), Closure(e, Empty)>>)
    IN  IF n = 0 THEN Bot
        ELSE IF failed # {} THEN ev(CHOOSE i \in failed : \A j \in failed : i <= j)
        ELSE CASE f = "intAdd" -> Value("INT", ev(1).x + ev(2).x, Empty, <<>>)
               [] f = "whnf"   -> ev(1)
               [] f = "raise"  -> [t |-> "exc", c |-> cs[1]]
               [] f = "catch"  ->
                     LET r == Apply(g, ev(1), <<cs[3]>>, n - 1)
                     IN  IF r.t = "exc" THEN Apply(g, ev(2), <<r.c, cs[3]>>, n - 1) ELSE r
               [] f = "fileSize" ->
                     LET r == Chars(g, cs[1], n - 1)
                     IN  IF r.t = "val" THEN io(IntExpr(r.x)) ELSE r
               [] OTHER        -> [t |-> "cell"]

\* How many characters a list of characters starts with.
Chars(g, c, n) ==
    IF n = 0 THEN Bot
    ELSE LET cell == Ev(g, c.e, c.env, n - 1)
             head == Ev(g, cell.args[1].e, cell.args[1].env, n - 1)
             rest == Chars(g, cell.args[2], n - 1)
         IN  IF cell.t # "val" THEN cell
             ELSE IF cell.k # "CON" \/ Len(cell.args) # 2 THEN Value("INT", 0, Empty, <<>>)
             ELSE IF head.t # "val" THEN head
             ELSE IF head.k # "CHAR" THEN Value("INT", 0, Empty, <<>>)
             ELSE IF rest.t # "val" THEN rest
             ELSE Value("INT", 1 + rest.x, Empty, <<>>)

\* The whole program: an IO result also has its state token evaluated.
Meaning(p, n) ==
    LET r == Ev(p.globals, p.main, Empty, n)
        token == Ev(p.globals, r.args[1].e, r.args[1].env, n)
    IN  IF r.t # "val" \/ r.k # "CON" \/ r.x # "IoRes" \/ token.t = "val" THEN r ELSE token
=============================================================================
