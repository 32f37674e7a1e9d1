--------------------------- MODULE DesugarCorrect ---------------------------
(***************************************************************************)
(* What the Core of a program must be: well formed, and with the meaning   *)
(* that the Haskell report gives to the source.                            *)
(***************************************************************************)
EXTENDS Desugar

CONSTANT Fuel       \* bound of the two evaluators

Core == INSTANCE Reference WITH ArityOf <- [intAdd |-> 2, raise |-> 1],
                                StrictOf <- [intAdd |-> {1, 2}, raise |-> {}]
Haskell == INSTANCE Report WITH Deviations <- {}
Dialect == INSTANCE Report WITH Deviations <- {"literal", "operator", "lazy"}

-----------------------------------------------------------------------------
\* What a Core program shows, in the words of Report.
RECURSIVE Shown(_, _)
Shown(r, n) ==
    LET shown(c) == Shown(Core!Ev(globals, c.e, c.env, n), n)
    IN  CASE r.t \in {"bot", "err", "cell"} -> <<<<r.t>>>>
          [] r.t = "exc" -> <<<<"raise">>>> \o shown(r.c)
          [] r.t = "val" /\ r.k \in {"INT", "CHAR"} -> <<<<r.k, r.x>>>>
          [] r.t = "val" /\ r.k = "CON" ->
                <<<<r.x, Len(r.args)>>>> \o FlattenSeq([i \in DOMAIN r.args |-> shown(r.args[i])])
          [] OTHER -> <<<<"function">>>>
Shows == Shown(Core!Ev(globals, core_global(<<MainModule, "main">>), Core!Empty, Fuel), Fuel)

\* The Core that a program is translated to shows what the report says the
\* program shows, with its laziness, its order of matching and its errors:
\* the desugaring of every construct keeps its meaning.  There are three
\* deviations, and no other: a literal of type Integer wraps like a long
\* (parse_integer), a constructor with a context that stands between its
\* operands gets no dictionaries (op_apply), and the expressions in a lazy
\* pattern see its variables (match_lazy).
AgreesWithReport ==
    phase = "done" =>
        \E words \in {Dialect!Shows(modules, Fuel)} : <<"bot">> \notin ToSet(words) /\ Shows = words

-----------------------------------------------------------------------------
\* Code under frames of these sizes, the innermost first.
RECURSIVE WellFormedIn(_, _)
WellFormedIn(code, sizes) ==
    LET under(size, sub) == WellFormedIn(sub, IF size = 0 THEN sizes ELSE <<size>> \o sizes)
        known == {con \in {cons[k] : k \in DOMAIN cons} : con.c = code.c}
    IN  CASE code.k = "VAR" -> code.up < Len(sizes) /\ code.slot \in 1 .. sizes[code.up + 1]
          [] code.k = "LAM" -> code.arity > 0 /\ under(code.arity, code.body)
          [] code.k = "LET" -> \A sub \in ToSet(Inside(code)) : under(Len(code.binds), sub)
          [] code.k = "CASE" ->
                /\ under(0, code.scrut)
                /\ \A alt \in ToSet(code.alts) : under(IF alt.k = "CON" THEN alt.arity ELSE 0, alt.body)
          [] code.k = "CON" ->
                /\ \A con \in known : Len(code.args) = con.arity /\ ~Erased(con)
                /\ \A sub \in ToSet(code.args) : under(0, sub)
          [] code.k = "APP" -> \A sub \in ToSet(Inside(code)) : under(0, sub)
          [] OTHER -> TRUE

\* In all code that was made, also the code that no run reaches, every
\* variable is a slot of a frame that is there, and every constructor has all
\* its arguments: what the machine takes for granted.
WellFormed ==
    \A k \in DOMAIN globals :
        /\ globals[k].k # "FAIL"
        /\ WellFormedIn(globals[k], <<>>)

\* The modules that Main reaches, whether they are there or not.
Reachable(ms) ==
    LET next(S) == S \cup UNION {ToSet(ms[m].imports) : m \in S \cap DOMAIN ms}
        f[i \in 0 .. Cardinality(DOMAIN ms)] == IF i = 0 THEN {MainModule} ELSE next(f[i - 1])
    IN  f[Cardinality(DOMAIN ms)]

\* The body of main, and whether it is a chain that has no tree.
MainBodies(ms) == {d.rhs.guards[1].body : d \in {c \in ToSet(ms[MainModule].decls) : Haskell!Binds(c, "main")}}
BadChain(ms, e) ==
    e.k = "INFIX" /\ Haskell!Trees(Haskell!ChainTokens(Haskell!Top(ms, MainModule), e)) = {}
MustReject(ms) ==
    \/ \E m \in Reachable(ms) : m \notin DOMAIN ms \/ ms[m].rejected \/ ms[m].unsupported
    \/ MainBodies(ms) = {}
    \/ \E e \in MainBodies(ms) : BadChain(ms, e)

\* The desugarer gives up on the programs that it must reject, and only on
\* those: a module that Main reaches is missing or was not accepted (in one
\* that it does not reach, nothing matters), there is no main, or the
\* operators of a chain do not combine.
RejectsOnlyIllegal ==
    /\ phase = "failed" => MustReject(modules)
    /\ phase = "done" => ~MustReject(modules)
=============================================================================
