----------------------------- MODULE MCProgram -----------------------------
EXTENDS Program, TLC

Term(n) == <<"term", n>>
Type(n) == <<"type", n>>

\* The import of a whole module, and a module, to be varied with EXCEPT.
Whole(m) == [module |-> m, alias |-> m, qualified |-> FALSE, package |-> FALSE,
             hasItems |-> FALSE, hiding |-> FALSE, items |-> <<>>]
Module(name, own, imports) ==
    [name |-> name, own |-> own, kids |-> [t \in {} |-> {}], prelude |-> FALSE,
     supported |-> TRUE, imports |-> imports, hasExports |-> FALSE, exports |-> <<>>]

NoSubs == [kind |-> "NONE", names |-> {}]
AllSubs == [kind |-> "ALL", names |-> {}]
SomeSubs(S) == [kind |-> "SOME", names |-> S]
Export(k, q) == [kind |-> "name", key |-> k, qual |-> q, subs |-> NoSubs, supported |-> TRUE]
ExportModule(m) == [kind |-> "module", key |-> <<>>, qual |-> m, subs |-> NoSubs, supported |-> TRUE]

\* The modules of S in the order of their names.
Sorted(S) == SelectSeq(<<"A", "B", "C", "Prelude", "X">>, LAMBDA n : n \in S)
ImportAll(S) == [i \in DOMAIN Sorted(S) |-> Whole(Sorted(S)[i])]
Reexporting(m) ==
    [m EXCEPT !.hasExports = TRUE,
              !.exports = <<ExportModule(m.name)>>
                          \o [i \in DOMAIN m.imports |-> ExportModule(m.imports[i].module)]]

\* Every import graph of three modules and one that is not there.  Two of the
\* modules define the same name; B exports all it sees.
MCOwn == [A |-> {Term("x"), Term("y")}, B |-> {Term("x")}, C |-> {Term("z")}]
MCGraphs ==
    {[packages |-> <<<<Module("A", MCOwn.A, ImportAll(a)),
                       Reexporting(Module("B", MCOwn.B, ImportAll(b))),
                       IF e THEN Reexporting(Module("C", MCOwn.C, ImportAll(c)))
                       ELSE Module("C", MCOwn.C, ImportAll(c))>>>>,
      builtins |-> <<>>] :
        a \in SUBSET {"A", "B", "C", "X"}, b \in SUBSET {"A", "B", "C", "X"},
        c \in SUBSET {"A", "B", "C", "X"}, e \in BOOLEAN}

\* A base package with builtin modules, which turns the implicit Prelude off,
\* and a package with one module above it.
MCBase(builtins) ==
    {[packages |-> <<<<Module("A", {Term("y")}, ImportAll(a)),
                       Module("B", {Term("x")}, ImportAll(b)),
                       Module("C", {Colon}, ImportAll(c)),
                       Reexporting(Module("Prelude", {Term("y")}, ImportAll(p)))>>,
                     <<[Module("M", {}, ImportAll(m)) EXCEPT !.prelude = TRUE]>>>>,
      builtins |-> builtins] :
        a \in SUBSET {"B", "C"}, b \in SUBSET {"A", "C", "Prelude"},
        c \in SUBSET {"A", "B", "Prelude"}, p \in {{}, {"C"}, {"A", "B", "C"}},
        m \in SUBSET {"C"}}

\* Import items, qualifiers, hiding and export lists.
Items(its) == [Whole("A") EXCEPT !.hasItems = TRUE, !.items = its]
Item(k, subs) == [key |-> k, subs |-> subs, supported |-> TRUE]
MCImportsOf(m) ==
    {[imp EXCEPT !.module = m, !.alias = IF @ = "A" THEN m ELSE @] :
        imp \in {Whole("A"), [Whole("A") EXCEPT !.qualified = TRUE],
                 [Whole("A") EXCEPT !.alias = "Q"],
                 Items(<<Item(Term("x"), NoSubs)>>),
                 Items(<<Item(Type("T"), AllSubs), Item(Term("P"), NoSubs)>>),
                 Items(<<Item(Type("T"), SomeSubs({"K"}))>>),
                 Items(<<Item(Type("T"), SomeSubs({"P"}))>>),
                 [Items(<<Item(Term("x"), NoSubs), Item(Type("T"), AllSubs)>>) EXCEPT !.hiding = TRUE],
                 [Items(<<Item(Type("T"), AllSubs)>>) EXCEPT !.qualified = TRUE, !.alias = "Q"]}}
MCExports ==
    {<<Export(Term("x"), ""), Export(Type("T"), "")>>,
     <<ExportModule("A"), Export(Term("x"), "Q")>>,
     <<ExportModule("Q"), ExportModule("B")>>,
     <<[Export(Type("T"), "") EXCEPT !.subs = AllSubs], Export(Term("P"), "")>>,
     <<[Export(Type("T"), "") EXCEPT !.subs = [kind |-> "ALL_AND", names |-> {"P"}]]>>,
     <<[Export(Type("T"), "Q") EXCEPT !.subs = SomeSubs({"K", "P"})], Export(Term("x"), "")>>}
MCTypes == [Module("A", {Term("x"), Term("P"), Type("T"), Term("K"), Term("f")}, <<>>)
               EXCEPT !.kids = Type("T") :> {Term("K"), Term("f")}]
MCItems ==
    {[packages |-> <<<<MCTypes,
                       [Module("B", own, <<ab>>) EXCEPT !.hasExports = TRUE, !.exports = ex],
                       Module("C", {}, <<cb, ca>>)>>>>,
      builtins |-> <<>>] :
        own \in {{}, {Term("x")}}, ab \in MCImportsOf("A"), ex \in MCExports,
        cb \in MCImportsOf("B"), ca \in MCImportsOf("A")}

\* Bundles and four modules that import the type: one is computed before the
\* bundling one, one after it, and only C has to do with it.
MCBundles ==
    {[packages |-> <<<<MCTypes, Module("AB", {}, <<ia>>),
                       [Module("B", {}, <<Whole("A")>>) EXCEPT !.hasExports = TRUE, !.exports = ex],
                       Module("C", {}, <<[qb EXCEPT !.alias = "Q"], ia>>), Module("D", {}, <<ia>>)>>>>,
      builtins |-> <<>>] :
        ia \in MCImportsOf("A"), ex \in MCExports, qb \in MCImportsOf("B")}

\* A module that needs one of a later package, which may have its name again.
MCLater ==
    {[packages |-> <<<<Module("A", {Term("x")}, ImportAll(a)), Module("B", {}, ImportAll(b))>>,
                     (IF again THEN <<Module("A", {Term("z")}, <<>>)>> ELSE <<>>)
                     \o <<Module("C", {Term("y")}, ImportAll(c))>>>>,
      builtins |-> <<>>] :
        a \in SUBSET {"B", "C"}, b \in SUBSET {"A", "C"}, c \in SUBSET {"A", "B"}, again \in BOOLEAN}

\* A module with a construct that is refused, one of each kind.
MCRefused ==
    {[packages |-> <<<<a, Module("B", {}, ImportAll(b)), Module("C", {Term("x")}, ImportAll(c))>>>>,
      builtins |-> <<>>] :
        a \in {[Module("A", {Term("x")}, <<>>) EXCEPT !.supported = FALSE],
               [Module("A", {Term("x")}, <<>>) EXCEPT
                   !.hasExports = TRUE, !.exports = <<[Export(Term("x"), "") EXCEPT !.supported = FALSE]>>],
               Module("A", {}, <<[Whole("C") EXCEPT !.package = TRUE]>>),
               Module("A", {}, <<[Items(<<[Item(Term("x"), NoSubs) EXCEPT !.supported = FALSE]>>)
                                     EXCEPT !.module = "C"]>>),
               Module("A", {}, <<[Items(<<Item(Term("y"), NoSubs)>>) EXCEPT !.module = "C"]>>)},
        b \in SUBSET {"A", "C"}, c \in SUBSET {"A", "B"}}

MCInputs == {MCLater, MCRefused, MCBundles, MCGraphs, MCBase(<<"C">>), MCBase(<<"B", "C">>), MCItems}
=============================================================================
