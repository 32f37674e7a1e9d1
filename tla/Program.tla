------------------------------ MODULE Program ------------------------------
(***************************************************************************)
(* The names of a whole program (src/scope.c, reaches_active, compute and  *)
(* program_add_package).                                                   *)
(*                                                                         *)
(* Packages are added one after the other.  The modules of a package are   *)
(* computed in the order of their names, and each first computes those of  *)
(* its package that it needs: its imports, Prelude when it is implicit and *)
(* the builtin modules, whose `:` and `~` need no import.  `calls` is the  *)
(* stack of compute(); the modules on it are the active ones.              *)
(***************************************************************************)
EXTENDS Scopes

CONSTANT Inputs    \* sets of records [packages, builtins]: the modules of each
                   \* package in the order of their names, and the builtin modules

IsSeq(s) == s \in Seq(ToSet(s))

\* What the parser gives for a module.
IsModule(m) ==
    /\ m.prelude \in BOOLEAN /\ m.supported \in BOOLEAN /\ m.hasExports \in BOOLEAN
    /\ IsSeq(m.imports) /\ IsSeq(m.exports)
    /\ \A imp \in ToSet(m.imports) :
          /\ imp.package \in BOOLEAN /\ imp.hasItems \in BOOLEAN /\ IsSeq(imp.items)
          /\ \A it \in ToSet(imp.items) : it.supported \in BOOLEAN
    /\ \A x \in ToSet(m.exports) : x.kind \in {"name", "module"} /\ x.supported \in BOOLEAN

ASSUME InputAssumption ==
    \A programs \in Inputs : \A p \in programs :
        /\ IsSeq(p.packages) /\ IsSeq(p.builtins)
        /\ \A package \in ToSet(p.packages) :
              IsSeq(package) /\ \A m \in ToSet(package) : IsModule(m)

\* reaches_active() does not follow the implicit import of Prelude: where there
\* are builtin modules, the package that has Prelude turns it off, as
\* vendor/base/base.cabal does.
ASSUME PreludeAssumption ==
    \A programs \in Inputs : \A p \in programs : \A package \in ToSet(p.packages) :
        (p.builtins # <<>> /\ \E m \in ToSet(package) : m.name = "Prelude")
            => \A m \in ToSet(package) : ~m.prelude

VARIABLES
    input,     \* the program
    pkg,       \* the package that is being added
    next,      \* the next of its modules
    modules,   \* the names of a module, once computed: [scope, exports]
    kids,      \* the children of each type and class
    calls      \* the active calls of compute(): [name, i]

vars == <<input, pkg, next, modules, kids, calls>>

Package == input.packages[pkg]
Pending == {Package[i].name : i \in DOMAIN Package}

\* Of two modules of one name, pending has the later one.
SourceIn(package, name) ==
    package[CHOOSE i \in DOMAIN package :
               /\ package[i].name = name
               /\ \A j \in DOMAIN package : package[j].name = name => j <= i]
Source(name) == SourceIn(Package, name)
Active == {calls[k].name : k \in DOMAIN calls}
Top == calls[Len(calls)]

ImportsOf(m) == {m.imports[i].module : i \in DOMAIN m.imports}

\* What compute() visits: the imports, Prelude, the builtin modules.
Site(name, builtin) == [name |-> name, builtin |-> builtin]
ImportSites(m) == [i \in DOMAIN m.imports |-> Site(m.imports[i].module, FALSE)]
                  \o (IF m.prelude THEN <<Site("Prelude", FALSE)>> ELSE <<>>)
SitesOfImports(m) == ImportSites(m)
Sites(m) == ImportSites(m) \o [i \in DOMAIN input.builtins |-> Site(input.builtins[i], TRUE)]

IsTop(name) == calls # <<>> /\ Top.name = name
IsActive(name) == name \in Active
NeverReaches(name) == FALSE

\* reaches_active(): from a module that is not known, imports lead to an
\* active one.
ReachesActive(name) ==
    LET open(n) == n \in Pending /\ n \notin DOMAIN modules /\ n \notin Active
        reach[n \in Nat] ==
            IF n = 0 THEN {name}
            ELSE {name} \cup UNION {ImportsOf(Source(s)) : s \in {s \in reach[n - 1] : open(s)}}
    IN  reach[Len(Package)] \cap Active # {}

-----------------------------------------------------------------------------
NoKids == [e \in {} |-> {}]
Unresolved == [scope |-> Failed(NoScope), exports |-> Failed(NoNames)]

\* The modules are a map that strmap_put overwrites.
Entered(name, entry) ==
    [n \in DOMAIN modules \cup {name} |-> IF n = name THEN entry ELSE modules[n]]

Known(name) == name \in DOMAIN modules \/ name \notin Pending

\* compute(name), called when the active calls are those of `callers`.
\* A module that is being computed is on an import cycle: it gets an error.
Compute(name, callers) ==
    CASE Known(name) -> calls' = callers /\ UNCHANGED modules
      [] ~Known(name) /\ IsActive(name) ->
            /\ modules' = Entered(name, Unresolved)
            /\ calls' = callers
      [] ~Known(name) /\ ~IsActive(name) ->
            /\ calls' = Append(callers, [name |-> name, i |-> 1])
            /\ UNCHANGED modules

Advanced == [calls EXCEPT ![Len(calls)].i = @ + 1]

\* program_add_package() starts with the children its modules declare.  The
\* package is part of what a type's children are kept under: a module that is
\* never computed, because an earlier package has its name, changes none.
AllDeclared(p) ==
    LET declared(m) == IF m.name \in DOMAIN modules THEN NoKids ELSE Declared(m)
        f[i \in 0 .. Len(p)] == IF i = 0 THEN kids ELSE Over(declared(p[i]), f[i - 1])
    IN  f[Len(p)]

AddPackage ==
    /\ calls = <<>> /\ pkg < Len(input.packages)
    /\ pkg > 0 => next > Len(Package)
    /\ pkg' = pkg + 1
    /\ next' = 1
    /\ kids' = AllDeclared(input.packages[pkg + 1])
    /\ UNCHANGED <<input, modules, calls>>

StartModule ==
    /\ calls = <<>> /\ pkg > 0 /\ next <= Len(Package)
    /\ Compute(Package[next].name, <<>>)
    /\ next' = next + 1
    /\ UNCHANGED <<input, pkg, kids>>

InCall == calls # <<>>
Visiting == InCall /\ Top.i <= Len(Sites(Source(Top.name)))
Visited == Sites(Source(Top.name))[Top.i]

VisitModule ==
    /\ Visiting /\ ~(Visited.builtin /\ ReachesActive(Visited.name))
    /\ Compute(Visited.name, Advanced)
    /\ UNCHANGED <<input, pkg, next, kids>>

\* A builtin module that needs what is being computed gives nothing yet.
SkipBuiltin ==
    /\ Visiting /\ Visited.builtin /\ ReachesActive(Visited.name)
    /\ calls' = Advanced
    /\ UNCHANGED <<input, pkg, next, modules, kids>>

\* All that the module needs is known: its scope, then its exports.
Finish ==
    /\ InCall /\ ~Visiting
    /\ \E m \in {Source(Top.name)} :
       \E scope \in {ModuleScope(modules, kids, input.builtins, m)} :
       \E out \in {ModuleExports(kids, m, scope.val)} :
          IF scope.ok
          THEN /\ modules' = Entered(m.name, [scope |-> scope, exports |-> out.exports])
               /\ kids' = out.kids
          ELSE modules' = Entered(m.name, Unresolved) /\ UNCHANGED kids
    /\ calls' = SubSeq(calls, 1, Len(calls) - 1)
    /\ UNCHANGED <<input, pkg, next>>

Init ==
    /\ \E programs \in Inputs : input \in programs
    /\ pkg = 0 /\ next = 1
    /\ modules = [n \in {} |-> Unresolved]
    /\ kids = NoKids
    /\ calls = <<>>

Done == calls = <<>> /\ pkg = Len(input.packages) /\ (pkg > 0 => next > Len(Package))

\* All packages are added.
Stop == Done /\ UNCHANGED vars

Next == AddPackage \/ StartModule \/ VisitModule \/ SkipBuiltin \/ Finish \/ Stop

Spec == Init /\ [][Next]_vars

-----------------------------------------------------------------------------
(* Properties                                                              *)

\* The module that has a name: of two packages the first one counts.
NamesOf(p) == {input.packages[p][i].name : i \in DOMAIN input.packages[p]}
AllNames == UNION {NamesOf(p) : p \in DOMAIN input.packages}
PackageOf(n) == CHOOSE p \in DOMAIN input.packages :
                   n \in NamesOf(p) /\ \A q \in DOMAIN input.packages : n \in NamesOf(q) => p <= q
ModuleNamed(n) == SourceIn(input.packages[PackageOf(n)], n)
AllModules == {ModuleNamed(n) : n \in AllNames}

\* The modules that n needs, and those that it leads to, itself included,
\* through imports and implicit ones.
NeedsOf(m) == {s.name : s \in ToSet(ImportSites(m))}
Required(n) == IF n \in AllNames THEN NeedsOf(ModuleNamed(n)) ELSE {}
Leads(n) ==
    LET f[k \in Nat] == IF k = 0 THEN {n} ELSE f[k - 1] \cup UNION {Required(x) : x \in f[k - 1]}
    IN  f[Cardinality(AllNames)]
OnCycle(n) == \E d \in Required(n) : n \in Leads(d)

\* What is entered for a module never changes, neither the names of a resolved
\* module nor the error that an import cycle leaves on an active one: who used
\* an entry used the one that the rest of the program sees.
Settled ==
    [][\A n \in DOMAIN modules : n \in DOMAIN modules' /\ modules'[n] = modules[n]]_vars

\* The reasons that the sources show for a module to fail.
NotExported(imp, it) ==
    imp.module \in DOMAIN modules /\ it.key \notin DOMAIN modules[imp.module].exports.val
Refused(m) ==
    \/ ~m.supported
    \/ m.hasExports /\ \E x \in ToSet(m.exports) : ~x.supported
    \/ \E imp \in ToSet(m.imports) :
          \/ imp.package
          \/ imp.hasItems /\ \E it \in ToSet(imp.items) : ~it.supported \/ NotExported(imp, it)
Missing(n) == n \notin AllNames
NeedsLater(n) == \E d \in Required(n) : d \in AllNames /\ PackageOf(d) > PackageOf(n)
Hopeless(n) == Missing(n) \/ OnCycle(n) \/ Refused(ModuleNamed(n)) \/ NeedsLater(n)

\* An import item T(P) of a P that T does not declare is refused or not,
\* according to whether a module that bundles P with T was computed before.
DeclaredKids(e) ==
    IF e[2] \in DOMAIN ModuleNamed(e[1]).kids THEN ModuleNamed(e[1]).kids[e[2]] ELSE {}
Undeclared(imp, it) ==
    /\ imp.module \in DOMAIN modules /\ ~NotExported(imp, it)
    /\ it.key[1] # "term" /\ it.subs.kind # "NONE"
    /\ \E x \in it.subs.names :
           \A k \in DeclaredKids(modules[imp.module].exports.val[it.key]) : k[2] # x
Doubtful(n) ==
    \E imp \in ToSet(ModuleNamed(n).imports) :
        imp.hasItems /\ \E it \in ToSet(imp.items) : Undeclared(imp, it)

\* Exactly the modules fail that have a reason, which is in one that they lead
\* to: it is not there, is on an import cycle, has a construct that is refused
\* or needs a module of a later package.
FailsForCause ==
    Done => \A n \in AllNames :
               /\ (\E d \in Leads(n) : Hopeless(d)) => ~modules[n].exports.ok
               /\ ~modules[n].exports.ok => \E d \in Leads(n) : Hopeless(d) \/ Doubtful(d)

\* All the objects that a scope holds.
SeenIn(s) == Range(s.names) \cup UNION {Range(s.qual[q]) : q \in DOMAIN s.qual}
OneObject(S) == \A e, f \in S : EntityKey(e) = EntityKey(f) => e = f

\* Two keys of a scope never hold different objects for one entity, so the
\* comparison of pointers in `module M` exports compares entities.
SameObject == Done => \A n \in DOMAIN modules : OneObject(SeenIn(modules[n].scope.val))

\* A module that no builtin module needs has `:` in scope when one exports it.
Colon == <<"term", ":">>
BuiltinsInScope ==
    Done => \A m \in AllModules : \A b \in ToSet(input.builtins) :
        (/\ b \in DOMAIN modules /\ PackageOf(b) <= PackageOf(m.name)
         /\ modules[b].exports.ok /\ Colon \in DOMAIN modules[b].exports.val
         /\ modules[m.name].scope.ok
         /\ \A c \in ToSet(input.builtins) : m.name \notin Leads(c))
        => Colon \in DOMAIN modules[m.name].scope.val.names

\* The reference: what an import gives, who gives a name, what is exported,
\* all read off the final entries.
Listed(imp, k) ==
    \E it \in ToSet(imp.items) :
        \/ it.key = k
        \/ /\ it.key[1] = "type" /\ it.subs.kind # "NONE"
           /\ k \in Children(kids, modules[imp.module].exports.val[it.key])
           /\ it.subs.kind = "SOME" => k[2] \in it.subs.names
Gives(imp, k) ==
    /\ k \in DOMAIN modules[imp.module].exports.val
    /\ imp.hasItems => (Listed(imp, k) # imp.hiding)

\* The imports of a module, Prelude among them, for unqualified names.
AllImports(m) ==
    m.imports \o (IF m.prelude
                  THEN <<[module |-> "Prelude", alias |-> "Prelude", qualified |-> FALSE,
                          hasItems |-> FALSE, hiding |-> FALSE, items |-> <<>>]>>
                  ELSE <<>>)

\* e is what k means among the imports that From allows: the first that gives k.
FirstGiver(m, k, From(_), e) ==
    \E i \in DOMAIN AllImports(m) :
        LET imp == AllImports(m)[i]
        IN  /\ From(imp) /\ Gives(imp, k) /\ e = modules[imp.module].exports.val[k]
            /\ \A j \in 1 .. i - 1 : From(AllImports(m)[j]) => ~Gives(AllImports(m)[j], k)
NoGiver(m, k, From(_)) == \A i \in DOMAIN AllImports(m) :
                              From(AllImports(m)[i]) => ~Gives(AllImports(m)[i], k)

\* A pattern synonym that an export list bundles with a type is a child of it
\* in all modules that are computed later: k is loose in m when m does not
\* import, however indirectly, a module that bundles k.
BundledBy(n) == {<<"term", x>> : x \in UNION {e.subs.names : e \in {f \in ToSet(ModuleNamed(n).exports) :
                                                                       f.kind = "name" /\ f.key[1] = "type"}}}
Bundled(k) == \E e \in DOMAIN kids : k \in kids[e] \ ModuleNamed(e[1]).kids[e[2]]
Loose(m, k) ==
    Bundled(k) /\ \A n \in ({b.name : b \in AllModules} \cap Leads(m.name)) \ {m.name} : k \notin BundledBy(n)

\* Every module means what its imports finally export: its own names come
\* first, then the first import that gives a name; under a qualifier only the
\* imports with that alias count.  What an import item T(..) gives of the
\* synonyms that a module bundles with T depends on the order of the modules,
\* unless the importer leads to that module.
ScopeFits(m) ==
    LET s == modules[m.name].scope.val
        used == UNION {DOMAIN modules[n].exports.val : n \in DOMAIN modules} \cup m.own
        keys == {k \in used : k \in m.own \/ ~Loose(m, k)}
        open(imp) == ~imp.qualified
    IN  /\ \A k \in keys :
              IF k \in m.own THEN s.names[k] = <<m.name, k, "scope">>
              ELSE IF k \in DOMAIN s.names
                   THEN \/ FirstGiver(m, k, open, s.names[k])
                        \/ k \in {Colon, <<"type", "~">>} /\ NoGiver(m, k, open)
                   ELSE NoGiver(m, k, open)
        /\ \A q \in DOMAIN s.qual : \A k \in keys :
              LET as(imp) == imp.alias = q
              IN  IF q = m.name /\ k \in m.own THEN s.qual[q][k] = <<m.name, k, "scope">>
                  ELSE IF k \in DOMAIN s.qual[q] THEN FirstGiver(m, k, as, s.qual[q][k])
                  ELSE NoGiver(m, k, as)

Consistent ==
    Done => \A m \in AllModules : modules[m.name].scope.ok => ScopeFits(m)

\* The modules of the package that compute() has not come to.
Unvisited == {n \in Pending : n \notin DOMAIN modules /\ n \notin Active}

\* The recursion over imports ends, on every import graph: each step comes to
\* the next package or module, or to a module that was not visited, or returns
\* from a call, or goes on in one towards its last site.
Forward ==
    \/ pkg' > pkg /\ pkg' <= Len(input.packages)
    \/ /\ pkg' = pkg
       /\ \/ next' > next /\ next' <= Len(Package) + 1 /\ Unvisited' \subseteq Unvisited
          \/ /\ next' = next
             /\ \/ Unvisited' \subseteq Unvisited /\ Unvisited' # Unvisited
                \/ /\ Unvisited' = Unvisited
                   /\ \/ Len(calls') < Len(calls)
                      \/ /\ InCall /\ Len(calls') = Len(calls) /\ Top'.name = Top.name
                         /\ Top'.i > Top.i /\ Top'.i <= Len(Sites(Source(Top.name))) + 1
Advances == [][Forward]_vars
=============================================================================
