------------------------------- MODULE Scopes -------------------------------
(***************************************************************************)
(* The top-level names of a module: what it defines, imports and exports   *)
(* (src/scope.c, own_scope to module_exports).                             *)
(*                                                                         *)
(* A key is a pair <<space, name>> with the space "term" or "type".  Names *)
(* are a function from keys to entities.  An entity is <<module, key, by>>:*)
(* what is defined, and which call allocated the Entity object ("scope" or *)
(* "exports"), for `module M` compares pointers.  A scope is a record of   *)
(* its unqualified names and, for each qualifier, the names under it.      *)
(*                                                                         *)
(* A source module is a record                                             *)
(*   name, own (the keys it defines), kids (a function from the types and  *)
(*   classes it declares to the keys of their children), prelude (whether  *)
(*   it imports Prelude implicitly), supported (FALSE: it has a construct  *)
(*   that the resolver refuses), imports, hasExports, exports              *)
(***************************************************************************)
EXTENDS Integers, Sequences, FiniteSets, SequencesExt

NoNames == [k \in {} |-> <<>>]
NoScope == [names |-> NoNames, qual |-> [q \in {} |-> NoNames]]

\* The result of a function that can fail, as it returns NULL.
Fine(n) == [ok |-> TRUE, val |-> n]
Failed(none) == [ok |-> FALSE, val |-> none]

\* strmap_put(), and the names of f before those of g.
Put(k, v, f) == [x \in DOMAIN f \cup {k} |-> IF x = k THEN v ELSE f[x]]
Over(f, g) == [x \in DOMAIN f \cup DOMAIN g |-> IF x \in DOMAIN f THEN f[x] ELSE g[x]]

OnlyOf(f, S) == [k \in DOMAIN f \cap S |-> f[k]]
Without(f, S) == [k \in DOMAIN f \ S |-> f[k]]

\* own_scope(): the names a module defines, as new entities.
OwnScope(m, by) == [k \in m.own |-> <<m.name, k, by>>]

\* What identifies an entity to the program: entity_key().
EntityKey(e) == <<e[1], e[2]>>

-----------------------------------------------------------------------------
(* Children: the constructors, fields and methods of a type or class.      *)

\* declared_children()
Declared(m) == [e \in {<<m.name, t>> : t \in DOMAIN m.kids} |-> m.kids[e[2]]]

Children(kids, e) == IF EntityKey(e) \in DOMAIN kids THEN kids[EntityKey(e)] ELSE {}

\* add_children(): adds are the children of e that subs names, as far as source
\* has them; has are the keys that were added before.  A name that is no child
\* is a pattern synonym, which an export list bundles with e for the whole
\* program and an import may not have.
AddChildren(kids, e, subs, source, has, bundling) ==
    LET extra == {n \in subs.names : \A k \in Children(kids, e) : k[2] # n}
        bundled == {<<"term", n>> : n \in extra} \cap DOMAIN source
        kids1 == IF bundled = {} THEN kids
                 ELSE Put(EntityKey(e), Children(kids, e) \cup bundled, kids)
        kept(k) == /\ subs.kind = "ALL_AND" /\ k[2] \in subs.names
                   /\ <<"term", k[2]>> \in has \cup bundled
        wanted == {k \in Children(kids1, e) :
                      (subs.kind = "SOME" => k[2] \in subs.names) /\ ~kept(k)}
    IN  CASE subs.kind = "NONE" -> [ok |-> TRUE, kids |-> kids, adds |-> {}]
          [] subs.kind # "NONE" /\ extra # {} /\ ~bundling -> [ok |-> FALSE, kids |-> kids, adds |-> {}]
          [] OTHER -> [ok |-> TRUE, kids |-> kids1, adds |-> (bundled \cup wanted) \cap DOMAIN source]

-----------------------------------------------------------------------------
(* Imports                                                                 *)

ExportsOfAny(modules, name) ==
    IF name \in DOMAIN modules THEN Fine(modules[name].exports.val) ELSE Failed(NoNames)

\* exports_of(): fails when the module is not there or does not resolve.
ExportsOf(modules, name) ==
    IF name \in DOMAIN modules THEN modules[name].exports ELSE Failed(NoNames)

\* An item of an import selects names of the exports, after those of r; each
\* must be there.
SelectItem(kids, exports, r, it) ==
    LET children == AddChildren(kids, exports[it.key], it.subs, exports, r.val \cup {it.key}, FALSE)
    IN  CASE ~r.ok -> r
          [] r.ok /\ (~it.supported \/ it.key \notin DOMAIN exports) -> Failed({})
          [] r.ok /\ it.supported /\ it.key \in DOMAIN exports ->
                IF it.key[1] = "term" THEN Fine(r.val \cup {it.key})
                ELSE IF children.ok THEN Fine(r.val \cup {it.key} \cup children.adds)
                ELSE Failed({})

\* The keys that the items of an import select.
Select(kids, exports, items) ==
    LET f[i \in 0 .. Len(items)] == IF i = 0 THEN Fine({}) ELSE SelectItem(kids, exports, f[i - 1], items[i])
    IN  f[Len(items)]

\* import_scope()
ImportScope(modules, kids, imp) ==
    LET exports == ExportsOf(modules, imp.module)
        selected == Select(kids, exports.val, imp.items)
    IN  CASE imp.package                       -> Failed(NoNames)
          [] ~imp.package /\ (~exports.ok \/ ~imp.hasItems) -> exports
          [] ~imp.package /\ exports.ok /\ imp.hasItems ->
                IF ~selected.ok THEN Failed(NoNames)
                ELSE IF imp.hiding THEN Fine(Without(exports.val, selected.val))
                ELSE Fine(OnlyOf(exports.val, selected.val))

LastWins(s, names) == [names |-> Over(names, s.names), qual |-> s.qual]

\* scope_union() of unqualified names: what is in scope already wins.
FirstWins(s, names) == [names |-> Over(s.names, names), qual |-> s.qual]

\* scope_qualified_entry() and a union under the qualifier.
Under(s, q, names) ==
    [names |-> s.names,
     qual |-> Put(q, Over(IF q \in DOMAIN s.qual THEN s.qual[q] ELSE NoNames, names), s.qual)]

\* builtin_scope(): the names every module sees without an import.  Of two
\* builtin modules the last one wins; one that is not there gives nothing.
BuiltinScope(modules, builtins, name) ==
    LET gives(b) == IF b # name /\ b \in DOMAIN modules /\ modules[b].exports.ok
                    THEN OnlyOf(modules[b].exports.val, {<<"term", ":">>, <<"type", "~">>})
                    ELSE NoNames
        f[i \in 0 .. Len(builtins)] == IF i = 0 THEN NoNames ELSE Over(gives(builtins[i]), f[i - 1])
    IN  f[Len(builtins)]

\* module_scope(): own names, then the imports in order, then Prelude, then
\* the builtin names.
ModuleScope(modules, kids, builtins, m) ==
    LET own == OwnScope(m, "scope")
        start == [names |-> own, qual |-> [q \in {m.name} |-> own]]
        add(s, names, imp) ==
            Under(IF imp.qualified THEN s ELSE FirstWins(s, names), imp.alias, names)
        given(imp) == ImportScope(modules, kids, imp)
        f[i \in 0 .. Len(m.imports)] ==
            IF i = 0 THEN start ELSE add(f[i - 1], given(m.imports[i]).val, m.imports[i])
        imported == f[Len(m.imports)]
        prelude == ExportsOf(modules, "Prelude")
        asPrelude == [qualified |-> FALSE, alias |-> "Prelude"]
        builtin == BuiltinScope(modules, builtins, m.name)
    IN  IF /\ m.supported
           /\ \A imp \in ToSet(m.imports) : given(imp).ok
           /\ m.prelude => prelude.ok
        THEN Fine(FirstWins(IF m.prelude THEN add(imported, prelude.val, asPrelude)
                            ELSE imported, builtin))
        ELSE Failed(NoScope)

-----------------------------------------------------------------------------
(* Exports                                                                 *)

\* The names under the qualifier of an export; none when it is not in scope.
Qualifier(scope, q) ==
    IF q = "" THEN scope.names
    ELSE IF q \in DOMAIN scope.qual THEN scope.qual[q] ELSE NoNames

ReexportedCopies(scope, q) ==
    LET names == Qualifier(scope, q)
    IN  [k \in {k \in DOMAIN names : k \in DOMAIN scope.names /\ scope.names[k] = names[k]} |->
            [names[k] EXCEPT ![3] = "copy"]]

\* `module M`: what is in scope both unqualified and under M, as one entity.
Reexported(scope, q) ==
    LET names == Qualifier(scope, q)
    IN  [k \in {k \in DOMAIN names : k \in DOMAIN scope.names /\ scope.names[k] = names[k]} |->
            names[k]]

\* An export adds names to r.into.  A name that is not in scope is left out.
ExportItem(scope, r, x) ==
    LET source == Qualifier(scope, x.qual)
        c == AddChildren(r.kids, source[x.key], x.subs, source, DOMAIN r.into \cup {x.key}, TRUE)
        put(keys) == [r EXCEPT !.into = Over(OnlyOf(source, keys), @)]
    IN  CASE ~r.ok -> r
          [] r.ok /\ ~x.supported -> [r EXCEPT !.ok = FALSE]
          [] r.ok /\ x.supported /\ x.kind = "module" ->
                [r EXCEPT !.into = Over(Reexported(scope, x.qual), @)]
          [] r.ok /\ x.supported /\ x.kind = "name" ->
                IF x.key \notin DOMAIN source THEN r
                ELSE IF x.key[1] = "term" THEN put({x.key})
                ELSE [put({x.key} \cup c.adds) EXCEPT !.kids = c.kids]

\* module_exports(): without an export list, the own names, as new entities.
ModuleExports(kids, m, scope) ==
    LET f[i \in 0 .. Len(m.exports)] ==
            IF i = 0 THEN [ok |-> TRUE, kids |-> kids, into |-> NoNames]
            ELSE ExportItem(scope, f[i - 1], m.exports[i])
        listed == f[Len(m.exports)]
    IN  CASE ~m.hasExports -> [kids |-> kids, exports |-> Fine(OwnScope(m, "exports"))]
          [] m.hasExports /\ listed.ok -> [kids |-> listed.kids, exports |-> Fine(listed.into)]
          [] m.hasExports /\ ~listed.ok -> [kids |-> listed.kids, exports |-> Failed(NoNames)]
=============================================================================
