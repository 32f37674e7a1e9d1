# A verification project for aihc-boot

aihc-boot is a small Haskell compiler and evaluator in C: it reads Haskell
modules and package manifests, resolves names, checks types by inference with
dictionaries, desugars to a Core language and evaluates Core with a lazy graph
reducer that has a copying collector. This directory holds TLA+ models of its
parts, the TLC runs that check them on small instances, and proofs of the most
important results.

Source paths below are relative to the repository (`src/eval.c` is the
evaluator).

## 1. The system

The pipeline of `main.c`, in order: read the manifest and order the packages;
read, preprocess and lex each module; apply the layout rule and parse; resolve
the top-level names of all modules, package by package; resolve the names
inside each module; resolve operator fixities; infer types and elaborate
classes to dictionaries; desugar to Core; evaluate. Each part calls the next one
with a finished data structure. There are no threads. What is concurrent in
spirit is inside the parts: the collector runs at any allocation of the
machine, C primitives run the machine again, exceptions leave several of these
calls at once, and modules are computed on demand while others are half done.

| Part | Source | State | Operations | What is hard |
| --- | --- | --- | --- | --- |
| Heap and collector | eval.c | the semispaces, heap pointer, spare space, roots | reserve, alloc, rewriting in place, gc (copy, scan, retry with a larger heap) | objects move under the code that holds pointers to them; forwarding pointers, scanned and unscanned objects side by side; three blocks trade roles |
| Machine | eval.c | stack, registers, registered locals, jump targets | eval, enter, ret, unwind, run, primitives | collections at every reservation, black holes and exceptions, nested runs left by longjmp, let groups built one by one |
| Integer arithmetic | eval.c | two representations of a value | add, sub, mul, divide, compare, convert | carries, borrows, signs, the border between a long and limbs |
| Package order | manifest.c | the list of done packages, the active calls | package_order, visit | order, completeness, cycles |
| Scopes of a program | scope.c | names of each module, children of types | program_add_package, compute, module_scope, module_exports | recursion over imports with builtin modules, entries compared by address, errors on cycles |
| Layout | layout.c, parse.c | the stack of contexts, the tokens not read yet | layout, open_block, close_block, semis | the parse-error rule: the parser closes blocks that the layout pass believes open, and edits the stream ahead of it |
| Lexer | lexer.c, tokens.c, unicode_tables.c | a position | one scan | which words that touch are one token: ticks and characters, `(#`, operators |
| Parser | parse*.c | a token index | one function per production | looking ahead for an arrow, reading again from an earlier token, what a production reads and drops |
| Printer | print.c | none | prints trees | parentheses are in the tree, white space is not: two words may become one |
| Fixity | fixity.c | the fixities in scope, a chain of tokens | resolve operator chains | precedence with negation, left and right at one level |
| Resolver | resolve.c | stacks of local names and type variables, the next number | one case per syntax node | stacks cut back by hand, binders found again by name, numbering that starts again |
| Dumps | compare.c, record.c, debug.c | a renaming | sort records, compare two dumps | the renaming must be one to one |
| Maps and vectors | strmap.c, util.c | sorted arrays | get, put | none |
| Manifests | manifest.c | none | read .cabal files | text |
| Preprocessor | cpp.c | the stack of conditionals | lines | nested and skipped conditionals |
| Types | tc_type.c | meta variables with levels | unify, occurs, reduce families, generalize | levels that are lowered late, a failed unification that has changed something |
| Solver | tc_solve.c | wanteds, givens, levels | solve, improve, default | order of wanteds, sharing of dictionaries |
| Inference | tc_expr.c | binding groups, environment | infer_scc, tc_check_binding | what is generalized, where dictionaries are bound |
| Declarations | tc_decl.c, tc_derive.c | type constructors, constructors, values, classes, instances | declare names, fill synonyms and classes, declare constructors, add, derive and check instances | declarations that refer to each other, synonyms unfolded before they are known, bound variables of nested schemes |
| Desugarer, Core | desugar.c, core.c | the frames in scope, the local names, the globals so far, the modules reached | reach, declare and define modules; one case per expression, pattern and declaration | order of matching and its laziness, fall-through, addresses that depend on the depth of the frames |
| Driver | main.c, sys.c | files and processes | the commands | I/O |

What makes each part correct:

* *Heap.* While the mutator runs no pointer leads out of the current space; the
  words in use are those of the objects and pass the end of the block by no more
  than the mutator took beyond its reservation; each malloc'ed block
  has one role; only reachable objects are copied; a collection changes nothing
  the machine can see and ends.
* *Machine.* It computes what a program means, wherever collections happen. No
  local survives a collection unless it is a root; a thunk is a black hole
  exactly while one update frame waits for it; a raise finds the run, the stack
  and the roots of its handler; values are never overwritten; effects are in
  the order of the state token.
* *Integers.* Every operation is exact and leaves the canonical representation.
* *Packages.* Each package comes after all it needs, all that the target needs
  come and no more, and a reported cycle is one.
* *Program.* A module fails only for a reason in the sources; what another
  module has read does not change; a scope is what its imports finally export.
* *Layout.* The parser sees the blocks that algorithm L of the Haskell report
  gives.
* *Declarations and inference.* A module that breaks a rule of the report for
  its declarations is rejected. The type found is the principal one, and a
  dictionary is evidence for the class it stands for, inside the instances and
  defaults of the module too.
* *Desugarer.* The Core of a program shows what the report says the program
  shows: a match takes the first clause that fits and forces no more than the
  report does. An address leads to the variable it was made for.
* *Resolver.* A name means what the innermost scope around it says; two dumps
  agree when they are the same up to the numbers of local names.
* *Parser and printer.* What is read, printed and read again is the same tree,
  and printing loses no token.

The hazards, each at its line, are in `PROJECT.json`; the properties below are
aimed at them.

## 2. The modules

`M <- N` reads "M extends N".

| Module | Models |
| --- | --- |
| `Heap` | reserve, alloc, gc and the in-place rewrites of objects: the collector of eval.c, step by step |
| `HeapInv <- Heap` | the refinement mapping from `Heap` to `ObjectGraph`, through forwarding pointers, and the inductive invariants `IInv`, `FullInv` and `GraphInv` |
| `ObjectGraph` | the abstract specification: a graph of nodes that the machine builds and rewrites; no spaces and no collector |
| `Induction` | induction on the natural numbers, the existence of functions defined step by step and closures of finite sets, as lemmas about sets |
| `HeapProofs <- HeapInv, Induction` | the proofs for `IInv`; sums of the sizes of objects, and the proofs for `FullInv` and `Advances` |
| `HeapGraph <- HeapProofs` | the proofs for `GraphInv` and the refinement |
| `Objects` | heap objects as the machine sees them: atoms, let binders, and `Collections`, a collection in one step |
| `Machine <- Objects` | machine(), run(), unwind(), call_prim and one primitive of each kind; which programs are scoped |
| `MachineEval <- Machine, Induction` | the inductive invariant `MachineInv`; proofs of what a collection and a reservation keep, of atoms and let groups, and of the steps of eval: and enter: |
| `MachineProofs <- MachineEval` | the proofs of the steps of ret:, of the primitives, of C code that runs the machine again and of unwind, of the first state, and the theorems |
| `MachineRoom <- MachineProofs` | sums of sizes along an expression, and the proofs that each step builds no more than it reserved |
| `Reference` | what Core programs mean, by substitution and without a heap; shared by the machine and the desugarer |
| `MCMachine <- Machine` | the programs and the comparison with `Reference` |
| `BigIntegers`, `MCBigIntegers` | Integer, with the widths of limbs and longs as parameters; the meaning of each operation |
| `PackageOrder`, `PackageProofs <- Induction` | the walk of package_order(), its inductive invariants `OrderInv` and `WalkInv` and the proofs |
| `Scopes` | own names, imports, exports, children: pure operators on scopes |
| `Program <- Scopes` | the order in which modules are computed: the active calls of compute() |
| `ProgramProofs <- Program, Induction` | the inductive invariants `StackInv`, `EntitiesInv`, `KnownInv`, `CauseInv` and `BuiltinInv` of that order and the proofs |
| `Lexemes` | tokens, and which of them open a block |
| `Layout <- Lexemes` | the layout pass, as a fold over the tokens |
| `Blocks <- Layout` | the parser's side: blocks that open, close by a virtual brace or close early |
| `AlgorithmL <- Lexemes` | the reference: algorithm L of the report |
| `Types` | types, predicates, evidence, matching, and the solver as operators on its lists (tc_type.c, tc_solve.c) |
| `Declarations <- Types` | types of the syntax to types, synonyms, data types, classes and instances, as operators on an environment (tc_decl.c) |
| `Infer` (with an instance of `Declarations`) | check_module(): the declarations, then expressions, patterns, clauses and binding groups, defaults and instances, unification step by step |
| `TypeSystem <- Types` | the reference: the types of the report, on sets and environments, without levels, evidence or an order of constraints |
| `InferCorrect <- Infer`, `MCInfer` | the properties of inference, with an instance of `TypeSystem` and a reading of the declarations by sections 4.1 to 4.4 of the report; the programs |
| `Desugar` | the two-pass resolution of an operator chain (fixity.c), and the desugarer: modules in the order of reach(), and the Core of each expression, pattern, clause, class and instance |
| `Report` | the reference: what the source programs mean by chapter 3 and 10.6 of the report |
| `DesugarCorrect <- Desugar`, `MCDesugar` | the properties: evaluation of the Core by `Reference` against `Report`; the programs |
| `Resolve <- Scopes` | resolve_module(): every kind of declaration, expression, pattern and type; records of a dump, their order and resolve_compare() |
| `ResolveCorrect <- Resolve`, `MCResolve` | the reference: environments of names; the modules |
| `Words` | words and the white space between them, and the tokens the lexer makes of words that touch |
| `Grammar <- Words` | the token index of the parser, its failures and what it builds, and the productions of parse_types.c, parse_pats.c, parse_exprs.c, parse_decls.c and parse.c |
| `Printer <- Grammar` | print.c: a tree as words and white space |
| `RoundTrip <- Printer`, `MCRoundTrip` | read, print and read again; the sentences |

How state and actions correspond to the code:

* `Heap`: `mem[s]` is the block s as a sequence of objects (`hp` is the sum of
  their sizes), `root` the registered locals, registers, stack and globals
  together; each of `Reserve`, `Begin`, `CopyRoot`, `StartScan`, `ScanField`,
  `NextObject`, `Again`, `Finish` is one loop step or branch of gc(). The
  mutator actions are the ways eval.c writes to the heap: `Alloc`, `Enter`
  (thunk to black hole), `Restore` (back, on an exception), `Update`,
  `Unpack` (packed string to cell), `Store` (a frame's slot, a mutable cell, a strict
  argument of a primitive), `Move`. alloc() has no check and `Alloc` no guard: the
  mutator may take more than it reserved (`reserved` is then negative). Once objects lie past
  the end of the block (`Overrun`) the behaviour of the code is undefined, and the model
  only repeats its state (`Undefined`); that the handlers of the machine stay within
  their reservations is the matter of `Machine`. An object has a `tag`, its
  order of birth, as a history variable for the refinement.
* `Machine`: pc names the labels of machine(); an action is what the code does
  from one label to the next goto. `runs` is the C stack: calls of run() with
  their base, previous jump target and number of roots. `Reserved` is
  reserve(): the machine as it was, or as a collection leaves it. `room` is
  what is left of the last reservation.
* `Program`: `calls` is the C stack of compute(), `modules` and `kids` the maps
  of the Program structure. Entities carry the call that allocated them, since
  `module M` exports compare addresses.
* `Layout` and `Blocks`: the pass makes the whole stream before the parser
  starts, as in the code. `rest` is the stream from p->idx on, which
  `CloseEarly` edits as close_block() does. The grammar is abstract: an item of
  a block may end before any token, and blocks, brackets and braces nest.
* `Infer`: `todo` is the stack of calls: a task is what a call, a loop body or
  the code behind a call has left to do. `ref` and `lvl` are the meta variables,
  `wanted` and `givens` the lists of the solver, `holes` every wanted there was,
  `locals` the environment. The notes that the typechecker writes into the
  syntax tree are `evs` (the dictionaries of an occurrence) and `dicts` (the
  parameters of a binding or a pattern), by the place in the program; a place
  is the path of child numbers that leads to it. The top-level bindings are
  inferred as a local group with nothing around it. `env` is what the maps
  `tycons`, `cons`, `values` and `classes` of the Tc structure hold: what is
  imported, until `Declare` adds the module's own in the order of
  check_module(). The defaults and the instances are checked after the bindings,
  each as a group whose type is known (`CheckBinding`).
* `Desugar`: one step reaches, declares or defines one module. The state holds
  what desugar_program() keeps from one module to the next; the frames and local
  names in scope are a record that each operator gets and hands on. The continuations of match() are records that name what is left to
  do. The overloading that the typechecker writes into the tree (`evs`) is part
  of the input.
* `Resolve`: one step resolves one declaration; `locals`, `tylocals`,
  `sig_scopes`, `bind_existing` and `next_local` are those of the Resolver
  structure. A name carries its place in the text, which stands for its span.
* `Words` to `RoundTrip`: a source is a sequence of words with the white space
  before each. A production is an operator from the index of a token to a tree
  and the next index, or a failure, and looks ahead and goes back where the code
  does. The steps are those of the commands: lex, parse, print, lex and parse
  again.
* `BigIntegers`: two variables hold any pair of Integer objects that a sequence
  of operations makes within a bound.

## 3. The runs

Deadlock is checked in `heap`, where the mutator always has a next step (or has overrun
the heap), in
`integers`, and in `names`, the `infer` runs and `resolve`, where a finished program
repeats its last step. The others stop where the modelled code returns. Where
the steps could go round, `Ends` (the machine, the packages) or `Advances` (the heap, the
modules, the solver) says that they stop; the others take one token or one stage after the
other.

| Run | Question | Instance | Why that is enough |
| --- | --- | --- | --- |
| heap | Is the heap right at every step of a collection, and does each collection end? | 2 roots, 3 blocks, 3 objects of 5 shapes (2 to 4 words and the header), 8 words that a collection may double once or twice, needs of 1 and 2 words; symmetric in roots and blocks | sharing, cycles, dead objects, a collection that keeps the size with a live object, a second one that starts in the spare space it left and keeps the size too or doubles it, and allocations beyond the reservation need no more objects; a third block is what the code has at most. gc() never frees a spare space of another size: it always has the size of the heap (`Ownership`), so that the next collection starts in it and free(spare) only ever gets NULL |
| machine | Does the machine compute what programs mean? | about 170 programs, two collections at any reservations | the programs are all let groups of two binders over the forms that bind_atom tells apart, and hand-written ones that take every branch of unwind, run and the primitives |
| machine_room | Does every allocation have its reservation? | the programs with mutable cells | violated, see section 6 |
| packages | Is the package order right? | all dependency lists of 3 packages and one foreign name, all targets | a package twice in a list changes nothing after its first visit |
| names | Are scopes and exports right? | all import graphs of 3 modules and one missing; a base package of 4 modules with one or two builtin ones and a module above; two modules that import a third in 9 ways, with 6 export lists; four modules around one that bundles a pattern synonym; two packages of which the first may need the second; a module with one construct of each kind that is refused | cycles through one, two and three modules; each kind of import and export item meets each other; each reason to fail meets modules that lead to it |
| layout | Does the parser see what algorithm L gives? | all sources of 4 to 6 tokens in seven families, at columns that are left of, at and right of each other, with brackets and braces that close one another on one line | three nested contexts fit into five tokens |
| integers | Is Integer exact? | limbs of 2 bits, longs of 4 bits, values to 70 | values up to four limbs: every carry, borrow and sign, and both sides of the border of a long |
| infer | Are the declarations, the types, the levels and the dictionaries right, and does the solver end? | 1350 programs of recursive groups of three bindings, local functions and values, signatures, patterns with an existential constructor, local bindings under givens, over five imported classes with superclasses and instances; 1705 programs with data types, fields, synonyms, classes and instances of their own | each family crosses the forms of one binding or declaration with the uses of it; more than a third of the programs have no type, for every reason there is |
| infer_shadow | Is a group split by its dependencies? | four groups of two, with a name bound again inside | violated, see section 6 |
| desugar | Does the Core of a program mean what the report says the program means? | nearly 2800 programs: 28 patterns and more in each of the places a pattern may stand, against arguments that fit, do not fit or fail; guards; operator chains up to four operators with prefix minus; statements, comprehensions, records, classes, instances, imports; longs to 15, with literals at and beyond both ends | each form of pattern meets each kind of argument and each continuation behind it; two arguments and two clauses show the order of matching |
| resolve | Does each name mean what its scope says, and does the comparison of dumps accept exactly the same resolutions? | 1188 modules; names from two or three letters in every nesting of arguments, groups, lambdas, statements and alternatives, and in view patterns of local pattern bindings; signatures and bindings of one name in every order of three declarations; each form once; dumps with one record or one id changed | two letters are enough for a name to shadow or to miss another one, and the nestings are three scopes deep; the two exceptions concern 361 of these modules, and only their names under `StrangeScope` and `StrangeBinder` |
| roundtrip | Is what is read, printed and read again the same, with no token lost? | 9735 sources: each form of type, pattern, expression, declaration, import and export with each smaller form in it | forms two deep show every pair of words that can touch and every way a production looks ahead |

Bounds by name: `MaxBorn` (objects made), `MaxSize` (words of a space), `MaxGC`
(collections in a behaviour of the machine), `Fuel` (steps of the reference;
a program without a value has the meaning "no value"; 150 for the desugarer, where the run checks that no meaning is cut off), `Bound` (values of
Integer), `Inputs`, `Sources` (the sources or programs of a run), `Dumps` (the dumps that are compared with a module's own). The widths `LIMB_BITS` and
`LONG_BITS` are parameters of the code's algorithm, not bounds.

Fairness: `FairSpec` of `Machine` and `PackageOrder` is weak
fairness of Next. The code is one thread that runs until it returns, so a step
that is possible happens. Nothing else is assumed. `Heap`, `Program` and `Infer`
show that they end without fairness: `Advances` gives a measure that falls with
each step of a collection, of the recursion over imports, or with each repeated round
of the solver, and deadlock is checked.

The properties, and what each would catch, are stated above each definition in
the modules. Those that carry most:

* `RefinesGraph`: every step of the collector, in all its rounds, is invisible
  to the machine. It holds through states where half of the objects have moved
  because the mapping looks through forwarding pointers.
* `AgreesWithMeaning`: with collections anywhere, the machine ends with the
  value, the exception or the loop that the program means.
* `StackConsistent`: exceptions restore exactly the thunks that were under
  evaluation, and a raise finds its handler's run.
* `NoStale`: nothing is used after a collection moved it, and nothing empty is
  entered.
* `Settled`, `Consistent`, `SameObject`: recursion over modules gives one
  answer.
* `FollowsLUnlessShadowed`: the two halves of the layout rule together do what
  the report's one function does.
* `Exact`, `Canonical`: arithmetic.
* `AgreesWithReport` of inference: the code accepts what the report accepts, with the same
  schemes, and nothing else but four things: a skolem that escapes, which
  docs/PLAN.md says is not checked, a context that is not on a variable, a field
  whose type differs between constructors, and instances that overlap. And it
  rejects one thing that the report accepts: a literal pattern whose classes
  only the constructor around it brings. Whether
  the built compiler accepts a program was compared with the model for all
  programs with declarations.
* `LevelsSound`: what is generalized is not free in the environment.
* `EvidenceFits`: each dictionary of a module that passes proves its class at its
  type from what is bound at that place, and as many are passed as are taken.
* `AgreesWithReport` of the desugarer: the Core, evaluated, shows what the report
  says the source shows, its errors and its laziness included, but for three
  deviations that `Report` has as a parameter. `WellFormed`
  holds the addresses also in code that no evaluation reaches.
* `AgreesWithReport` and `AgreeExactly` of the resolver: each name has the
  meaning that environments give it, with two exceptions that the property names
  (section 6), and a dump is accepted exactly when it is the same
  up to the choice of ids.
* `RoundTrips`: every sentence of the grammar is read, printed without the loss
  of a token and read again as the same tree, and the exceptions (section 6) are exactly those
  that the property lists. Acceptance, printed text and acceptance of the
  printed text of all its sources were also compared with the built compiler.

## 4. The proofs

TLAPS checks these for all values of the constants; TLC has checked the same
formulas on the instances above.

*Heap* (`HeapProofs`): `Invariance` (IInv is an invariant), and from it
`TypeCorrect`, `NothingDangles` and `BlocksOwned`. NoDangling is not inductive: it says
nothing while a collection runs. `IInv` adds what is true in between: in a
round, a root not yet copied refers to the from-space and a copied one to the
to-space; an object of the from-space is whole or forwards to an object of the
to-space; an object of the to-space refers to the to-space in the fields behind
the scan pointer and to the from-space in those ahead of it. The proof has one
lemma for each action; `CopyLemma` says what copy() does to a pointer, a memory
and all pointers that others hold, and is what CopyRoot and ScanField rest on.
Assumptions: `SizeAssumption`, `ShapeAssumption` and `NameAssumption` of `Heap`
(sizes are natural numbers, an allocation has the shape its kind needs, NULL
and static objects are no addresses).

*Room and garbage* (`HeapProofs`): `FullInvariance`, and from it `CollectionsKeepRoom` and
`NothingCopiedInVain`. `Room` is the collector's half of the rule of allocation: it
holds for a mutator that allocates more than it reserved too, and says that the heap
passes the end of its block by no more than that. The other half, that the handlers of the machine do not
but for those of `machine_room`, is `RoomIsKept` (below). `FullInv` adds to `IInv` the room of every space, and two
parts that make it inductive. `Fits`: during a round, the words already copied
and the words not yet moved fit in the to-space together; copy() moves an
object from one sum to the other, because it leaves a forwarding pointer.
`Sourced`: each object of the to-space is the target of a copied root or of a
scanned field of an *earlier* object, so that at the end of the round following
sources back leads to a root. The sums and `Reached` are recursive functions;
the lemmas about `Totals` say what they are for every sequence of objects. They rest
on `Induction`, which states induction for a set instead of a predicate and derives
it from the well-foundedness of the finite sets 0 .. n.

*Collections end* (`HeapProofs`): `CollectionsAdvance`. The measure of a collection
counts rounds, roots, objects and fields; that it falls needs two more parts of
`FullInv`. `Fits` also bounds what is copied by what the heap held when the
collection began (`hp`), so that a round that does not end the collection had
too small a space; `Counted` says that the to-space has one object for each
forwarding pointer, so that what is left to scan is bounded by what the
from-space held. Assumption: `SlotAssumption` (the registered locals, registers,
stack and globals are finitely many).

*Refinement* (`HeapGraph`): `GraphInvariance`, and from it `Refines`: the heap
implements `ObjectGraph`. A node is an object's tag, kind and fields as they are
seen through forwarding pointers. `TagInv` adds to `FullInv` that no two objects
in use have one tag and that a forwarding pointer leads to the copy with the tag of
the object it replaced; so the tags are the bijection between objects and nodes,
at every point of a round. The lemmas on `Reachable` say that it is the least set
of addresses that is closed under the fields, by `LeastClosure` of `Induction`, as
there are at most `MaxBorn` objects in use. A step of the collector leaves the
reachable nodes as they are; a step of the mutator is the step of `ObjectGraph`
with the same name. Assumption: `TagAssumption` (a static object's name is not a
number, as tags are).

*Machine* (`MachineEval`, `MachineProofs`): `MachineInvariance`, and from it
`NothingStale`, `StackIsConsistent` and `ValuesAreKept`, for every scoped program and
collections at any reservations. Neither NoStale nor StackConsistent is
inductive: that what comes next is fresh depends on what every frame, register
and object leads to, and where the stop frames are on what each run remembers.
`MachineInv` says so for all of them:

* Each object is `Good`: its pointers are what the code behind its kind takes
  them for. A function, thunk or black hole has an environment that *fits* its
  code (`Fits`, `EnvFits`): as many frames as the scope of the
  expression, each with at least its slots, so that a variable finds a value and not another
  pointer. A partial application has no more arguments than its callee takes
  (`Callee`).
* Each frame is `FrameOK`: a CASE frame has an environment that fits its
  alternatives, a PRIM frame the whole application of its primitive.
* `HolesMatch`: a black hole has an update frame and one only. That is StackConsistent's
  first half; it is kept by an exception because unwind turns a hole back with the code and environment
  that the hole kept.
* `RunsOK`: the stop frames are those just above the bases of the active runs, the
  bases and roots grow from run to run, and a nested run stands on the PRIM frame
  of the primitive that started it. So a raise pops as far as the base of the run it
  jumps to, and the roots that are cut are those registered since.
* `PcOK`: what each label of machine() finds in the registers.

`CollectionKeeps` says that a collection moves all of this at once (`MovedPointer`: a pointer from a root
leads to a copy of the same object, whose pointers lead on likewise). For
each action a lemma with the action's name and `Keeps` shows MachineInv of the next state and that the values stay
(`Stays`, from which `ValuesAreKept` follows); objects are only appended
(`AtomMade`, `GroupMade`), rewritten in place where `Good` allows it, or moved.
`InitKeeps` follows the loop over the globals in eval_run(). Assumptions: `CodeAssumption` (each
expression of a program is scoped: variables have a frame and a slot, constructors all their fields;
that the Core of the desugarer is so is `WellFormed`, which TLC checks in `desugar`),
`ConArityAssumption` (the constructors that the machine itself builds have the fields it gives them),
`MaxGCAssumption` and `MaxNestAssumption` (the bounds are numbers). TLC checked MachineInv on
the instance of `machine` before it was proved.

*Room of the machine* (`MachineRoom`): `RoomIsKept`, that `RoomKeptOtherwise` holds: a step
builds no more words than it reserved, or reserves nothing and builds nothing (`BuildsNothing`).
Its only exceptions are `Overdraws`: the two primitives that
call new_cell, and a packed string whose first character has no static object. Those
reserve a word too few (section 6); the property says that no other step does, also
after one of them. The sizes that the code computes before a reservation are sums over
an expression, and what is built behind it is a list of objects; so the proof follows the expression and
compares part by part. `Took` says of a heap that it is another one and objects
of at most so many words behind it:

* `AtomRoom`: atom() takes at most atom_size(), by induction on the depth of constructors within constructors
  (`SimpleRoom`, `FieldsRoom`, `ConstructedRoom`).
* `BindRoom`, `BinderRoom` and `GroupRoom`: a binder of a let takes at most bind_size(). Where it
  is an atom that reads the frame of its own group it is a thunk of three words, which is why
  bind_size() differs from atom_size(); a variable of an outer frame takes none. The frame of the group
  and the binders, built one after the other, take at most `GroupSize`.
* One lemma for each action that reserves. What a handler counts after a
  collection - the fields of the matched constructor, the arguments of a partial application -
  is what it counted before, because a collection keeps kind, code and number of fields (`Kept`, from `MachineInv`).
* `GlobalsRoom`: the loop of init_globals() takes at most what it summed up first.

`MachineInv` is needed throughout: that what runs is an expression of the program, whose
constructors have all their fields, and that objects have the fields of their kind. No
assumption is added to those of `MachineInvariance`.

*Packages* (`PackageProofs`): `OrderInvariance`, and from it
`DependenciesComeFirst` and `CycleIsReal`. DependenciesFirst alone is not
inductive: when a call returns, its package's dependencies must be done, which
`PassedAreDone` says of each active call up to its loop counter.
`WalkInvariance`, and from it `ExactlyTheNeeded`. `WalkInv` adds
that the first call is the target's and that what is done or active is in the
target's closure. The lemmas `ClosureLeast` and `ClosureClosed` say that `Closure`,
which is computed in as many steps as there are packages, is the least closed set: as long as
a step finds something new, the set has more members than steps were made.
Assumption: `PackageAssumption` (packages are finitely many, dependency lists are
lists of names).

*Names* (`ProgramProofs`): `StackInvariance`, and from it `Settles` and `Terminates`. That an entry
never changes is not inductive: compute() overwrites the entry of an active
module that was found on an import cycle when it returns from it, and the new
entry is the same only if the module fails. So `StackInv` has, for
each such module, a chain of imports up the stack to a call that
needs a module which already failed (`Doomed`); an entry of an active module is
the error (`ActiveFails`); no module is active twice (`ActiveOnce`); and where a
builtin module was visited in between, there is a set of modules, closed under
what its modules need, with the upper call in it and the lower one outside
(`NoWayBack`), so that no chain of a cycle crosses such a visit. That set is what
reaches_active() explored. Assumptions: `InputAssumption` (packages, imports, their items, exports and
builtin modules are finite lists, and an export is a name or a module), and `PreludeAssumption`: where there are
builtin modules, the package that has Prelude does not import it
implicitly. reaches_active() (scope.c:847-870) follows the imports that are
written and not the implicit one, so without the assumption `Settled` is false: a
builtin module that imports Prelude implicitly, visited for a module that
Prelude imports, takes the active Prelude for a cycle, which the comment
at scope.c:908-910 rules out. `vendor/base/base.cabal` sets NoImplicitPrelude for
the package, which is why the program is in no such state.

`Terminates`: each step of compute() lowers the measure of `Advances` (the packages and
modules still to start, the modules not yet visited, the height of the stack, the imports
that the last call has still to visit). A module that is called leaves `Unvisited`, and one
that returns is known, so it does not come back; this rests on `StackInv` only
for the types and for Source, the first module of a name.

`EntitiesInvariance`, and from it `SameObjects`: two objects for one entity would come from
two calls of own_scope() for one module, one for the scope and one for the exports.
`EntitiesInv` says that there is one object for each entity among all that
is exported, that what is exported was defined by modules that are known, and that
each scope has one object for each entity. When a module
finishes, it is not known (or it was on a cycle, and fails), so what it defines is new; its
imports give only what others export, whatever their items and aliases are
(`ImportFacts`, `UnionFacts`, `ScopeFacts`); and its exports are its own, its imports' or, for
`module M`, what the scope holds twice (`ExportFacts`). The loops over imports, items and
exports are recursive functions on 0 .. n; that one exists and what each of its
steps keeps are `FiniteRecursion` and `LoopKeeps` of `Induction`.

`KnownInvariance`: what is known when. `KnownInv` says that all modules of earlier
packages are known, and of this one those that were started and returned; that each active
call was made for a need of the one below it or for a builtin module; and of each site that a
call has passed that its module is known, or is the call above it, or is a builtin module
that was left out because one leads back to the call (`Passed`). The last case is where
reaches_active() says no, and the proof shows that it can do so only then: the modules it
followed are led to by the builtin module, and the active module it found leads to the
top of the stack unless a builtin module was visited in between, which then does
itself (`ReachSound`, `SkipReason`, `Linked`). So when a module finishes, each module
that it needs is known, or in no package so far. The notion "leads to" is `Leads`, the least
set closed under `Required` by `LeastClosure` (`LeadsFacts`): a recursive function
that runs for as many steps as there are names.

`CauseInvariance`, and from it `FailsExactly`. An entry that resolves is `Sound`: all that
its module needs resolves, is in no later package and leads back nowhere, and nothing
in it is refused. One that fails has a `Reason` among what it leads to. In one direction
an import that fails hands its reason on, and an import of an active module is a chain of needs
up the stack and so a cycle; in the other, soundness goes down the closure step by
step. That imports go through exactly when no item is refused (`SelectFacts`,
`ImportOk`, `ExportOk`, `ScopeOk`) needs that the children of each type are at least those
it declares (`KidsDeclared`), which holds although the map of children grows in the order of
the modules and is overwritten by a later package (`DeclaredFacts`, `ExportLoop`). The exactness has one gap,
which is the code's: an item `T(P)` for a `P` that some module bundles with T is refused
or not according to that order (`Doubtful`).

`BuiltinInvariance`, and from it `BuiltinNames`: a module that resolves has the `:` of each
builtin module of its own or an earlier package that exports it, when no builtin module
leads to it: by `KnownInv` the builtin module was not left out, and the names
that builtin_scope() adds are never hidden by ones added before (`BuiltinGiven`,
`BuiltinLoop`, `ScopeHolds`). TLC checked all five invariants on the instance of `names`.

Only model-checked:

* what the machine computes: `AgreesWithMeaning` compares with `Reference`, which
  is RECURSIVE on expressions, and in its presence the prover has no SMT backend; `CellsKeepOrder`
  is stated with it in `MCMachine`;
* `Balanced` and the other properties of the layout, and `Exact` and `Canonical` of the
  integers: what a fold over tokens and what arithmetic over limbs compute for
  every input is an induction over data;
* inference, the desugarer, the resolver and the grammar: RECURSIVE operators on
  types, expressions and sources;
* `Consistent` of the program's names: it rereads every scope with the children of types as they are
  at the end, when more synonyms may be bundled than the scope saw, so its proof needs an
  invariant for what was bundled by which modules at the time (section 7);
* liveness (`Ends` of the machine and the packages): the prover does not do fairness or ENABLED.

## 5. What is not modelled

* The reader of .cabal files and the text forms of dumps are
  functions of a text with no states between, and the repository tests them
  against reference outputs. The preprocessor runs clang. Of the lexer, the characters inside names, numbers and
  strings, the comments and the Unicode tables (generated) are left out.
* `Grammar` reads sources with explicit braces; the layout rule is in `Blocks`,
  where the grammar inside items is abstract. So that `lhs()` goes back over tokens
  that the parser has removed is not modelled (a hazard with a note). A source on which the layout
  pass itself fails, for want of a `}`, is not parsed by the code either.
  `AlgorithmL` leaves parse-error(t) free, because what is a parse error is the
  grammar's. Multi-way `if` is not in the report; sources with it are checked
  for balance only.
* Text: `Words` has the characters of the spellings that the lexer may read in
  another way when they touch (character literals, names with a prime,
  operators that begin with `#`); every other spelling is one word.
* Spans: trees and records have no positions but the order of names.
* Of the desugarer: unboxed tuples, overloaded strings, fractional literals and
  the text form of Core. Of the resolver: nothing but the widths of spans.
* Strings, characters, memory and console primitives of the machine, except one
  of each kind; fixed-width `Int` arithmetic.
* Error messages and source positions.
* Of the typechecker: types of higher rank, classes with several parameters,
  functional dependencies, type families, `Typeable`, coercions, record
  expressions, statements, operator sections and scoped type variables. The
  context that an instance needs (`FromInstances`) is the same
  operator in the code's model and in the reference, so a flaw in it alone
  would show in `EvidenceFits` only.
* Builtin modules that import Prelude implicitly: the vendored base turns the
  implicit import off in them. (With it, a builtin module can make
  modules that do not import each other "mutually recursive".)
* Of declarations: derived instances, GADTs, type families, default
  signatures, pattern synonyms and foreign imports; instance contexts that are
  not on variables of the head (on a larger type the solver of the code does not
  end, on a variable that the head lacks it makes a new unknown for each use);
  kinds, which the code does not check. A binding in a class body that is no
  method of the class is dropped by the code without a word.
* The maps of strmap.c are functions in the modules: they are sorted arrays, and
  nothing above them sees more than what put and get say.

## 6. Disagreements found

* `new_cell` reserves two words and allocates three, and two string operations
  do the like (`machine_room`). No other step of the machine does (`RoomKeptOtherwise`, proved).
* A local variable with the name of a binding of the same group makes one
  component out of two (`infer_shadow`), so a function is monomorphic where it
  need not be and some well-typed modules are rejected.

Met while modelling, and stated as an exception of a passing property, which so
says exactly when they happen:

* A block that the parser closed early still makes the layout pass believe that
  a later block is empty (`Shadowed` in `FollowsLUnlessShadowed`).
* A record's braces do not suspend the layout rule: fields at the column of the
  block around are a syntax error. Without the records that
  `RejectsOnlyErrorsOutsideRecords` leaves out TLC finds it.
* The parser drops a part of what it reads (`kept` in `RoundTrips`): the items
  of a tuple before a left section (`(a, b +)` is `(b +)`), the qualifier of an imported
  name, the second `qualified` of an import, the second result name of an
  injectivity annotation, the keyword `instance` of a type family, and the
  keyword of an associated `newtype` or data instance.
* The parser rejects Haskell (`accepted` in `RoundTrips`): a pattern whose
  signature has an arrow, a statement whose pattern does, a pattern `(# x, y #)`
  before `<-` or `->`, an infix definition with more arguments, and a pattern
  binding `x :: T = e`.
* The printer writes two words together that the lexer then reads as one
  (`Touches`): `- \x`, `x@ ~y`, `~ !y`, `'[ 'A` and `'[ 'a'`, and with unboxed
  tuples `( #` and every operator in parentheses that begins with `#`, as `( #+ )`.
* The resolver scopes the type variables of the last signature of a name over
  a binding of that name, although it is a signature of another group or of a
  class, and does not scope those of a signature that comes after its binding
  (`StrangeScope` in `AgreesWithReport` of the resolver: `sig_scopes`,
  resolve.c:1366-1378, is never cut back).
* In the expression of a view pattern in a local pattern binding the resolver
  takes a variable for one of its name that was bound since the group began,
  and after a pattern binding inside it the remaining variables of the group get
  new ids (`StrangeBinder`: `bind_existing`, resolve.c:778-781 and 895-907, stays
  set in there and is reset by the inner binding). So in `let ((\x -> x) -> x) = e` the
  lambda's x is the group's.
* A skolem may escape, a context may be on a type that is no variable, a field
  may have another type in each constructor (its selector has that of the
  first) and instances may overlap, the first one wins (`AgreesWithReport` of
  inference).

* A literal pattern under a constructor does not see the context that the
  constructor brings, so `f (MkN 0)` is rejected (`AgreesWithReport` of
  inference, the reason "literal").
* A literal of type Integer wraps like a C long, an infix constructor with a
  context loses its dictionary, and a view pattern under a `~` sees the variables
  that the pattern binds (`Deviations` in `AgreesWithReport` of the desugarer; if one
  of them is left out of the parameter, TLC finds the program that needs it).
* A pattern synonym bundled with a type is a child of it in every module that is
  computed later, also in those that do not import the bundling module (`Loose`
  in `Consistent`), and whether an import of it with the type is refused depends on the
  order of the modules (`Doubtful` in `FailsForCause`).

Three hazards in `PROJECT.json` have a note and no property: what two of them need, type
classes of several parameters and layout inside view patterns, is not modelled; on
the third, bundled pattern synonyms, the code depends on the order of the modules,
and the properties leave its names out.

## 7. Plan

Done, in this order: the heap, the machine, the packages, the scopes, the
layout, the integers, the core of type inference with the declarations it
rests on, the desugarer with fixities,
the resolver with the comparison of dumps, the grammar with the printer; the
proofs of the heap with its refinement and its termination, of the machine's stack, frames,
pointers and room, of the packages, and of the names (stable entries, one object for an entity, termination, the reasons to fail, the
builtin names).

Next, by importance:

1. The rest of the solver and of inference: functional dependencies and
   improvement, type families, higher rank, statements and records.
2. Derived instances (tc_derive.c) in `Declarations`, their meaning with
   `Desugar`. The context the code derives is known to differ from the report's: it
   asks for the class at each parameter that occurs in a field.
3. The characters of tokens: literals and comments of the lexer.
4. Proofs: `Consistent` of `Program`, from `EntitiesInv` and what each import gave when its
   module was finished; that a repeated round of the solver has less to do (`Infer`).
