---------------------------- MODULE PackageOrder ----------------------------
(***************************************************************************)
(* The order in which the vendored packages are loaded (src/manifest.c,    *)
(* package_order and visit): a depth-first walk of the dependencies that   *)
(* the .cabal files list, from the target package.  program() adds the     *)
(* packages in this order, and a package only sees the modules of the      *)
(* packages before it.                                                     *)
(***************************************************************************)
EXTENDS Integers, Sequences, FiniteSets

CONSTANTS
    Name,      \* the names that a .cabal file can list
    Package,   \* those that are vendored
    Lists      \* the dependency lists of the .cabal files

ASSUME PackageAssumption ==
    Package \subseteq Name /\ IsFiniteSet(Package) /\ Lists \subseteq Seq(Name)

VARIABLES
    depends,   \* what each package lists, in the order of the names
    target,    \* the package that is asked for
    calls,     \* the active calls of visit(): [pkg, i], with the next dependency
    done,      \* the packages in order
    report,    \* the names of the error message
    status     \* "running", "ordered", "cycle" or "missing"

vars == <<depends, target, calls, done, report, status>>

Elems(s) == {s[i] : i \in DOMAIN s}
Active == {calls[k].pkg : k \in DOMAIN calls}
Top == calls[Len(calls)]

\* A dependency that the walk follows: another vendored package.
Followed(p, d) == d \in Package /\ d # p

\* The loop of the top call goes on after the dependency at hand.
AdvancedPast(n) == [calls EXCEPT ![Len(calls)].i = @ + n]
AdvancedTwice == AdvancedPast(2)
Advanced == AdvancedPast(1)

Running == status = "running"
More == Running /\ Top.i <= Len(depends[Top.pkg])
Dependency == depends[Top.pkg][Top.i]

SkipStays == More /\ UNCHANGED vars

SkipActive ==
    /\ More
    /\ ~Followed(Top.pkg, Dependency) \/ Dependency \in Elems(done) \cup Active
    /\ calls' = Advanced
    /\ UNCHANGED <<depends, target, done, report, status>>

Skip ==
    /\ More
    /\ ~Followed(Top.pkg, Dependency) \/ Dependency \in Elems(done)
    /\ calls' = Advanced
    /\ UNCHANGED <<depends, target, done, report, status>>

EnterPreorder ==
    /\ More
    /\ Followed(Top.pkg, Dependency) /\ Dependency \notin Elems(done) \cup Active
    /\ calls' = Append(Advanced, [pkg |-> Dependency, i |-> 1])
    /\ done' = Append(done, Dependency)
    /\ UNCHANGED <<depends, target, report, status>>

Enter ==
    /\ More
    /\ Followed(Top.pkg, Dependency) /\ Dependency \notin Elems(done) \cup Active
    /\ calls' = Append(Advanced, [pkg |-> Dependency, i |-> 1])
    /\ UNCHANGED <<depends, target, done, report, status>>

CycleOpen ==
    /\ More
    /\ Followed(Top.pkg, Dependency) /\ Dependency \in Active \ Elems(done)
    /\ report' = [k \in DOMAIN calls |-> calls[k].pkg]
    /\ status' = "cycle"
    /\ UNCHANGED <<depends, target, calls, done>>

\* The message names the active packages, and the one that closes the cycle.
Cycle ==
    /\ More
    /\ Followed(Top.pkg, Dependency) /\ Dependency \in Active \ Elems(done)
    /\ report' = Append([k \in DOMAIN calls |-> calls[k].pkg], Dependency)
    /\ status' = "cycle"
    /\ UNCHANGED <<depends, target, calls, done>>

Leave ==
    /\ Running /\ Top.i > Len(depends[Top.pkg])
    /\ done' = Append(done, Top.pkg)
    /\ calls' = SubSeq(calls, 1, Len(calls) - 1)
    /\ status' = IF Len(calls) = 1 THEN "ordered" ELSE "running"
    /\ UNCHANGED <<depends, target, report>>

Init ==
    /\ depends \in [Package -> Lists]
    /\ target \in Name
    /\ calls = IF target \in Package THEN <<[pkg |-> target, i |-> 1]>> ELSE <<>>
    /\ done = <<>> /\ report = <<>>
    /\ status = IF target \in Package THEN "running" ELSE "missing"

Next == Skip \/ Enter \/ Cycle \/ Leave

Spec == Init /\ [][Next]_vars

\* One thread that nothing stops.
FairSpec == Spec /\ WF_vars(Next)

-----------------------------------------------------------------------------
(* Properties                                                              *)

Needs(p) == {d \in Elems(depends[p]) : Followed(p, d)}

\* What the walk finds out of p: p and the packages that p needs.
Closure(p) ==
    LET step(S) == S \cup UNION {Needs(q) : q \in S}
        f[n \in Nat] == IF n = 0 THEN {p} ELSE step(f[n - 1])
    IN  f[Cardinality(Package)]

\* A package comes after all the vendored packages it depends on: when
\* program() adds it, the modules it imports are there.
DependenciesFirst ==
    \A k \in DOMAIN done : \A d \in Needs(done[k]) : \E j \in 1 .. k - 1 : done[j] = d

\* No package is added twice.
NoRepeats == \A j, k \in DOMAIN done : done[j] = done[k] => j = k

\* The packages in order are those that the target needs, all of them and no
\* other, and no cycle of dependencies goes unnoticed.
ExactlyNeeded ==
    status = "ordered" =>
        /\ Elems(done) = Closure(target)
        /\ \A p \in Closure(target) : \A d \in Needs(p) : p \notin Closure(d)

\* The cycle that the error names is one: each package depends on the next,
\* and the last one is among the others.
CycleReported ==
    status = "cycle" =>
        /\ \A k \in 1 .. Len(report) - 1 : report[k + 1] \in Needs(report[k])
        /\ \E k \in 1 .. Len(report) - 1 : report[k] = report[Len(report)]

\* The walk ends.
Ends == <>(status # "running")

-----------------------------------------------------------------------------
(* The inductive invariant, for the proofs of PackageProofs.               *)

Call == [pkg : Package, i : Nat \ {0}]

TypeOK ==
    /\ depends \in [Package -> Lists]
    /\ target \in Name
    /\ calls \in Seq(Call)
    /\ done \in Seq(Package)
    /\ report \in Seq(Package)
    /\ status \in {"running", "ordered", "cycle", "missing"}
    /\ Running => calls # <<>>

\* No package is active twice, or active and done.
ActiveOnce ==
    /\ \A j, k \in DOMAIN calls : calls[j].pkg = calls[k].pkg => j = k
    /\ \A k \in DOMAIN calls : calls[k].pkg \notin Elems(done)

\* What the loop of a call has passed is done, or is the call above it.
PassedAreDone ==
    \A k \in DOMAIN calls : \A j \in 1 .. calls[k].i - 1 :
        LET d == depends[calls[k].pkg][j]
        IN  j \in DOMAIN depends[calls[k].pkg] /\ Followed(calls[k].pkg, d) =>
                \/ d \in Elems(done)
                \/ k < Len(calls) /\ j = calls[k].i - 1 /\ calls[k + 1].pkg = d

\* A call was made by the call below it, for a dependency.
CallsAreNeeded ==
    \A k \in 1 .. Len(calls) - 1 : calls[k + 1].pkg \in Needs(calls[k].pkg)

OrderInv ==
    TypeOK /\ ActiveOnce /\ PassedAreDone /\ CallsAreNeeded
    /\ DependenciesFirst /\ NoRepeats /\ CycleReported

\* The walk starts at the target, and ends when the target is done.
Rooted ==
    /\ calls # <<>> => calls[1].pkg = target
    /\ status = "ordered" => calls = <<>> /\ target \in Elems(done)

\* The walk visits only what the target needs.
OnlyNeeded == \A p \in Elems(done) \cup Active : p \in Closure(target)

WalkInv == OrderInv /\ Rooted /\ OnlyNeeded
=============================================================================
