--------------------------- MODULE PackageProofs ---------------------------
(***************************************************************************)
(* Proofs about the order of the packages: OrderInv is inductive, so the   *)
(* order is right for every set of packages and every dependency list; and *)
(* so is WalkInv, so package_order finds exactly what the target needs,    *)
(* and what it accepts has no cycle.                                       *)
(***************************************************************************)
EXTENDS PackageOrder, FiniteSetTheorems, Induction, TLAPS

\* While the walk runs there is a top call, and its next dependency is a name.
LEMMA TopCall ==
  ASSUME TypeOK, calls # <<>>
  PROVE  /\ calls \in Seq(Call) /\ Len(calls) \in Nat \ {0}
         /\ DOMAIN calls = 1 .. Len(calls)
         /\ \A k \in 1 .. Len(calls) : calls[k] \in Call
         /\ Top \in Call /\ Top = calls[Len(calls)]
         /\ Top.pkg \in Package /\ Top.i \in Nat \ {0}
         /\ depends[Top.pkg] \in Seq(Name)
  <1>1. calls \in Seq(Call)
    BY DEF TypeOK
  <1>2. Len(calls) \in Nat \ {0} /\ DOMAIN calls = 1 .. Len(calls)
    BY <1>1
  <1>3. \A k \in 1 .. Len(calls) : calls[k] \in Call
    BY <1>1, <1>2
  <1>4. Len(calls) \in 1 .. Len(calls)
    BY <1>2
  <1>5. Top \in Call /\ Top = calls[Len(calls)]
    BY <1>3, <1>4 DEF Top
  <1>6. Top.pkg \in Package /\ Top.i \in Nat \ {0}
    BY <1>5 DEF Call
  <1>7. depends[Top.pkg] \in Lists
    BY <1>6 DEF TypeOK
  <1> QED
    BY <1>1, <1>2, <1>3, <1>5, <1>6, <1>7, PackageAssumption

\* The step of the loop only moves the position of the top call.
LEMMA Advancing ==
  ASSUME TypeOK, calls # <<>>
  PROVE  /\ Advanced \in Seq(Call)
         /\ Len(Advanced) = Len(calls)
         /\ DOMAIN Advanced = DOMAIN calls
         /\ \A k \in DOMAIN calls : /\ Advanced[k].pkg = calls[k].pkg
                                    /\ k # Len(calls) => Advanced[k].i = calls[k].i
         /\ Advanced[Len(calls)].i = Top.i + 1
  <1>1. calls \in Seq(Call) /\ Len(calls) \in 1 .. Len(calls)
    BY TopCall
  <1>2. Advanced = [k \in DOMAIN calls |->
                       IF k = Len(calls) THEN [calls[k] EXCEPT !.i = @ + 1] ELSE calls[k]]
    BY <1>1 DEF Advanced, AdvancedPast
  <1>3. Top \in Call
    BY TopCall
  <1>4. [Top EXCEPT !.i = @ + 1] \in Call /\ [Top EXCEPT !.i = @ + 1].pkg = Top.pkg
        /\ [Top EXCEPT !.i = @ + 1].i = Top.i + 1
    BY <1>3 DEF Call
  <1>5. DOMAIN calls = 1 .. Len(calls) /\ Len(calls) \in Nat
    BY <1>1
  <1>6. \A k \in 1 .. Len(calls) : Advanced[k] \in Call
    BY <1>1, <1>2, <1>4, <1>5 DEF Top
  <1>7. Advanced \in Seq(Call) /\ Len(Advanced) = Len(calls)
    BY <1>2, <1>5, <1>6
  <1> QED
    BY <1>1, <1>2, <1>4, <1>5, <1>7 DEF Top

\* A position below the last one.
LEMMA Below ==
  ASSUME NEW n \in Nat, NEW k \in 1 .. n, k # n
  PROVE  k \in 1 .. n - 1 /\ k + 1 \in 1 .. n /\ k < n
  OBVIOUS

\* A sequence with one more element.
LEMMA Appended ==
  ASSUME NEW S, NEW s \in Seq(S), NEW e \in S
  PROVE  /\ Append(s, e) \in Seq(S) /\ Len(Append(s, e)) = Len(s) + 1
         /\ DOMAIN Append(s, e) = 1 .. Len(s) + 1
         /\ \A k \in 1 .. Len(s) : Append(s, e)[k] = s[k]
         /\ Append(s, e)[Len(s) + 1] = e
  OBVIOUS

\* CallsAreNeeded after a step, call by call.
LEMMA NeededCalls ==
  ASSUME depends' = depends, NEW m, Len(calls') - 1 = m,
         \A k \in 1 .. m : calls'[k + 1].pkg \in Needs(calls'[k].pkg)
  PROVE  CallsAreNeeded'
  BY DEF CallsAreNeeded, Needs, Elems, Followed

THEOREM InitOrder == Init => OrderInv
  <1> SUFFICES ASSUME Init PROVE OrderInv
    OBVIOUS
  <1>1. TypeOK
    <2>1. ASSUME target \in Package PROVE calls \in Seq(Call) /\ calls # <<>>
      BY <2>1 DEF Init, Call
    <2>2. calls \in Seq(Call) /\ (status = "running" => calls # <<>>)
      BY <2>1 DEF Init
    <2> QED
      BY <2>2 DEF Init, TypeOK, Running
  <1>2. calls = <<>> \/ (Len(calls) = 1 /\ DOMAIN calls = {1} /\ calls[1].i = 1)
    BY DEF Init
  <1>3. done = <<>> /\ report = <<>> /\ status # "cycle" /\ Elems(done) = {}
    BY DEF Init, Elems
  <1>4. ActiveOnce /\ PassedAreDone /\ CallsAreNeeded
    BY <1>2, <1>3 DEF ActiveOnce, PassedAreDone, CallsAreNeeded
  <1>5. DependenciesFirst /\ NoRepeats /\ CycleReported
    BY <1>3 DEF DependenciesFirst, NoRepeats, CycleReported
  <1> QED
    BY <1>1, <1>4, <1>5 DEF OrderInv

\* The dependency at hand is passed when it is no package to visit.
LEMMA SkipOrder == OrderInv /\ Skip => OrderInv'
  <1> SUFFICES ASSUME OrderInv, Skip PROVE OrderInv'
    OBVIOUS
  <1>1. TypeOK /\ calls # <<>> /\ calls' = Advanced
    BY DEF OrderInv, TypeOK, Skip, More
  <1>2. UNCHANGED <<depends, target, done, report, status>>
    BY DEF Skip
  <1>3. /\ calls' \in Seq(Call) /\ Len(calls') = Len(calls) /\ DOMAIN calls' = DOMAIN calls
        /\ \A k \in DOMAIN calls : /\ calls'[k].pkg = calls[k].pkg
                                   /\ k # Len(calls) => calls'[k].i = calls[k].i
        /\ calls'[Len(calls)].i = Top.i + 1
    BY <1>1, Advancing
  <1>4. /\ DOMAIN calls = 1 .. Len(calls) /\ Len(calls) \in Nat \ {0}
        /\ \A k \in 1 .. Len(calls) : calls[k] \in Call
        /\ Top = calls[Len(calls)] /\ Top \in Call
    BY <1>1, TopCall
  <1>5. TypeOK'
    BY <1>1, <1>2, <1>3 DEF TypeOK, Running, Call
  <1>6. ActiveOnce'
    BY <1>2, <1>3 DEF OrderInv, ActiveOnce, Elems
  <1>7. PassedAreDone'
    <2> SUFFICES ASSUME NEW k \in DOMAIN calls', NEW j \in 1 .. calls'[k].i - 1,
                        j \in DOMAIN depends[calls[k].pkg],
                        Followed(calls[k].pkg, depends[calls[k].pkg][j])
                 PROVE  \/ depends[calls[k].pkg][j] \in Elems(done)
                        \/ /\ k < Len(calls) /\ j = calls'[k].i - 1
                           /\ calls[k + 1].pkg = depends[calls[k].pkg][j]
      <3>1. \A k \in DOMAIN calls : k < Len(calls) => calls'[k + 1].pkg = calls[k + 1].pkg
        BY <1>3, <1>4
      <3> QED
        BY <1>2, <1>3, <3>1 DEF PassedAreDone, Elems, Followed
    <2>1. CASE k # Len(calls)
      BY <2>1, <1>3 DEF OrderInv, PassedAreDone
    <2>2. CASE k = Len(calls) /\ j < calls[k].i
      <3>1. j \in 1 .. calls[k].i - 1
        BY <2>2, <1>3, <1>4 DEF Call
      <3> QED
        BY <2>2, <3>1, <1>3, <1>4 DEF OrderInv, PassedAreDone
    <2>3. CASE k = Len(calls) /\ j = calls[k].i
      BY <2>3, <1>3 DEF Skip, Top, Dependency
    <2> QED
      BY <2>1, <2>2, <2>3, <1>3, <1>4 DEF Top, Call
  <1>8. CallsAreNeeded'
    <2>1. ASSUME NEW k \in 1 .. Len(calls) - 1
          PROVE  calls'[k + 1].pkg \in Needs(calls'[k].pkg)
      <3>1. k \in DOMAIN calls /\ k + 1 \in DOMAIN calls
        BY <1>4
      <3> QED
        BY <3>1, <1>3 DEF OrderInv, CallsAreNeeded
    <2> QED
      BY <2>1, <1>2, <1>3, NeededCalls
  <1>9. DependenciesFirst' /\ NoRepeats' /\ CycleReported'
    BY <1>2 DEF OrderInv, DependenciesFirst, NoRepeats, CycleReported, Needs, Followed, Elems
  <1> QED
    BY <1>5, <1>6, <1>7, <1>8, <1>9 DEF OrderInv

\* A call for a package that is neither done nor active.
LEMMA EnterOrder == OrderInv /\ Enter => OrderInv'
  <1> SUFFICES ASSUME OrderInv, Enter PROVE OrderInv'
    OBVIOUS
  <1> DEFINE n == Len(calls)
             new == [pkg |-> Dependency, i |-> 1]
  <1>1. TypeOK /\ calls # <<>> /\ calls' = Append(Advanced, new)
    BY DEF OrderInv, TypeOK, Enter, More
  <1>2. UNCHANGED <<depends, target, done, report, status>>
    BY DEF Enter
  <1>3. /\ DOMAIN calls = 1 .. n /\ n \in Nat \ {0} /\ n = Len(calls)
        /\ \A k \in 1 .. n : calls[k] \in Call
        /\ Top = calls[n] /\ Top \in Call
    BY <1>1, TopCall
  <1>4. Dependency \in Package /\ Dependency \in Needs(Top.pkg) /\ new \in Call
    <2>1. Top.i \in DOMAIN depends[Top.pkg]
      BY <1>1, TopCall DEF Enter, More
    <2> QED
      BY <2>1 DEF Enter, Followed, Needs, Dependency, Elems, Call
  <1>5. /\ Advanced \in Seq(Call) /\ Len(Advanced) = n
        /\ \A k \in 1 .. n : /\ Advanced[k].pkg = calls[k].pkg
                             /\ k # n => Advanced[k].i = calls[k].i
        /\ Advanced[n].i = Top.i + 1
    BY <1>1, <1>3, Advancing
  <1>6. /\ calls' \in Seq(Call) /\ Len(calls') = n + 1 /\ DOMAIN calls' = 1 .. n + 1
        /\ \A k \in 1 .. n : calls'[k] = Advanced[k]
        /\ calls'[n + 1] = new
    BY <1>1, <1>4, <1>5, Appended
  <1> HIDE DEF new
  <1>7. new.pkg = Dependency /\ new.i = 1
    BY DEF new
  <1>8. TypeOK'
    BY <1>1, <1>2, <1>3, <1>6 DEF TypeOK, Running, Call
  <1>9. ActiveOnce'
    <2>1. Dependency \notin Elems(done) /\ \A k \in 1 .. n : calls[k].pkg # Dependency
      BY <1>3 DEF Enter, Active
    <2>2. QED
      <3>1. \A k \in 1 .. n : calls'[k].pkg = calls[k].pkg
        BY <1>5, <1>6
      <3>2. ASSUME NEW j \in 1 .. n + 1, NEW k \in 1 .. n + 1, calls'[j].pkg = calls'[k].pkg
            PROVE  j = k
        <4>1. \A i \in 1 .. n + 1 : i \in 1 .. n \/ i = n + 1
          BY <1>3
        <4> QED
          BY <4>1, <3>1, <3>2, <2>1, <1>3, <1>6, <1>7 DEF OrderInv, ActiveOnce
      <3>3. ASSUME NEW k \in 1 .. n + 1 PROVE calls'[k].pkg \notin Elems(done)
        <4>1. k \in 1 .. n \/ k = n + 1
          BY <1>3
        <4> QED
          BY <4>1, <3>1, <2>1, <1>3, <1>6, <1>7 DEF OrderInv, ActiveOnce
      <3> QED
        BY <3>2, <3>3, <1>2, <1>6 DEF ActiveOnce, Elems
  <1>10. PassedAreDone'
    <2> SUFFICES ASSUME NEW k \in 1 .. n + 1, NEW j \in 1 .. calls'[k].i - 1,
                        j \in DOMAIN depends[calls'[k].pkg],
                        Followed(calls'[k].pkg, depends[calls'[k].pkg][j])
                 PROVE  \/ depends[calls'[k].pkg][j] \in Elems(done)
                        \/ /\ k < n + 1 /\ j = calls'[k].i - 1
                           /\ calls'[k + 1].pkg = depends[calls'[k].pkg][j]
      BY <1>2, <1>6 DEF PassedAreDone, Elems, Followed
    <2>1. CASE k = n + 1
      BY <2>1, <1>6, <1>7
    <2>2. CASE k < n
      <3>1. calls'[k].pkg = calls[k].pkg /\ calls'[k].i = calls[k].i
            /\ calls'[k + 1].pkg = calls[k + 1].pkg
        BY <2>2, <1>3, <1>5, <1>6
      <3> QED
        BY <2>2, <3>1, <1>3 DEF OrderInv, PassedAreDone
    <2>3. CASE k = n /\ j < Top.i
      <3>1. calls'[k].pkg = calls[k].pkg /\ j \in 1 .. calls[k].i - 1
        BY <2>3, <1>3, <1>5, <1>6, SMTT(30) DEF Top, Call
      <3> QED
        BY <2>3, <3>1, <1>3 DEF OrderInv, PassedAreDone
    <2>4. CASE k = n /\ j = Top.i
      <3>1. calls'[k].i - 1 = j /\ calls'[k].pkg = Top.pkg /\ calls'[k + 1].pkg = Dependency
        BY <2>4, <1>3, <1>5, <1>6, <1>7, <1>1, TopCall DEF Top, Call
      <3> QED
        BY <2>4, <3>1, <1>3 DEF Dependency
    <2>5. k = n => j < Top.i \/ j = Top.i
      BY <1>1, <1>5, <1>6, <1>3, TopCall DEF Call
    <2>6. k = n + 1 \/ k < n \/ k = n
      <3>1. n \in Nat /\ k \in 1 .. n + 1
        BY <1>3
      <3> QED
        BY ONLY <3>1
    <2> QED
      BY <2>1, <2>2, <2>3, <2>4, <2>5, <2>6
  <1>11. CallsAreNeeded'
    <2> SUFFICES ASSUME NEW k \in 1 .. n PROVE calls'[k + 1].pkg \in Needs(calls'[k].pkg)
      <3>1. Len(calls') - 1 = n
        BY <1>3, <1>6
      <3> QED
        BY <3>1, <1>2, NeededCalls
    <2>1. CASE k = n
      BY <2>1, <1>4, <1>5, <1>6, <1>7 DEF Top
    <2>2. CASE k # n
      <3>1. k \in 1 .. n - 1 /\ k + 1 \in 1 .. n
        BY <2>2, <1>3, Below
      <3> QED
        BY <3>1, <1>3, <1>5, <1>6 DEF OrderInv, CallsAreNeeded
    <2> QED
      BY <2>1, <2>2
  <1>12. DependenciesFirst' /\ NoRepeats' /\ CycleReported'
    BY <1>2 DEF OrderInv, DependenciesFirst, NoRepeats, CycleReported, Needs, Followed, Elems
  <1> QED
    BY <1>8, <1>9, <1>10, <1>11, <1>12 DEF OrderInv

\* The active packages depend on one another, from the first to the last.
LEMMA CycleOrder == OrderInv /\ Cycle => OrderInv'
  <1> SUFFICES ASSUME OrderInv, Cycle PROVE OrderInv'
    OBVIOUS
  <1> DEFINE n == Len(calls)
  <1>1. TypeOK /\ calls # <<>>
    BY DEF OrderInv, TypeOK, Cycle, More
  <1>2. UNCHANGED <<depends, target, calls, done>> /\ status' = "cycle"
    BY DEF Cycle
  <1>3. /\ DOMAIN calls = 1 .. n /\ n \in Nat \ {0} /\ n = Len(calls)
        /\ \A k \in 1 .. n : calls[k] \in Call
        /\ Top = calls[n] /\ Top \in Call
    BY <1>1, TopCall
  <1>4. Dependency \in Package /\ Dependency \in Needs(Top.pkg)
    <2>1. Top.i \in DOMAIN depends[Top.pkg]
      BY <1>1, TopCall DEF Cycle, More
    <2> QED
      BY <2>1 DEF Cycle, Followed, Needs, Dependency, Elems
  <1>5. /\ report' \in Seq(Package) /\ Len(report') = n + 1
        /\ \A k \in 1 .. n : report'[k] = calls[k].pkg
        /\ report'[n + 1] = Dependency
    <2> DEFINE path == [k \in DOMAIN calls |-> calls[k].pkg]
    <2>1. path \in Seq(Package) /\ Len(path) = n /\ \A k \in 1 .. n : path[k] = calls[k].pkg
      BY <1>3 DEF Call
    <2>2. report' = Append(path, Dependency)
      BY DEF Cycle
    <2> HIDE DEF path
    <2> QED
      BY <2>1, <2>2, <1>3, <1>4
  <1>6. TypeOK'
    BY <1>1, <1>2, <1>5 DEF TypeOK, Running
  <1>7. ActiveOnce' /\ PassedAreDone' /\ CallsAreNeeded' /\ DependenciesFirst' /\ NoRepeats'
    BY <1>2 DEF OrderInv, ActiveOnce, PassedAreDone, CallsAreNeeded, DependenciesFirst,
                NoRepeats, Needs, Followed, Elems
  <1>8. CycleReported'
    <2>1. ASSUME NEW k \in 1 .. n PROVE report'[k + 1] \in Needs(report'[k])
      <3>1. CASE k = n
        BY <3>1, <1>4, <1>5 DEF Top
      <3>2. CASE k # n
        <4>1. k \in 1 .. n - 1 /\ k + 1 \in 1 .. n
          BY <3>2, <1>3, Below
        <4> QED
          BY <4>1, <1>5 DEF OrderInv, CallsAreNeeded
      <3> QED
        BY <3>1, <3>2
    <2>2. \E k \in 1 .. n : report'[k] = report'[n + 1]
      BY <1>3, <1>5 DEF Cycle, Active
    <2> QED
      BY <2>1, <2>2, <1>2, <1>3, <1>5 DEF CycleReported, Needs, Elems, Followed
  <1> QED
    BY <1>6, <1>7, <1>8 DEF OrderInv

\* A package whose dependencies are all passed comes next in the order.
LEMMA LeaveOrder == OrderInv /\ Leave => OrderInv'
  <1> SUFFICES ASSUME OrderInv, Leave PROVE OrderInv'
    OBVIOUS
  <1> DEFINE n == Len(calls)
             m == Len(done)
  <1>1. TypeOK /\ calls # <<>>
    BY DEF OrderInv, TypeOK, Leave
  <1>2. UNCHANGED <<depends, target, report>> /\ status' = IF n = 1 THEN "ordered" ELSE "running"
    BY DEF Leave
  <1>3. /\ DOMAIN calls = 1 .. n /\ n \in Nat \ {0} /\ n = Len(calls)
        /\ \A k \in 1 .. n : calls[k] \in Call
        /\ Top = calls[n] /\ Top \in Call
    BY <1>1, TopCall
  <1>4. /\ calls' \in Seq(Call) /\ Len(calls') = n - 1 /\ DOMAIN calls' = 1 .. n - 1
        /\ \A k \in 1 .. n - 1 : calls'[k] = calls[k]
    <2>1. calls' = SubSeq(calls, 1, n - 1) /\ calls \in Seq(Call)
      BY <1>1, TopCall DEF Leave
    <2> QED
      BY <2>1, <1>3
  <1>5. /\ done' \in Seq(Package) /\ Len(done') = m + 1 /\ m \in Nat
        /\ DOMAIN done = 1 .. m /\ DOMAIN done' = 1 .. m + 1
        /\ \A k \in 1 .. m : done'[k] = done[k]
        /\ done'[m + 1] = Top.pkg
    <2>1. done' = Append(done, Top.pkg) /\ done \in Seq(Package) /\ Top.pkg \in Package
      BY <1>1, TopCall DEF Leave, TypeOK
    <2> QED
      BY <2>1
  <1>6. Elems(done') = Elems(done) \cup {Top.pkg}
    BY <1>5 DEF Elems
  <1>7. TypeOK'
    BY <1>1, <1>2, <1>3, <1>4, <1>5 DEF TypeOK, Running, Call
  <1>8. ActiveOnce'
    <2>1. \A k \in 1 .. n - 1 : k \in DOMAIN calls /\ calls[k].pkg # Top.pkg
      BY <1>3 DEF OrderInv, ActiveOnce, Top
    <2> QED
      BY <2>1, <1>4, <1>6 DEF OrderInv, ActiveOnce
  <1>9. PassedAreDone'
    <2> SUFFICES ASSUME NEW k \in 1 .. n - 1, NEW j \in 1 .. calls[k].i - 1,
                        j \in DOMAIN depends[calls[k].pkg],
                        Followed(calls[k].pkg, depends[calls[k].pkg][j])
                 PROVE  \/ depends[calls[k].pkg][j] \in Elems(done')
                        \/ /\ k < n - 1 /\ j = calls[k].i - 1
                           /\ calls'[k + 1].pkg = depends[calls[k].pkg][j]
      BY <1>2, <1>4 DEF PassedAreDone, Followed
    <2>1. \/ depends[calls[k].pkg][j] \in Elems(done)
          \/ j = calls[k].i - 1 /\ calls[k + 1].pkg = depends[calls[k].pkg][j]
      BY <1>3 DEF OrderInv, PassedAreDone
    <2>2. CASE k = n - 1
      <3>1. calls[k + 1] = Top
        BY <2>2, <1>3 DEF Top
      <3> QED
        BY <2>1, <3>1, <1>6
    <2>3. CASE k # n - 1
      <3>1. k < n - 1 /\ calls'[k + 1] = calls[k + 1]
        <4>1. n - 1 \in Nat
          BY <1>3
        <4>2. k \in 1 .. (n - 1) - 1 /\ k + 1 \in 1 .. n - 1 /\ k < n - 1
          BY <2>3, <4>1, Below
        <4> QED
          BY <4>2, <1>4
      <3> QED
        BY <2>1, <3>1, <1>6
    <2> QED
      BY <2>2, <2>3
  <1>10. CallsAreNeeded'
    <2>1. ASSUME NEW k \in 1 .. n - 2 PROVE calls'[k + 1].pkg \in Needs(calls'[k].pkg)
      <3>1. k \in 1 .. n - 1 /\ k + 1 \in 1 .. n - 1 /\ k \in 1 .. Len(calls) - 1
        BY <1>3
      <3> QED
        BY <3>1, <1>4 DEF OrderInv, CallsAreNeeded
    <2>2. Len(calls') - 1 = n - 2
      BY <1>3, <1>4
    <2> QED
      BY <2>1, <2>2, <1>2, NeededCalls
  <1>11. DependenciesFirst'
    <2>1. ASSUME NEW d \in Needs(Top.pkg) PROVE \E j \in 1 .. m : done[j] = d
      <3>1. PICK j \in DOMAIN depends[Top.pkg] : depends[Top.pkg][j] = d
        BY DEF Needs, Elems
      <3>2. j \in 1 .. calls[n].i - 1 /\ calls[n] = Top
        BY <1>1, <1>3, TopCall DEF Leave
      <3>3. d \in Elems(done)
        BY <3>1, <3>2, <1>3 DEF OrderInv, PassedAreDone, Needs
      <3> QED
        BY <3>3, <1>5 DEF Elems
    <2>2. ASSUME NEW k \in 1 .. m, NEW d \in Needs(done[k])
          PROVE  \E j \in 1 .. k - 1 : done[j] = d
      BY <1>5 DEF OrderInv, DependenciesFirst
    <2>3. ASSUME NEW k \in 1 .. m + 1, NEW d \in Needs(done'[k])
          PROVE  \E j \in 1 .. k - 1 : done'[j] = d
      <3>1. CASE k = m + 1
        <4>1. PICK j \in 1 .. m : done[j] = d
          BY <2>1, <3>1, <1>5
        <4> QED
          BY <4>1, <3>1, <1>5
      <3>2. CASE k # m + 1
        <4>1. k \in 1 .. m /\ done'[k] = done[k]
          BY <3>2, <1>5
        <4>2. PICK j \in 1 .. k - 1 : done[j] = d
          BY <2>2, <4>1
        <4> QED
          BY <4>1, <4>2, <1>5
      <3> QED
        BY <3>1, <3>2
    <2> QED
      BY <2>3, <1>2, <1>5 DEF DependenciesFirst, Needs, Elems, Followed
  <1>12. NoRepeats'
    <2>1. Top.pkg \notin Elems(done)
      BY <1>3 DEF OrderInv, ActiveOnce, Top
    <2> QED
      BY <2>1, <1>5 DEF OrderInv, NoRepeats, Elems
  <1>13. CycleReported'
    BY <1>2 DEF CycleReported
  <1> QED
    BY <1>7, <1>8, <1>9, <1>10, <1>11, <1>12, <1>13 DEF OrderInv

LEMMA StutterOrder == OrderInv /\ UNCHANGED vars => OrderInv'
  BY DEF OrderInv, vars, TypeOK, ActiveOnce, PassedAreDone, CallsAreNeeded, DependenciesFirst,
         NoRepeats, CycleReported, Needs, Elems, Followed, Running

\* visit() keeps the order right whatever the packages depend on.
THEOREM OrderInvariance == Spec => []OrderInv
  <1>1. OrderInv /\ [Next]_vars => OrderInv'
    BY SkipOrder, EnterOrder, CycleOrder, LeaveOrder, StutterOrder DEF Next
  <1> QED
    BY InitOrder, <1>1, PTL DEF Spec

\* A package is added after every vendored package it depends on.
THEOREM DependenciesComeFirst == Spec => []DependenciesFirst
  <1>1. OrderInv => DependenciesFirst
    BY DEF OrderInv
  <1> QED
    BY OrderInvariance, <1>1, PTL

\* The error of a dependency cycle names one.
THEOREM CycleIsReal == Spec => []CycleReported
  <1>1. OrderInv => CycleReported
    BY DEF OrderInv
  <1> QED
    BY OrderInvariance, <1>1, PTL

-----------------------------------------------------------------------------
(* Exactly what the target needs.                                          *)

\* A set of packages that holds all the packages its members need.
Closed(S) == \A q \in S : Needs(q) \subseteq S

Step(S) == S \cup UNION {Needs(q) : q \in S}

\* What is needed are packages.
LEMMA NeedsPackages == ASSUME NEW q PROVE Needs(q) \subseteq Package
  BY DEF Needs, Followed

\* The sets that Closure goes through.
LEMMA ClosureSets ==
  ASSUME NEW p \in Package
  PROVE  \E f \in [Nat -> SUBSET Package] :
            /\ f[0] = {p} /\ \A n \in Nat : f[n + 1] = Step(f[n])
            /\ Closure(p) = f[Cardinality(Package)]
  <1> DEFINE F == [n \in Nat |-> [S \in SUBSET Package |-> Step(S)]]
             P == SUBSET Package
  <1>1. F \in [Nat -> [P -> P]] /\ {p} \in P
    BY NeedsPackages DEF Step
  <1>2. PICK g \in [Nat -> P] : Recurs(g, {p}, F)
    <2> HIDE DEF F, P
    <2> QED
      BY <1>1, Recursion
  <1>3. ASSUME NEW n \in Nat
        PROVE  g[n + 1] = Step(g[n])
    <2>1. F[n + 1] = [S \in P |-> Step(S)]
      OBVIOUS
    <2> HIDE DEF F, P
    <2>2. g[n] \in P /\ g[n + 1] = F[n + 1][g[n]]
      BY <1>2 DEF Recurs
    <2> QED
      BY <2>1, <2>2
  <1>4. g[0] = {p}
    BY <1>2 DEF Recurs
  <1> HIDE DEF F
  <1>5. g = [n \in Nat |-> IF n = 0 THEN {p} ELSE Step(g[n - 1])]
    <2>1. ASSUME NEW n \in Nat
          PROVE  g[n] = IF n = 0 THEN {p} ELSE Step(g[n - 1])
      <3>1. CASE n = 0
        BY <3>1, <1>4
      <3>2. CASE n # 0
        <4>1. n - 1 \in Nat /\ (n - 1) + 1 = n
          BY <3>2
        <4> QED
          BY <4>1, <1>3, <3>2
      <3> QED
        BY <3>1, <3>2
    <2> HIDE DEF P
    <2> QED
      BY <2>1, <1>2
  <1> DEFINE f == CHOOSE f : f = [n \in Nat |-> IF n = 0 THEN {p} ELSE Step(f[n - 1])]
  <1>6. f = [n \in Nat |-> IF n = 0 THEN {p} ELSE Step(f[n - 1])]
    BY <1>5
  <1>7. Closure(p) = f[Cardinality(Package)]
    BY DEF Closure, Step
  <1> HIDE DEF f
  <1>8. f[0] = {p} /\ \A n \in Nat : f[n + 1] = Step(f[n])
    <2>1. \A n \in Nat : n + 1 \in Nat /\ n + 1 # 0 /\ (n + 1) - 1 = n
      OBVIOUS
    <2> QED
      BY <2>1, <1>6
  <1>9. f \in [Nat -> P]
    <2> DEFINE T == {n \in Nat : f[n] \in P}
    <2>1. 0 \in T
      BY <1>8
    <2>2. ASSUME NEW n \in Nat, n \in T PROVE n + 1 \in T
      <3>1. f[n] \in P /\ f[n + 1] = Step(f[n])
        BY <1>8, <2>2
      <3>2. Step(f[n]) \in P
        BY <3>1, NeedsPackages DEF Step
      <3> QED
        BY <3>1, <3>2
    <2> HIDE DEF T
    <2>3. \A n \in Nat : n \in T
      BY <2>1, <2>2, SetInduction
    <2>4. \A n \in Nat : f[n] \in P
      BY <2>3 DEF T
    <2>5. f = [n \in Nat |-> f[n]]
      BY <1>6
    <2> HIDE DEF P
    <2> QED
      BY <2>4, <2>5
  <1> QED
    BY <1>7, <1>8, <1>9

\* A package needs itself, and nothing outside a closed set that holds it.
LEMMA ClosureLeast ==
  ASSUME NEW p \in Package, NEW S, p \in S, Closed(S)
  PROVE  Closure(p) \subseteq S
  <1>1. PICK f \in [Nat -> SUBSET Package] :
            /\ f[0] = {p} /\ \A n \in Nat : f[n + 1] = Step(f[n])
            /\ Closure(p) = f[Cardinality(Package)]
    BY ClosureSets
  <1> DEFINE T == {n \in Nat : f[n] \subseteq S}
  <1>2. 0 \in T
    BY <1>1
  <1>3. ASSUME NEW n \in Nat, n \in T PROVE n + 1 \in T
    <2>1. f[n] \subseteq S /\ f[n + 1] = Step(f[n])
      BY <1>1, <1>3
    <2> QED
      BY <2>1 DEF Step, Closed
  <1> HIDE DEF T
  <1>4. Cardinality(Package) \in T
    BY <1>2, <1>3, SetInduction, FS_CardinalityType, PackageAssumption
  <1> QED
    BY <1>1, <1>4 DEF T

\* As many steps as there are packages reach all that a package needs: while
\* a step finds something new, the set has more members than steps were made.
LEMMA ClosureClosed ==
  ASSUME NEW p \in Package
  PROVE  p \in Closure(p) /\ Closure(p) \subseteq Package /\ Closed(Closure(p))
  <1>1. PICK f \in [Nat -> SUBSET Package] :
            /\ f[0] = {p} /\ \A n \in Nat : f[n + 1] = Step(f[n])
            /\ Closure(p) = f[Cardinality(Package)]
    BY ClosureSets
  <1>2. IsFiniteSet(Package) /\ Cardinality(Package) \in Nat
    BY PackageAssumption, FS_CardinalityType
  <1>3. ASSUME NEW n \in Nat
        PROVE  /\ f[n] \in SUBSET Package /\ IsFiniteSet(f[n]) /\ Cardinality(f[n]) \in Nat
               /\ Cardinality(f[n]) <= Cardinality(Package)
    BY <1>1, <1>2, FS_Subset, FS_CardinalityType
  <1> DEFINE T == {n \in Nat : p \in f[n] /\ (Closed(f[n]) \/ Cardinality(f[n]) > n)}
  <1>4. 0 \in T
    <2>1. f[0] = {p} /\ Cardinality({p}) = 1
      BY <1>1, FS_Singleton
    <2> QED
      BY <2>1
  <1>5. ASSUME NEW n \in Nat, n \in T PROVE n + 1 \in T
    <2>1. f[n + 1] = Step(f[n]) /\ p \in f[n] /\ n + 1 \in Nat
      BY <1>1, <1>5
    <2>2. f[n] \subseteq f[n + 1] /\ p \in f[n + 1]
      BY <2>1 DEF Step
    <2>3. CASE Closed(f[n])
      <3>1. f[n + 1] = f[n]
        BY <2>1, <2>3 DEF Step, Closed
      <3> QED
        BY <2>1, <2>3, <3>1
    <2>4. CASE ~Closed(f[n])
      <3>1. f[n + 1] # f[n]
        BY <2>1, <2>4 DEF Step, Closed
      <3>2. f[n] \in SUBSET f[n + 1] /\ IsFiniteSet(f[n + 1])
        BY <2>1, <2>2, <1>3
      <3>3. Cardinality(f[n]) <= Cardinality(f[n + 1]) /\ Cardinality(f[n]) # Cardinality(f[n + 1])
        BY <3>1, <3>2, FS_Subset
      <3>4. Cardinality(f[n]) > n
        BY <1>5, <2>4
      <3>5. Cardinality(f[n]) \in Nat /\ Cardinality(f[n + 1]) \in Nat
        BY <1>3, <2>1
      <3>6. Cardinality(f[n + 1]) > n + 1
        BY <3>3, <3>4, <3>5
      <3> QED
        BY <2>1, <2>2, <3>6
    <2> QED
      BY <2>3, <2>4
  <1> HIDE DEF T
  <1>6. Cardinality(Package) \in T
    BY <1>2, <1>4, <1>5, SetInduction
  <1>7. Closed(f[Cardinality(Package)])
    <2>1. ~(Cardinality(f[Cardinality(Package)]) > Cardinality(Package))
      BY <1>2, <1>3
    <2> QED
      BY <1>6, <2>1 DEF T
  <1>8. p \in f[Cardinality(Package)] /\ f[Cardinality(Package)] \subseteq Package
    BY <1>6, <1>1, <1>2 DEF T
  <1> QED
    BY <1>1, <1>7, <1>8

-----------------------------------------------------------------------------
\* The dependencies never change, and so does what the target needs.
LEMMA SameClosure ==
  ASSUME UNCHANGED <<depends, target>>
  PROVE  Closure(target)' = Closure(target)
  BY DEF Closure, Needs, Elems, Followed

\* What is active or done is a package, so the target is one.
LEMMA TargetIsPackage ==
  ASSUME WalkInv, calls # <<>>
  PROVE  /\ target \in Package /\ Top.pkg \in Closure(target)
         /\ target \in Closure(target) /\ Closed(Closure(target))
  <1>1. /\ calls \in Seq(Call) /\ Len(calls) \in Nat \ {0} /\ DOMAIN calls = 1 .. Len(calls)
        /\ \A k \in 1 .. Len(calls) : calls[k] \in Call
        /\ Top = calls[Len(calls)]
    BY TopCall DEF WalkInv, OrderInv
  <1>2. target \in Package
    BY <1>1 DEF WalkInv, Rooted, Call
  <1>3. Top.pkg \in Active
    BY <1>1 DEF Active
  <1> QED
    BY <1>2, <1>3, ClosureClosed DEF WalkInv, OnlyNeeded

LEMMA InitWalk == Init => WalkInv
  <1> SUFFICES ASSUME Init PROVE WalkInv
    OBVIOUS
  <1>1. OrderInv
    BY InitOrder
  <1>2. CASE target \in Package
    <2>1. calls = <<[pkg |-> target, i |-> 1]>> /\ done = <<>> /\ status = "running"
      BY <1>2 DEF Init
    <2>2. Active = {target} /\ Elems(done) = {}
      BY <2>1 DEF Active, Elems
    <2>3. target \in Closure(target)
      BY <1>2, ClosureClosed
    <2> QED
      BY <1>1, <2>1, <2>2, <2>3 DEF WalkInv, Rooted, OnlyNeeded
  <1>3. CASE target \notin Package
    <2>1. calls = <<>> /\ done = <<>> /\ status = "missing"
      BY <1>3 DEF Init
    <2>2. Active = {} /\ Elems(done) = {}
      BY <2>1 DEF Active, Elems
    <2> QED
      BY <1>1, <2>1, <2>2 DEF WalkInv, Rooted, OnlyNeeded
  <1> QED
    BY <1>2, <1>3

\* A step that makes no call and finishes none.
LEMMA SkipWalk == WalkInv /\ (Skip \/ Cycle) => Rooted' /\ OnlyNeeded'
  <1> SUFFICES ASSUME WalkInv, Skip \/ Cycle PROVE Rooted' /\ OnlyNeeded'
    OBVIOUS
  <1>1. TypeOK /\ calls # <<>> /\ Running
    BY DEF WalkInv, OrderInv, TypeOK, Skip, Cycle, More
  <1>2. UNCHANGED <<depends, target, done>> /\ status' # "ordered"
    BY <1>1 DEF Skip, Cycle, Running
  <1>3. DOMAIN calls' = DOMAIN calls /\ \A k \in DOMAIN calls : calls'[k].pkg = calls[k].pkg
    <2>1. CASE Skip
      BY <2>1, <1>1, Advancing DEF Skip
    <2>2. CASE Cycle
      BY <2>2 DEF Cycle
    <2> QED
      BY <2>1, <2>2
  <1>4. 1 \in DOMAIN calls
    BY <1>1, TopCall
  <1>5. Active' = Active /\ Elems(done)' = Elems(done)
    BY <1>2, <1>3 DEF Active, Elems
  <1>6. Rooted'
    BY <1>1, <1>2, <1>3, <1>4 DEF WalkInv, Rooted
  <1>7. OnlyNeeded'
    BY <1>2, <1>5, SameClosure DEF WalkInv, OnlyNeeded
  <1> QED
    BY <1>6, <1>7

\* A call for a package that an active one needs.
LEMMA EnterWalk == WalkInv /\ Enter => Rooted' /\ OnlyNeeded'
  <1> SUFFICES ASSUME WalkInv, Enter PROVE Rooted' /\ OnlyNeeded'
    OBVIOUS
  <1> DEFINE n == Len(calls)
             d == Dependency
  <1>1. TypeOK /\ calls # <<>> /\ status # "ordered" /\ Top.i <= Len(depends[Top.pkg])
    BY DEF WalkInv, OrderInv, TypeOK, Enter, More, Running
  <1>2. /\ Followed(Top.pkg, d) /\ calls' = Append(Advanced, [pkg |-> d, i |-> 1])
        /\ UNCHANGED <<depends, target, done, report, status>>
    BY DEF Enter
  <1>3. /\ n \in Nat \ {0} /\ DOMAIN calls = 1 .. n /\ Top.pkg \in Package
        /\ Top.i \in Nat \ {0} /\ depends[Top.pkg] \in Seq(Name)
    BY <1>1, TopCall
  <1>4. /\ Advanced \in Seq(Call) /\ Len(Advanced) = n
        /\ \A k \in 1 .. n : Advanced[k].pkg = calls[k].pkg
    BY <1>1, <1>3, Advancing
  <1>5. d \in Needs(Top.pkg)
    <2>1. Top.i \in DOMAIN depends[Top.pkg]
      BY <1>1, <1>3
    <2> QED
      BY <2>1, <1>2 DEF Needs, Elems, Dependency
  <1>6. d \in Closure(target)
    BY <1>1, <1>5, TargetIsPackage DEF Closed
  <1> HIDE DEF d
  <1>7. [pkg |-> d, i |-> 1] \in Call
    BY <1>2 DEF Followed, Call
  <1>8. /\ DOMAIN calls' = 1 .. n + 1 /\ calls'[n + 1].pkg = d
        /\ \A k \in 1 .. n : calls'[k].pkg = calls[k].pkg
    <2>1. /\ DOMAIN calls' = 1 .. n + 1 /\ calls'[n + 1] = [pkg |-> d, i |-> 1]
          /\ \A k \in 1 .. n : calls'[k] = Advanced[k]
      BY <1>2, <1>4, <1>7, Appended
    <2> QED
      BY <2>1, <1>4
  <1>9. Active' \subseteq Active \cup {d} /\ Elems(done)' = Elems(done)
    BY <1>2, <1>3, <1>8 DEF Active, Elems
  <1>10. Rooted'
    BY <1>1, <1>2, <1>3, <1>8 DEF WalkInv, Rooted
  <1>11. OnlyNeeded'
    BY <1>2, <1>6, <1>9, SameClosure DEF WalkInv, OnlyNeeded
  <1> QED
    BY <1>10, <1>11

\* A call ends and its package is done.
LEMMA LeaveWalk == WalkInv /\ Leave => Rooted' /\ OnlyNeeded'
  <1> SUFFICES ASSUME WalkInv, Leave PROVE Rooted' /\ OnlyNeeded'
    OBVIOUS
  <1> DEFINE n == Len(calls)
  <1>1. TypeOK /\ calls # <<>>
    BY DEF WalkInv, OrderInv, TypeOK, Leave
  <1>2. /\ UNCHANGED <<depends, target>> /\ done' = Append(done, Top.pkg)
        /\ calls' = SubSeq(calls, 1, n - 1)
        /\ status' = IF n = 1 THEN "ordered" ELSE "running"
    BY DEF Leave
  <1>3. /\ calls \in Seq(Call) /\ n \in Nat \ {0} /\ DOMAIN calls = 1 .. n
        /\ Top = calls[n] /\ Top.pkg \in Package
    BY <1>1, TopCall
  <1>4. Len(calls') = n - 1 /\ DOMAIN calls' = 1 .. n - 1 /\ \A k \in 1 .. n - 1 : calls'[k] = calls[k]
    BY <1>2, <1>3
  <1>5. Elems(done)' = Elems(done) \cup {Top.pkg}
    <2>1. done \in Seq(Package)
      BY <1>1 DEF TypeOK
    <2>2. Len(done) \in Nat /\ DOMAIN done = 1 .. Len(done) /\ DOMAIN done' = 1 .. Len(done) + 1
          /\ done'[Len(done) + 1] = Top.pkg /\ \A k \in 1 .. Len(done) : done'[k] = done[k]
      BY <2>1, <1>2, <1>3, Appended
    <2> QED
      BY <2>2 DEF Elems
  <1>6. Active' \subseteq Active
    BY <1>3, <1>4 DEF Active
  <1>7. Top.pkg \in Active
    BY <1>3 DEF Active
  <1>8. OnlyNeeded'
    BY <1>2, <1>5, <1>6, <1>7, SameClosure DEF WalkInv, OnlyNeeded
  <1>9. Rooted'
    <2>1. CASE n = 1
      <3>1. calls' = <<>>
        BY <2>1, <1>2, <1>3
      <3>2. target \in Elems(done)'
        BY <2>1, <1>1, <1>3, <1>5 DEF WalkInv, Rooted
      <3> QED
        BY <3>1, <3>2, <1>2 DEF Rooted
    <2>2. CASE n # 1
      <3>1. 1 \in 1 .. n - 1 /\ status' # "ordered"
        BY <2>2, <1>2, <1>3
      <3>2. calls'[1].pkg = target
        BY <3>1, <1>1, <1>4 DEF WalkInv, Rooted
      <3> QED
        BY <3>1, <3>2, <1>2 DEF Rooted
    <2> QED
      BY <2>1, <2>2
  <1> QED
    BY <1>8, <1>9

\* visit(): the walk starts at the target and visits only what it needs.
THEOREM WalkInvariance == Spec => []WalkInv
  <1>1. WalkInv /\ [Next]_vars => WalkInv'
    <2> SUFFICES ASSUME WalkInv, [Next]_vars PROVE WalkInv'
      OBVIOUS
    <2>1. OrderInv'
      BY SkipOrder, EnterOrder, CycleOrder, LeaveOrder, StutterOrder DEF Next, WalkInv
    <2>2. CASE UNCHANGED vars
      BY <2>1, <2>2, SameClosure DEF WalkInv, Rooted, OnlyNeeded, Active, Elems, vars
    <2> QED
      BY <2>1, <2>2, SkipWalk, EnterWalk, LeaveWalk DEF Next, WalkInv
  <1> QED
    BY InitWalk, <1>1, PTL DEF Spec

\* package_order: the order holds what the target needs, all of it and nothing else, and what
\* is ordered has no cycle: what comes before a package is closed, because
\* dependencies come first, so the package is not among what they need.
THEOREM ExactlyTheNeeded == Spec => []ExactlyNeeded
  <1>1. WalkInv => ExactlyNeeded
    <2> SUFFICES ASSUME WalkInv, status = "ordered"
                 PROVE  /\ Elems(done) = Closure(target)
                        /\ \A p \in Closure(target) : \A d \in Needs(p) : p \notin Closure(d)
      BY DEF ExactlyNeeded
    <2>1. /\ done \in Seq(Package) /\ DOMAIN done = 1 .. Len(done) /\ Len(done) \in Nat
          /\ target \in Elems(done) /\ calls = <<>> /\ Elems(done) \subseteq Closure(target)
          /\ DependenciesFirst /\ NoRepeats
      BY DEF WalkInv, OrderInv, TypeOK, Rooted, OnlyNeeded
    <2>2. Elems(done) \subseteq Package
      BY <2>1 DEF Elems
    <2>3. ASSUME NEW j \in Nat
          PROVE  Closed({done[i] : i \in (1 .. j) \cap DOMAIN done})
      <3> SUFFICES ASSUME NEW i \in (1 .. j) \cap DOMAIN done, NEW d \in Needs(done[i])
                   PROVE  \E k \in (1 .. j) \cap DOMAIN done : done[k] = d
        BY DEF Closed
      <3>1. PICK k \in 1 .. i - 1 : done[k] = d
        BY <2>1 DEF DependenciesFirst
      <3>2. k \in (1 .. j) \cap DOMAIN done
        BY <2>1, <2>3
      <3> QED
        BY <3>1, <3>2
    <2>4. Closed(Elems(done))
      <3>1. Elems(done) = {done[i] : i \in (1 .. Len(done)) \cap DOMAIN done}
        BY <2>1 DEF Elems
      <3> QED
        BY <3>1, <2>1, <2>3
    <2>5. Elems(done) = Closure(target)
      BY <2>1, <2>2, <2>4, ClosureLeast
    <2>6. ASSUME NEW p \in Closure(target), NEW d \in Needs(p)
          PROVE  p \notin Closure(d)
      <3>1. PICK k \in DOMAIN done : done[k] = p
        BY <2>5 DEF Elems
      <3>2. PICK j \in 1 .. k - 1 : done[j] = d
        BY <3>1, <2>1 DEF DependenciesFirst
      <3> DEFINE S == {done[i] : i \in (1 .. j) \cap DOMAIN done}
      <3>3. j \in Nat /\ j \in (1 .. j) \cap DOMAIN done /\ j < k
        BY <3>1, <3>2, <2>1
      <3>4. d \in S /\ d \in Package
        BY <3>2, <3>3, NeedsPackages
      <3>5. Closed(S)
        BY <3>3, <2>3
      <3>6. p \notin S
        <4> SUFFICES ASSUME NEW i \in (1 .. j) \cap DOMAIN done, done[i] = p PROVE FALSE
          OBVIOUS
        <4>1. i = k
          BY <3>1, <2>1 DEF NoRepeats
        <4> QED
          BY <4>1, <3>3
      <3> HIDE DEF S
      <3>7. Closure(d) \subseteq S
        BY <3>4, <3>5, ClosureLeast
      <3> QED
        BY <3>6, <3>7
    <2> QED
      BY <2>5, <2>6
  <1> QED
    BY <1>1, WalkInvariance, PTL
=============================================================================
