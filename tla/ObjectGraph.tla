---------------------------- MODULE ObjectGraph ----------------------------
(***************************************************************************)
(* What the heap promises to the machine: a graph of objects that the      *)
(* machine builds and rewrites.  A node is a record [tag, kind, refs]; its *)
(* refs are pairs <<field, reference>>.  A node that the roots do not      *)
(* reach any more does not exist.  There is no collector, no space and no  *)
(* size here.                                                              *)
(***************************************************************************)
EXTENDS Integers

CONSTANTS Slot, Static, NULL, MaxBorn

VARIABLES
    node,   \* the nodes the roots reach
    ref,    \* what each root slot refers to
    made    \* how many nodes were made: the next tag

gvars == <<node, ref, made>>

Leaf == Static \cup {NULL}

Targets(n) == {p[2] : p \in n.refs} \ Leaf

\* The nodes of g that the references f reach.
Reach(g, f) ==
    LET start == {f[r] : r \in Slot} \ Leaf
        reach[k \in Nat] == IF k = 0 THEN start
                            ELSE LET S == reach[k - 1]
                                 IN  S \cup UNION {Targets(n) : n \in {m \in g : m.tag \in S}}
    IN  reach[MaxBorn]

Becomes(g, f) ==
    /\ ref' = f
    /\ LET R == Reach(g, f) IN node' = {n \in g : n.tag \in R}

Replace(n, m) == (node \ {n}) \cup {m}

\* A new node, its references taken from the roots.
New(r, n) ==
    /\ n.tag = made'
    /\ \A p \in n.refs : p[2] \in {ref[q] : q \in Slot} \cup {NULL}
    /\ Becomes(node \cup {n}, [ref EXCEPT ![r] = made'])

\* A node changes its kind: a thunk is entered, or an exception restores it.
Mark(n, before, after) ==
    /\ n.kind = before
    /\ Becomes(Replace(n, [n EXCEPT !.kind = after]), ref)

\* A black hole becomes an indirection to a value and forgets its environment;
\* a packed string becomes an indirection to its first cell.
Indirect(n, p) ==
    /\ n.kind \in {"BLACKHOLE", "STR"}
    /\ Becomes(Replace(n, [n EXCEPT !.kind = "IND", !.refs = {<<1, p>>}]), ref)

\* A field is overwritten, but not the primitive of a partial application.
Assign(n, f, p) ==
    /\ n.kind \in {"CON", "ENV", "PAP"} /\ (n.kind = "PAP" => f[1] # 1)
    /\ Becomes(Replace(n, [n EXCEPT !.refs = (@ \ {f}) \cup {<<f[1], p>>}]), ref)

\* A root is overwritten with something the roots reach directly.
Load(r, p) ==
    /\ Becomes(node, [ref EXCEPT ![r] = p])
    /\ \/ p \in Leaf \cup {ref[q] : q \in Slot}
       \/ \E n \in node : p \in Targets(n) /\ \E q \in Slot : ref[q] = n.tag

GInit ==
    /\ node = {}
    /\ ref \in [Slot -> Leaf]
    /\ made = 0

GNext ==
    \/ /\ made' = made
       /\ \/ \E r \in Slot : Load(r, ref'[r])
          \/ \E n \in node :
                \/ Mark(n, "THUNK", "BLACKHOLE")
                \/ Mark(n, "BLACKHOLE", "THUNK")
                \/ \E r \in Slot : Indirect(n, ref[r]) \/ \E f \in n.refs : Assign(n, f, ref[r])
    \/ /\ made < MaxBorn /\ made' = made + 1
       /\ \E r \in Slot, n \in node' : New(r, n)

GSpec == GInit /\ [][GNext]_gvars
=============================================================================
