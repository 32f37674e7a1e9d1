------------------------------- MODULE MCHeap -------------------------------
EXTENDS HeapInv, TLC

\* A partial application to one argument, a cell with one field, a thunk, a
\* packed string and a large integer, which is garbage enough for a second
\* collection.
MCShape == {[kind |-> "PAP", size |-> 2], [kind |-> "CON", size |-> 2], [kind |-> "THUNK", size |-> 2],
            [kind |-> "STR", size |-> 2], [kind |-> "BIG", size |-> 4]}

Symmetry == Permutations(Space) \cup Permutations(Slot)
=============================================================================
