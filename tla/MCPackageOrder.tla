--------------------------- MODULE MCPackageOrder ---------------------------
EXTENDS PackageOrder

CONSTANTS a, b, c, x

\* Every list of at most three of the names, in the order of the names.
MCLists ==
    LET order == <<a, b, c, x>>
        listed(S) == SelectSeq(order, LAMBDA n : n \in S)
    IN  {listed(S) : S \in SUBSET {a, b, c, x}}
=============================================================================
