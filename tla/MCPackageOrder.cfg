CONSTANTS
    a = a
    b = b
    c = c
    x = x
    Name = {a, b, c, x}
    Package = {a, b, c}
    Lists <- MCLists
SPECIFICATION FairSpec
INVARIANT WalkInv
INVARIANT DependenciesFirst
INVARIANT ExactlyNeeded
PROPERTY Ends
CHECK_DEADLOCK FALSE
