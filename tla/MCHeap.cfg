CONSTANTS
    Slot = {r1, r2}
    Space = {s1, s2, s3}
    Static = {}
    NULL = NULL
    Data = Data
    Shape <- MCShape
    InitSize = 8
    Needs = {1, 2}
    MaxSize = 16
    MaxBorn = 3
SPECIFICATION Spec
INVARIANT TypeOK
INVARIANT NoDangling
INVARIANT Room
INVARIANT NoGarbage
INVARIANT GraphInv
INVARIANT Ownership
PROPERTY RefinesGraph
PROPERTY Advances
SYMMETRY Symmetry
