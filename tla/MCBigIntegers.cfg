CONSTANTS
    LIMB_BITS = 2
    LONG_BITS = 4
    Bound = 70
SPECIFICATION Spec
INVARIANT Exact
INVARIANT Canonical
