CONSTANT Inputs <- MCInputs
SPECIFICATION Spec
INVARIANT FailsForCause
INVARIANT SameObject
INVARIANT BuiltinsInScope
INVARIANT Consistent
PROPERTY Settled
PROPERTY Advances
