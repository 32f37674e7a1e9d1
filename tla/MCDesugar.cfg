CONSTANTS
    Inputs <- MCInputs
    Fuel = 150
    LongMax = 15
SPECIFICATION Spec
INVARIANT WellFormed
INVARIANT RejectsOnlyIllegal
INVARIANT AgreesWithReport
CHECK_DEADLOCK FALSE
