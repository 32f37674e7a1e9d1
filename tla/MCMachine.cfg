CONSTANTS
    SmallInt <- MCSmallInt
    SmallChar <- MCSmallChar
    Program <- MCPrograms
    Code <- MCCode
    ConArity <- MCConArity
    MaxNest = 3
    MaxGC = 2
    Fuel = 30
SPECIFICATION FairSpec
INVARIANT NoStale
INVARIANT StackConsistent
INVARIANT AgreesWithMeaning
INVARIANT CellsKeepOrder
PROPERTY RoomKeptOtherwise
PROPERTY ValuesStay
PROPERTY Ends
CHECK_DEADLOCK FALSE
