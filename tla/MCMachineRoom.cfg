CONSTANTS
    SmallInt <- MCSmallInt
    SmallChar <- MCSmallChar
    Program <- MCCells
    Code <- MCCode
    ConArity <- MCConArity
    MaxNest = 3
    MaxGC = 2
    Fuel = 30
SPECIFICATION Spec
CHECK_DEADLOCK FALSE
INVARIANT RoomKept
