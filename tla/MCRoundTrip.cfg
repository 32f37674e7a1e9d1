SPECIFICATION Spec
CONSTANTS
  KindOf <- MCKindOf
  Pieces <- MCPieces
  Qualified <- MCQualified
  Unboxed = TRUE
  Sources <- MCSources
INVARIANT RoundTrips
CHECK_DEADLOCK FALSE
