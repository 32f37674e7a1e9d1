CONSTANTS
    Imports <- MCImports
    NumClasses <- MCNumClasses
    Candidates <- MCCandidates
    Inputs <- MCShadow
SPECIFICATION Spec
INVARIANT SplitsIntoComponents
