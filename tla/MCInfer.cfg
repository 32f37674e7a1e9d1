CONSTANTS
    Imports <- MCImports
    NumClasses <- MCNumClasses
    Candidates <- MCCandidates
    Inputs <- MCInputs
SPECIFICATION Spec
INVARIANT LevelsSound
INVARIANT EvidenceFits
INVARIANT AgreesWithReport
PROPERTY Advances
