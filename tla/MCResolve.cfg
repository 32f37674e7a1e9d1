\* Modules of a few declarations, and what the reference may say of them.
SPECIFICATION Spec
CONSTANTS
    Inputs <- MCInputs
    Dumps <- MCDumps
 
INVARIANT AgreeExactly
