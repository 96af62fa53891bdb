CONSTANT
    Inputs <- MCInputs
SPECIFICATION Spec
INVARIANTS
    TypeOK
    TextKept
    ParsesGrammar
    ParsedIsText
    ErrorsMarked
    OnlyAssignmentsLost
    AbortsOnlyUnfinished
PROPERTIES
    Terminates
