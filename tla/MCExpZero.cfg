CONSTANTS
    Width = 4
    Inputs <- MCInputs
SPECIFICATION LoopSpec
INVARIANT Raised
