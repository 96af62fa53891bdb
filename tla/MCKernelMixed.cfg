CONSTANTS
    N = 3
    Programs <- MCPrograms
SPECIFICATION Spec
INVARIANTS
    ElementWise
