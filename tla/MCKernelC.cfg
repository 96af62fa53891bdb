CONSTANTS
    N = 3
    Programs <- MCPrograms
SPECIFICATION Spec
INVARIANTS
    TypeOK
    InScope
    IndexCurrent
PROPERTIES
    ImplementsKernel
