CONSTANT Programs <- MCPrograms
SPECIFICATION Spec
INVARIANTS
    TypeOK
    KeptShapesInferred
    LoadsFit
    BlocksWellFormed
    EvaluatedCallsPrint
