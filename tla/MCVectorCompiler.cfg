CONSTANTS
    N = 3
    Programs <- MCPrograms
    Inputs <- MCInputs
SPECIFICATION CompilerSpec
INVARIANTS
    TypeOK
    ElementWise
    InBounds
    LoopCoversLive
    IteratorsKeepPace
    VisitorTypeOK
    StackCoversVisited
    IteratorsUnique
    LoopsInLatticeOrder
    PointsComplete
    FirstMatchIsLargest
PROPERTIES
    CoordinatesAscend
    Terminates
    Implements
