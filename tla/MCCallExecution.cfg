CONSTANTS
    Width = 4
    Calls <- MCCalls
    Inputs <- MCInputs
SPECIFICATION CallSpec
INVARIANTS
    EveryCellStored
    ElementsRight
    PrintedInNotation
    TypeOK
    ProductFollowsIndex
    Raised
PROPERTY Ends
