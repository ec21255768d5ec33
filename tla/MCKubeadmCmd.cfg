SPECIFICATION Spec
CONSTANTS
    Outputs <- MCOutputs
    PipeSize = 2
    MaxToken = 3
INVARIANTS
    TypeOK
    NothingLeftBehind
    OutputPrinted
    NoDeadlock
PROPERTIES
    CommandReturns
