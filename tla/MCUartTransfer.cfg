CONSTANTS
    Programs <- MCPrograms
    Sizes <- MCSizes
SPECIFICATION Spec
INVARIANTS
    TakenOnce
    OneHandler
PROPERTY TransferImplemented
CHECK_DEADLOCK FALSE
