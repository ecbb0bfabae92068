CONSTANTS
    Asserts = TRUE
    Calls <- MCCalls
    Values <- MCValues
    MaxSets = 1
SPECIFICATION Spec
INVARIANT Canonical
PROPERTY ImplementsRecord
CHECK_DEADLOCK FALSE
