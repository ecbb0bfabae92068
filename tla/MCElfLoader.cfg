\* Every input of characters from the power-up state. Both buffers of the
\* loader are finite; a size line is at most MaxLine long.
CONSTANTS
    Base = 2
    IntDigits = 3
    SizeDigits = 4
    ELF_BUFFER_SIZE = 3
    MaxLine = 6
SPECIFICATION Spec
INVARIANTS TypeOK PhaseOK OutsideOnlyIfOversize
PROPERTIES HandsOverWholeFile ReadsFittingSize
\* After a store outside the buffer no further call is modelled.
CHECK_DEADLOCK FALSE
