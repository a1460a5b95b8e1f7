SPECIFICATION Spec
CONSTANTS
    Byte = {b0, b1}
    BUFSIZE_BYTE = 3
    ChecksFull = TRUE
INVARIANTS TypeOK NoSlotRace CheckedPutNeverSpins
PROPERTIES FifoRefinement PutReturns
