CONSTANTS
    memory <- MCmemory
    Starts <- MCStarts
    MaxBytes = 3
SPECIFICATION ProtocolSpec
INVARIANTS
    DataRight
    NoConflict
