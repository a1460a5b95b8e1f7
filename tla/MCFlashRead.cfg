CONSTANTS
    memory <- MCmemory
    Addr <- MCAddr
    Drivers = {"bootloader", "simulate_flash"}
    CmdDepth = 4
    TxDepth = 72
    MaxRestarts = 2
SPECIFICATION Spec
INVARIANTS
    TypeOK
    ReadsMemory
    NoHostError
    NoContention
PROPERTIES
    ReadReturns
