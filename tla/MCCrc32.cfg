SPECIFICATION Spec
CONSTANTS
    W = 32
    POLY <- MCPoly
    Message <- MCAll
    MaxSize = 4
    MCLen = 2
INVARIANTS TypeOK IntactCopyPasses WrongByteRefused SampleCrc
