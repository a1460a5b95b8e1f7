SPECIFICATION Spec
CONSTANTS
    NoConn = NoConn
    Conn = {c1, c2}
    MaxData = 2
    Window = 1
    RingMax = 2
INVARIANTS OrphansBounded
PROPERTIES CloseReturns
