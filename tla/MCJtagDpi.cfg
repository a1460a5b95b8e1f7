SPECIFICATION Spec
CONSTANTS
    MaxCmds = 5
    RingMax = 2
    Sends <- MCSends
    AssertSrst = FALSE
CHECK_DEADLOCK FALSE
INVARIANTS TypeOK AnswersInOrder AllDone
PROPERTIES Drains
