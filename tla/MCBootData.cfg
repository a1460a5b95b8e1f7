SPECIFICATION Spec
CONSTANTS
    Value = {"old", "a", "b"}
    Version1 = {"old"}
    as_v2 <- MCas_v2
    DefaultAllowed = FALSE
    DefaultValue = "a"
    None = None
    Entries = 2
    MaxCounter = 5
INVARIANTS TypeOK CountersDiffer
PROPERTIES AtomicRefinement
CHECK_DEADLOCK FALSE
