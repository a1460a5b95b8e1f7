SPECIFICATION Spec
CONSTANTS
    Big = 3
    Retries = 2
    MaxErrors = 2
    Cap = 6
    Svc = 2
    Region = 2
    Staged <- MCStaged
    Configs <- MCConfigs
    Jobs <- MCJobs
    MaxJobs = 2
    MaxBoots = 2
    MaxPrompts = 1
INVARIANTS
    AckedIsStored
    DownloadExact
PROPERTY TransferEnds
CHECK_DEADLOCK FALSE
