SPECIFICATION Spec
CONSTANTS
    Owner <- MCOwner
    SiliconCreator = SiliconCreator
    None = None
    Configs <- MCConfigs
    Initial <- AliceSelfVersion
    Image <- MCImage
    Requests <- MCRequests
    MaxNonce = 2
    MaxFaults = 2
INVARIANTS TypeOK LockedRunsOwners
PROPERTIES ConfigPermitted LockedNeverLost BackupRestored
CHECK_DEADLOCK FALSE
