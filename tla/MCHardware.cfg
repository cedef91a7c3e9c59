SPECIFICATION Spec
CONSTANTS
    Configs <- MCConfigs
    Images = {"i1", "i2"}
    Event <- MCEvent
    MaxFaults = 1
    MaxDeploys = 1
    MaxSessions = 2
    MaxRecords = 2
INVARIANTS
    HardwareOrNothing
    RealReceiptsVerify
CHECK_DEADLOCK FALSE
