SPECIFICATION RecoverySpec
CONSTANTS
    Capacity = 2
    MaxBatch = 2
    Kinds <- LifecycleKinds
    MaxSequence = 3
    MaxFaults = 1
    MaxProgress = 1
    MaxInteractions = 1
    MaxCrashes = 2
INVARIANTS
    LedgerOrdered
PROPERTIES
    RecoveredIsSettled
    PauseSurvivesCrash
    RecoveryHonoursStop
    RecoveryCompletes
CHECK_DEADLOCK FALSE
