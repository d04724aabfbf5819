SPECIFICATION RecoverySpec
CONSTANTS
    Capacity = 2
    MaxBatch = 2
    Kinds <- LifecycleKinds
    MaxSequence = 3
    MaxFaults = 1
    MaxProgress = 1
    MaxInteractions = 1
    MaxCrashes = 1
PROPERTIES
    RestartReleasesWorkflow
CHECK_DEADLOCK FALSE
