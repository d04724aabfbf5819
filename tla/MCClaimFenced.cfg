SPECIFICATION FairSpec
CONSTANTS
    Capacity = 2
    MaxBatch = 2
    Kinds <- SessionKinds
    MaxSequence = 3
    MaxFaults = 0
    MaxProgress = 0
    MaxInteractions = 1
PROPERTIES
    CheckpointIsFenced
CHECK_DEADLOCK FALSE
