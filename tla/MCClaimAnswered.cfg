SPECIFICATION FairSpec
CONSTANTS
    Capacity = 2
    MaxBatch = 2
    Kinds <- SessionKinds
    MaxSequence = 4
    MaxFaults = 0
    MaxProgress = 1
    MaxInteractions = 1
PROPERTIES
    AnsweredStaysResumed
CHECK_DEADLOCK FALSE
