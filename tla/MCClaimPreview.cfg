SPECIFICATION FairSpec
CONSTANTS
    Capacity = 2
    MaxBatch = 2
    Kinds <- StreamKinds
    MaxSequence = 4
    MaxFaults = 0
    MaxProgress = 0
    MaxInteractions = 0
PROPERTIES
    PreviewNeverPoisons
CHECK_DEADLOCK FALSE
