SPECIFICATION FairSpec
CONSTANTS
    Capacity = 2
    MaxBatch = 2
    Kinds <- StreamKinds
    MaxSequence = 4
    MaxFaults = 1
    MaxProgress = 1
    MaxInteractions = 0
PROPERTIES
    FailClosedStaysClosed
CHECK_DEADLOCK FALSE
