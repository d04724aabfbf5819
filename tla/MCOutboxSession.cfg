SPECIFICATION Spec
CONSTANTS
    Capacity = 2
    MaxBatch = 2
    Kinds <- SessionKinds
    MaxSequence = 4
    MaxFaults = 1
    MaxProgress = 1
    MaxInteractions = 1
INVARIANTS
    TypeOK
    LedgerOrdered
PROPERTIES
    LedgerAppendOnly
    BarrierHolds
CHECK_DEADLOCK FALSE
