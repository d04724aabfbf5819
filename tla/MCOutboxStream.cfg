SPECIFICATION FairSpec
CONSTANTS
    Capacity = 2
    MaxBatch = 2
    Kinds <- StreamKinds
    MaxSequence = 4
    MaxFaults = 2
    MaxProgress = 0
    MaxInteractions = 0
INVARIANTS
    LedgerOrdered
    DeliveredInOrder
    DeliveredIsDurable
    TerminalEndsStream
    FlushBarrier
    PausedIsQuiescent
    StoppedIsClosed
PROPERTIES
    ImplementsLedger
    TerminalBarrierResolves
    PauseIsAnswered
    DeferredIsFlushed
CHECK_DEADLOCK FALSE
