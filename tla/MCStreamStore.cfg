SPECIFICATION Spec
CONSTANTS
    Plans <- SmallPlans
    PageSize = 1
    MaxAttempts = 2
    MaxFaults = 1
    MaxReloads = 1
INVARIANTS
    TypeOK
    ShownInOrder
    NothingSkippedInTime
PROPERTIES
    NeverRollsBack
    EndedIsSettled
    GapIsResolved
CHECK_DEADLOCK FALSE
