SPECIFICATION Spec
CONSTANTS
    Plans <- SmallPlans
    PageSize = 2
    MaxAttempts = 2
    MaxFaults = 0
    MaxReloads = 0
INVARIANTS
    NothingSkipped
CHECK_DEADLOCK FALSE
