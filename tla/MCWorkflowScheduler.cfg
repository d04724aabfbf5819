SPECIFICATION Spec
CONSTANTS
    a1 = a1
    a2 = a2
    Automations <- Both
    Policies <- SmallPolicies
    Outcomes = {"completed"}
    MaxAttempts = 3
    MaxClock = 1
    MaxRequests <- SmallRequests
    MaxDues = 1
    MaxRuns = 3
INVARIANTS TypeOK OneExecution OverlapIsSkipped OneIsolatedWriter
PROPERTIES StartsAreAuthorised CursorLeavesNothingBehind
CHECK_DEADLOCK FALSE
