SPECIFICATION Spec
CONSTANTS
    e1 = e1
    e2 = e2
    v1 = v1
    j1 = j1
    Explorers = {e1, e2}
    Verifiers = {v1}
    Judges = {j1}
    Controlled = {v1}
    Setups <- SmallSetups
    Credit <- OneEach
    Usage = {1}
INVARIANTS TypeOK CreditsReserved BudgetBalances ParallelBounded OneStory WaitIsWoken
PROPERTIES HandleSettles BatchSettles
CHECK_DEADLOCK FALSE
