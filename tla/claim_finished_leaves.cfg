SPECIFICATION FairSpec
CONSTANTS
    Pids = {p1, p2, p3}
    Inputs <- MCAlignedInputs
    Horizon = 5
    q <- MCQuantum
    b <- MCLimitB
    g <- MCLimitG
CHECK_DEADLOCK FALSE
INVARIANT FinishedLeaves
