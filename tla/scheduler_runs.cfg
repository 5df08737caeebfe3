SPECIFICATION FairSpec
CONSTANTS
    Pids = {p1, p2, p3}
    Inputs <- MCInputs
    Horizon = 5
    q <- MCQuantum
    b <- MCLimitB
    g <- MCLimitG
CHECK_DEADLOCK FALSE
INVARIANTS InOneQueue LevelKept GotItsDemand NobodySkipped ZeroBlocks
PROPERTIES QuantumOfFirst Finishes
