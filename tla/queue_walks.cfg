SPECIFICATION Spec
CONSTANTS
    Walkers = {w1, w2}
    Takers = {t1, t2}
    Values = {a, b, c}
    Priorities <- MCPriorities
    Ahead <- MCAhead
    Null = Null
    q = q
CHECK_DEADLOCK FALSE
INVARIANTS EndsOnlyDisturbed SeesAll TakenOnce
PROPERTY WalkEnds
