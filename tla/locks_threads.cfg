SPECIFICATION Spec
CONSTANTS
    Threads = {t1, t2, t3}
    Queues = {q1, q2, q3}
    Pairs <- AllPairs
    global_lock = global_lock
    Nobody = Nobody
    Calls = 1
CHECK_DEADLOCK FALSE
INVARIANTS LocksInv Exclusive NoDeadlock
PROPERTY CallsReturn
