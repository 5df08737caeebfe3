SPECIFICATION Spec
CONSTANTS
    Queues = {q1, q2}
    Values = {a, b}
    Priorities <- MCPriorities
    Kinds <- MCKinds
    Nodes <- MCNodes
    Null = Null
SYMMETRY Symmetric
CHECK_DEADLOCK FALSE
INVARIANT AddWorks
