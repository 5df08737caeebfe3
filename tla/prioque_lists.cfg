SPECIFICATION Spec
CONSTANTS
    Queues = {q1, q2}
    Values = {a, b}
    Priorities <- MCPriorities
    Kinds <- MCKinds
    Nodes <- MCNodes
    Null = Null
SYMMETRY Symmetric
VIEW ByPlace
CHECK_DEADLOCK FALSE
INVARIANTS WellFormed TailIsLast
 
