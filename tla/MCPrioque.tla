----------------------------- MODULE MCPrioque -----------------------------
(* Small instances of Prioque for TLC. *)
EXTENDS Prioque, TLC

MCPriorities == {1, 2}
MCNodes      == 1 .. 4
\* The queues of the scheduler, and sorted ones with and without duplicates.
MCKinds      == {[duplicates |-> TRUE,  tag_only |-> TRUE],
                 [duplicates |-> TRUE,  tag_only |-> FALSE],
                 [duplicates |-> FALSE, tag_only |-> FALSE]}

\* Which of the free nodes malloc gives makes no difference: two states are the same
\* when their queues are, with nodes named by their places.
Place(q, n) ==
    LET l == NodesOf(s, q)
    IN  IF \E i \in 1 .. Len(l) : l[i] = n THEN CHOOSE i \in 1 .. Len(l) : l[i] = n
        ELSE IF n = Null THEN 0 ELSE -1
ByPlace      == <<Lists, s.kind, s.queuelength, s.ok, Cardinality(s.live),
                  [q \in Queues |-> <<Place(q, s.tail[q]), Place(q, s.current[q]),
                                      Place(q, s.previous[q])>>]>>

Symmetric    == Permutations(Values) \cup Permutations(Queues)

=============================================================================
