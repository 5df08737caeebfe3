------------------------------ MODULE Prioque ------------------------------
(***************************************************************************)
(* The linked lists of Programming-Assignment#2/prioque.c, pointer by      *)
(* pointer.  Every function holds the lock of its queue, or of both its    *)
(* queues, from beginning to end (PrioqueLocks), so that it is one step.   *)
(* PriorityList is the abstract view.                                      *)
(*                                                                         *)
(* The state is a record that operators transform, because copy_queue and  *)
(* merge_queues call nolock_add_to_queue in a loop.  A nil tail that is    *)
(* followed ends the program: ok is then FALSE.  The consistency checks    *)
(* that CONSISTENCY_CHECKING compiles in end it as well: a caller does not *)
(* ask for an element past the end.                                        *)
(***************************************************************************)
EXTENDS Integers, Sequences, FiniteSets

CONSTANTS
    Queues,       \* the Queue structures of the program
    Values,       \* elements
    Priorities,
    Kinds,        \* what init_queue may be told; tag_only is priority_is_tag_only
    Nodes,        \* bound: what malloc has to give, a set of numbers
    Null

ASSUME NodesAssumption ==
    Nodes \subseteq Nat /\ IsFiniteSet(Nodes) /\ Null \notin Nodes

ASSUME PrioritiesAssumption == Priorities \subseteq Int

ASSUME KindsAssumption == Kinds \subseteq [duplicates : BOOLEAN, tag_only : BOOLEAN]

VARIABLE s   \* next, info, priority: the nodes; head, tail, current, previous,
             \* queuelength, kind: the queues; live: nodes in use; ok

First(S) == CHOOSE n \in S : \A m \in S : n <= m

\* The nodes of a queue, in order.
NodesOf(t, q) ==
    LET from[k \in 0 .. Cardinality(Nodes)] ==
            \* the last k nodes that follow, at most
            [n \in Nodes |-> IF k = 0 THEN <<>>
                             ELSE IF t.next[n] = Null THEN <<n>>
                             ELSE <<n>> \o from[k - 1][t.next[n]]]
    IN  IF t.head[q] = Null THEN <<>> ELSE from[Cardinality(Nodes)][t.head[q]]

Elements(seq) == {seq[i] : i \in 1 .. Len(seq)}

TypeOK ==
    LET Pointer == Nodes \cup {Null} IN
    /\ s.next \in [Nodes -> Pointer]
    /\ s.info \in [Nodes -> Values \cup {Null}]
    /\ s.priority \in [Nodes -> Priorities \cup {Null}]
    /\ s.live \subseteq Nodes /\ s.ok \in BOOLEAN
    /\ \A f \in {s.head, s.tail, s.current, s.previous} : f \in [Queues -> Pointer]
    /\ s.queuelength \in [Queues -> 0 .. Cardinality(Nodes)]
    /\ s.kind \in [Queues -> Kinds]

-----------------------------------------------------------------------------
(* Functions on one queue; t is the state they find. *)

Rewound(t, q) == [t EXCEPT !.current[q] = t.head[q], !.previous[q] = Null]

\* nolock_element_in_queue leaves the current position at the element it finds.
Found(t, q, v) ==
    LET at == {i \in 1 .. t.queuelength[q] : t.info[NodesOf(t, q)[i]] = v}
    IN  IF at = {} THEN Rewound(t, q)
        ELSE [t EXCEPT !.current[q] = NodesOf(t, q)[First(at)],
                       !.previous[q] = IF First(at) = 1 THEN Null
                                       ELSE NodesOf(t, q)[First(at) - 1]]

Contains(t, q, v) == \E n \in Elements(NodesOf(t, q)) : t.info[n] = v

\* Mutant: an element goes in front of those of its own priority.
PredecessorLess(t, q, p) ==
    LET l == NodesOf(t, q)
        k == CHOOSE k \in 0 .. Len(l) :
                /\ \A i \in 1 .. k : p > t.priority[l[i]]
                /\ k < Len(l) => ~ p > t.priority[l[k + 1]]
    IN  IF k = 0 THEN Null ELSE l[k]

\* The last node a new one goes behind in a priority queue, Null if none.
Predecessor(t, q, p) ==
    LET l == NodesOf(t, q)
        k == CHOOSE k \in 0 .. Len(l) :
                /\ \A i \in 1 .. k : p >= t.priority[l[i]]
                /\ k < Len(l) => ~ p >= t.priority[l[k + 1]]
    IN  IF k = 0 THEN Null ELSE l[k]

\* The new node n with its contents.
Allocated(t, n, v, p) ==
    [t EXCEPT !.live = @ \cup {n}, !.info[n] = v, !.priority[n] = p]

\* What t is after the nodes in `gone` are freed; their contents are lost.
Freed(t, gone) ==
    [t EXCEPT !.live = @ \ gone,
              !.next     = [n \in Nodes |-> IF n \in gone THEN Null ELSE @[n]],
              !.info     = [n \in Nodes |-> IF n \in gone THEN Null ELSE @[n]],
              !.priority = [n \in Nodes |-> IF n \in gone THEN Null ELSE @[n]]]

\* The three cases of nolock_add_to_queue, and the branch for a new first element.
Linked(t, q, n, p) ==
    LET before == Predecessor(t, q, p) IN
    CASE t.head[q] = Null ->
           [t EXCEPT !.next[n] = Null, !.head[q] = n, !.tail[q] = n]
      [] t.head[q] # Null /\ t.kind[q].tag_only ->
           IF t.tail[q] = Null THEN [t EXCEPT !.ok = FALSE]
           ELSE [t EXCEPT !.next = [@ EXCEPT ![t.tail[q]] = n, ![n] = Null],
                          !.tail[q] = n]
      [] t.head[q] # Null /\ ~ t.kind[q].tag_only /\ before = Null ->
           [t EXCEPT !.next[n] = t.head[q], !.tail[q] = t.head[q], !.head[q] = n]
      [] t.head[q] # Null /\ ~ t.kind[q].tag_only /\ before # Null ->
           [t EXCEPT !.next = [@ EXCEPT ![n] = t.next[before], ![before] = n],
                     !.tail[q] = IF t.next[before] = Null THEN n ELSE @]

\* nolock_add_to_queue
AddedTo(t, q, v, p) ==
    LET n == First(Nodes \ t.live) IN
    IF t.head[q] # Null /\ ~ t.kind[q].duplicates /\ Contains(t, q, v)
    THEN Found(t, q, v)
    ELSE Rewound([Linked(Allocated(t, n, v, p), q, n, p) EXCEPT !.queuelength[q] = @ + 1], q)

\* nolock_destroy_queue: tail keeps its value.
Destroyed(t, q) ==
    Rewound([Freed(t, Elements(NodesOf(t, q))) EXCEPT
                !.head[q] = Null, !.queuelength[q] = 0], q)

\* The nodes `more` of another queue added to q one after the other.
AllAdded(t, q, more) ==
    LET sum[i \in 0 .. Len(more)] ==
            IF i = 0 THEN t
            ELSE IF sum[i - 1].ok
                 THEN AddedTo(sum[i - 1], q, t.info[more[i]], t.priority[more[i]])
                 ELSE sum[i - 1]
    IN  sum[Len(more)]

-----------------------------------------------------------------------------
Init ==
    \E kind \in [Queues -> Kinds] :
        s = [next |-> [n \in Nodes |-> Null],
             info |-> [n \in Nodes |-> Null], priority |-> [n \in Nodes |-> Null],
             head |-> [q \in Queues |-> Null], tail |-> [q \in Queues |-> Null],
             current |-> [q \in Queues |-> Null], previous |-> [q \in Queues |-> Null],
             queuelength |-> [q \in Queues |-> 0], kind |-> kind,
             live |-> {}, ok |-> TRUE]

add_to_queue(q, v, p) ==
    /\ s.live # Nodes
    /\ s' = AddedTo(s, q, v, p)

\* Mutant: the current position is left where it was.
RemovedFrontNoRewind(q) ==
    LET after == s.next[s.head[q]] IN
    [Freed(s, {s.head[q]}) EXCEPT !.head[q] = after, !.queuelength[q] = @ - 1,
              !.tail[q] = IF after = Null \/ s.next[after] = Null THEN after ELSE @]

RemovedFront(q) ==
    LET after == s.next[s.head[q]] IN
    Rewound([Freed(s, {s.head[q]}) EXCEPT
                      !.head[q] = after, !.queuelength[q] = @ - 1,
                      !.tail[q] = IF after = Null \/ s.next[after] = Null
                                  THEN after ELSE @], q)

remove_from_front(q) ==
    s' = IF s.head[q] = Null THEN Rewound(s, q) ELSE RemovedFront(q)

\* Mutant: the tail is not moved when the last but one becomes the last.
DeletedKeepsTail(q) ==
    LET after == s.next[s.current[q]] IN
    IF s.previous[q] = Null
    THEN [Freed(s, {s.current[q]}) EXCEPT
            !.queuelength[q] = @ - 1, !.head[q] = after, !.current[q] = after]
    ELSE [Freed(s, {s.current[q]}) EXCEPT
            !.queuelength[q] = @ - 1, !.next[s.previous[q]] = after, !.current[q] = after]

\* At the front or behind `previous`; the tail becomes the current element, which
\* is Null after the last one was deleted.
Deleted(q) ==
    LET t == [Freed(s, {s.current[q]}) EXCEPT !.queuelength[q] = @ - 1]
        after == s.next[s.current[q]]
        newTail == IF after = Null \/ s.next[after] = Null THEN after ELSE s.tail[q]
    IN  IF s.previous[q] = Null
        THEN [t EXCEPT !.head[q] = s.next[s.head[q]], !.current[q] = s.next[s.head[q]],
                       !.tail[q] = newTail]
        ELSE [t EXCEPT !.next[s.previous[q]] = after, !.current[q] = after,
                       !.tail[q] = newTail]

delete_current(q) ==
    /\ s.current[q] # Null
    /\ s' = Deleted(q)

update_current(q, v) ==
    /\ s.current[q] # Null
    /\ s' = [s EXCEPT !.info[s.current[q]] = v]

rewind_queue(q) == s' = Rewound(s, q)

next_element(q) ==
    /\ s.current[q] # Null
    /\ s' = [s EXCEPT !.previous[q] = s.current[q], !.current[q] = s.next[s.current[q]]]

element_in_queue(q, v) == s' = Found(s, q, v)

destroy_queue(q) == s' = Destroyed(s, q)

\* q1 takes over what init_queue was told of q2.
copy_queue(q1, q2) ==
    LET empty == [Destroyed(s, q1) EXCEPT !.kind[q1] = s.kind[q2], !.tail[q1] = Null]
    IN  /\ s.queuelength[q2] <= Cardinality(Nodes \ empty.live)
        /\ s' = Rewound(Rewound(AllAdded(empty, q1, NodesOf(s, q2)), q1), q2)

\* Mutant: q1 keeps its own order.
copy_queue_keeps_kind(q1, q2) ==
    LET empty == [Destroyed(s, q1) EXCEPT !.tail[q1] = Null]
    IN  /\ s.queuelength[q2] <= Cardinality(Nodes \ empty.live)
        /\ s' = Rewound(Rewound(AllAdded(empty, q1, NodesOf(s, q2)), q1), q2)

merge_queues(q1, q2) ==
    /\ s.queuelength[q2] <= Cardinality(Nodes \ s.live)
    /\ s' = LET t == AllAdded(s, q1, NodesOf(s, q2))
            IN  IF t.ok THEN Rewound(t, q1) ELSE t

Next ==
    /\ s.ok
    /\ \/ \E q \in Queues :
            \/ \E v \in Values, p \in Priorities : add_to_queue(q, v, p)
            \/ remove_from_front(q) \/ delete_current(q) \/ rewind_queue(q)
            \/ next_element(q) \/ destroy_queue(q)
            \/ \E v \in Values : update_current(q, v) \/ element_in_queue(q, v)
       \/ \E q1, q2 \in Queues : q1 # q2 /\ (copy_queue(q1, q2) \/ merge_queues(q1, q2))

Spec == Init /\ [][Next]_s

-----------------------------------------------------------------------------
(* Properties *)

\* Every node is in exactly one queue or free, each list ends, its length is right,
\* and previous comes before current: nothing is leaked, freed twice or reachable
\* after it was freed, whatever functions were called on either queue.
WellFormed ==
    /\ TypeOK
    /\ s.ok =>
       /\ s.live = UNION {Elements(NodesOf(s, q)) : q \in Queues}
       /\ \A q1, q2 \in Queues : q1 # q2 =>
             Elements(NodesOf(s, q1)) \cap Elements(NodesOf(s, q2)) = {}
       /\ \A q \in Queues :
             LET l == NodesOf(s, q) IN
             /\ s.queuelength[q] = Len(l) /\ Cardinality(Elements(l)) = Len(l)
             /\ l # <<>> => s.next[l[Len(l)]] = Null
             /\ IF s.previous[q] = Null THEN s.current[q] = s.head[q]
                ELSE s.previous[q] \in Elements(l) /\ s.next[s.previous[q]] = s.current[q]

\* The tail of a FIFO queue, to which elements are added, is its last element, or
\* nil after delete_current took the last element out.
TailIsLast ==
    s.ok => \A q \in Queues :
        LET l == NodesOf(s, q) IN
        l # <<>> /\ s.kind[q].tag_only => s.tail[q] \in {l[Len(l)], Null}

\* Refinement: the lists and current positions a caller sees.
Lists == [q \in Queues |->
    LET l == NodesOf(s, q) IN
    [i \in 1 .. Len(l) |-> [info |-> s.info[l[i]], priority |-> s.priority[l[i]]]]]

Positions == [q \in Queues |->
    LET l == NodesOf(s, q) IN
    IF s.current[q] = Null THEN Len(l) + 1 ELSE CHOOSE i \in 1 .. Len(l) : l[i] = s.current[q]]

\* Lower numbers are nearer to the front (prioque.h has it the other way round).
LowerAhead == {pr \in Priorities \X Priorities : pr[1] <= pr[2]}

List == INSTANCE PriorityList WITH
    list <- Lists, position <- Positions, Ahead <- LowerAhead,
    kind <- [q \in Queues |-> [fifo |-> s.kind[q].tag_only, duplicates |-> s.kind[q].duplicates]]

\* Every function does to the list and to the current position what it is for, an
\* element of equal priority goes "strictly to the rear", and a merge or a copy is one
\* addition after the other: pointers are never confused.  This is what the functions
\* make of the list, in two respects not what prioque.h says: the order of unequal
\* priorities (121) is taken from prioque.c, and a duplicate that add_to_queue refuses
\* becomes the current element, where 181-184 say that the position is rewound.
ImplementsList == [][s'.ok => List!Next]_s

\* add_to_queue "adds 'element' to the 'q' with position based on 'priority'".
AddWorks == s.ok

=============================================================================
