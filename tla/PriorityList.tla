---------------------------- MODULE PriorityList ----------------------------
(***************************************************************************)
(* What the queues of Programming-Assignment#2/prioque.c are for a caller: *)
(* lists of elements with priorities, and a current position in each.      *)
(* Prioque implements this.                                                *)
(***************************************************************************)
EXTENDS Integers, Sequences, FiniteSets

CONSTANTS
    Queues,       \* the Queue structures of the program
    Values,       \* elements; `compare` finds equal ones equal
    Priorities,
    Ahead         \* pairs <<p, r>>: a new element of priority r goes behind one of p

Element == [info : Values, priority : Priorities]
Kind    == [fifo : BOOLEAN, duplicates : BOOLEAN]

VARIABLES
    list,       \* the elements of each queue, in order
    position,   \* the number of the current one, or one more than there are
    kind        \* as init_queue was told

TypeOK ==
    /\ list \in [Queues -> Seq(Element)]
    /\ position \in [Queues -> Nat \ {0}]
    /\ \A q \in Queues : position[q] <= Len(list[q]) + 1
    /\ kind \in [Queues -> Kind]

\* How many elements a new one of priority p goes behind: those at the front that are
\* to stay ahead of it.
Place(l, p, fifo) ==
    IF fifo THEN Len(l)
    ELSE CHOOSE n \in 0 .. Len(l) : /\ \A i \in 1 .. n : <<l[i].priority, p>> \in Ahead
                                    /\ n < Len(l) => <<l[n + 1].priority, p>> \notin Ahead

Inserted(l, e, fifo) ==
    LET n == Place(l, e.priority, fifo)
    IN  SubSeq(l, 1, n) \o <<e>> \o SubSeq(l, n + 1, Len(l))

\* e added to l unless it is there already and duplicates are not allowed.
Added(l, e, k) ==
    IF ~ k.duplicates /\ \E i \in 1 .. Len(l) : l[i].info = e.info THEN l
    ELSE Inserted(l, e, k.fifo)

\* The elements of a list added one after the other.
AllAdded(l, more, k) ==
    LET sum[i \in 0 .. Len(more)] == IF i = 0 THEN l ELSE Added(sum[i - 1], more[i], k)
    IN  sum[Len(more)]

Init ==
    /\ list = [q \in Queues |-> <<>>] /\ position = [q \in Queues |-> 1]
    /\ kind \in [Queues -> Kind]

\* A duplicate that is refused becomes the current element.
Add(q, e) ==
    LET l     == list[q]
        equal == {i \in 1 .. Len(l) : l[i].info = e.info}
        added == Added(l, e, kind[q])
    IN  /\ position' = [position EXCEPT ![q] =
                IF added # l THEN 1 ELSE CHOOSE i \in equal : \A j \in equal : i <= j]
        /\ list' = [list EXCEPT ![q] = added]
        /\ UNCHANGED kind

RemoveFront(q) ==
    /\ position' = [position EXCEPT ![q] = 1]
    /\ list' = [list EXCEPT ![q] = IF @ = <<>> THEN @ ELSE Tail(@)]
    /\ UNCHANGED kind

DeleteCurrent(q) ==
    /\ position[q] <= Len(list[q])
    /\ list' = [list EXCEPT ![q] = SubSeq(@, 1, position[q] - 1)
                                   \o SubSeq(@, position[q] + 1, Len(@))]
    /\ UNCHANGED <<position, kind>>

UpdateCurrent(q, v) ==
    /\ position[q] <= Len(list[q])
    /\ list' = [list EXCEPT ![q][position[q]].info = v]
    /\ UNCHANGED <<position, kind>>

Rewind(q) ==
    /\ position' = [position EXCEPT ![q] = 1]
    /\ UNCHANGED <<list, kind>>

Advance(q) ==
    /\ position[q] <= Len(list[q])
    /\ position' = [position EXCEPT ![q] = @ + 1]
    /\ UNCHANGED <<list, kind>>

Find(q, v) ==
    LET equal == {i \in 1 .. Len(list[q]) : list[q][i].info = v} IN
    /\ position' = [position EXCEPT ![q] =
            IF equal = {} THEN 1 ELSE CHOOSE i \in equal : \A j \in equal : i <= j]
    /\ UNCHANGED <<list, kind>>

Destroy(q) ==
    /\ list' = [list EXCEPT ![q] = <<>>]
    /\ position' = [position EXCEPT ![q] = 1]
    /\ UNCHANGED kind

\* Where duplicates are not allowed, those that UpdateCurrent made are not copied.
Copy(q1, q2) ==
    /\ list' = [list EXCEPT ![q1] = AllAdded(<<>>, list[q2], kind[q2])]
    /\ position' = [position EXCEPT ![q1] = 1, ![q2] = 1]
    /\ kind' = [kind EXCEPT ![q1] = kind[q2]]

Merge(q1, q2) ==
    /\ list' = [list EXCEPT ![q1] = AllAdded(@, list[q2], kind[q1])]
    /\ position' = [position EXCEPT ![q1] = 1]
    /\ UNCHANGED kind

Next ==
    \/ \E q \in Queues :
         \/ \E e \in Element : Add(q, e)
         \/ RemoveFront(q) \/ DeleteCurrent(q) \/ Rewind(q) \/ Advance(q)
         \/ Destroy(q)
         \/ \E v \in Values : UpdateCurrent(q, v) \/ Find(q, v)
    \/ \E q1, q2 \in Queues : q1 # q2 /\ (Copy(q1, q2) \/ Merge(q1, q2))

Spec == Init /\ [][Next]_<<list, position, kind>>

=============================================================================
