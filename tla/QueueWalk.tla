----------------------------- MODULE QueueWalk -----------------------------
(***************************************************************************)
(* Threads that share one queue of Programming-Assignment#2/prioque.c.     *)
(* Some walk it the way test-prioque.c does:                               *)
(*     rewind_queue(&q);                                                   *)
(*     while (! end_of_queue(&q)) {                                        *)
(*       ... pointer_to_current(&q) ... current_priority(&q) ...           *)
(*       next_element(&q); }                                               *)
(* while others add elements and remove them from the front.  Each call is *)
(* a step (PrioqueLocks) and does what it does to a list (Prioque), but a  *)
(* walk is many, the current position belongs to the queue and not to the  *)
(* walk, and pointer_to_current gives a pointer to what another call may   *)
(* free.                                                                   *)
(***************************************************************************)
EXTENDS Integers, Sequences, FiniteSets

CONSTANTS
    Walkers, Takers,   \* threads
    Values,            \* bound: the elements, each of which is added once
    Priorities,
    Ahead,             \* which of them go ahead of which (PriorityList)
    Null,
    q                  \* the queue

Queues == {q}

VARIABLES
    list, position, kind,   \* the queue
    pc,          \* of each walker
    pointer,     \* the element that a walker has a pointer to
    ended,       \* how and by which walk the program came to a bad end, Null while it runs
    disturbed,   \* history: another one took an element or advanced during its walk
    unseen,      \* history: what was in the queue when it began and it has not used,
                 \* unless it was disturbed
    got          \* history: what each taker got

vars == <<list, position, kind, pc, pointer, ended, disturbed, unseen, got>>
queue == <<list, position, kind>>

Q == INSTANCE PriorityList

Contents == {list[q][i].info : i \in 1 .. Len(list[q])}

AtEnd == position[q] > Len(list[q])

\* The values added so far.
Added == Contents \cup UNION {got[t] : t \in Takers}

Endings == [how : {"NULL pointer", "exit", "freed memory"}, by : Walkers]

Walking(w) == pc[w] \notin {"caller", "done"}

Init ==
    /\ Q!Init /\ kind[q].duplicates
    /\ pc = [w \in Walkers |-> "caller"] /\ pointer = [w \in Walkers |-> Null]
    /\ ended = Null
    /\ disturbed = [w \in Walkers |-> FALSE] /\ unseen = [w \in Walkers |-> {}]
    /\ got = [t \in Takers |-> {}]

-----------------------------------------------------------------------------
(* The other threads *)

\* The walks that the step of another thread disturbs.
Disturb(others) ==
    LET hit == {w \in others : Walking(w)} IN
    /\ disturbed' = [w \in Walkers |-> disturbed[w] \/ w \in hit]
    /\ unseen' = [w \in Walkers |-> IF w \in hit THEN {} ELSE unseen[w]]

add_to_queue(v, p) ==
    /\ v \notin Added
    /\ Q!Add(q, [info |-> v, priority |-> p])
    /\ UNCHANGED <<pc, pointer, ended, disturbed, unseen, got>>

\* Mutant: the element stays in the queue.
remove_from_front_copies(t) ==
    /\ Q!Rewind(q)
    /\ got' = [got EXCEPT ![t] = IF list[q] = <<>> THEN @ ELSE @ \cup {list[q][1].info}]
    /\ Disturb(IF list[q] = <<>> THEN {} ELSE Walkers)
    /\ UNCHANGED <<pc, pointer, ended>>

remove_from_front(t) ==
    /\ Q!RemoveFront(q)
    /\ got' = [got EXCEPT ![t] = IF list[q] = <<>> THEN @ ELSE @ \cup {list[q][1].info}]
    /\ Disturb(IF list[q] = <<>> THEN {} ELSE Walkers)
    /\ UNCHANGED <<pc, pointer, ended>>

-----------------------------------------------------------------------------
(* A walk *)

Goto(w, place) == pc' = [pc EXCEPT ![w] = place]

Ends(w, how) ==
    /\ ended' = [how |-> how, by |-> w]
    /\ UNCHANGED <<queue, pc, pointer, disturbed, unseen, got>>

\* Mutant: the queue is not rewound.
WalkFromCurrent(w) ==
    /\ pc[w] = "caller" /\ Goto(w, "test")
    /\ unseen' = [unseen EXCEPT ![w] = Contents]
    /\ UNCHANGED <<queue, pointer, ended, disturbed, got>>

Walk(w) ==
    /\ pc[w] = "caller" /\ Goto(w, "test")
    /\ Q!Rewind(q)
    /\ unseen' = [unseen EXCEPT ![w] = Contents]
    /\ UNCHANGED <<pointer, ended, disturbed, got>>

\* Mutant: the loop asks whether the queue is empty.
TestEmpty(w) ==
    /\ pc[w] = "test" /\ Goto(w, IF list[q] = <<>> THEN "done" ELSE "point")
    /\ UNCHANGED <<queue, pointer, ended, disturbed, unseen, got>>

\* end_of_queue
Test(w) ==
    /\ pc[w] = "test" /\ Goto(w, IF AtEnd THEN "done" ELSE "point")
    /\ UNCHANGED <<queue, pointer, ended, disturbed, unseen, got>>

\* pointer_to_current; a NULL pointer is followed at once.
Point(w) ==
    /\ pc[w] = "point"
    /\ \/ AtEnd /\ Ends(w, "NULL pointer")
       \/ /\ ~ AtEnd /\ Goto(w, "priority")
          /\ pointer' = [pointer EXCEPT ![w] = list[q][position[q]].info]
          /\ UNCHANGED <<queue, ended, disturbed, unseen, got>>

\* current_priority checks for NULL and exits.
Priority(w) ==
    /\ pc[w] = "priority"
    /\ \/ AtEnd /\ Ends(w, "exit")
       \/ /\ ~ AtEnd /\ Goto(w, "use")
          /\ UNCHANGED <<queue, pointer, ended, disturbed, unseen, got>>

\* What the pointer points to is printed; it may have been freed.
Use(w) ==
    /\ pc[w] = "use"
    /\ \/ pointer[w] \notin Contents /\ Ends(w, "freed memory")
       \/ /\ pointer[w] \in Contents /\ Goto(w, "next")
          /\ unseen' = [unseen EXCEPT ![w] = @ \ {pointer[w]}]
          /\ pointer' = [pointer EXCEPT ![w] = Null]
          /\ UNCHANGED <<queue, ended, disturbed, got>>

\* Mutant: the position is not moved.
NextStays(w) ==
    /\ pc[w] = "next" /\ Goto(w, "test")
    /\ UNCHANGED <<queue, pointer, ended, disturbed, unseen, got>>

\* next_element checks for NULL and exits.
next_element(w) ==
    /\ pc[w] = "next"
    /\ \/ AtEnd /\ Ends(w, "exit")
       \/ /\ Goto(w, "test")
          /\ Q!Advance(q)
          /\ Disturb(Walkers \ {w})
          /\ UNCHANGED <<pointer, ended, got>>

Loop(w) == Test(w) \/ Point(w) \/ Priority(w) \/ Use(w) \/ next_element(w)

Next ==
    /\ ended = Null
    /\ \/ \E v \in Values, p \in Priorities : add_to_queue(v, p)
       \/ \E t \in Takers : remove_from_front(t)
       \/ \E w \in Walkers : Walk(w) \/ Loop(w)

\* A thread that walks runs on; nothing makes a thread begin a walk, add or remove.
Spec == Init /\ [][Next]_vars /\ \A w \in Walkers : WF_vars(ended = Null /\ Loop(w))

-----------------------------------------------------------------------------
(* Properties *)

TypeOK ==
    /\ Q!TypeOK
    /\ pc \in [Walkers -> {"caller", "test", "point", "priority", "use", "next", "done"}]
    /\ pointer \in [Walkers -> Values \cup {Null}]
    /\ ended \in Endings \cup {Null}
    /\ disturbed \in [Walkers -> BOOLEAN] /\ unseen \in [Walkers -> SUBSET Values]
    /\ got \in [Takers -> SUBSET Values]

\* "The package is now thread-safe" (prioque.h), as far as a walk goes: it does not ask
\* for an element past the end, nor use one that was freed, unless another thread took
\* an element or advanced during this very walk.  Adding elements never does it, nor does
\* another walk that begins.
EndsOnlyDisturbed == ended # Null => Walking(ended.by) /\ disturbed[ended.by]

\* An undisturbed walk uses every element that was in the queue when it began, though
\* every element added meanwhile takes it back to the front, and it then passes the
\* first one unseen.
SeesAll == \A w \in Walkers : pc[w] = "done" => unseen[w] = {}

\* An element is in the queue once, or one thread has got it; and no position is past
\* the place behind the last element.
TakenOnce ==
    /\ TypeOK
    /\ Cardinality(Contents) = Len(list[q])
    /\ \A t \in Takers : /\ got[t] \cap Contents = {}
                         /\ \A u \in Takers : t # u => got[t] \cap got[u] = {}

\* A walk ends, for good or for bad, once no more elements are added.
WalkEnds == \A w \in Walkers : Walking(w) ~> (pc[w] = "done" \/ ended # Null)

=============================================================================
