---------------------------- MODULE PrioqueLocks ----------------------------
(***************************************************************************)
(* The mutexes of Programming-Assignment#2/prioque.c, "thread-safe" since  *)
(* 2004 (prioque.h).  Every function but init_queue takes the lock of its  *)
(* queue, does its work and gives the lock back; copy_queue, merge_queues  *)
(* and equal_queues take global_lock and then the locks of both queues.    *)
(* What the work does to the lists is in Prioque.                          *)
(***************************************************************************)
EXTENDS Integers, Sequences

CONSTANTS
    Threads,
    Queues,
    Pairs,        \* the pairs of queues that functions on two queues are called with
    global_lock,
    Nobody,
    Calls         \* bound: how often a thread calls

ASSUME LocksAssumption ==
    Pairs \subseteq Queues \X Queues /\ global_lock \notin Queues /\ Nobody \notin Threads

ASSUME CallsAssumption == Calls \in Nat

VARIABLES
    owner,    \* of each mutex
    pc,       \* of each thread
    queues,   \* that its call is about, <<>> between calls
    held,     \* how many of the locks of its call it has
    calls     \* it still makes

vars == <<owner, pc, queues, held, calls>>

\* A function on one queue, or on two.
OneQueue  == {<<q>> : q \in Queues}
Arguments == OneQueue \cup Pairs

\* Mutant: the functions on two queues do without global_lock.
LocksNoGlobal(args) == args

\* Mutant: they do not lock the queue they only read.
LocksFirst(args) ==
    IF Len(args) = 2 THEN <<global_lock, args[1]>> ELSE args

\* The locks a function takes, in this order.
Locks(args) ==
    IF Len(args) = 2 THEN <<global_lock, args[1], args[2]>> ELSE args

Init ==
    /\ owner = [l \in Queues \cup {global_lock} |-> Nobody]
    /\ pc = [t \in Threads |-> "caller"]
    /\ queues = [t \in Threads |-> <<>>]
    /\ held = [t \in Threads |-> 0]
    /\ calls = [t \in Threads |-> Calls]

Call(t, args) ==
    /\ pc[t] = "caller" /\ calls[t] > 0
    /\ pc' = [pc EXCEPT ![t] = "locking"]
    /\ queues' = [queues EXCEPT ![t] = args]
    /\ calls' = [calls EXCEPT ![t] = @ - 1]
    /\ UNCHANGED <<owner, held>>

\* The lock thread t takes next.
NextLock(t) == Locks(queues[t])[held[t] + 1]

\* pthread_mutex_lock returns.
Lock(t) ==
    /\ pc[t] = "locking" /\ held[t] < Len(Locks(queues[t]))
    /\ owner[NextLock(t)] = Nobody
    /\ owner' = [owner EXCEPT ![NextLock(t)] = t]
    /\ held' = [held EXCEPT ![t] = @ + 1]
    /\ UNCHANGED <<pc, queues, calls>>

\* The function begins to work on its queues.
Enter(t) ==
    /\ pc[t] = "locking" /\ held[t] = Len(Locks(queues[t]))
    /\ pc' = [pc EXCEPT ![t] = "working"]
    /\ UNCHANGED <<owner, queues, held, calls>>

\* It is done.
Leave(t) ==
    /\ pc[t] = "working"
    /\ pc' = [pc EXCEPT ![t] = "unlocking"]
    /\ UNCHANGED <<owner, queues, held, calls>>

\* Mutant: the first lock taken is not given back.
UnlockKeepsFirst(t) ==
    /\ pc[t] = "unlocking" /\ held[t] > 0
    /\ owner' = [owner EXCEPT ![Locks(queues[t])[held[t]]] =
                    IF held[t] = 1 /\ Len(queues[t]) = 2 THEN @ ELSE Nobody]
    /\ held' = [held EXCEPT ![t] = @ - 1]
    /\ UNCHANGED <<pc, queues, calls>>

\* The locks are given back in the opposite order.
Unlock(t) ==
    /\ pc[t] = "unlocking" /\ held[t] > 0
    /\ owner' = [owner EXCEPT ![Locks(queues[t])[held[t]]] = Nobody]
    /\ held' = [held EXCEPT ![t] = @ - 1]
    /\ UNCHANGED <<pc, queues, calls>>

Return(t) ==
    /\ pc[t] = "unlocking" /\ held[t] = 0
    /\ pc' = [pc EXCEPT ![t] = "caller"]
    /\ queues' = [queues EXCEPT ![t] = <<>>]
    /\ UNCHANGED <<owner, held, calls>>

Step(t) == Lock(t) \/ Enter(t) \/ Leave(t) \/ Unlock(t) \/ Return(t)

Next == \E t \in Threads : Step(t) \/ \E args \in Arguments : Call(t, args)

\* A thread that is not blocked runs on; nothing makes a caller call, and a mutex
\* goes to any of the threads that wait for it.
Spec == Init /\ [][Next]_vars /\ \A t \in Threads : WF_vars(Step(t))

-----------------------------------------------------------------------------
(* Properties *)

\* What the threads hold.
Holds(t, l) == \E i \in 1 .. held[t] : Locks(queues[t])[i] = l

TypeOK ==
    /\ owner \in [Queues \cup {global_lock} -> Threads \cup {Nobody}]
    /\ pc \in [Threads -> {"caller", "locking", "working", "unlocking"}]
    /\ queues \in [Threads -> Arguments \cup {<<>>}]
    /\ held \in [Threads -> Nat] /\ calls \in [Threads -> Nat]
    /\ \A t \in Threads : held[t] <= Len(Locks(queues[t]))

\* A mutex belongs to the thread that took it for its call and to no other; between
\* calls a thread holds none.
Balanced ==
    /\ \A t \in Threads, l \in Queues \cup {global_lock} : owner[l] = t <=> Holds(t, l)
    /\ \A t \in Threads :
          /\ pc[t] = "caller" <=> queues[t] = <<>>
          /\ pc[t] = "caller" => held[t] = 0
          /\ pc[t] = "working" => held[t] = Len(Locks(queues[t]))

\* A function on two queues that was given one queue twice waits for itself: its
\* second lock is the mutex that its third is.
SameTwice(args) == Len(args) = 2 /\ args[1] = args[2]

StopsThere ==
    \A t \in Threads : SameTwice(queues[t]) => pc[t] = "locking" /\ held[t] <= 2

LocksInv == TypeOK /\ Balanced /\ StopsThere

\* Two functions never work on the same queue at the same time, be it as the queue
\* they change or the one they only read: the thread safety prioque.h claims.
Exclusive ==
    \A t, u \in Threads :
        t # u /\ pc[t] = "working" /\ pc[u] = "working" =>
        \A i \in 1 .. Len(queues[t]), j \in 1 .. Len(queues[u]) : queues[t][i] # queues[u][j]

\* Thread t waits for a lock that u has.
WaitsFor(t, u) ==
    /\ pc[t] = "locking" /\ held[t] < Len(Locks(queues[t]))
    /\ owner[NextLock(t)] = u

\* No threads wait for each other: "to avoid deadlock, this function acquires a
\* global package lock!"  It does, except from a call with one queue twice, which
\* is part of every deadlock.
NoDeadlock ==
    \A S \in SUBSET Threads :
        S # {} => \E t \in S : SameTwice(queues[t]) \/ \A u \in S : ~ WaitsFor(t, u)

\* Every call returns, whatever the other threads call, unless one of them waits
\* for itself: that one keeps global_lock.
CallsReturn ==
    \A t \in Threads :
        pc[t] # "caller" ~> (pc[t] = "caller" \/ \E u \in Threads : SameTwice(queues[u]))

=============================================================================
