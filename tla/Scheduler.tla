----------------------------- MODULE Scheduler -----------------------------
(***************************************************************************)
(* The simulation of a multilevel feedback queue of                        *)
(* Programming-Assignment#2/scheduler.c.  One turn of the loop of main is  *)
(* one tick of the clock: arrivals, one tick of a process, I/O; pc says    *)
(* which of the three calls comes next.  The program has one thread and    *)
(* one input (`input`): its only choice is the input.                      *)
(*                                                                         *)
(* A Queue of prioque.c is the sequence of its elements (Prioque shows     *)
(* that it behaves like one).  delete_current on a queue whose current     *)
(* position has no predecessor takes the first element out: the scheduler  *)
(* only ever calls it so, whichever element it means to delete.  What the  *)
(* program prints, LastProcess and the tick counts of the idle process     *)
(* included, is left out.                                                  *)
(***************************************************************************)
EXTENDS Integers, Sequences, FiniteSets

CONSTANTS
    Pids,        \* the processes
    Inputs,      \* bound: the process descriptions to read
    Horizon,     \* bound: where the clock stops counting, after every arrival
    q, b, g      \* quantum, and limits for demotion and promotion, by level

Levels == 1 .. 3     \* HighQ, MedQ, LowQ

\* A line of the input: `repeat` bursts of CPU, each followed by I/O.
Behavior == [cpuburst : Nat \ {0}, ioburst : Nat, repeat : Nat \ {0}]

ASSUME PidsAssumption == IsFiniteSet(Pids)

ASSUME LevelsAssumption ==
    /\ q \in [Levels -> Nat \ {0}]
    /\ b \in [Levels -> Nat \ {0}] /\ g \in [Levels -> Nat \ {0}]

ASSUME InputsAssumption ==
    /\ Horizon \in Nat
    /\ \A i \in Inputs : \A p \in Pids :
         /\ i[p].arrival_time \in 0 .. Horizon - 1
         /\ i[p].behaviors \in Seq(Behavior) /\ i[p].behaviors # <<>>

VARIABLES
    input,      \* what read_process_descriptions read
    Clock,      \* compared with arrival times only
    ArrivalQ,
    ready,      \* the `processes` of HighQ, MedQ and LowQ
    current_q,  \* the quantum used, by level
    IOQ,
    RemovalQ,
    process,    \* the Process structures
    pc,
    current,    \* the current position in IOQ
    served      \* history: the processes whose I/O this tick has advanced

vars == <<input, Clock, ArrivalQ, ready, current_q, IOQ, RemovalQ, process, pc,
          current, served>>

Elements(s) == {s[i] : i \in 1 .. Len(s)}

\* A line of a process at work, and what else its structure has.
Burst == [cpuburst : Nat, current_cpuburst : Nat, ioburst : Nat, current_ioburst : Nat,
          repeat : Int]

Process == [level : Levels, current_b : Nat, current_g : Nat, total_clock_time : Nat,
            behaviors : Seq(Burst) \ {<<>>}]

TypeOK ==
    /\ input \in Inputs /\ Clock \in 0 .. Horizon
    /\ ArrivalQ \in Seq(Pids) /\ IOQ \in Seq(Pids) /\ RemovalQ \in Seq(Pids)
    /\ ready \in [Levels -> Seq(Pids)]
    /\ current_q \in [Levels -> Nat] /\ \A l \in Levels : current_q[l] < q[l]
    /\ process \in [Pids -> Process]
    /\ \A p \in Pids : /\ process[p].current_b < b[process[p].level]
                       /\ process[p].current_g < g[process[p].level]
    /\ pc \in {"arrive", "execute", "io", "done", "mixed_up"}
    /\ current \in 1 .. Len(IOQ) + 1
    /\ served \subseteq Pids

-----------------------------------------------------------------------------
(* read_process_descriptions: the processes by arrival; which comes first of *)
(* those that arrive together depends on the order of the input.             *)
Init ==
    /\ input \in Inputs
    /\ ArrivalQ \in {s \in [1 .. Cardinality(Pids) -> Pids] :
            /\ Elements(s) = Pids
            /\ \A i, j \in DOMAIN s :
                  i < j => input[s[i]].arrival_time <= input[s[j]].arrival_time}
    /\ process = [p \in Pids |->
            [level |-> 1, current_b |-> 0, current_g |-> 0, total_clock_time |-> 0,
             behaviors |-> [i \in DOMAIN input[p].behaviors |->
                [cpuburst |-> input[p].behaviors[i].cpuburst, current_cpuburst |-> 0,
                 ioburst |-> input[p].behaviors[i].ioburst, current_ioburst |-> 0,
                 repeat |-> input[p].behaviors[i].repeat]]]]
    /\ Clock = 0 /\ current_q = [l \in Levels |-> 0]
    /\ ready = [l \in Levels |-> <<>>] /\ IOQ = <<>> /\ RemovalQ = <<>>
    /\ pc = "arrive" /\ current = 1 /\ served = {}

\* Mutant: an arrival is compared with the next time; the first ones are missed.
DueLate(t) ==
    CHOOSE n \in 0 .. Len(ArrivalQ) :
        /\ \A i \in 1 .. n : input[ArrivalQ[i]].arrival_time = t + 1
        /\ n < Len(ArrivalQ) => input[ArrivalQ[n + 1]].arrival_time # t + 1

\* How many processes at the front of ArrivalQ arrive at time t.
Due(t) ==
    CHOOSE n \in 0 .. Len(ArrivalQ) :
        /\ \A i \in 1 .. n : input[ArrivalQ[i]].arrival_time = t
        /\ n < Len(ArrivalQ) => input[ArrivalQ[n + 1]].arrival_time # t

\* Mutant: the clock ticks after the arrivals.
ArrivalsBeforeTick ==
    /\ pc = "arrive"
    /\ Clock' = IF Clock < Horizon THEN Clock + 1 ELSE Clock
    /\ LET n == Due(Clock) IN
       /\ ready' = [ready EXCEPT ![1] = @ \o SubSeq(ArrivalQ, 1, n)]
       /\ ArrivalQ' = SubSeq(ArrivalQ, n + 1, Len(ArrivalQ))
    /\ pc' = "execute" /\ served' = {}
    /\ UNCHANGED <<input, current_q, IOQ, RemovalQ, process, current>>

queue_new_arrivals ==
    /\ pc = "arrive"
    /\ Clock' = IF Clock < Horizon THEN Clock + 1 ELSE Clock
    /\ LET n == Due(Clock') IN
       /\ ready' = [ready EXCEPT ![1] = @ \o SubSeq(ArrivalQ, 1, n)]
       /\ ArrivalQ' = SubSeq(ArrivalQ, n + 1, Len(ArrivalQ))
    /\ pc' = "execute" /\ served' = {}
    /\ UNCHANGED <<input, current_q, IOQ, RemovalQ, process, current>>

-----------------------------------------------------------------------------
(* execute_highest_priority_process *)

\* The level served: the highest with a process.
Serving(l) == ready[l] # <<>> /\ \A h \in Levels : h < l => ready[h] = <<>>

\* The process after its tick, and whether that ends its burst.
Ran(p) == [process[p] EXCEPT !.total_clock_time = @ + 1,
                             !.behaviors[1].current_cpuburst = @ + 1]
BurstOver(p) ==
    Ran(p).behaviors[1].current_cpuburst = process[p].behaviors[1].cpuburst

UsedUp(l) == current_q[l] + 1 >= q[l]

\* The burst ended before the quantum, below the highest level: current_g counts.
Good(l, p) == l > 1 /\ BurstOver(p) /\ ~ UsedUp(l)

\* Mutant: a process is done one burst early.
FinishTickEarly(p, l, r, used, rec) ==
    /\ process' = [process EXCEPT ![p] = rec]
    /\ IF ~ BurstOver(p)
       THEN /\ ready' = r /\ current_q' = used /\ pc' = "io"
            /\ UNCHANGED <<IOQ, RemovalQ>>
       ELSE /\ ready' = [r EXCEPT ![l] = Tail(@)]
            /\ current_q' = [used EXCEPT ![l] = 0]
            /\ IF rec.behaviors[1].repeat = 1
               THEN RemovalQ' = Append(RemovalQ, p) /\ UNCHANGED IOQ
               ELSE IOQ' = Append(IOQ, p) /\ UNCHANGED RemovalQ
            /\ pc' = IF Head(r[l]) = p THEN "io" ELSE "mixed_up"
    /\ UNCHANGED <<input, Clock, ArrivalQ, current, served>>

\* Process p, now the record rec, is in queue l of r; used is current_q so far.
\* At the end of a burst it is put into another queue, and the first of queue l
\* is taken out.  When that is not p, the program goes on with a process in
\* two queues and one in none, or with freed memory: this is not modelled.
FinishTick(p, l, r, used, rec) ==
    /\ process' = [process EXCEPT ![p] = rec]
    /\ IF ~ BurstOver(p)
       THEN /\ ready' = r /\ current_q' = used /\ pc' = "io"
            /\ UNCHANGED <<IOQ, RemovalQ>>
       ELSE /\ ready' = [r EXCEPT ![l] = Tail(@)]
            /\ current_q' = [used EXCEPT ![l] = 0]
            /\ IF rec.behaviors[1].repeat = 0
               THEN RemovalQ' = Append(RemovalQ, p) /\ UNCHANGED IOQ
               ELSE IOQ' = Append(IOQ, p) /\ UNCHANGED RemovalQ
            /\ pc' = IF Head(r[l]) = p THEN "io" ELSE "mixed_up"
    /\ UNCHANGED <<input, Clock, ArrivalQ, current, served>>

Idle ==
    /\ pc = "execute" /\ \A l \in Levels : ready[l] = <<>>
    /\ pc' = "io"
    /\ UNCHANGED <<input, Clock, ArrivalQ, ready, current_q, IOQ, RemovalQ,
                   process, current, served>>

\* Queue `to` gets a copy of the first process of queue l, which is taken out.
Moved(l, to) ==
    LET r == [ready EXCEPT ![to] = Append(@, Head(ready[l]))]
    IN  [r EXCEPT ![l] = Tail(@)]

Promote(l) ==
    /\ pc = "execute" /\ Serving(l)
    /\ LET p == Head(ready[l]) IN
       /\ Good(l, p) /\ process[p].current_g + 1 = g[l]
       /\ FinishTick(p, l - 1, Moved(l, l - 1), [current_q EXCEPT ![l] = 0],
              [Ran(p) EXCEPT !.level = l - 1, !.current_b = 0, !.current_g = 0])

\* Mutant: the process does not learn its new level.
DemoteSilently(l) ==
    /\ pc = "execute" /\ Serving(l) /\ UsedUp(l)
    /\ LET p == Head(ready[l]) IN
       /\ l < 3 /\ process[p].current_b + 1 = b[l]
       /\ FinishTick(p, l + 1, Moved(l, l + 1), [current_q EXCEPT ![l] = 0],
              [Ran(p) EXCEPT !.current_b = 0, !.current_g = 0])

Demote(l) ==
    /\ pc = "execute" /\ Serving(l) /\ UsedUp(l)
    /\ LET p == Head(ready[l]) IN
       /\ l < 3 /\ process[p].current_b + 1 = b[l]
       /\ FinishTick(p, l + 1, Moved(l, l + 1), [current_q EXCEPT ![l] = 0],
              [Ran(p) EXCEPT !.level = l + 1, !.current_b = 0, !.current_g = 0])

\* Mutant: the next process goes on with the used quantum.
RequeueKeepsQuantum(l) ==
    /\ pc = "execute" /\ Serving(l) /\ UsedUp(l)
    /\ LET p == Head(ready[l]) IN
       /\ l < 3 => process[p].current_b + 1 # b[l]
       /\ FinishTick(p, l, Moved(l, l), [current_q EXCEPT ![l] = q[l] - 1],
              [Ran(p) EXCEPT !.current_b = IF l < 3 THEN @ + 1 ELSE @])

Requeue(l) ==
    /\ pc = "execute" /\ Serving(l) /\ UsedUp(l)
    /\ LET p == Head(ready[l]) IN
       /\ l < 3 => process[p].current_b + 1 # b[l]
       /\ FinishTick(p, l, Moved(l, l), [current_q EXCEPT ![l] = 0],
              [Ran(p) EXCEPT !.current_b = IF l < 3 THEN @ + 1 ELSE @])

Stay(l) ==
    /\ pc = "execute" /\ Serving(l) /\ ~ UsedUp(l)
    /\ LET p == Head(ready[l]) IN
       /\ Good(l, p) => process[p].current_g + 1 # g[l]
       /\ FinishTick(p, l, ready, [current_q EXCEPT ![l] = @ + 1],
              [Ran(p) EXCEPT !.current_g = IF Good(l, p) THEN @ + 1 ELSE @])

-----------------------------------------------------------------------------
(* do_IO *)

IODone(p) == process[p].behaviors[1].current_ioburst = process[p].behaviors[1].ioburst

\* What is left of the behaviors once a burst and its I/O are over.
NextBehaviors(bs) ==
    LET first == [bs[1] EXCEPT !.current_cpuburst = 0, !.current_ioburst = 0,
                               !.repeat = @ - 1]
    IN  IF first.repeat = 0 /\ Len(bs) > 1 THEN Tail(bs) ELSE <<first>> \o Tail(bs)

Advance ==
    /\ pc = "io" /\ current <= Len(IOQ)
    /\ LET p == IOQ[current] IN
       /\ ~ IODone(p)
       /\ process' = [process EXCEPT ![p].behaviors[1].current_ioburst = @ + 1]
       /\ served' = served \cup {p}
    /\ current' = current + 1
    /\ UNCHANGED <<input, Clock, ArrivalQ, ready, current_q, IOQ, RemovalQ, pc>>

\* Mutant: the process is not taken out of IOQ.
CompleteTwice ==
    /\ pc = "io" /\ current <= Len(IOQ)
    /\ LET p == IOQ[current] IN
       /\ IODone(p)
       /\ process' = [process EXCEPT ![p].behaviors = NextBehaviors(@),
                                     ![p].current_b = 0]
       /\ ready' = [ready EXCEPT ![process[p].level] = Append(@, p)]
       /\ served' = served \cup {p}
    /\ current' = current + 1
    /\ UNCHANGED <<input, Clock, ArrivalQ, current_q, IOQ, RemovalQ, pc>>

\* Mutant: the walk goes on from where the process was taken out.
CompleteGoesOn ==
    /\ pc = "io" /\ current <= Len(IOQ)
    /\ LET p == IOQ[current] IN
       /\ IODone(p)
       /\ process' = [process EXCEPT ![p].behaviors = NextBehaviors(@),
                                     ![p].current_b = 0]
       /\ ready' = [ready EXCEPT ![process[p].level] = Append(@, p)]
       /\ served' = served \cup {p}
    /\ IOQ' = SubSeq(IOQ, 1, current - 1) \o SubSeq(IOQ, current + 1, Len(IOQ))
    /\ current' = IF current > Len(IOQ') THEN current ELSE current + 1
    /\ UNCHANGED <<input, Clock, ArrivalQ, current_q, RemovalQ, pc>>

\* The walk starts again at the front when a process was taken out.
Complete ==
    /\ pc = "io" /\ current <= Len(IOQ)
    /\ LET p == IOQ[current] IN
       /\ IODone(p)
       /\ process' = [process EXCEPT ![p].behaviors = NextBehaviors(@),
                                     ![p].current_b = 0]
       /\ ready' = [ready EXCEPT ![process[p].level] = Append(@, p)]
       /\ served' = served \cup {p}
    /\ IOQ' = SubSeq(IOQ, 1, current - 1) \o SubSeq(IOQ, current + 1, Len(IOQ))
    /\ current' = 1
    /\ UNCHANGED <<input, Clock, ArrivalQ, current_q, RemovalQ, pc>>

processes_exist ==
    ArrivalQ # <<>> \/ IOQ # <<>> \/ \E l \in Levels : ready[l] # <<>>

EndTick ==
    /\ pc = "io" /\ current > Len(IOQ)
    /\ current' = 1
    /\ pc' = IF processes_exist THEN "arrive" ELSE "done"
    /\ UNCHANGED <<input, Clock, ArrivalQ, ready, current_q, IOQ, RemovalQ,
                   process, served>>

-----------------------------------------------------------------------------
Next ==
    \/ queue_new_arrivals
    \/ Idle \/ \E l \in Levels : Promote(l) \/ Demote(l) \/ Requeue(l) \/ Stay(l)
    \/ Advance \/ Complete \/ EndTick

Spec == Init /\ [][Next]_vars

\* The program runs: it has one thread that never waits.
FairSpec == Spec /\ WF_vars(Next)

-----------------------------------------------------------------------------
(* Properties *)

MixedUp == pc = "mixed_up"

\* How often a process is in a queue, and in all of them.
In(s, p) == Cardinality({i \in 1 .. Len(s) : s[i] = p})

Places(p) ==
    In(ArrivalQ, p) + In(IOQ, p) + In(RemovalQ, p)
        + In(ready[1], p) + In(ready[2], p) + In(ready[3], p)

\* However arrivals, ends of bursts, quanta and I/O coincide, no process is lost
\* and none is in two queues: every move adds one copy and deletes one.
InOneQueue == ~ MixedUp => \A p \in Pids : Places(p) = 1

\* A process waits in the queue of its level, to which do_IO returns it, and what it
\* has used counts towards the limits of that level (TypeOK).
LevelKept ==
    /\ TypeOK
    /\ ~ MixedUp => \A l \in Levels : \A p \in Elements(ready[l]) : process[p].level = l

\* The CPU time a process asks for: the last line of its description is run
\* once more than it is repeated, for the burst that follows its last I/O.
Demand(bs) ==
    LET Bursts(i) == bs[i].repeat + (IF i = Len(bs) THEN 1 ELSE 0)
        sum[i \in 0 .. Len(bs)] ==
            IF i = 0 THEN 0 ELSE sum[i - 1] + (bs[i].cpuburst * Bursts(i))
    IN  sum[Len(bs)]

\* A process finishes when it has had all the bursts of its description and no
\* more, however often it was preempted, moved and blocked.
GotItsDemand == \A p \in Elements(RemovalQ) :
    process[p].total_clock_time = Demand(input[p].behaviors)

\* While a quantum runs the process that uses it stays the first of its level, so
\* no process pays for another's ticks, and it is never used up at a tick's start.
QuantumOfFirst ==
    [][~ MixedUp' => \A l \in Levels : current_q'[l] # 0 =>
          /\ current_q'[l] < q[l] /\ ready'[l] # <<>>
          /\ current_q[l] # 0 => Head(ready'[l]) = Head(ready[l])]_vars

\* One tick of the clock advances the I/O of every process that waits for it
\* ("walking io queue and doing io for all processes in it"), though the walk
\* restarts whenever a process leaves IOQ; those it passes again it advances again.
NobodySkipped == pc = "io" /\ current > Len(IOQ) => Elements(IOQ) \subseteq served

\* The clock is 1 when arrivals are first looked for, and only the first of ArrivalQ
\* is: one process that arrives at 0 keeps all of them out, forever.
ZeroBlocks ==
    (\E p \in Pids : input[p].arrival_time = 0) => Elements(ArrivalQ) = Pids

\* Otherwise the simulation ends: every process arrives and finishes.
Finishes ==
    (\A p \in Pids : input[p].arrival_time > 0) => <>(pc = "done" \/ MixedUp)

\* Source comment: "process is done running remove from queue".
FinishedLeaves == \A p \in Elements(RemovalQ), l \in Levels : p \notin Elements(ready[l])

=============================================================================
