-------------------------- MODULE PrioqueLocksProofs --------------------------
(***************************************************************************)
(* Mutual exclusion and freedom from deadlock of the mutexes of            *)
(* prioque.c, for any number of threads, queues and calls.  A function on  *)
(* two queues may be called with one queue twice.                          *)
(***************************************************************************)
EXTENDS PrioqueLocks, TLAPS

Mutexes == Queues \cup {global_lock}

\* The locks of a call: each is a mutex, and only a function on two queues takes more
\* than one, global_lock first.
LEMMA LocksOfCall ==
    ASSUME NEW args \in Arguments \cup {<<>>}
    PROVE  /\ Len(Locks(args)) \in Nat
           /\ Len(Locks(args)) > 0 <=> args # <<>>
           /\ \A i \in 1 .. Len(Locks(args)) : Locks(args)[i] \in Mutexes
           /\ Len(Locks(args)) > 1 => Locks(args)[1] = global_lock
           /\ \A i \in 1 .. Len(Locks(args)) :
                 Locks(args)[i] = global_lock => i = 1 /\ Len(Locks(args)) > 1
           /\ \A k \in 1 .. Len(args) : \E i \in 1 .. Len(Locks(args)) : Locks(args)[i] = args[k]
<1>1. CASE args = <<>>
  BY <1>1 DEF Locks
<1>2. CASE \E q \in Queues : args = <<q>>
  BY <1>2, LocksAssumption DEF Locks, Mutexes
<1>3. CASE args \in Pairs
  <2>1. PICK q \in Queues, r \in Queues : args = <<q, r>>
    BY <1>3, LocksAssumption
  <2>3. Locks(args) = <<global_lock, q, r>>
    BY <2>1 DEF Locks
  <2>4. Len(Locks(args)) = 3 /\ Len(args) = 2
    BY <2>1, <2>3
  <2>5. q # global_lock /\ r # global_lock
    BY LocksAssumption
  <2>6. \A i \in 1 .. 3 : Locks(args)[i] = IF i = 1 THEN global_lock ELSE IF i = 2 THEN q ELSE r
    BY <2>3
  <2>7. \A k \in 1 .. 2 : args[k] = Locks(args)[k + 1]
    BY <2>1, <2>3
  <2>8. args # <<>>
    BY <2>4
  <2>9. \A k \in 1 .. 2 : k + 1 \in 1 .. 3
    OBVIOUS
  <2> QED BY <2>4, <2>5, <2>6, <2>7, <2>8, <2>9 DEF Mutexes
<1> QED BY <1>1, <1>2, <1>3 DEF Arguments, OneQueue

\* None of them comes twice, unless one queue is given twice.
LEMMA LocksDiffer ==
    ASSUME NEW args \in Arguments \cup {<<>>}
    PROVE  /\ ~ SameTwice(args) =>
                 \A i, j \in 1 .. Len(Locks(args)) : Locks(args)[i] = Locks(args)[j] => i = j
           /\ SameTwice(args) => Len(Locks(args)) = 3 /\ Locks(args)[2] = Locks(args)[3]
<1>1. CASE args = <<>>
  BY <1>1 DEF Locks, SameTwice
<1>2. CASE \E q \in Queues : args = <<q>>
  BY <1>2, LocksAssumption DEF Locks, SameTwice
<1>3. CASE args \in Pairs
  <2>1. PICK q \in Queues, r \in Queues : args = <<q, r>>
    BY <1>3, LocksAssumption
  <2>2. SameTwice(args) <=> q = r
    BY <2>1 DEF SameTwice
  <2>3. Locks(args) = <<global_lock, q, r>>
    BY <2>1 DEF Locks
  <2>4. q # global_lock /\ r # global_lock
    BY LocksAssumption
  <2> QED BY <2>2, <2>3, <2>4
<1> QED BY <1>1, <1>2, <1>3 DEF Arguments, OneQueue

-----------------------------------------------------------------------------
(* The invariant *)

LEMMA LocksInvInit == Init => LocksInv
<1> SUFFICES ASSUME Init PROVE LocksInv
  OBVIOUS
<1>1. TypeOK
  <2>1. Len(Locks(<<>>)) = 0
    BY DEF Locks
  <2>2. \A t \in Threads : queues[t] = <<>>
    BY DEF Init
  <2>3. \A t \in Threads : held[t] <= Len(Locks(queues[t]))
    <3> SUFFICES ASSUME NEW t \in Threads PROVE held[t] <= Len(Locks(queues[t]))
      OBVIOUS
    <3>1. Locks(queues[t]) = Locks(<<>>)
      BY <2>2
    <3>2. held[t] = 0
      BY DEF Init
    <3> QED BY <2>1, <3>1, <3>2
  <2> QED BY <2>3, CallsAssumption DEF TypeOK, Init
<1>2. Balanced
  <2>1. \A t \in Threads, l \in Mutexes : ~ Holds(t, l)
    BY DEF Init, Holds
  <2>2. \A t \in Threads, l \in Mutexes : owner[l] # t
    BY LocksAssumption DEF Init, Mutexes
  <2>3. \A t \in Threads : pc[t] = "caller" /\ queues[t] = <<>> /\ held[t] = 0
    BY DEF Init
  <2> QED BY <2>1, <2>2, <2>3 DEF Balanced, Mutexes
<1>3. StopsThere
  BY DEF Init, StopsThere, SameTwice
<1> QED BY <1>1, <1>2, <1>3 DEF LocksInv

LEMMA LocksInvNext ==
    ASSUME LocksInv, [Next]_vars
    PROVE  LocksInv'
<1> USE DEF LocksInv
<1>0. \A u \in Threads : queues[u] \in Arguments \cup {<<>>}
  BY DEF TypeOK
<1>1. ASSUME NEW t \in Threads, NEW args \in Arguments, Call(t, args) PROVE LocksInv'
  <2>1. /\ pc' = [pc EXCEPT ![t] = "locking"] /\ queues' = [queues EXCEPT ![t] = args]
        /\ owner' = owner /\ held' = held /\ calls[t] > 0 /\ pc[t] = "caller"
        /\ calls' = [calls EXCEPT ![t] = calls[t] - 1]
    BY <1>1 DEF Call
  <2>2. held[t] = 0 /\ args # <<>>
    BY <2>1, LocksAssumption DEF Balanced, Arguments, OneQueue
  <2>3. Len(Locks(args)) \in Nat
    BY LocksOfCall
  <2>4. TypeOK'
    BY <2>1, <2>2, <2>3 DEF TypeOK
  <2>5. \A u \in Threads, l \in Mutexes : (Holds(u, l))' <=> Holds(u, l)
    BY <2>1, <2>2 DEF Holds, TypeOK
  <2>6. Balanced'
    BY <2>1, <2>2, <2>5 DEF Balanced, TypeOK, Mutexes
  <2>7. StopsThere'
    BY <2>1, <2>2 DEF StopsThere, TypeOK
  <2> QED BY <2>4, <2>6, <2>7
<1>2. ASSUME NEW t \in Threads, Lock(t) PROVE LocksInv'
  <2> DEFINE m == NextLock(t)
  <2>1. /\ pc' = pc /\ queues' = queues /\ calls' = calls /\ pc[t] = "locking"
        /\ owner' = [owner EXCEPT ![m] = t] /\ held' = [held EXCEPT ![t] = held[t] + 1]
        /\ held[t] < Len(Locks(queues[t])) /\ owner[m] = Nobody
    BY <1>2 DEF Lock
  <2>2. held[t] \in Nat /\ Len(Locks(queues[t])) \in Nat
    BY <1>0, LocksOfCall DEF TypeOK
  <2>3. m = Locks(queues[t])[held[t] + 1] /\ m \in Mutexes
    BY <2>1, <2>2, <1>0, LocksOfCall DEF NextLock
  <2> HIDE DEF m
  <2>4. TypeOK'
    BY <2>1, <2>2, <2>3 DEF TypeOK, Mutexes
  <2>5. \A l \in Mutexes : (Holds(t, l))' <=> Holds(t, l) \/ l = m
    <3>1. held'[t] = held[t] + 1 /\ queues'[t] = queues[t]
      BY <2>1 DEF TypeOK
    <3>2. 1 .. held[t] + 1 = (1 .. held[t]) \cup {held[t] + 1}
      BY <2>2
    <3>3. ASSUME NEW l \in Mutexes PROVE (Holds(t, l))' <=> Holds(t, l) \/ l = m
      BY <3>1, <3>2, <2>3 DEF Holds
    <3> QED BY <3>3
  <2>6. \A u \in Threads \ {t}, l \in Mutexes : (Holds(u, l))' <=> Holds(u, l)
    BY <2>1 DEF Holds, TypeOK
  <2>7. \A u \in Threads : ~ Holds(u, m)
    BY <2>1, <2>3, LocksAssumption DEF Balanced, Mutexes
  <2>8. \A u \in Threads, l \in Mutexes : owner'[l] = u <=> (Holds(u, l))'
    <3>1. \A l \in Mutexes : owner'[l] = IF l = m THEN t ELSE owner[l]
      BY <2>1 DEF TypeOK, Mutexes
    <3>2. \A u \in Threads, l \in Mutexes : owner[l] = u <=> Holds(u, l)
      BY DEF Balanced, Mutexes
    <3> QED BY <2>5, <2>6, <2>7, <3>1, <3>2
  <2>9. Balanced'
    BY <2>1, <2>8 DEF Balanced, TypeOK, Mutexes
  <2>10. ASSUME SameTwice(queues[t]) PROVE held[t] + 1 <= 2
    <3>1. Len(Locks(queues[t])) = 3 /\ Locks(queues[t])[2] = Locks(queues[t])[3]
      BY <2>10, <1>0, LocksDiffer
    <3>2. CASE held[t] = 2
      <4>1. m = Locks(queues[t])[2]
        BY <3>1, <3>2, <2>3
      <4>2. Holds(t, m)
        BY <3>2, <4>1 DEF Holds
      <4> QED BY <4>2, <2>3, <2>7
    <3> QED BY <3>1, <3>2, <2>1, <2>2
  <2>11. StopsThere'
    BY <2>1, <2>2, <2>10 DEF StopsThere, TypeOK
  <2> QED BY <2>4, <2>9, <2>11
<1>3. ASSUME NEW t \in Threads, Enter(t) \/ Leave(t) PROVE LocksInv'
  <2>1. \A u \in Threads, l \in Mutexes : (Holds(u, l))' <=> Holds(u, l)
    BY <1>3 DEF Enter, Leave, Holds
  <2>2. TypeOK'
    BY <1>3 DEF Enter, Leave, TypeOK
  <2>3. Balanced'
    BY <1>3, <2>1 DEF Enter, Leave, Balanced, TypeOK, Mutexes
  <2>4. ASSUME SameTwice(queues[t]) PROVE FALSE
    <3>1. Len(Locks(queues[t])) = 3
      BY <2>4, <1>0, LocksDiffer
    <3>2. pc[t] = "locking" /\ held[t] <= 2
      BY <2>4 DEF StopsThere
    <3>3. held[t] # 3
      BY <3>2 DEF TypeOK
    <3> QED BY <1>3, <3>1, <3>2, <3>3 DEF Enter, Leave
  <2>5. StopsThere'
    BY <1>3, <2>4 DEF Enter, Leave, StopsThere, TypeOK
  <2> QED BY <2>2, <2>3, <2>5
<1>4. ASSUME NEW t \in Threads, Unlock(t) PROVE LocksInv'
  <2> DEFINE m == Locks(queues[t])[held[t]]
  <2>1. /\ pc' = pc /\ queues' = queues /\ calls' = calls /\ pc[t] = "unlocking"
        /\ owner' = [owner EXCEPT ![m] = Nobody] /\ held' = [held EXCEPT ![t] = held[t] - 1]
        /\ held[t] > 0
    BY <1>4 DEF Unlock
  <2>2. held[t] \in Nat /\ Len(Locks(queues[t])) \in Nat /\ held[t] <= Len(Locks(queues[t]))
    BY <1>0, LocksOfCall DEF TypeOK
  <2>3. m \in Mutexes
    BY <2>1, <2>2, <1>0, LocksOfCall
  <2>4. \A i \in 1 .. held[t] - 1 : Locks(queues[t])[i] # m
    <3>1. ~ SameTwice(queues[t])
      BY <2>1 DEF StopsThere
    <3> QED BY <2>1, <2>2, <3>1, <1>0, LocksDiffer
  <2>5. Holds(t, m)
    BY <2>1, <2>2 DEF Holds
  <2>6. \A l \in Mutexes : (Holds(t, l))' <=> Holds(t, l) /\ l # m
    BY <2>1, <2>2, <2>4 DEF Holds, TypeOK
  <2> HIDE DEF m
  <2>7. TypeOK'
    BY <2>1, <2>2, <2>3 DEF TypeOK, Mutexes
  <2>8. \A u \in Threads \ {t}, l \in Mutexes : (Holds(u, l))' <=> Holds(u, l)
    BY <2>1 DEF Holds, TypeOK
  <2>9. owner[m] = t
    BY <2>3, <2>5 DEF Balanced, Mutexes
  <2>10. \A u \in Threads, l \in Mutexes : owner'[l] = u <=> (Holds(u, l))'
    <3>1. \A l \in Mutexes : owner'[l] = IF l = m THEN Nobody ELSE owner[l]
      BY <2>1 DEF TypeOK, Mutexes
    <3>2. \A u \in Threads \ {t} : ~ Holds(u, m)
      BY <2>3, <2>9 DEF Balanced, Mutexes
    <3>3. \A u \in Threads, l \in Mutexes : owner[l] = u <=> Holds(u, l)
      BY DEF Balanced, Mutexes
    <3> QED BY <2>6, <2>8, <3>1, <3>2, <3>3, LocksAssumption
  <2>11. Balanced'
    BY <2>1, <2>10 DEF Balanced, TypeOK, Mutexes
  <2>12. StopsThere'
    BY <2>1 DEF StopsThere, TypeOK
  <2> QED BY <2>7, <2>11, <2>12
<1>5. ASSUME NEW t \in Threads, Return(t) PROVE LocksInv'
  <2>1. /\ pc' = [pc EXCEPT ![t] = "caller"] /\ queues' = [queues EXCEPT ![t] = <<>>]
        /\ owner' = owner /\ held' = held /\ calls' = calls /\ held[t] = 0
    BY <1>5 DEF Return
  <2>2. Len(Locks(<<>>)) \in Nat
    BY LocksOfCall
  <2>3. TypeOK'
    BY <2>1, <2>2 DEF TypeOK
  <2>4. \A u \in Threads, l \in Mutexes : (Holds(u, l))' <=> Holds(u, l)
    BY <2>1 DEF Holds, TypeOK
  <2>5. Balanced'
    BY <2>1, <2>4 DEF Balanced, TypeOK, Mutexes
  <2>6. StopsThere'
    BY <2>1 DEF StopsThere, TypeOK, SameTwice
  <2> QED BY <2>3, <2>5, <2>6
<1>6. CASE UNCHANGED vars
  <2>1. \A u \in Threads, l \in Mutexes : (Holds(u, l))' <=> Holds(u, l)
    BY <1>6 DEF vars, Holds
  <2> QED BY <1>6, <2>1 DEF vars, TypeOK, Balanced, StopsThere, Mutexes
<1> QED BY <1>1, <1>2, <1>3, <1>4, <1>5, <1>6 DEF Next, Step

\* A mutex belongs to exactly the thread that took it, and a thread holds none
\* between calls.
THEOREM LocksInvHolds == Spec => []LocksInv
<1>1. LocksInv /\ [Next]_vars => LocksInv'
  BY LocksInvNext
<1> QED BY LocksInvInit, <1>1, PTL DEF Spec

-----------------------------------------------------------------------------
(* What follows from it *)

\* Two functions never work on the same queue at the same time.
THEOREM ExclusiveHolds == Spec => []Exclusive
<1>1. ASSUME LocksInv PROVE Exclusive
  <2> SUFFICES ASSUME NEW t \in Threads, NEW u \in Threads, t # u,
                      pc[t] = "working", pc[u] = "working",
                      NEW i \in 1 .. Len(queues[t]), NEW j \in 1 .. Len(queues[u]),
                      queues[t][i] = queues[u][j]
               PROVE  FALSE
    BY DEF Exclusive
  <2>1. /\ held[t] = Len(Locks(queues[t])) /\ held[u] = Len(Locks(queues[u]))
        /\ queues[t] \in Arguments \cup {<<>>} /\ queues[u] \in Arguments \cup {<<>>}
    BY <1>1 DEF LocksInv, Balanced, TypeOK
  <2>2. PICK k \in 1 .. held[t] : Locks(queues[t])[k] = queues[t][i]
    BY <2>1, LocksOfCall
  <2>3. PICK n \in 1 .. held[u] : Locks(queues[u])[n] = queues[u][j]
    BY <2>1, LocksOfCall
  <2>4. queues[t][i] \in Mutexes
    BY <2>1, <2>2, LocksOfCall
  <2> DEFINE m == queues[t][i]
  <2>5. Holds(t, m) /\ Holds(u, m)
    BY <2>2, <2>3 DEF Holds
  <2>6. owner[m] = t /\ owner[m] = u
    BY <1>1, <2>4, <2>5 DEF LocksInv, Balanced, Mutexes
  <2> QED BY <2>6
<1> QED BY LocksInvHolds, <1>1, PTL

\* A thread that has a lock and waits has global_lock.
LEMMA WaitingHasGlobal ==
    ASSUME LocksInv, NEW t \in Threads, NEW u \in Threads,
           WaitsFor(t, u), held[t] > 0
    PROVE  owner[global_lock] = t
<1>1. /\ held[t] \in Nat /\ queues[t] \in Arguments \cup {<<>>}
      /\ held[t] < Len(Locks(queues[t]))
  BY DEF LocksInv, TypeOK, WaitsFor
<1>2. Len(Locks(queues[t])) > 1 /\ 1 \in 1 .. held[t]
  BY <1>1, LocksOfCall
<1>3. Holds(t, global_lock)
  BY <1>1, <1>2, LocksOfCall DEF Holds
<1> QED BY <1>3 DEF LocksInv, Balanced

\* Among threads that wait for each other, one would have to wait for a lock it has
\* itself: a thread that is waited for holds a lock, so it has global_lock; the
\* thread it waits for has it too, and is the same.
THEOREM NoDeadlockHolds == Spec => []NoDeadlock
<1>1. ASSUME LocksInv PROVE NoDeadlock
  <2> SUFFICES ASSUME NEW S \in SUBSET Threads, S # {},
                      \A t \in S : ~ SameTwice(queues[t]) /\ \E u \in S : WaitsFor(t, u)
               PROVE  FALSE
    BY DEF NoDeadlock
  <2>1. ASSUME NEW t \in S, NEW u \in S, WaitsFor(t, u) PROVE held[u] > 0
    <3>1. /\ held[t] \in Nat /\ held[u] \in Nat /\ queues[t] \in Arguments \cup {<<>>}
          /\ held[t] < Len(Locks(queues[t])) /\ owner[NextLock(t)] = u
      BY <1>1, <2>1 DEF LocksInv, TypeOK, WaitsFor
    <3>2. NextLock(t) \in Mutexes
      BY <3>1, LocksOfCall DEF NextLock
    <3>3. Holds(u, NextLock(t))
      BY <1>1, <3>1, <3>2 DEF LocksInv, Balanced, Mutexes
    <3> QED BY <3>1, <3>3 DEF Holds
  <2>2. PICK t \in S, u \in S, v \in S : WaitsFor(t, u) /\ WaitsFor(u, v)
    OBVIOUS
  <2>3. owner[global_lock] = u
    BY <1>1, <2>1, <2>2, WaitingHasGlobal
  <2>4. PICK w \in S : WaitsFor(v, w)
    OBVIOUS
  <2>5. owner[global_lock] = v
    BY <1>1, <2>1, <2>2, <2>4, WaitingHasGlobal
  <2>6. WaitsFor(u, u)
    BY <2>2, <2>3, <2>5
  <2>7. /\ held[u] \in Nat /\ queues[u] \in Arguments \cup {<<>>}
        /\ held[u] < Len(Locks(queues[u])) /\ owner[NextLock(u)] = u
    BY <1>1, <2>6 DEF LocksInv, TypeOK, WaitsFor
  <2>8. NextLock(u) \in Mutexes
    BY <2>7, LocksOfCall DEF NextLock
  <2>9. PICK i \in 1 .. held[u] : Locks(queues[u])[i] = NextLock(u)
    BY <1>1, <2>7, <2>8 DEF LocksInv, Balanced, Mutexes, Holds
  <2> QED BY <2>7, <2>9, LocksOfCall, LocksDiffer DEF NextLock
<1> QED BY LocksInvHolds, <1>1, PTL

=============================================================================
