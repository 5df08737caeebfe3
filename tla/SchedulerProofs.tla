-------------------------- MODULE SchedulerProofs --------------------------
(***************************************************************************)
(* Proofs about Scheduler: SchedInv is an invariant, and the properties    *)
(* follow from it.  Where the processes are is a matter of counting: how   *)
(* often a process is in s \o t is the sum of both (InConcat), and every   *)
(* move is a concatenation, an Append, a Tail or a SubSeq.  What a tick    *)
(* does to the queues before its end is one of Stay and Moved; both give   *)
(* Rearranged, from which the end of the tick is treated once              *)
(* (FinishKeeps).  The last part counts CPU time, line by line of what a   *)
(* process was described to need: DemandInv.                               *)
(***************************************************************************)
EXTENDS Scheduler, SequenceTheorems, FiniteSetTheorems, WellFoundedInduction, TLAPS

\* As long as the processes are not mixed up each is in one queue, and where it is
\* tells its level.
QueuesRight ==
    ~ MixedUp =>
        /\ InOneQueue
        /\ \A l \in Levels : \A p \in Elements(ready[l]) : process[p].level = l
        /\ \A p \in Elements(ArrivalQ) : process[p].level = 1

QuantumHeld == \A l \in Levels : current_q[l] # 0 => ready[l] # <<>>

\* The walk over IOQ has served those that it has passed.
WalkRight ==
    /\ pc # "io" => current = 1
    /\ pc = "io" => \A i \in 1 .. current - 1 : IOQ[i] \in served

\* A process that arrives at 0 comes first, and the clock has passed 0.
ZeroFirst ==
    (\E p \in Pids : input[p].arrival_time = 0) =>
        Elements(ArrivalQ) = Pids /\ input[ArrivalQ[1]].arrival_time = 0

SchedInv == TypeOK /\ QueuesRight /\ QuantumHeld /\ WalkRight /\ ZeroFirst

-----------------------------------------------------------------------------
(* Counting in sequences *)

At(s, p) == {i \in 1 .. Len(s) : s[i] = p}

LEMMA InCounts ==
    ASSUME NEW s \in Seq(Pids), NEW p
    PROVE  /\ IsFiniteSet(At(s, p)) /\ In(s, p) = Cardinality(At(s, p)) /\ In(s, p) \in Nat
           /\ p \in Elements(s) <=> In(s, p) # 0
<1>1. Len(s) \in Nat /\ IsFiniteSet(1 .. Len(s)) /\ At(s, p) \in SUBSET (1 .. Len(s))
  BY FS_Interval DEF At
<1>2. IsFiniteSet(At(s, p)) /\ Cardinality(At(s, p)) \in Nat
  BY <1>1, FS_Subset, FS_CardinalityType
<1>3. Cardinality(At(s, p)) = 0 <=> At(s, p) = {}
  BY <1>2, FS_EmptySet
<1>4. p \in Elements(s) <=> At(s, p) # {}
  BY DEF Elements, At
<1>5. In(s, p) = Cardinality(At(s, p))
  BY DEF In, At
<1> QED BY <1>2, <1>3, <1>4, <1>5

LEMMA InEmpty ==
    ASSUME NEW p
    PROVE  In(<<>>, p) = 0 /\ <<>> \in Seq(Pids) /\ p \notin Elements(<<>>)
<1>1. Len(<<>>) = 0 /\ <<>> \in Seq(Pids)
  OBVIOUS
<1>2. At(<<>>, p) = {} /\ p \notin Elements(<<>>)
  BY <1>1 DEF At, Elements
<1>3. In(<<>>, p) = Cardinality({})
  BY <1>2 DEF In, At
<1> QED BY <1>1, <1>2, <1>3, FS_EmptySet

LEMMA InOne ==
    ASSUME NEW x \in Pids, NEW p
    PROVE  In(<<x>>, p) = (IF x = p THEN 1 ELSE 0) /\ <<x>> \in Seq(Pids)
<1>1. At(<<x>>, p) = IF x = p THEN {1} ELSE {}
  BY DEF At
<1>2. In(<<x>>, p) = Cardinality(At(<<x>>, p))
  BY DEF In, At
<1>3. Cardinality({1}) = 1 /\ Cardinality({}) = 0
  BY FS_Singleton, FS_EmptySet
<1> QED BY <1>1, <1>2, <1>3

LEMMA InConcat ==
    ASSUME NEW s \in Seq(Pids), NEW t \in Seq(Pids), NEW p
    PROVE  In(s \o t, p) = In(s, p) + In(t, p) /\ s \o t \in Seq(Pids)
<1> DEFINE n == Len(s)
           S == {i + n : i \in At(t, p)}
           f == [i \in At(t, p) |-> i + n]
<1>1. /\ n \in Nat /\ Len(t) \in Nat /\ s \o t \in Seq(Pids) /\ Len(s \o t) = n + Len(t)
      /\ \A i \in 1 .. n : (s \o t)[i] = s[i]
      /\ \A i \in 1 .. Len(t) : (s \o t)[i + n] = t[i]
  BY ConcatProperties
<1>2. At(s \o t, p) = At(s, p) \cup S
  <2>1. ASSUME NEW i \in At(s \o t, p) PROVE i \in At(s, p) \cup S
    <3>1. i \in 1 .. n + Len(t) /\ (s \o t)[i] = p
      BY <1>1 DEF At
    <3>2. CASE i <= n
      BY <3>1, <3>2, <1>1 DEF At
    <3>3. CASE i > n
      <4>1. i - n \in 1 .. Len(t) /\ i = (i - n) + n
        BY <3>1, <3>3, <1>1
      <4>2. i - n \in At(t, p)
        BY <4>1, <3>1, <1>1 DEF At
      <4> QED BY <4>1, <4>2
    <3> QED BY <3>1, <3>2, <3>3, <1>1
  <2>2. ASSUME NEW i \in At(s, p) PROVE i \in At(s \o t, p)
    BY <1>1 DEF At
  <2>3. ASSUME NEW i \in At(t, p) PROVE i + n \in At(s \o t, p)
    BY <1>1 DEF At
  <2> QED BY <2>1, <2>2, <2>3
<1>3. At(s, p) \cap S = {}
  BY <1>1 DEF At
<1>4. IsFiniteSet(At(s, p)) /\ IsFiniteSet(At(t, p))
  BY InCounts
<1>5. f \in Bijection(At(t, p), S)
  <2>1. \A i \in At(t, p) : i \in Int
    BY DEF At
  <2>2. f \in Injection(At(t, p), S)
    BY <2>1, <1>1 DEF Injection, IsInjective
  <2>3. f \in Surjection(At(t, p), S)
    BY DEF Surjection
  <2> QED BY <2>2, <2>3 DEF Bijection
<1>6. IsFiniteSet(S) /\ Cardinality(S) = Cardinality(At(t, p))
  BY <1>4, <1>5, FS_Bijection DEF ExistsBijection
<1>7. Cardinality(At(s, p) \cup S) = Cardinality(At(s, p)) + Cardinality(S)
  <2> HIDE DEF S
  <2>1. Cardinality(At(s, p) \cup S)
          = Cardinality(At(s, p)) + Cardinality(S) - Cardinality(At(s, p) \cap S)
    BY <1>4, <1>6, FS_Union
  <2>2. Cardinality(At(s, p) \cap S) = 0
    BY <1>3, FS_EmptySet
  <2>3. Cardinality(At(s, p)) \in Nat /\ Cardinality(S) \in Nat
    BY <1>4, <1>6, FS_CardinalityType
  <2> QED BY <2>1, <2>2, <2>3
<1>8. /\ In(s \o t, p) = Cardinality(At(s \o t, p))
      /\ In(s, p) = Cardinality(At(s, p)) /\ In(t, p) = Cardinality(At(t, p))
  BY DEF In, At
<1> QED BY <1>1, <1>2, <1>6, <1>7, <1>8

LEMMA InAppend ==
    ASSUME NEW s \in Seq(Pids), NEW x \in Pids, NEW p
    PROVE  In(Append(s, x), p) = In(s, p) + (IF x = p THEN 1 ELSE 0)
           /\ Append(s, x) \in Seq(Pids) /\ Append(s, x) # <<>>
<1>1. <<x>> \in Seq(Pids) /\ In(<<x>>, p) = (IF x = p THEN 1 ELSE 0)
  BY InOne
<1>2. Append(s, x) = s \o <<x>> /\ Append(s, x) \in Seq(Pids) /\ Append(s, x) # <<>>
  BY AppendIsConcat, AppendProperties
<1>3. In(s \o <<x>>, p) = In(s, p) + In(<<x>>, p)
  BY <1>1, InConcat
<1> QED BY <1>1, <1>2, <1>3

LEMMA InTail ==
    ASSUME NEW s \in Seq(Pids), s # <<>>, NEW p
    PROVE  /\ Head(s) \in Pids /\ Tail(s) \in Seq(Pids)
           /\ In(s, p) = In(Tail(s), p) + (IF Head(s) = p THEN 1 ELSE 0)
<1>1. Head(s) \in Pids /\ Tail(s) \in Seq(Pids) /\ s = <<Head(s)>> \o Tail(s)
  <2>1. Head(s) \in Pids /\ Tail(s) \in Seq(Pids)
    BY HeadTailProperties
  <2>2. s = <<Head(s)>> \o Tail(s)
    BY <2>1, ConcatProperties, HeadTailProperties, SeqEqual
  <2> QED BY <2>1, <2>2
<1>2. In(<<Head(s)>> \o Tail(s), p) = In(<<Head(s)>>, p) + In(Tail(s), p)
  <2> DEFINE h == <<Head(s)>>
             t == Tail(s)
  <2>1. h \in Seq(Pids) /\ t \in Seq(Pids)
    BY <1>1, InOne
  <2> HIDE DEF h, t
  <2>2. In(h \o t, p) = In(h, p) + In(t, p)
    BY <2>1, InConcat
  <2> QED BY <2>2 DEF h, t
<1>3. In(Tail(s), p) \in Nat
  BY <1>1, InCounts
<1>4. In(<<Head(s)>>, p) = (IF Head(s) = p THEN 1 ELSE 0)
  BY <1>1, InOne
<1>5. In(s, p) = In(<<Head(s)>>, p) + In(Tail(s), p)
  BY <1>1, <1>2
<1> QED BY <1>1, <1>3, <1>4, <1>5

LEMMA InSplit ==
    ASSUME NEW s \in Seq(Pids), NEW n \in 0 .. Len(s), NEW p
    PROVE  /\ SubSeq(s, 1, n) \in Seq(Pids) /\ SubSeq(s, n + 1, Len(s)) \in Seq(Pids)
           /\ In(s, p) = In(SubSeq(s, 1, n), p) + In(SubSeq(s, n + 1, Len(s)), p)
<1>1. Len(s) \in Nat /\ n \in Nat
  OBVIOUS
<1>2. SubSeq(s, 1, n) \in Seq(Pids) /\ SubSeq(s, n + 1, Len(s)) \in Seq(Pids)
  BY <1>1, SubSeqProperties
<1>3. SubSeq(s, 1, n) \o SubSeq(s, n + 1, Len(s)) = s
  <2>1. SubSeq(s, 1, n) \o SubSeq(s, n + 1, Len(s)) = SubSeq(s, 1, Len(s))
    <3>1. 1 \in 1 .. Len(s) + 1 /\ n \in 1 - 1 .. Len(s) /\ Len(s) \in n .. Len(s)
      BY <1>1
    <3> QED BY <3>1, ConcatAdjacentSubSeq
  <2> QED BY <2>1, SubSeqFull
<1> DEFINE u == SubSeq(s, 1, n)
           v == SubSeq(s, n + 1, Len(s))
<1> HIDE DEF u, v
<1>4. In(u \o v, p) = In(u, p) + In(v, p)
  <2>1. u \in Seq(Pids) /\ v \in Seq(Pids)
    BY <1>2 DEF u, v
  <2> QED BY <2>1, InConcat
<1> QED BY <1>2, <1>3, <1>4 DEF u, v

\* What is left when the element at i is taken out.
LEMMA InWithout ==
    ASSUME NEW s \in Seq(Pids), NEW i \in 1 .. Len(s), NEW p
    PROVE  LET t == SubSeq(s, 1, i - 1) \o SubSeq(s, i + 1, Len(s)) IN
           t \in Seq(Pids) /\ In(s, p) = In(t, p) + (IF s[i] = p THEN 1 ELSE 0)
<1> DEFINE u == SubSeq(s, 1, i - 1)
           v == SubSeq(s, i, Len(s))
           w == SubSeq(s, i + 1, Len(s))
<1>1. Len(s) \in Nat /\ i \in Nat /\ i - 1 \in 0 .. Len(s) /\ (i - 1) + 1 = i /\ s[i] \in Pids
  OBVIOUS
<1>2. u \in Seq(Pids) /\ v \in Seq(Pids) /\ In(s, p) = In(u, p) + In(v, p)
  BY <1>1, InSplit
<1>3. v = <<s[i]>> \o w
  BY <1>1, SubSeqRecursiveFirst
<1>4. w \in Seq(Pids)
  BY <1>1, SubSeqProperties
<1> HIDE DEF u, v, w
<1>5. In(v, p) = (IF s[i] = p THEN 1 ELSE 0) + In(w, p)
  <2> DEFINE h == <<s[i]>>
  <2>1. h \in Seq(Pids) /\ In(h, p) = (IF s[i] = p THEN 1 ELSE 0)
    BY <1>1, InOne
  <2> HIDE DEF h
  <2>2. In(h \o w, p) = In(h, p) + In(w, p)
    BY <2>1, <1>4, InConcat
  <2> QED BY <2>1, <2>2, <1>3 DEF h
<1>6. In(u \o w, p) = In(u, p) + In(w, p) /\ u \o w \in Seq(Pids)
  BY <1>2, <1>4, InConcat
<1>7. In(u, p) \in Nat /\ In(w, p) \in Nat
  BY <1>2, <1>4, InCounts
<1> QED BY <1>2, <1>5, <1>6, <1>7 DEF u, w

-----------------------------------------------------------------------------
(* The ready queues *)

InReady(r, p) == In(r[1], p) + In(r[2], p) + In(r[3], p)

LEMMA PlacesOf ==
    ASSUME TypeOK, NEW p
    PROVE  /\ In(ArrivalQ, p) \in Nat /\ In(IOQ, p) \in Nat /\ In(RemovalQ, p) \in Nat
           /\ \A l \in Levels : In(ready[l], p) \in Nat /\ In(ready[l], p) <= InReady(ready, p)
           /\ InReady(ready, p) \in Nat
           /\ Places(p) = In(ArrivalQ, p) + In(IOQ, p) + In(RemovalQ, p) + InReady(ready, p)
<1>1. /\ In(ArrivalQ, p) \in Nat /\ In(IOQ, p) \in Nat /\ In(RemovalQ, p) \in Nat
      /\ \A l \in Levels : In(ready[l], p) \in Nat
  BY InCounts DEF TypeOK
<1> QED BY <1>1 DEF Places, InReady, Levels

LEMMA ReadyChange ==
    ASSUME NEW r \in [Levels -> Seq(Pids)], NEW t \in [Levels -> Seq(Pids)],
           NEW l \in Levels, \A h \in Levels \ {l} : t[h] = r[h], NEW p
    PROVE  /\ InReady(t, p) = InReady(r, p) - In(r[l], p) + In(t[l], p)
           /\ InReady(r, p) \in Nat /\ In(r[l], p) \in Nat /\ In(t[l], p) \in Nat
<1>1. 1 \in Levels /\ 2 \in Levels /\ 3 \in Levels
  BY DEF Levels
<1>2. /\ In(r[1], p) \in Nat /\ In(r[2], p) \in Nat /\ In(r[3], p) \in Nat
      /\ In(t[1], p) \in Nat /\ In(t[2], p) \in Nat /\ In(t[3], p) \in Nat
  BY <1>1, InCounts
<1>3. l = 1 \/ l = 2 \/ l = 3
  BY DEF Levels
<1>4. InReady(t, p) = In(t[1], p) + In(t[2], p) + In(t[3], p)
  BY DEF InReady
<1>5. InReady(r, p) = In(r[1], p) + In(r[2], p) + In(r[3], p)
  BY DEF InReady
<1>6. CASE l = 1
  <2>1. t[2] = r[2] /\ t[3] = r[3]
    BY <1>1, <1>6
  <2> QED BY <2>1, <1>2, <1>4, <1>5, <1>6
<1>7. CASE l = 2
  <2>1. t[1] = r[1] /\ t[3] = r[3]
    BY <1>1, <1>7
  <2> QED BY <2>1, <1>2, <1>4, <1>5, <1>7
<1>8. CASE l = 3
  <2>1. t[1] = r[1] /\ t[2] = r[2]
    BY <1>1, <1>8
  <2> QED BY <2>1, <1>2, <1>4, <1>5, <1>8
<1> QED BY <1>3, <1>6, <1>7, <1>8

LEMMA QueueChange ==
    ASSUME NEW r \in [Levels -> Seq(Pids)], NEW l \in Levels, NEW s \in Seq(Pids), NEW p
    PROVE  InReady([r EXCEPT ![l] = s], p) = InReady(r, p) - In(r[l], p) + In(s, p)
<1> DEFINE t == [r EXCEPT ![l] = s]
<1>1. t \in [Levels -> Seq(Pids)] /\ t[l] = s /\ \A h \in Levels \ {l} : t[h] = r[h]
  OBVIOUS
<1> HIDE DEF t
<1>2. InReady(t, p) = InReady(r, p) - In(r[l], p) + In(t[l], p)
  BY <1>1, ReadyChange, ZenonT(60)
<1> QED BY <1>1, <1>2 DEF t

\* Queue `to` gets the first process of queue l, which is taken out.
LEMMA MovedRight ==
    ASSUME TypeOK, NEW l \in Levels, NEW to \in Levels, ready[l] # <<>>
    PROVE  LET p == Head(ready[l])  r == Moved(l, to) IN
           /\ p \in Pids /\ p \in Elements(ready[l]) /\ r \in [Levels -> Seq(Pids)]
           /\ \A x : InReady(r, x) = InReady(ready, x)
           /\ In(r[to], p) # 0
           /\ \A h \in Levels : h # l /\ h # to => r[h] = ready[h]
           /\ l # to => /\ r[to] = Append(ready[to], p) /\ r[l] = Tail(ready[l])
           /\ l = to => r[l] = Append(Tail(ready[l]), p)
<1> DEFINE p == Head(ready[l])
           a == Append(ready[to], p)
           mid == [ready EXCEPT ![to] = a]
           new == [mid EXCEPT ![l] = Tail(mid[l])]
<1>1. ready \in [Levels -> Seq(Pids)]
  BY DEF TypeOK
<1>2. p \in Pids /\ Tail(ready[l]) \in Seq(Pids) /\ p = ready[l][1] /\ 1 \in 1 .. Len(ready[l])
  BY <1>1, HeadTailProperties
<1>3. p \in Elements(ready[l])
  BY <1>2 DEF Elements
<1>4. a \in Seq(Pids) /\ a # <<>> /\ \A x : In(a, x) = In(ready[to], x) + (IF p = x THEN 1 ELSE 0)
  BY <1>1, <1>2, InAppend
<1>5. new = Moved(l, to)
  BY DEF Moved
<1> HIDE DEF a
<1>6. mid \in [Levels -> Seq(Pids)] /\ mid[l] # <<>> /\ mid[l] \in Seq(Pids)
  BY <1>1, <1>4
<1>7. mid[l] = (IF l = to THEN a ELSE ready[l]) /\ Head(mid[l]) = p
  <2>1. l = to => Head(a) = p
    BY <1>1, <1>2 DEF a
  <2> QED BY <1>1, <2>1
<1>8. Tail(mid[l]) \in Seq(Pids)
  BY <1>6, HeadTailProperties
<1>9. \A x : InReady(new, x) = InReady(ready, x)
  <2> TAKE x
  <2>1. InReady(mid, x) = InReady(ready, x) - In(ready[to], x) + In(a, x)
    BY <1>1, <1>4, QueueChange
  <2>2. InReady(new, x) = InReady(mid, x) - In(mid[l], x) + In(Tail(mid[l]), x)
    <3> HIDE DEF mid
    <3> QED BY <1>6, <1>8, QueueChange
  <2>3. In(mid[l], x) = In(Tail(mid[l]), x) + (IF p = x THEN 1 ELSE 0)
    <3> HIDE DEF mid, p
    <3> QED BY <1>6, <1>7, InTail
  <2>4. /\ InReady(ready, x) \in Nat /\ In(ready[to], x) \in Nat /\ In(a, x) \in Nat
        /\ In(mid[l], x) \in Nat /\ In(Tail(mid[l]), x) \in Nat
    <3>1. a \in Seq(Pids) /\ ready[to] \in Seq(Pids)
      BY <1>1, <1>4
    <3>2. In(ready[1], x) \in Nat /\ In(ready[2], x) \in Nat /\ In(ready[3], x) \in Nat
      BY <1>1, InCounts DEF Levels
    <3>3. InReady(ready, x) \in Nat
      BY <3>2 DEF InReady
    <3> HIDE DEF mid
    <3> QED BY <3>1, <3>3, <1>6, <1>8, InCounts
  <2>5. In(a, x) = In(ready[to], x) + (IF p = x THEN 1 ELSE 0)
    BY <1>4
  <2> HIDE DEF mid, p, new
  <2> QED BY <2>1, <2>2, <2>3, <2>4, <2>5
<1>10. new \in [Levels -> Seq(Pids)]
  <2> HIDE DEF mid
  <2> QED BY <1>6, <1>8
<1>11. /\ \A h \in Levels : h # l /\ h # to => new[h] = ready[h]
       /\ l # to => new[to] = Append(ready[to], p) /\ new[l] = Tail(ready[l])
       /\ l = to => new[l] = Tail(a)
  BY <1>1, <1>4 DEF a
<1>12. l = to => Tail(a) = Append(Tail(ready[l]), p)
  BY <1>1, <1>2 DEF a
<1>13. In(new[to], p) # 0
  <2>1. \A s \in Seq(Pids) : In(Append(s, p), p) = In(s, p) + 1 /\ In(s, p) \in Nat
    BY <1>2, InAppend, InCounts
  <2>2. new[to] = Append(ready[to], p) \/ new[to] = Append(Tail(ready[l]), p)
    BY <1>11, <1>12
  <2>3. ready[to] \in Seq(Pids) /\ Tail(ready[l]) \in Seq(Pids)
    BY <1>1, <1>2
  <2> HIDE DEF new, p
  <2>4. \A s \in Seq(Pids) : In(Append(s, p), p) # 0
    BY <2>1
  <2> QED BY <2>2, <2>3, <2>4
<1> QED BY <1>2, <1>3, <1>5, <1>9, <1>10, <1>11, <1>12, <1>13

\* The processes at the front of ArrivalQ that arrive at t.
LEMMA DueExists ==
    ASSUME TypeOK, NEW t
    PROVE  /\ Due(t) \in 0 .. Len(ArrivalQ)
           /\ \A i \in 1 .. Due(t) : input[ArrivalQ[i]].arrival_time = t
<1> DEFINE n == Len(ArrivalQ)
           S == {k \in 0 .. n : k < n => input[ArrivalQ[k + 1]].arrival_time # t}
<1>1. n \in Nat /\ n \in S /\ S \in SUBSET Nat
  BY DEF TypeOK
<1>2. PICK m \in S : \A k \in S : ~ (<<k, m>> \in OpToRel(<, Nat))
  BY <1>1, NatLessThanWellFounded, WFMin
<1>3. \A k \in S : ~ (k < m)
  BY <1>1, <1>2 DEF OpToRel
<1>4. m \in 0 .. n /\ (m < n => input[ArrivalQ[m + 1]].arrival_time # t)
  OBVIOUS
<1>5. \A i \in 1 .. m : input[ArrivalQ[i]].arrival_time = t
  <2> TAKE i \in 1 .. m
  <2>1. i - 1 \in 0 .. n /\ i - 1 < m /\ (i - 1) + 1 = i
    BY <1>1, <1>4
  <2>2. i - 1 \notin S
    BY <2>1, <1>3
  <2> QED BY <2>1, <2>2
<1> HIDE DEF S
<1> QED BY <1>4, <1>5 DEF Due

LEMMA PlacesKept ==
    ASSUME SchedInv, ~ MixedUp, NEW p \in Pids
    PROVE  Places(p) = 1
BY DEF SchedInv, QueuesRight, InOneQueue

\* What holds of the ready queues r and the quanta used when process p, in queue l
\* by then, ends its tick.
Rearranged(p, l, r, used) ==
    /\ r \in [Levels -> Seq(Pids)] /\ used \in [Levels -> Nat] /\ r[l] # <<>>
    /\ \A x \in Pids : InReady(r, x) = InReady(ready, x)
    /\ \A h \in Levels : \A x \in Elements(r[h]) :
           IF x = p THEN h = l ELSE process[x].level = h
    /\ \A h \in Levels : used[h] < q[h] /\ (used[h] # 0 => r[h] # <<>>)

Fits(rec, l) == rec \in Process /\ rec.level = l /\ rec.current_b < b[l] /\ rec.current_g < g[l]

\* The end of a tick, for whatever the tick has done to the ready queues before.
LEMMA FinishKeeps ==
    ASSUME SchedInv, pc = "execute", NEW p \in Pids, NEW l \in Levels,
           p \notin Elements(ArrivalQ),
           NEW r, NEW used, Rearranged(p, l, r, used), NEW rec, Fits(rec, l),
           FinishTick(p, l, r, used, rec)
    PROVE  SchedInv'
<1> USE DEF Rearranged, Fits
<1>1. /\ TypeOK /\ ~ MixedUp /\ current = 1
      /\ \A x \in Elements(ArrivalQ) : process[x].level = 1
      /\ \A x \in Pids : Places(x) = 1
  BY PlacesKept DEF SchedInv, QueuesRight, WalkRight, MixedUp
<1>2. /\ process' = [process EXCEPT ![p] = rec]
      /\ UNCHANGED <<input, Clock, ArrivalQ, current, served>>
      /\ pc' = "io" \/ (pc' = "mixed_up" /\ Head(r[l]) # p)
      /\ \/ ready' = r /\ current_q' = used /\ UNCHANGED <<IOQ, RemovalQ>>
         \/ /\ ready' = [r EXCEPT ![l] = Tail(@)] /\ current_q' = [used EXCEPT ![l] = 0]
            /\ pc' = "io" => Head(r[l]) = p
            /\ \/ RemovalQ' = Append(RemovalQ, p) /\ UNCHANGED IOQ
               \/ IOQ' = Append(IOQ, p) /\ UNCHANGED RemovalQ
  BY DEF FinishTick
<1>3. Head(r[l]) \in Pids /\ Tail(r[l]) \in Seq(Pids)
  BY HeadTailProperties
<1>4. /\ ready' \in [Levels -> Seq(Pids)]
      /\ IOQ' \in Seq(Pids) /\ RemovalQ' \in Seq(Pids) /\ ArrivalQ' \in Seq(Pids)
      /\ current_q' \in [Levels -> Nat]
  <2>1. /\ IOQ \in Seq(Pids) /\ RemovalQ \in Seq(Pids) /\ ArrivalQ \in Seq(Pids)
        /\ Append(IOQ, p) \in Seq(Pids) /\ Append(RemovalQ, p) \in Seq(Pids)
    BY <1>1, AppendProperties DEF TypeOK
  <2>2. ready' \in [Levels -> Seq(Pids)] /\ current_q' \in [Levels -> Nat]
    <3>1. CASE ready' = r /\ current_q' = used
      BY <3>1
    <3>2. CASE ready' = [r EXCEPT ![l] = Tail(@)] /\ current_q' = [used EXCEPT ![l] = 0]
      BY <3>2, <1>3
    <3> QED BY <3>1, <3>2, <1>2
  <2> QED BY <2>1, <2>2, <1>2
<1>5. /\ process' \in [Pids -> Process] /\ process'[p] = rec
      /\ \A x \in Pids \ {p} : process'[x] = process[x]
  BY <1>1, <1>2 DEF TypeOK
<1>6. \A h \in Levels : current_q'[h] < q[h] /\ (current_q'[h] # 0 => ready'[h] # <<>>)
  <2> SUFFICES ASSUME NEW h \in Levels
               PROVE  current_q'[h] < q[h] /\ (current_q'[h] # 0 => ready'[h] # <<>>)
    OBVIOUS
  <2>1. q[h] \in Nat \ {0}
    BY LevelsAssumption
  <2>2. CASE ready' = r /\ current_q' = used
    BY <2>2
  <2>3. CASE ready' = [r EXCEPT ![l] = Tail(@)] /\ current_q' = [used EXCEPT ![l] = 0]
    <3>1. CASE h = l
      BY <3>1, <2>1, <2>3
    <3>2. CASE h # l
      BY <3>2, <2>3
    <3> QED BY <3>1, <3>2
  <2> QED BY <2>2, <2>3, <1>2
<1>7. TypeOK'
  <2>1. \A x \in Pids : /\ process'[x].current_b < b[process'[x].level]
                        /\ process'[x].current_g < g[process'[x].level]
    BY <1>1, <1>5 DEF TypeOK
  <2>2. current' \in 1 .. Len(IOQ') + 1
    BY <1>1, <1>2, <1>4
  <2> QED BY <2>1, <2>2, <1>1, <1>2, <1>4, <1>5, <1>6 DEF TypeOK
<1>8. \A h \in Levels : Elements(ready'[h]) \subseteq Elements(r[h])
  <2>1. \A i \in 1 .. Len(Tail(r[l])) : i + 1 \in 1 .. Len(r[l]) /\ Tail(r[l])[i] = r[l][i + 1]
    BY HeadTailProperties
  <2>2. Elements(Tail(r[l])) \subseteq Elements(r[l])
    BY <2>1 DEF Elements
  <2> QED BY <2>2, <1>2
<1>9. ASSUME ~ MixedUp', NEW x \in Pids PROVE Places(x)' = 1
  <2>1. /\ Places(x) = In(ArrivalQ, x) + In(IOQ, x) + In(RemovalQ, x) + InReady(r, x)
        /\ In(ArrivalQ, x) \in Nat /\ In(IOQ, x) \in Nat /\ In(RemovalQ, x) \in Nat
        /\ InReady(r, x) \in Nat
    BY <1>1, PlacesOf
  <2>2. Places(x)' = In(ArrivalQ', x) + In(IOQ', x) + In(RemovalQ', x) + InReady(ready', x)
    <3>1. /\ ArrivalQ' \in Seq(Pids) /\ IOQ' \in Seq(Pids) /\ RemovalQ' \in Seq(Pids)
          /\ ready'[1] \in Seq(Pids) /\ ready'[2] \in Seq(Pids) /\ ready'[3] \in Seq(Pids)
      BY <1>4 DEF Levels
    <3>2. /\ In(ArrivalQ', x) \in Nat /\ In(IOQ', x) \in Nat /\ In(RemovalQ', x) \in Nat
          /\ In(ready'[1], x) \in Nat /\ In(ready'[2], x) \in Nat /\ In(ready'[3], x) \in Nat
      BY <3>1, InCounts
    <3> QED BY <3>2 DEF Places, InReady
  <2>3. CASE ready' = r /\ UNCHANGED <<IOQ, RemovalQ>>
    BY <2>1, <2>2, <2>3, <1>1, <1>2
  <2> DEFINE d == IF p = x THEN 1 ELSE 0
  <2>4. CASE /\ ready' = [r EXCEPT ![l] = Tail(@)]
             /\ \/ RemovalQ' = Append(RemovalQ, p) /\ UNCHANGED IOQ
                \/ IOQ' = Append(IOQ, p) /\ UNCHANGED RemovalQ
             /\ pc' = "io" => Head(r[l]) = p
    <3>1. InReady(ready', x) = InReady(r, x) - In(r[l], x) + In(Tail(r[l]), x)
      <4>1. r \in [Levels -> Seq(Pids)] /\ ready' = [r EXCEPT ![l] = Tail(r[l])]
        BY <2>4
      <4> QED BY ONLY <4>1, <1>3, l \in Levels, QueueChange
    <3>2. In(r[l], x) = In(Tail(r[l]), x) + d
      BY <2>4, <1>2, <1>9, InTail DEF MixedUp
    <3>3. In(Tail(r[l]), x) \in Nat
      BY <1>3, InCounts
    <3>4. In(RemovalQ', x) + In(IOQ', x)
            = In(RemovalQ, x) + In(IOQ, x) + d
      <4>1. /\ In(Append(RemovalQ, p), x) = In(RemovalQ, x) + d
            /\ In(Append(IOQ, p), x) = In(IOQ, x) + d
        BY <1>1, InAppend DEF TypeOK
      <4>2. d \in Nat
        OBVIOUS
      <4> HIDE DEF d
      <4>3. CASE RemovalQ' = Append(RemovalQ, p) /\ UNCHANGED IOQ
        BY <4>1, <4>2, <4>3, <2>1
      <4>4. CASE IOQ' = Append(IOQ, p) /\ UNCHANGED RemovalQ
        BY <4>1, <4>2, <4>4, <2>1
      <4> QED BY <4>3, <4>4, <2>4
    <3>5. In(RemovalQ', x) \in Nat /\ In(IOQ', x) \in Nat /\ ArrivalQ' = ArrivalQ
          /\ Places(x) = 1
      BY <1>1, <1>2, <1>4, InCounts
    <3>6. d \in Nat
      OBVIOUS
    <3> HIDE DEF d
    <3>7. InReady(ready', x) = InReady(r, x) - d
      BY <3>1, <3>2, <3>3, <3>6, <2>1
    <3>8. /\ In(ArrivalQ, x) \in Nat /\ In(IOQ, x) \in Nat /\ In(RemovalQ, x) \in Nat
          /\ InReady(r, x) \in Nat
          /\ Places(x)' = In(ArrivalQ, x) + In(IOQ', x) + In(RemovalQ', x) + InReady(ready', x)
      BY <3>5, <2>1, <2>2
    <3>9. In(ArrivalQ, x) + In(IOQ, x) + In(RemovalQ, x) + InReady(r, x) = 1
      BY <3>5, <2>1
    <3> QED BY ONLY <3>4, <3>5, <3>6, <3>7, <3>8, <3>9
  <2> QED BY <2>3, <2>4, <1>2
<1>10. \A h \in Levels : \A x \in Elements(ready'[h]) : process'[x].level = h
  <2> SUFFICES ASSUME NEW h \in Levels, NEW x \in Elements(ready'[h])
               PROVE  process'[x].level = h
    OBVIOUS
  <2>1. x \in Elements(r[h]) /\ x \in Pids
    <3>1. x \in Elements(r[h]) /\ ready'[h] \in Seq(Pids)
      BY <1>4, <1>8
    <3> QED BY <3>1 DEF Elements
  <2>2. IF x = p THEN h = l ELSE process[x].level = h
    BY <2>1
  <2> QED BY <2>1, <2>2, <1>5
<1>11. \A x \in Elements(ArrivalQ') : process'[x].level = 1
  <2>1. \A x \in Elements(ArrivalQ) : x \in Pids
    BY <1>1 DEF Elements, TypeOK
  <2> QED BY <2>1, <1>1, <1>2, <1>5
<1>12. QueuesRight'
  BY <1>9, <1>10, <1>11 DEF QueuesRight, InOneQueue
<1>13. QuantumHeld' /\ WalkRight' /\ ZeroFirst'
  BY <1>1, <1>2, <1>6 DEF SchedInv, QuantumHeld, WalkRight, ZeroFirst
<1> QED BY <1>7, <1>12, <1>13 DEF SchedInv

\* The process that has its tick, and what else is told of it.
LEMMA ServedFirst ==
    ASSUME SchedInv, pc = "execute", NEW l \in Levels, Serving(l)
    PROVE  LET p == Head(ready[l]) IN
           /\ p \in Pids /\ p \in Elements(ready[l]) /\ p \notin Elements(ArrivalQ)
           /\ process[p].level = l /\ process[p] \in Process
           /\ process[p].current_b < b[l] /\ process[p].current_g < g[l]
           /\ In(ready[l], p) = 1 /\ ready[l] \in Seq(Pids) /\ ready[l] # <<>>
<1> DEFINE p == Head(ready[l])
<1>1. TypeOK /\ ~ MixedUp /\ ready[l] # <<>> /\ ready[l] \in Seq(Pids)
  BY DEF SchedInv, TypeOK, MixedUp, Serving
<1>2. p \in Pids /\ p = ready[l][1] /\ 1 \in 1 .. Len(ready[l])
  BY <1>1, HeadTailProperties
<1>3. p \in Elements(ready[l])
  BY <1>2 DEF Elements
<1>4. process[p].level = l
  BY <1>1, <1>3 DEF SchedInv, QueuesRight
<1> HIDE DEF p
<1>5. Places(p) = 1
  BY <1>1, <1>2, PlacesKept
<1>6. In(ready[l], p) # 0 /\ In(ready[l], p) \in Nat
  BY <1>1, <1>3, InCounts
<1>7. In(ready[l], p) = 1 /\ In(ArrivalQ, p) = 0
  BY <1>1, <1>5, <1>6, PlacesOf
<1>8. p \notin Elements(ArrivalQ)
  BY <1>1, <1>7, InCounts DEF TypeOK
<1> QED BY <1>1, <1>2, <1>3, <1>4, <1>7, <1>8 DEF TypeOK, p

\* The record of a process with another level and other counts.
LEMMA RecordChanges ==
    ASSUME NEW rec \in Process, NEW l \in Levels, NEW m \in Nat, NEW n \in Nat
    PROVE  /\ [rec EXCEPT !.level = l, !.current_b = m, !.current_g = n] \in Process
           /\ [rec EXCEPT !.level = l, !.current_b = m, !.current_g = n].level = l
           /\ [rec EXCEPT !.level = l, !.current_b = m, !.current_g = n].current_b = m
           /\ [rec EXCEPT !.level = l, !.current_b = m, !.current_g = n].current_g = n
BY DEF Process

LEMMA RanKeeps ==
    ASSUME NEW p, process[p] \in Process
    PROVE  /\ Ran(p) \in Process /\ Ran(p).level = process[p].level
           /\ Ran(p).current_b = process[p].current_b /\ Ran(p).current_g = process[p].current_g
<1> DEFINE rec == process[p]
           bs == rec.behaviors
           one == [bs[1] EXCEPT !.current_cpuburst = bs[1].current_cpuburst + 1]
           bs2 == [bs EXCEPT ![1] = one]
           rec1 == [rec EXCEPT !.total_clock_time = rec.total_clock_time + 1]
           rec2 == [rec1 EXCEPT !.behaviors = bs2]
<1>1. bs \in Seq(Burst) /\ bs # <<>> /\ rec.total_clock_time \in Nat
  BY DEF Process
<1>2. bs[1] \in Burst /\ 1 \in 1 .. Len(bs)
  BY <1>1
<1>3. one \in Burst
  BY <1>2 DEF Burst
<1> HIDE DEF one
<1>4. bs2 \in Seq(Burst) /\ bs2 # <<>>
  BY <1>1, <1>2, <1>3
<1> HIDE DEF bs2
<1>5. /\ rec1 \in Process /\ rec1.level = rec.level
      /\ rec1.current_b = rec.current_b /\ rec1.current_g = rec.current_g
      /\ rec1.behaviors = bs
  BY <1>1 DEF Process
<1> HIDE DEF rec1
<1>6. /\ rec2 \in Process /\ rec2.level = rec.level
      /\ rec2.current_b = rec.current_b /\ rec2.current_g = rec.current_g
  BY <1>4, <1>5 DEF Process
<1>7. rec2 = Ran(p)
  BY DEF Ran, rec1, bs2, one
<1> QED BY <1>6, <1>7

LEMMA AppendElements ==
    ASSUME NEW s \in Seq(Pids), NEW p \in Pids
    PROVE  Elements(Append(s, p)) = Elements(s) \cup {p}
<1> DEFINE t == Append(s, p)
<1>1. /\ t \in Seq(Pids) /\ Len(t) = Len(s) + 1 /\ Len(s) \in Nat /\ t[Len(s) + 1] = p
      /\ \A i \in 1 .. Len(s) : t[i] = s[i]
  BY AppendProperties
<1> HIDE DEF t
<1>2. \A i \in 1 .. Len(t) : i \in 1 .. Len(s) \/ i = Len(s) + 1
  BY <1>1
<1>3. \A i \in 1 .. Len(s) : i \in 1 .. Len(t)
  BY <1>1
<1>4. Len(s) + 1 \in 1 .. Len(t)
  BY <1>1
<1>5. Elements(t) = Elements(s) \cup {p}
  BY <1>1, <1>2, <1>3, <1>4 DEF Elements
<1> QED BY <1>5 DEF t

LEMMA TailElements ==
    ASSUME NEW s \in Seq(Pids), s # <<>>
    PROVE  Elements(Tail(s)) \subseteq Elements(s)
<1>1. \A i \in 1 .. Len(Tail(s)) : i + 1 \in 1 .. Len(s) /\ Tail(s)[i] = s[i + 1]
  BY HeadTailProperties
<1> QED BY <1>1 DEF Elements

\* When the first process of queue l has gone to the end of queue `to`, every other
\* one is still where its level says, and only quanta of queues in use are counted.
LEMMA MovedKeeps ==
    ASSUME SchedInv, pc = "execute", NEW l \in Levels, NEW to \in Levels, Serving(l)
    PROVE  LET p == Head(ready[l])
               r == Moved(l, to)
               used == [current_q EXCEPT ![l] = 0] IN
           Rearranged(p, to, r, used)
<1> DEFINE p == Head(ready[l])
           r == Moved(l, to)
           used == [current_q EXCEPT ![l] = 0]
<1>1. /\ TypeOK /\ ready \in [Levels -> Seq(Pids)] /\ ready[l] # <<>> /\ ready[l] \in Seq(Pids)
      /\ \A h \in Levels : \A x \in Elements(ready[h]) : process[x].level = h
  BY DEF SchedInv, TypeOK, QueuesRight, MixedUp, Serving
<1>2. /\ p \in Pids /\ p \in Elements(ready[l]) /\ process[p].level = l /\ In(ready[l], p) = 1
  BY ServedFirst
<1>3. /\ r \in [Levels -> Seq(Pids)] /\ \A x : InReady(r, x) = InReady(ready, x)
      /\ In(r[to], p) # 0
      /\ \A h \in Levels : h # l /\ h # to => r[h] = ready[h]
      /\ l # to => /\ r[to] = Append(ready[to], p) /\ r[l] = Tail(ready[l])
      /\ l = to => r[l] = Append(Tail(ready[l]), p)
  BY <1>1, MovedRight
<1>4. /\ Tail(ready[l]) \in Seq(Pids) /\ Elements(Tail(ready[l])) \subseteq Elements(ready[l])
      /\ In(Tail(ready[l]), p) = 0
  <2>1. Tail(ready[l]) \in Seq(Pids) /\ Elements(Tail(ready[l])) \subseteq Elements(ready[l])
    BY <1>1, TailElements, HeadTailProperties
  <2>2. In(ready[l], p) = In(Tail(ready[l]), p) + 1 /\ In(Tail(ready[l]), p) \in Nat
    BY <1>1, <2>1, InTail, InCounts
  <2> QED BY <2>1, <2>2, <1>2
<1> HIDE DEF r, p
<1>5. r[to] # <<>>
  BY <1>3, InEmpty
<1>6. ASSUME NEW h \in Levels, NEW x \in Elements(r[h])
      PROVE  IF x = p THEN h = to ELSE process[x].level = h
  <2>1. CASE h = to /\ l # to
    <3>1. Elements(r[h]) = Elements(ready[to]) \cup {p}
      <4>1. ready[to] \in Seq(Pids) /\ r[h] = Append(ready[to], p)
        BY <2>1, <1>1, <1>3
      <4> QED BY <4>1, <1>2, AppendElements
    <3> QED BY <3>1, <2>1, <1>1, <1>6
  <2>2. CASE h = to /\ l = to
    <3>1. Elements(r[h]) = Elements(Tail(ready[l])) \cup {p}
      BY <2>2, <1>2, <1>3, <1>4, AppendElements
    <3> QED BY <3>1, <2>2, <1>1, <1>4, <1>6
  <2>3. CASE h # to /\ h = l
    <3>1. x \in Elements(Tail(ready[l])) /\ x # p
      BY <2>3, <1>3, <1>4, <1>6, InCounts
    <3> QED BY <3>1, <2>3, <1>1, <1>4
  <2>4. CASE h # to /\ h # l
    BY <2>4, <1>1, <1>2, <1>3, <1>6
  <2> QED BY <2>1, <2>2, <2>3, <2>4
<1>7. used \in [Levels -> Nat]
  BY <1>1 DEF TypeOK
<1>8. ASSUME NEW h \in Levels
      PROVE  used[h] < q[h] /\ (used[h] # 0 => r[h] # <<>>)
  <2>1. q[h] \in Nat \ {0}
    BY LevelsAssumption
  <2>2. current_q \in [Levels -> Nat] /\ current_q[h] < q[h]
        /\ (current_q[h] # 0 => ready[h] # <<>>)
    BY DEF SchedInv, TypeOK, QuantumHeld
  <2>3. CASE h = l
    BY <2>1, <2>2, <2>3
  <2>4. CASE h # l /\ h = to
    BY <2>2, <2>4, <1>5
  <2>5. CASE h # l /\ h # to
    BY <2>2, <2>5, <1>3
  <2> QED BY <2>3, <2>4, <2>5
<1> QED BY <1>3, <1>5, <1>6, <1>7, <1>8 DEF r, p, Rearranged

LEMMA PromoteKeeps ==
    ASSUME SchedInv, NEW l \in Levels, Promote(l)
    PROVE  SchedInv'
<1> DEFINE p == Head(ready[l])
           to == l - 1
           moved == Moved(l, to)
           left == [current_q EXCEPT ![l] = 0]
           ran == [Ran(p) EXCEPT !.level = to, !.current_b = 0, !.current_g = 0]
<1>1. pc = "execute" /\ Serving(l) /\ FinishTick(p, to, moved, left, ran) /\ to \in Levels
  BY DEF Promote, Good, Levels
<1>2. p \in Pids /\ p \notin Elements(ArrivalQ) /\ process[p] \in Process
  BY <1>1, ServedFirst
<1>3. Fits(ran, to)
  <2>1. Ran(p) \in Process
    BY <1>2, RanKeeps
  <2>2. b[to] \in Nat \ {0} /\ g[to] \in Nat \ {0}
    BY <1>1, LevelsAssumption
  <2> HIDE DEF to, p
  <2>3. /\ ran \in Process /\ ran.level = to /\ ran.current_b = 0 /\ ran.current_g = 0
    BY <1>1, <2>1 DEF Process
  <2> QED BY <2>2, <2>3 DEF Fits
<1>4. Rearranged(p, to, moved, left)
  BY <1>1, MovedKeeps
<1> HIDE DEF p, to, moved, left, ran
<1> QED BY <1>1, <1>2, <1>3, <1>4, FinishKeeps

LEMMA DemoteKeeps ==
    ASSUME SchedInv, NEW l \in Levels, Demote(l)
    PROVE  SchedInv'
<1> DEFINE p == Head(ready[l])
           to == l + 1
           moved == Moved(l, to)
           left == [current_q EXCEPT ![l] = 0]
           ran == [Ran(p) EXCEPT !.level = to, !.current_b = 0, !.current_g = 0]
<1>1. pc = "execute" /\ Serving(l) /\ FinishTick(p, to, moved, left, ran) /\ to \in Levels
  BY DEF Demote, Levels
<1>2. p \in Pids /\ p \notin Elements(ArrivalQ) /\ process[p] \in Process
  BY <1>1, ServedFirst
<1>3. Fits(ran, to)
  <2>1. Ran(p) \in Process
    BY <1>2, RanKeeps
  <2>2. b[to] \in Nat \ {0} /\ g[to] \in Nat \ {0}
    BY <1>1, LevelsAssumption
  <2> HIDE DEF to, p
  <2>3. /\ ran \in Process /\ ran.level = to /\ ran.current_b = 0 /\ ran.current_g = 0
    BY <1>1, <2>1 DEF Process
  <2> QED BY <2>2, <2>3 DEF Fits
<1>4. Rearranged(p, to, moved, left)
  BY <1>1, MovedKeeps
<1> HIDE DEF p, to, moved, left, ran
<1> QED BY <1>1, <1>2, <1>3, <1>4, FinishKeeps

LEMMA RequeueKeeps ==
    ASSUME SchedInv, NEW l \in Levels, Requeue(l)
    PROVE  SchedInv'
<1> DEFINE p == Head(ready[l])
           moved == Moved(l, l)
           left == [current_q EXCEPT ![l] = 0]
           count == IF l < 3 THEN Ran(p).current_b + 1 ELSE Ran(p).current_b
           ran == [Ran(p) EXCEPT !.current_b = count]
<1>1. /\ pc = "execute" /\ Serving(l) /\ FinishTick(p, l, moved, left, ran)
      /\ l < 3 => process[p].current_b + 1 # b[l]
  BY DEF Requeue
<1>2. /\ p \in Pids /\ p \notin Elements(ArrivalQ) /\ process[p] \in Process
      /\ process[p].level = l /\ process[p].current_b < b[l] /\ process[p].current_g < g[l]
  BY <1>1, ServedFirst
<1>3. Fits(ran, l)
  <2>1. /\ Ran(p) \in Process /\ Ran(p).level = l
        /\ Ran(p).current_b = process[p].current_b /\ Ran(p).current_g = process[p].current_g
    BY <1>2, RanKeeps
  <2>2. b[l] \in Nat \ {0} /\ process[p].current_b \in Nat
    BY <1>2, LevelsAssumption DEF Process
  <2> HIDE DEF p
  <2>3. count \in Nat /\ count < b[l]
    BY <1>1, <1>2, <2>1, <2>2
  <2> HIDE DEF count
  <2>4. /\ ran \in Process /\ ran.level = l /\ ran.current_b = count
        /\ ran.current_g = Ran(p).current_g
    BY <2>1, <2>3 DEF Process
  <2> QED BY <1>2, <2>1, <2>3, <2>4 DEF Fits
<1>4. Rearranged(p, l, moved, left)
  BY <1>1, MovedKeeps
<1> HIDE DEF p, moved, left, ran
<1> QED BY <1>1, <1>2, <1>3, <1>4, FinishKeeps

LEMMA StayKeeps ==
    ASSUME SchedInv, NEW l \in Levels, Stay(l)
    PROVE  SchedInv'
<1> DEFINE p == Head(ready[l])
           left == [current_q EXCEPT ![l] = @ + 1]
           count == IF Good(l, p) THEN Ran(p).current_g + 1 ELSE Ran(p).current_g
           ran == [Ran(p) EXCEPT !.current_g = count]
<1>1. /\ pc = "execute" /\ Serving(l) /\ FinishTick(p, l, ready, left, ran)
      /\ Good(l, p) => process[p].current_g + 1 # g[l]
      /\ ~ UsedUp(l)
  BY DEF Stay
<1>2. /\ p \in Pids /\ p \notin Elements(ArrivalQ) /\ process[p] \in Process
      /\ process[p].level = l /\ process[p].current_b < b[l] /\ process[p].current_g < g[l]
  BY <1>1, ServedFirst
<1>3. Fits(ran, l)
  <2>1. /\ Ran(p) \in Process /\ Ran(p).level = l
        /\ Ran(p).current_b = process[p].current_b /\ Ran(p).current_g = process[p].current_g
    BY <1>2, RanKeeps
  <2>2. g[l] \in Nat \ {0} /\ process[p].current_g \in Nat
    BY <1>2, LevelsAssumption DEF Process
  <2> HIDE DEF p
  <2>3. count \in Nat /\ count < g[l]
    BY <1>1, <1>2, <2>1, <2>2
  <2> HIDE DEF count
  <2>4. /\ ran \in Process /\ ran.level = l /\ ran.current_g = count
        /\ ran.current_b = Ran(p).current_b
    BY <2>1, <2>3 DEF Process
  <2> QED BY <1>2, <2>1, <2>3, <2>4 DEF Fits
<1>4. Rearranged(p, l, ready, left)
  <2>1. /\ ready \in [Levels -> Seq(Pids)] /\ current_q \in [Levels -> Nat]
        /\ \A h \in Levels : \A x \in Elements(ready[h]) : process[x].level = h
        /\ \A h \in Levels : current_q[h] < q[h] /\ (current_q[h] # 0 => ready[h] # <<>>)
        /\ ready[l] # <<>>
    BY <1>1 DEF SchedInv, TypeOK, QueuesRight, QuantumHeld, MixedUp, Serving
  <2>2. q[l] \in Nat \ {0} /\ current_q[l] + 1 < q[l]
    BY <1>1, <2>1, LevelsAssumption DEF UsedUp
  <2>3. /\ left \in [Levels -> Nat] /\ left[l] = current_q[l] + 1
        /\ \A h \in Levels \ {l} : left[h] = current_q[h]
    BY <2>1
  <2> HIDE DEF left, p
  <2>4. \A h \in Levels : left[h] < q[h] /\ (left[h] # 0 => ready[h] # <<>>)
    BY <2>1, <2>2, <2>3
  <2>5. \A h \in Levels : \A x \in Elements(ready[h]) :
            IF x = p THEN h = l ELSE process[x].level = h
    BY <2>1, <1>2
  <2> QED BY <2>1, <2>3, <2>4, <2>5 DEF Rearranged
<1> HIDE DEF p, left, ran
<1> QED BY <1>1, <1>2, <1>3, <1>4, FinishKeeps

LEMMA ExecuteKeeps ==
    ASSUME SchedInv, Idle \/ \E l \in Levels : Promote(l) \/ Demote(l) \/ Requeue(l) \/ Stay(l)
    PROVE  SchedInv'
<1>1. ASSUME Idle PROVE SchedInv'
  <2>1. /\ pc = "execute" /\ pc' = "io"
        /\ UNCHANGED <<input, Clock, ArrivalQ, ready, current_q, IOQ, RemovalQ, process,
                       current, served>>
    BY <1>1 DEF Idle
  <2>2. TypeOK' /\ QuantumHeld' /\ ZeroFirst'
    BY <2>1 DEF SchedInv, TypeOK, QuantumHeld, ZeroFirst
  <2>3. QueuesRight'
    BY <2>1 DEF SchedInv, QueuesRight, InOneQueue, Places, MixedUp
  <2>4. WalkRight'
    BY <2>1 DEF SchedInv, WalkRight
  <2> QED BY <2>2, <2>3, <2>4 DEF SchedInv
<1> QED BY <1>1, PromoteKeeps, DemoteKeeps, RequeueKeeps, StayKeeps

\* Where every process is, after a step that moves nothing but processes between queues.
LEMMA PlacesNext ==
    ASSUME TypeOK', NEW x
    PROVE  /\ In(ArrivalQ', x) \in Nat /\ In(IOQ', x) \in Nat /\ In(RemovalQ', x) \in Nat
           /\ InReady(ready', x) \in Nat
           /\ Places(x)' = In(ArrivalQ', x) + In(IOQ', x) + In(RemovalQ', x) + InReady(ready', x)
<1>1. /\ ArrivalQ' \in Seq(Pids) /\ IOQ' \in Seq(Pids) /\ RemovalQ' \in Seq(Pids)
      /\ ready'[1] \in Seq(Pids) /\ ready'[2] \in Seq(Pids) /\ ready'[3] \in Seq(Pids)
  BY DEF TypeOK, Levels
<1>2. /\ In(ArrivalQ', x) \in Nat /\ In(IOQ', x) \in Nat /\ In(RemovalQ', x) \in Nat
      /\ In(ready'[1], x) \in Nat /\ In(ready'[2], x) \in Nat /\ In(ready'[3], x) \in Nat
  BY <1>1, InCounts
<1> QED BY <1>2 DEF Places, InReady

LEMMA ConcatElements ==
    ASSUME NEW s \in Seq(Pids), NEW t \in Seq(Pids)
    PROVE  Elements(s \o t) \subseteq Elements(s) \cup Elements(t)
<1> SUFFICES ASSUME NEW i \in 1 .. Len(s \o t)
             PROVE  (s \o t)[i] \in Elements(s) \cup Elements(t)
  BY DEF Elements
<1>1. /\ Len(s \o t) = Len(s) + Len(t) /\ Len(s) \in Nat /\ Len(t) \in Nat
      /\ \A j \in 1 .. Len(s) : (s \o t)[j] = s[j]
      /\ \A j \in 1 .. Len(t) : (s \o t)[Len(s) + j] = t[j]
  BY ConcatProperties
<1>2. CASE i <= Len(s)
  BY <1>1, <1>2 DEF Elements
<1>3. CASE i > Len(s)
  <2>1. i - Len(s) \in 1 .. Len(t) /\ i = Len(s) + (i - Len(s))
    BY <1>1, <1>3
  <2> QED BY <2>1, <1>1 DEF Elements
<1> QED BY <1>1, <1>2, <1>3

LEMMA PartElements ==
    ASSUME NEW s \in Seq(Pids), NEW m \in 1 .. Len(s) + 1, NEW n \in 0 .. Len(s)
    PROVE  SubSeq(s, m, n) \in Seq(Pids) /\ Elements(SubSeq(s, m, n)) \subseteq Elements(s)
<1>1. Len(s) \in Nat /\ SubSeq(s, m, n) \in Seq(Pids)
  BY SubSeqProperties
<1>2. /\ Len(SubSeq(s, m, n)) = IF m <= n THEN n - m + 1 ELSE 0
      /\ \A i \in 1 .. n - m + 1 : SubSeq(s, m, n)[i] = s[m + i - 1]
  BY <1>1, SubSeqProperties
<1>3. \A i \in 1 .. Len(SubSeq(s, m, n)) :
          m + i - 1 \in 1 .. Len(s) /\ SubSeq(s, m, n)[i] = s[m + i - 1]
  BY <1>1, <1>2
<1> QED BY <1>1, <1>3 DEF Elements

LEMMA ArrivalsKeep ==
    ASSUME SchedInv, queue_new_arrivals
    PROVE  SchedInv'
<1> DEFINE n == Due(Clock')
           front == SubSeq(ArrivalQ, 1, n)
           rest == SubSeq(ArrivalQ, n + 1, Len(ArrivalQ))
           high == ready[1] \o front
<1>1. /\ pc = "arrive" /\ pc' = "execute" /\ served' = {}
      /\ Clock' = IF Clock < Horizon THEN Clock + 1 ELSE Clock
      /\ ready' = [ready EXCEPT ![1] = high] /\ ArrivalQ' = rest
      /\ UNCHANGED <<input, current_q, IOQ, RemovalQ, process, current>>
  BY DEF queue_new_arrivals
<1>2. /\ TypeOK /\ ArrivalQ \in Seq(Pids) /\ Len(ArrivalQ) \in Nat /\ ready[1] \in Seq(Pids)
      /\ ready \in [Levels -> Seq(Pids)] /\ 1 \in Levels /\ ~ MixedUp /\ current = 1
      /\ Horizon \in Nat /\ Clock \in 0 .. Horizon
  <2>1. TypeOK /\ ~ MixedUp /\ current = 1 /\ 1 \in Levels
    BY <1>1 DEF SchedInv, WalkRight, MixedUp, Levels
  <2> QED BY <2>1, InputsAssumption DEF TypeOK
<1>3. n \in 0 .. Len(ArrivalQ) /\ \A i \in 1 .. n : input[ArrivalQ[i]].arrival_time = Clock'
  BY <1>2, DueExists
<1> HIDE DEF n
<1>4. /\ front \in Seq(Pids) /\ rest \in Seq(Pids)
      /\ Elements(front) \subseteq Elements(ArrivalQ) /\ Elements(rest) \subseteq Elements(ArrivalQ)
      /\ \A x : In(ArrivalQ, x) = In(front, x) + In(rest, x)
  <2>1. /\ 1 \in 1 .. Len(ArrivalQ) + 1 /\ n + 1 \in 1 .. Len(ArrivalQ) + 1
        /\ Len(ArrivalQ) \in 0 .. Len(ArrivalQ)
    BY <1>2, <1>3
  <2> QED BY <2>1, <1>2, <1>3, PartElements, InSplit
<1> HIDE DEF front, rest
<1>5. /\ high \in Seq(Pids) /\ Elements(high) \subseteq Elements(ready[1]) \cup Elements(front)
      /\ \A x : In(high, x) = In(ready[1], x) + In(front, x)
  BY <1>2, <1>4, InConcat, ConcatElements
<1>6. ready[1] # <<>> => high # <<>>
  <2>1. Len(ready[1]) \in Nat /\ Len(front) \in Nat /\ Len(high) = Len(ready[1]) + Len(front)
        /\ (ready[1] # <<>> => Len(ready[1]) > 0)
    BY <1>2, <1>4, ConcatProperties
  <2> QED BY <2>1
<1> HIDE DEF high
<1>7. TypeOK'
  BY <1>1, <1>2, <1>4, <1>5 DEF TypeOK
<1>8. QueuesRight'
  <2>1. ASSUME NEW x \in Pids PROVE Places(x)' = 1
    <3>1. /\ Places(x) = 1 /\ Places(x) = In(ArrivalQ, x) + In(IOQ, x) + In(RemovalQ, x)
                                 + InReady(ready, x)
          /\ In(IOQ, x) \in Nat /\ In(RemovalQ, x) \in Nat /\ InReady(ready, x) \in Nat
      BY <1>2, PlacesKept, PlacesOf
    <3>2. InReady(ready', x) = InReady(ready, x) - In(ready[1], x) + In(high, x)
      BY <1>1, <1>2, <1>5, QueueChange
    <3>3. In(ready[1], x) \in Nat /\ In(front, x) \in Nat /\ In(rest, x) \in Nat
      BY <1>2, <1>4, InCounts
    <3>4. In(high, x) = In(ready[1], x) + In(front, x) /\ In(ArrivalQ, x) = In(front, x) + In(rest, x)
      BY <1>4, <1>5
    <3>5. Places(x)' = In(rest, x) + In(IOQ, x) + In(RemovalQ, x) + InReady(ready', x)
      BY <1>1, <1>7, PlacesNext
    <3> QED BY <3>1, <3>2, <3>3, <3>4, <3>5
  <2>2. /\ \A x \in Elements(ArrivalQ) : process[x].level = 1
        /\ \A h \in Levels : \A x \in Elements(ready[h]) : process[x].level = h
    BY <1>2 DEF SchedInv, QueuesRight
  <2>3. ASSUME NEW h \in Levels, NEW x \in Elements(ready'[h]) PROVE process'[x].level = h
    <3>1. CASE h = 1
      BY <3>1, <2>2, <2>3, <1>1, <1>2, <1>4, <1>5
    <3>2. CASE h # 1
      BY <3>2, <2>2, <2>3, <1>1, <1>2
    <3> QED BY <3>1, <3>2
  <2>4. \A x \in Elements(ArrivalQ') : process'[x].level = 1
    BY <2>2, <1>1, <1>4
  <2> QED BY <2>1, <2>3, <2>4 DEF QueuesRight, InOneQueue
<1>9. QuantumHeld' /\ WalkRight'
  BY <1>1, <1>2, <1>6 DEF SchedInv, QuantumHeld, WalkRight
<1>10. ZeroFirst'
  <2> SUFFICES ASSUME NEW p \in Pids, input[p].arrival_time = 0
               PROVE  Elements(rest) = Pids /\ input[rest[1]].arrival_time = 0
    BY <1>1 DEF ZeroFirst
  <2>1. Elements(ArrivalQ) = Pids /\ input[ArrivalQ[1]].arrival_time = 0
    BY DEF SchedInv, ZeroFirst
  <2>2. 0 \in 0 .. Horizon - 1
    BY <1>2, InputsAssumption DEF TypeOK
  <2>3. Clock' # 0
    BY <2>2, <1>1, <1>2
  <2>4. n = 0
    BY <2>1, <2>3, <1>3
  <2>5. rest = ArrivalQ
    BY <2>4, <1>2 DEF rest
  <2> QED BY <2>1, <2>5
<1> QED BY <1>7, <1>8, <1>9, <1>10 DEF SchedInv

LEMMA NextBehaviorsRight ==
    ASSUME NEW bs \in Seq(Burst), bs # <<>>
    PROVE  NextBehaviors(bs) \in Seq(Burst) /\ NextBehaviors(bs) # <<>>
<1> DEFINE first == [bs[1] EXCEPT !.current_cpuburst = 0, !.current_ioburst = 0,
                                  !.repeat = @ - 1]
<1>1. bs[1] \in Burst /\ Tail(bs) \in Seq(Burst) /\ Len(bs) \in Nat /\ Len(Tail(bs)) = Len(bs) - 1
  BY HeadTailProperties
<1>2. first \in Burst
  <2> DEFINE x == bs[1]
             f1 == [x EXCEPT !.current_cpuburst = 0]
             f2 == [f1 EXCEPT !.current_ioburst = 0]
             f3 == [f2 EXCEPT !.repeat = f2.repeat - 1]
  <2> HIDE DEF x
  <2>1. f1 \in Burst
    BY <1>1 DEF Burst, x
  <2> HIDE DEF f1
  <2>2. f2 \in Burst
    BY <2>1 DEF Burst
  <2> HIDE DEF f2
  <2> DEFINE k == f2.repeat - 1
  <2>3. f3 \in Burst
    <3>1. k \in Int
      BY <2>2 DEF Burst
    <3> HIDE DEF k
    <3>2. [f2 EXCEPT !.repeat = k] \in Burst
      BY <2>2, <3>1 DEF Burst
    <3> QED BY <3>2 DEF k
  <2>4. f3 = first
    BY DEF f1, f2, x
  <2> QED BY <2>3, <2>4
<1>3. NextBehaviors(bs) = IF first.repeat = 0 /\ Len(bs) > 1 THEN Tail(bs)
                          ELSE <<first>> \o Tail(bs)
  BY DEF NextBehaviors
<1> HIDE DEF first
<1>4. CASE first.repeat = 0 /\ Len(bs) > 1
  <2>1. Len(Tail(bs)) > 0
    BY <1>1, <1>4
  <2>2. Tail(bs) # <<>>
    <3> DEFINE t == Tail(bs)
    <3> HIDE DEF t
    <3>1. Len(t) # 0
      BY <2>1, <1>1 DEF t
    <3>2. t # <<>>
      BY <3>1
    <3> QED BY <3>2 DEF t
  <2> QED BY <2>2, <1>1, <1>3, <1>4
<1>5. CASE ~ (first.repeat = 0 /\ Len(bs) > 1)
  <2>1. <<first>> \in Seq(Burst) /\ Len(<<first>>) = 1
    BY <1>2
  <2>2. <<first>> \o Tail(bs) \in Seq(Burst) /\ Len(<<first>> \o Tail(bs)) = 1 + Len(Tail(bs))
    BY <2>1, <1>1, ConcatProperties
  <2>3. Len(<<first>> \o Tail(bs)) > 0
    BY <2>2, <1>1
  <2> QED BY <2>2, <2>3, <1>3, <1>5
<1> QED BY <1>4, <1>5

\* The process that do_IO has at hand.
LEMMA WalkAtHand ==
    ASSUME SchedInv, pc = "io", current <= Len(IOQ)
    PROVE  /\ current \in 1 .. Len(IOQ) /\ IOQ[current] \in Pids
           /\ process[IOQ[current]] \in Process
<1>1. TypeOK /\ IOQ \in Seq(Pids) /\ Len(IOQ) \in Nat /\ current \in 1 .. Len(IOQ) + 1
  BY DEF SchedInv, TypeOK
<1>2. current \in 1 .. Len(IOQ)
  BY <1>1
<1>3. IOQ[current] \in Pids
  BY <1>1, <1>2
<1> QED BY <1>1, <1>2, <1>3 DEF TypeOK

LEMMA AdvanceKeeps ==
    ASSUME SchedInv, Advance
    PROVE  SchedInv'
<1> DEFINE p == IOQ[current]
           bs == process[p].behaviors
           one == [bs[1] EXCEPT !.current_ioburst = bs[1].current_ioburst + 1]
           next == [bs EXCEPT ![1] = one]
           after == [process[p] EXCEPT !.behaviors = next]
<1>1. /\ pc = "io" /\ current <= Len(IOQ) /\ current' = current + 1
      /\ process' = [process EXCEPT ![p] = after] /\ served' = served \cup {p}
      /\ UNCHANGED <<input, Clock, ArrivalQ, ready, current_q, IOQ, RemovalQ, pc>>
  BY DEF Advance
<1>2. /\ TypeOK /\ current \in 1 .. Len(IOQ) /\ p \in Pids /\ process[p] \in Process
      /\ Len(IOQ) \in Nat /\ ~ MixedUp
  BY <1>1, WalkAtHand DEF SchedInv, TypeOK, MixedUp
<1>3. bs \in Seq(Burst) /\ bs # <<>>
  BY <1>2 DEF Process
<1>4. bs[1] \in Burst
  BY <1>3
<1>5. one \in Burst
  BY <1>4 DEF Burst
<1> HIDE DEF one
<1>6. next \in Seq(Burst) /\ next # <<>>
  BY <1>3, <1>5
<1> HIDE DEF next
<1>7. /\ after \in Process /\ after.level = process[p].level
      /\ after.current_b = process[p].current_b /\ after.current_g = process[p].current_g
  BY <1>2, <1>6 DEF Process
<1> HIDE DEF after, p
<1>8. /\ process' \in [Pids -> Process]
      /\ \A x \in Pids : /\ process'[x].level = process[x].level
                         /\ process'[x].current_b = process[x].current_b
                         /\ process'[x].current_g = process[x].current_g
  BY <1>1, <1>2, <1>7 DEF TypeOK
<1>9. TypeOK'
  <2>1. \A x \in Pids : /\ process'[x].current_b < b[process'[x].level]
                        /\ process'[x].current_g < g[process'[x].level]
    BY <1>2, <1>8 DEF TypeOK
  <2>2. current' \in 1 .. Len(IOQ') + 1
    BY <1>1, <1>2
  <2> QED BY <2>1, <2>2, <1>1, <1>2, <1>8 DEF TypeOK
<1>10. QueuesRight'
  <2>1. /\ \A x \in Elements(ArrivalQ) : x \in Pids /\ process[x].level = 1
        /\ \A h \in Levels : \A x \in Elements(ready[h]) : x \in Pids /\ process[x].level = h
    BY <1>2 DEF SchedInv, QueuesRight, TypeOK, Elements
  <2>2. \A x \in Pids : Places(x)' = 1
    BY <1>1, <1>2, PlacesKept DEF Places
  <2> QED BY <2>1, <2>2, <1>1, <1>8 DEF QueuesRight, InOneQueue
<1>11. WalkRight'
  <2>1. \A i \in 1 .. current' - 1 : i \in 1 .. current - 1 \/ i = current
    BY <1>1, <1>2
  <2>2. \A i \in 1 .. current - 1 : IOQ[i] \in served
    BY <1>1 DEF SchedInv, WalkRight
  <2> QED BY <2>1, <2>2, <1>1 DEF WalkRight, p
<1>12. QuantumHeld' /\ ZeroFirst'
  BY <1>1 DEF SchedInv, QuantumHeld, ZeroFirst
<1> QED BY <1>9, <1>10, <1>11, <1>12 DEF SchedInv

LEMMA CompleteKeeps ==
    ASSUME SchedInv, Complete
    PROVE  SchedInv'
<1> DEFINE p == IOQ[current]
           l == process[p].level
           one == [process[p] EXCEPT !.behaviors = NextBehaviors(process[p].behaviors)]
           after == [one EXCEPT !.current_b = 0]
           more == Append(ready[l], p)
           rest == SubSeq(IOQ, 1, current - 1) \o SubSeq(IOQ, current + 1, Len(IOQ))
<1>1. /\ pc = "io" /\ current <= Len(IOQ) /\ current' = 1
      /\ process' = [process EXCEPT ![p] = after]
      /\ ready' = [ready EXCEPT ![l] = more] /\ IOQ' = rest
      /\ UNCHANGED <<input, Clock, ArrivalQ, current_q, RemovalQ, pc>>
  <2>1. process' = [process EXCEPT ![p].behaviors = NextBehaviors(@), ![p].current_b = 0]
    BY DEF Complete
  <2>2. process' = [process EXCEPT ![p] = after]
    BY <2>1, WalkAtHand DEF Complete, SchedInv, TypeOK
  <2> QED BY <2>2 DEF Complete
<1>2. /\ TypeOK /\ current \in 1 .. Len(IOQ) /\ p \in Pids /\ process[p] \in Process
      /\ IOQ \in Seq(Pids) /\ ~ MixedUp /\ ready \in [Levels -> Seq(Pids)]
  BY <1>1, WalkAtHand DEF SchedInv, TypeOK, MixedUp
<1>3. rest \in Seq(Pids) /\ \A x : In(IOQ, x) = In(rest, x) + (IF p = x THEN 1 ELSE 0)
  BY <1>2, InWithout
<1> HIDE DEF rest
<1>4. l \in Levels /\ b[l] \in Nat \ {0}
  BY <1>2, LevelsAssumption DEF Process
<1>5. one \in Process /\ one.level = l /\ one.current_g = process[p].current_g
  <2> DEFINE next == NextBehaviors(process[p].behaviors)
  <2>1. next \in Seq(Burst) /\ next # <<>>
    BY <1>2, NextBehaviorsRight DEF Process
  <2> HIDE DEF next, p
  <2>2. LET o == [process[p] EXCEPT !.behaviors = next] IN
        o \in Process /\ o.level = l /\ o.current_g = process[p].current_g
    BY <1>2, <2>1 DEF Process
  <2> QED BY <2>2 DEF next
<1> HIDE DEF one
<1>6. /\ after \in Process /\ after.level = l
      /\ after.current_b = 0 /\ after.current_g = process[p].current_g
  BY <1>5 DEF Process
<1> HIDE DEF after
<1>7. /\ more \in Seq(Pids) /\ more # <<>> /\ Elements(more) = Elements(ready[l]) \cup {p}
      /\ \A x : In(more, x) = In(ready[l], x) + (IF p = x THEN 1 ELSE 0)
  <2>1. ready[l] \in Seq(Pids)
    BY <1>2, <1>4
  <2> QED BY <2>1, <1>2, InAppend, AppendElements
<1> HIDE DEF more, l, p
<1>8. /\ process' \in [Pids -> Process]
      /\ process'[p].level = process[p].level /\ process'[p].level = l
      /\ process'[p].current_b = 0 /\ process'[p].current_g = process[p].current_g
      /\ \A x \in Pids \ {p} : process'[x] = process[x]
  BY <1>1, <1>2, <1>6 DEF TypeOK, l
<1>9. TypeOK'
  <2>1. \A x \in Pids : /\ process'[x].current_b < b[process'[x].level]
                        /\ process'[x].current_g < g[process'[x].level]
    <3> TAKE x \in Pids
    <3>1. /\ process[x].current_b < b[process[x].level]
          /\ process[x].current_g < g[process[x].level]
      BY <1>2 DEF TypeOK
    <3>2. CASE x = p
      BY <3>1, <3>2, <1>4, <1>8 DEF l
    <3>3. CASE x # p
      BY <3>1, <3>3, <1>8
    <3> QED BY <3>2, <3>3
  <2>2. current' \in 1 .. Len(IOQ') + 1
    BY <1>1, <1>3
  <2>3. ready' \in [Levels -> Seq(Pids)]
    BY <1>1, <1>2, <1>4, <1>7
  <2>4. served' \subseteq Pids
    BY <1>2 DEF TypeOK, Complete, p
  <2> QED BY <2>1, <2>2, <2>3, <2>4, <1>1, <1>2, <1>3, <1>8 DEF TypeOK
<1>10. QueuesRight'
  <2>1. ASSUME NEW x \in Pids PROVE Places(x)' = 1
    <3> DEFINE d == IF p = x THEN 1 ELSE 0
    <3>1. /\ Places(x) = 1 /\ Places(x) = In(ArrivalQ, x) + In(IOQ, x) + In(RemovalQ, x)
                                 + InReady(ready, x)
          /\ In(ArrivalQ, x) \in Nat /\ In(RemovalQ, x) \in Nat /\ InReady(ready, x) \in Nat
      BY <1>2, PlacesKept, PlacesOf
    <3>2. InReady(ready', x) = InReady(ready, x) - In(ready[l], x) + In(more, x)
      BY <1>1, <1>2, <1>4, <1>7, QueueChange
    <3>3. In(ready[l], x) \in Nat /\ In(rest, x) \in Nat
      BY <1>2, <1>3, <1>4, InCounts
    <3>4. In(more, x) = In(ready[l], x) + d /\ In(IOQ, x) = In(rest, x) + d
      BY <1>3, <1>7
    <3>5. Places(x)' = In(ArrivalQ, x) + In(rest, x) + In(RemovalQ, x) + InReady(ready', x)
      BY <1>1, <1>9, PlacesNext
    <3>6. d \in Nat
      OBVIOUS
    <3> HIDE DEF d
    <3> QED BY <3>1, <3>2, <3>3, <3>4, <3>5, <3>6
  <2>2. /\ \A x \in Elements(ArrivalQ) : x \in Pids /\ process[x].level = 1
        /\ \A h \in Levels : \A x \in Elements(ready[h]) : x \in Pids /\ process[x].level = h
    BY <1>2 DEF SchedInv, QueuesRight, TypeOK, Elements
  <2>3. ASSUME NEW h \in Levels, NEW x \in Elements(ready'[h]) PROVE process'[x].level = h
    <3>1. CASE h = l
      <4>1. x = p \/ x \in Elements(ready[l])
        BY <3>1, <2>3, <1>1, <1>2, <1>7
      <4> QED BY <4>1, <3>1, <2>2, <1>8
    <3>2. CASE h # l
      BY <3>2, <2>2, <2>3, <1>1, <1>2, <1>8
    <3> QED BY <3>1, <3>2
  <2>4. \A x \in Elements(ArrivalQ') : process'[x].level = 1
    BY <2>2, <1>1, <1>8
  <2> QED BY <2>1, <2>3, <2>4 DEF QueuesRight, InOneQueue
<1>11. QuantumHeld'
  <2> SUFFICES ASSUME NEW h \in Levels, current_q[h] # 0 PROVE ready'[h] # <<>>
    BY <1>1 DEF QuantumHeld
  <2>1. ready[h] # <<>>
    BY DEF SchedInv, QuantumHeld
  <2> QED BY <2>1, <1>1, <1>2, <1>7
<1>12. WalkRight' /\ ZeroFirst'
  BY <1>1 DEF SchedInv, WalkRight, ZeroFirst
<1> QED BY <1>9, <1>10, <1>11, <1>12 DEF SchedInv

LEMMA EndTickKeeps ==
    ASSUME SchedInv, EndTick
    PROVE  SchedInv'
<1>1. /\ pc = "io" /\ pc' \in {"arrive", "done"} /\ current' = 1
      /\ UNCHANGED <<input, Clock, ArrivalQ, ready, current_q, IOQ, RemovalQ, process, served>>
  BY DEF EndTick
<1>2. TypeOK' /\ QuantumHeld' /\ ZeroFirst'
  BY <1>1 DEF SchedInv, TypeOK, QuantumHeld, ZeroFirst
<1>3. QueuesRight'
  BY <1>1 DEF SchedInv, QueuesRight, InOneQueue, Places, MixedUp
<1>4. WalkRight'
  BY <1>1 DEF WalkRight
<1> QED BY <1>2, <1>3, <1>4 DEF SchedInv

LEMMA StutterKeeps ==
    ASSUME SchedInv, UNCHANGED vars
    PROVE  SchedInv'
BY DEF vars, SchedInv, TypeOK, QueuesRight, InOneQueue, Places, MixedUp, QuantumHeld, WalkRight,
       ZeroFirst

LEMMA InitInv == Init => SchedInv
<1> SUFFICES ASSUME Init PROVE SchedInv
  OBVIOUS
<1> DEFINE n == Cardinality(Pids)
<1>1. /\ input \in Inputs /\ ArrivalQ \in [1 .. n -> Pids] /\ Elements(ArrivalQ) = Pids
      /\ \A i, j \in DOMAIN ArrivalQ :
            i < j => input[ArrivalQ[i]].arrival_time <= input[ArrivalQ[j]].arrival_time
      /\ Clock = 0 /\ current_q = [l \in Levels |-> 0]
      /\ ready = [l \in Levels |-> <<>>] /\ IOQ = <<>> /\ RemovalQ = <<>>
      /\ pc = "arrive" /\ current = 1 /\ served = {}
  BY DEF Init
<1>2. n \in Nat
  BY PidsAssumption, FS_CardinalityType
<1>3. /\ ArrivalQ \in Seq(Pids) /\ Len(ArrivalQ) = n /\ DOMAIN ArrivalQ = 1 .. n
      /\ <<>> \in Seq(Pids) /\ Len(<<>>) = 0
  BY <1>1, <1>2
<1>4. ASSUME NEW p \in Pids
      PROVE  /\ process[p] \in Process /\ process[p].level = 1
             /\ process[p].current_b = 0 /\ process[p].current_g = 0
  <2> DEFINE bs == input[p].behaviors
             zero == [i \in DOMAIN bs |->
                        [cpuburst |-> bs[i].cpuburst, current_cpuburst |-> 0,
                         ioburst |-> bs[i].ioburst, current_ioburst |-> 0,
                         repeat |-> bs[i].repeat]]
  <2>1. process[p] = [level |-> 1, current_b |-> 0, current_g |-> 0, total_clock_time |-> 0,
                      behaviors |-> zero]
    BY DEF Init
  <2>2. bs \in Seq(Behavior) /\ bs # <<>>
    BY <1>1, InputsAssumption
  <2>3. zero \in Seq(Burst) /\ zero # <<>>
    <3> HIDE DEF bs
    <3>1. Len(bs) \in Nat /\ Len(bs) # 0 /\ DOMAIN bs = 1 .. Len(bs)
      BY <2>2
    <3>2. \A i \in 1 .. Len(bs) :
            [cpuburst |-> bs[i].cpuburst, current_cpuburst |-> 0, ioburst |-> bs[i].ioburst,
             current_ioburst |-> 0, repeat |-> bs[i].repeat] \in Burst
      <4> TAKE i \in 1 .. Len(bs)
      <4>1. bs[i] \in Behavior
        BY <2>2
      <4> QED BY <4>1 DEF Behavior, Burst
    <3>3. zero \in [1 .. Len(bs) -> Burst]
      BY <3>1, <3>2
    <3> HIDE DEF zero
    <3>4. zero \in Seq(Burst) /\ Len(zero) = Len(bs)
      BY <3>1, <3>3
    <3> QED BY <3>1, <3>4
  <2> HIDE DEF zero
  <2> QED BY <2>1, <2>3 DEF Process, Levels
<1>5. process \in [Pids -> Process]
  <2>1. process = [p \in Pids |-> process[p]]
    BY DEF Init
  <2> QED BY <2>1, <1>4
<1>6. TypeOK
  <2>1. 1 \in Levels /\ \A l \in Levels : q[l] \in Nat \ {0} /\ b[l] \in Nat \ {0} /\ g[l] \in Nat \ {0}
    BY LevelsAssumption DEF Levels
  <2>2. \A p \in Pids : /\ process[p].current_b < b[process[p].level]
                        /\ process[p].current_g < g[process[p].level]
    BY <2>1, <1>4
  <2>3. Clock \in 0 .. Horizon
    BY <1>1, InputsAssumption
  <2>4. current_q \in [Levels -> Nat] /\ \A l \in Levels : current_q[l] < q[l]
    BY <2>1, <1>1
  <2> QED BY <2>2, <2>3, <2>4, <1>1, <1>3, <1>5 DEF TypeOK
<1>7. ASSUME NEW p \in Pids PROVE Places(p) = 1
  <2>1. ArrivalQ \in Injection(1 .. n, Pids)
    <3>1. ArrivalQ \in Surjection(1 .. n, Pids)
      BY <1>1, <1>3 DEF Surjection, Elements
    <3>2. IsFiniteSet(1 .. n) /\ Cardinality(1 .. n) = Cardinality(Pids)
      BY <1>2, FS_Interval
    <3> QED BY <3>1, <3>2, PidsAssumption, FS_SurjSameCardinalityImpliesInj
  <2>2. PICK i \in 1 .. n : ArrivalQ[i] = p
    BY <1>1, <1>3 DEF Elements
  <2>3. At(ArrivalQ, p) = {i}
    BY <2>1, <2>2, <1>3 DEF At, Injection, IsInjective
  <2>4. In(ArrivalQ, p) = 1
    BY <2>3, <1>3, InCounts, FS_Singleton
  <2>5. In(<<>>, p) = 0
    BY InEmpty
  <2>6. ready[1] = <<>> /\ ready[2] = <<>> /\ ready[3] = <<>>
    BY <1>1 DEF Levels
  <2> QED BY <2>4, <2>5, <2>6, <1>1 DEF Places
<1>8. QueuesRight
  <2>1. \A l \in Levels : Elements(ready[l]) = {}
    BY <1>1, InEmpty
  <2>2. \A p \in Elements(ArrivalQ) : process[p].level = 1
    BY <1>1, <1>4
  <2> QED BY <2>1, <2>2, <1>7 DEF QueuesRight, InOneQueue
<1>9. QuantumHeld /\ WalkRight
  BY <1>1 DEF QuantumHeld, WalkRight
<1>10. ZeroFirst
  <2> SUFFICES ASSUME NEW p \in Pids, input[p].arrival_time = 0
               PROVE  input[ArrivalQ[1]].arrival_time = 0
    BY <1>1 DEF ZeroFirst
  <2>1. PICK i \in 1 .. n : ArrivalQ[i] = p
    BY <1>1, <1>3 DEF Elements
  <2>2. 1 \in 1 .. n /\ ArrivalQ[1] \in Pids
    BY <2>1, <1>2, <1>3
  <2>3. i = 1 \/ 1 < i
    BY <2>1, <1>2
  <2>4. input[ArrivalQ[1]].arrival_time <= 0
    BY <2>1, <2>2, <2>3, <1>1, <1>3
  <2>5. input[ArrivalQ[1]].arrival_time \in 0 .. Horizon - 1 /\ Horizon \in Nat
    BY <2>2, <1>1, InputsAssumption
  <2> QED BY <2>4, <2>5
<1> QED BY <1>6, <1>8, <1>9, <1>10 DEF SchedInv

LEMMA NextInv ==
    ASSUME SchedInv, [Next]_vars
    PROVE  SchedInv'
BY ArrivalsKeep, ExecuteKeeps, AdvanceKeeps, CompleteKeeps, EndTickKeeps, StutterKeeps DEF Next

-----------------------------------------------------------------------------
(* The theorems *)

\* The inductive invariant: where every process is, whose the quanta are, and how far
\* the walk over IOQ has come.
THEOREM SchedInvariant == Spec => []SchedInv
BY InitInv, NextInv, PTL DEF Spec

\* InOneQueue: whatever the input, no process is lost or in two queues.
THEOREM InOneQueueInvariant == Spec => []InOneQueue
<1>1. SchedInv => InOneQueue
  BY DEF SchedInv, QueuesRight, InOneQueue
<1> QED BY <1>1, SchedInvariant, PTL

\* LevelKept: a process waits in the queue of its level, and its counts are below the
\* limits of that level.
THEOREM LevelKeptInvariant == Spec => []LevelKept
<1>1. SchedInv => LevelKept
  BY DEF SchedInv, QueuesRight, LevelKept
<1> QED BY <1>1, SchedInvariant, PTL

\* NobodySkipped: a walk that reaches the end of IOQ has advanced every process in it.
THEOREM NobodySkippedInvariant == Spec => []NobodySkipped
<1>1. SchedInv => NobodySkipped
  <2> SUFFICES ASSUME SchedInv, pc = "io", current > Len(IOQ), NEW i \in 1 .. Len(IOQ)
               PROVE  IOQ[i] \in served
    BY DEF NobodySkipped, Elements
  <2>1. Len(IOQ) \in Nat /\ current \in 1 .. Len(IOQ) + 1
    BY DEF SchedInv, TypeOK
  <2>2. i \in 1 .. current - 1
    BY <2>1
  <2> QED BY <2>2 DEF SchedInv, WalkRight
<1> QED BY <1>1, SchedInvariant, PTL

\* ZeroBlocks: one process that arrives at 0 keeps all of them in ArrivalQ.
THEOREM ZeroBlocksInvariant == Spec => []ZeroBlocks
<1>1. SchedInv => ZeroBlocks
  BY DEF SchedInv, ZeroFirst, ZeroBlocks
<1> QED BY <1>1, SchedInvariant, PTL

\* At the end of a tick either queue l of r is not touched again or its quantum is 0.
LEMMA FinishHead ==
    ASSUME NEW p, NEW to \in Levels, NEW r \in [Levels -> Seq(Pids)],
           NEW used \in [Levels -> Nat], NEW rec, FinishTick(p, to, r, used, rec),
           NEW l \in Levels, current_q'[l] # 0
    PROVE  /\ ready'[l] = r[l] /\ current_q'[l] = used[l]
           /\ l = to => ~ BurstOver(p)
BY DEF FinishTick

LEMMA HeadKept ==
    ASSUME SchedInv, Next, NEW l \in Levels, current_q[l] # 0, current_q'[l] # 0
    PROVE  Head(ready'[l]) = Head(ready[l])
<1>1. /\ TypeOK /\ ready \in [Levels -> Seq(Pids)] /\ ready[l] # <<>> /\ ready[l] \in Seq(Pids)
      /\ current_q \in [Levels -> Nat]
  BY DEF SchedInv, QuantumHeld, TypeOK
<1>2. ASSUME NEW s \in Seq(Pids) PROVE Head(ready[l] \o s) = Head(ready[l])
  <2>1. Len(ready[l]) # 0 /\ Len(ready[l]) \in Nat /\ Len(s) \in Nat
    BY <1>1
  <2>2. /\ (ready[l] \o s)[1] = ready[l][1] /\ Len(ready[l] \o s) # 0
        /\ ready[l] \o s \in Seq(Pids)
    BY <2>1, <1>1, ConcatProperties
  <2>3. ready[l] \o s # <<>>
    BY <2>2
  <2> QED BY <2>2, <2>3, <1>1, HeadTailProperties
<1>3. ASSUME NEW x \in Pids PROVE Head(Append(ready[l], x)) = Head(ready[l])
  <2> DEFINE t == <<x>>
  <2>1. Append(ready[l], x) = ready[l] \o t /\ t \in Seq(Pids)
    BY <1>1, AppendIsConcat
  <2> HIDE DEF t
  <2> QED BY <2>1, <1>2
<1>4. ASSUME queue_new_arrivals PROVE Head(ready'[l]) = Head(ready[l])
  <2> DEFINE n == Due(Clock')
             front == SubSeq(ArrivalQ, 1, n)
  <2>1. ready' = [ready EXCEPT ![1] = ready[1] \o front]
    BY <1>4 DEF queue_new_arrivals
  <2>2. n \in 0 .. Len(ArrivalQ)
    BY <1>1, DueExists
  <2> HIDE DEF n
  <2>3. front \in Seq(Pids)
    BY <1>1, <2>2, InSplit DEF TypeOK
  <2> HIDE DEF front
  <2> QED BY <2>1, <2>3, <1>1, <1>2
<1>5. ASSUME Idle \/ Advance \/ EndTick PROVE Head(ready'[l]) = Head(ready[l])
  BY <1>5 DEF Idle, Advance, EndTick
<1>6. ASSUME Complete PROVE Head(ready'[l]) = Head(ready[l])
  <2>1. /\ IOQ[current] \in Pids
        /\ ready' = [ready EXCEPT ![process[IOQ[current]].level] = Append(@, IOQ[current])]
    BY <1>6, WalkAtHand DEF Complete
  <2> QED BY <2>1, <1>1, <1>3
<1>7. ASSUME NEW k \in Levels, Promote(k) PROVE Head(ready'[l]) = Head(ready[l])
  <2> DEFINE p == Head(ready[k])
             moved == Moved(k, k - 1)
             left == [current_q EXCEPT ![k] = 0]
             ran == [Ran(p) EXCEPT !.level = k - 1, !.current_b = 0, !.current_g = 0]
  <2>1. /\ ready[k] # <<>> /\ k - 1 \in Levels /\ BurstOver(p)
        /\ FinishTick(p, k - 1, moved, left, ran)
    BY <1>7 DEF Promote, Serving, Good, Levels
  <2>2. moved \in [Levels -> Seq(Pids)] /\ left \in [Levels -> Nat]
        /\ \A h \in Levels : h # k /\ h # k - 1 => moved[h] = ready[h]
    BY <1>1, <2>1, MovedRight
  <2> HIDE DEF moved, left, p, ran
  <2>3. /\ ready'[l] = moved[l] /\ left[l] # 0 /\ l # k - 1
    <3> DEFINE to == k - 1
    <3>1. to \in Levels /\ BurstOver(p) /\ FinishTick(p, to, moved, left, ran)
      BY <2>1
    <3> HIDE DEF to
    <3>2. /\ ready'[l] = moved[l] /\ current_q'[l] = left[l]
          /\ l = to => ~ BurstOver(p)
      BY <3>1, <2>2, FinishHead
    <3> QED BY <3>1, <3>2 DEF to
  <2>4. l # k
    BY <2>3, <1>1 DEF left
  <2> QED BY <2>2, <2>3, <2>4
<1>8. ASSUME NEW k \in Levels, Demote(k) PROVE Head(ready'[l]) = Head(ready[l])
  <2> DEFINE p == Head(ready[k])
             moved == Moved(k, k + 1)
             left == [current_q EXCEPT ![k] = 0]
             ran == [Ran(p) EXCEPT !.level = k + 1, !.current_b = 0, !.current_g = 0]
  <2>1. /\ ready[k] # <<>> /\ k + 1 \in Levels
        /\ FinishTick(p, k + 1, moved, left, ran) /\ k # k + 1
    BY <1>8 DEF Demote, Serving, Levels
  <2>2. /\ moved \in [Levels -> Seq(Pids)] /\ left \in [Levels -> Nat] /\ p \in Pids
        /\ \A h \in Levels : h # k /\ h # k + 1 => moved[h] = ready[h]
        /\ moved[k + 1] = Append(ready[k + 1], p)
    <3> DEFINE to == k + 1
    <3> HIDE DEF to
    <3>1. k # to => Moved(k, to)[to] = Append(ready[to], p)
      BY <1>1, <2>1, MovedRight DEF to
    <3> QED BY <1>1, <2>1, <3>1, MovedRight DEF to
  <2> HIDE DEF moved, left, p, ran
  <2>3. /\ ready'[l] = moved[l] /\ left[l] # 0
    <3> DEFINE to == k + 1
    <3>1. /\ to \in Levels /\ FinishTick(p, to, moved, left, ran)
          /\ moved \in [Levels -> Seq(Pids)] /\ left \in [Levels -> Nat]
      BY <2>1, <2>2
    <3> HIDE DEF to
    <3>2. ready'[l] = moved[l] /\ current_q'[l] = left[l]
      BY ONLY <3>1, l \in Levels, current_q'[l] # 0 DEF FinishTick
    <3> QED BY <3>2
  <2>4. l # k
    BY <2>3, <1>1 DEF left
  <2> QED BY <2>2, <2>3, <2>4, <1>3
<1>9. ASSUME NEW k \in Levels, Requeue(k) PROVE Head(ready'[l]) = Head(ready[l])
  <2> DEFINE p == Head(ready[k])
             moved == Moved(k, k)
             left == [current_q EXCEPT ![k] = 0]
             ran == [Ran(p) EXCEPT !.current_b = IF k < 3 THEN @ + 1 ELSE @]
  <2>1. ready[k] # <<>> /\ FinishTick(p, k, moved, left, ran)
    BY <1>9 DEF Requeue, Serving
  <2>2. /\ moved \in [Levels -> Seq(Pids)] /\ left \in [Levels -> Nat]
        /\ \A h \in Levels : h # k => moved[h] = ready[h]
    BY <1>1, <2>1, MovedRight
  <2> HIDE DEF moved, left, p, ran
  <2>3. /\ ready'[l] = moved[l] /\ left[l] # 0
    BY <2>1, <2>2, FinishHead
  <2>4. l # k
    BY <2>3, <1>1 DEF left
  <2> QED BY <2>2, <2>3, <2>4
<1>10. ASSUME NEW k \in Levels, Stay(k) PROVE Head(ready'[l]) = Head(ready[l])
  <2> DEFINE p == Head(ready[k])
             left == [current_q EXCEPT ![k] = @ + 1]
             ran == [Ran(p) EXCEPT !.current_g = IF Good(k, p) THEN @ + 1 ELSE @]
  <2>1. FinishTick(p, k, ready, left, ran)
    BY <1>10 DEF Stay
  <2>2. left \in [Levels -> Nat]
    BY <1>1
  <2> HIDE DEF left, p, ran
  <2>3. ready'[l] = ready[l]
    BY ONLY <2>1, <2>2, <1>1, k \in Levels, l \in Levels, current_q'[l] # 0, FinishHead
  <2> QED BY <2>3
<1> QED BY <1>4, <1>5, <1>6, <1>7, <1>8, <1>9, <1>10 DEF Next

\* QuantumOfFirst: a quantum in use stays with the first process of its level.
THEOREM QuantumOfFirstAlways == Spec => QuantumOfFirst
<1>1. SchedInv /\ SchedInv' /\ [Next]_vars =>
        [~ MixedUp' => \A l \in Levels : current_q'[l] # 0 =>
            /\ current_q'[l] < q[l] /\ ready'[l] # <<>>
            /\ current_q[l] # 0 => Head(ready'[l]) = Head(ready[l])]_vars
  <2> SUFFICES ASSUME SchedInv, SchedInv', Next, NEW l \in Levels, current_q'[l] # 0
               PROVE  /\ current_q'[l] < q[l] /\ ready'[l] # <<>>
                      /\ current_q[l] # 0 => Head(ready'[l]) = Head(ready[l])
    OBVIOUS
  <2>1. current_q'[l] < q[l] /\ ready'[l] # <<>>
    BY DEF SchedInv, TypeOK, QuantumHeld
  <2> QED BY <2>1, HeadKept
<1> QED BY <1>1, SchedInvariant, PTL DEF Spec, QuantumOfFirst

-----------------------------------------------------------------------------
(* CPU time: what a process has had and what is left of its description, line *)
(* by line, make up its demand.                                               *)

\* The demand of the first lines of a description, for any number of them.
Sums(bs) ==
    LET Bursts(i) == bs[i].repeat + (IF i = Len(bs) THEN 1 ELSE 0)
        sum[i \in 0 .. Len(bs)] ==
            IF i = 0 THEN 0 ELSE sum[i - 1] + (bs[i].cpuburst * Bursts(i))
    IN  sum

\* Of description d the lines bs are left, the first of them begun; the process has
\* run for t ticks.
Progress(d, bs, t) ==
    LET k == Len(d) - Len(bs) IN
    /\ k \in Nat
    /\ \A i \in 1 .. Len(bs) : bs[i].cpuburst = d[k + i].cpuburst
    /\ \A i \in 2 .. Len(bs) : bs[i].repeat = d[k + i].repeat /\ bs[i].current_cpuburst = 0
    /\ bs[1].repeat \in 0 .. d[k + 1].repeat /\ (bs[1].repeat = 0 => Len(bs) = 1)
    /\ t = Sums(d)[k] + d[k + 1].cpuburst * (d[k + 1].repeat - bs[1].repeat)
           + bs[1].current_cpuburst

\* A process has had its burst when it waits for I/O, and not before; one that was
\* removed has had its last.
BurstsRight ==
    /\ \A p \in Elements(RemovalQ) :
          LET line == process[p].behaviors[1] IN
          line.repeat = 0 /\ line.current_cpuburst = line.cpuburst
    /\ ~ MixedUp => \A p \in Pids :
          LET line == process[p].behaviors[1] IN
          IF p \in Elements(IOQ)
          THEN line.repeat # 0 /\ line.current_cpuburst = line.cpuburst
          ELSE p \notin Elements(RemovalQ) => line.current_cpuburst < line.cpuburst

ProgressRight ==
    \A p \in Pids : Progress(input[p].behaviors, process[p].behaviors,
                             process[p].total_clock_time)

DemandInv == ProgressRight /\ BurstsRight

\* The numbers of a line.
LEMMA LineTyped ==
    ASSUME NEW x \in Behavior
    PROVE  x.cpuburst \in Nat \ {0} /\ x.repeat \in Nat \ {0} /\ x.cpuburst \in Int /\ x.repeat \in Int
BY DEF Behavior

LEMMA BurstTyped ==
    ASSUME NEW x \in Burst
    PROVE  x.cpuburst \in Nat /\ x.current_cpuburst \in Nat /\ x.repeat \in Int
BY DEF Burst

\* Induction up to n: the least number missing from K cannot exist.
LEMMA UpTo ==
    ASSUME NEW n \in Nat, NEW K, 0 \in K, \A i \in 0 .. n : i > 0 /\ i - 1 \in K => i \in K
    PROVE  \A i \in 0 .. n : i \in K
<1> DEFINE missing == (0 .. n) \ K
<1>1. SUFFICES ASSUME missing # {} PROVE FALSE
  OBVIOUS
<1>2. missing \in SUBSET Nat
  OBVIOUS
<1>3. PICK m \in missing : \A k \in missing : ~ (<<k, m>> \in OpToRel(<, Nat))
  BY <1>1, <1>2, NatLessThanWellFounded, WFMin
<1>4. \A k \in missing : ~ (k < m)
  BY <1>2, <1>3 DEF OpToRel
<1>5. m \in 0 .. n /\ m \notin K /\ m > 0 /\ m - 1 \in 0 .. n
  OBVIOUS
<1>6. m - 1 \notin missing
  BY <1>4, <1>5
<1> QED BY <1>5, <1>6

\* A line of a description is run as often as Demand says.
BurstsOf(bs, i) == bs[i].repeat + (IF i = Len(bs) THEN 1 ELSE 0)

LEMMA SumsExist ==
    ASSUME NEW bs \in Seq(Behavior)
    PROVE  \E s \in [0 .. Len(bs) -> Int] :
              /\ s[0] = 0
              /\ \A i \in 1 .. Len(bs) : s[i] = s[i - 1] + bs[i].cpuburst * BurstsOf(bs, i)
<1> DEFINE L == Len(bs)
           K == {k \in 0 .. L : \E s \in [0 .. k -> Int] :
                    /\ s[0] = 0
                    /\ \A i \in 1 .. k : s[i] = s[i - 1] + bs[i].cpuburst * BurstsOf(bs, i)}
<1>1. L \in Nat /\ \A i \in 1 .. L : bs[i] \in Behavior
  OBVIOUS
<1>2. 0 \in K
  <2>1. [i \in 0 .. 0 |-> 0] \in [0 .. 0 -> Int] /\ [i \in 0 .. 0 |-> 0][0] = 0
    OBVIOUS
  <2>2. 0 \in 0 .. L /\ 1 .. 0 = {}
    BY <1>1
  <2> QED BY <2>1, <2>2
<1>3. ASSUME NEW k \in 0 .. L, k > 0, k - 1 \in K
      PROVE  k \in K
  <2>1. PICK s \in [0 .. k - 1 -> Int] :
            /\ s[0] = 0
            /\ \A i \in 1 .. k - 1 : s[i] = s[i - 1] + bs[i].cpuburst * BurstsOf(bs, i)
    BY <1>3
  <2> DEFINE last == s[k - 1] + bs[k].cpuburst * BurstsOf(bs, k)
             h == [i \in 0 .. k |-> IF i < k THEN s[i] ELSE last]
  <2>2. k - 1 \in 0 .. k - 1 /\ 0 \in 0 .. k - 1 /\ k \in 1 .. L
    BY <1>3, <1>1
  <2>3. bs[k].cpuburst \in Int /\ BurstsOf(bs, k) \in Int
    BY <1>1, <2>2, LineTyped DEF BurstsOf
  <2>4. last \in Int
    BY <2>2, <2>3
  <2> HIDE DEF last
  <2>5. h \in [0 .. k -> Int]
    BY <2>4
  <2>6. h[0] = 0
    BY <2>1, <2>2
  <2>7. \A i \in 1 .. k : h[i] = h[i - 1] + bs[i].cpuburst * BurstsOf(bs, i)
    <3> TAKE i \in 1 .. k
    <3>1. h[i - 1] = s[i - 1]
      OBVIOUS
    <3>2. CASE i < k
      BY <3>1, <3>2, <2>1
    <3>3. CASE i = k
      BY <3>1, <3>3 DEF last
    <3> QED BY <3>2, <3>3
  <2> HIDE DEF h
  <2> QED BY <2>5, <2>6, <2>7, <1>3
<1> HIDE DEF K
<1>4. L \in K
  <2>1. \A i \in 0 .. L : i \in K
    BY <1>1, <1>2, <1>3, UpTo
  <2> QED BY <2>1, <1>1
<1> QED BY <1>4 DEF K

LEMMA SumSteps ==
    ASSUME NEW bs \in Seq(Behavior)
    PROVE  /\ Sums(bs)[0] = 0 /\ Demand(bs) = Sums(bs)[Len(bs)]
           /\ \A i \in 0 .. Len(bs) : Sums(bs)[i] \in Int
           /\ \A i \in 1 .. Len(bs) :
                 Sums(bs)[i] = Sums(bs)[i - 1] + bs[i].cpuburst * BurstsOf(bs, i)
<1> DEFINE S == Sums(bs)
           Body(s) == [i \in 0 .. Len(bs) |->
                          IF i = 0 THEN 0
                          ELSE s[i - 1] + (bs[i].cpuburst * (bs[i].repeat + (IF i = Len(bs) THEN 1 ELSE 0)))]
<1>1. PICK s \in [0 .. Len(bs) -> Int] :
          /\ s[0] = 0
          /\ \A i \in 1 .. Len(bs) : s[i] = s[i - 1] + bs[i].cpuburst * BurstsOf(bs, i)
  BY SumsExist
<1>2. s = Body(s)
  <2>1. ASSUME NEW i \in 0 .. Len(bs) PROVE s[i] = Body(s)[i]
    BY <1>1 DEF BurstsOf
  <2> QED BY <2>1
<1>3. S = Body(S)
  BY <1>2, Zenon DEF Sums
<1>4. Demand(bs) = S[Len(bs)]
  BY Zenon DEF Demand, Sums
<1>5. Len(bs) \in Nat /\ \A i \in 1 .. Len(bs) : bs[i] \in Behavior
  OBVIOUS
<1> HIDE DEF S
<1>6. S[0] = 0
  BY <1>3, <1>5
<1>7. ASSUME NEW i \in 1 .. Len(bs)
      PROVE  S[i] = S[i - 1] + bs[i].cpuburst * BurstsOf(bs, i)
  <2>1. i \in 0 .. Len(bs) /\ i # 0
    OBVIOUS
  <2>2. S[i] = Body(S)[i]
    BY <1>3, Zenon
  <2> QED BY <2>1, <2>2 DEF BurstsOf
<1>8. \A i \in 0 .. Len(bs) : S[i] \in Int
  <2> DEFINE K == {i \in 0 .. Len(bs) : S[i] \in Int}
  <2>1. 0 \in K
    BY <1>5, <1>6
  <2>2. ASSUME NEW i \in 0 .. Len(bs), i > 0, i - 1 \in K PROVE i \in K
    <3>1. i \in 1 .. Len(bs)
      BY <2>2
    <3>2. bs[i].cpuburst \in Int /\ BurstsOf(bs, i) \in Int
      BY <1>5, <3>1, LineTyped DEF BurstsOf
    <3> QED BY <1>7, <2>2, <3>1, <3>2
  <2> HIDE DEF K
  <2>3. \A i \in 0 .. Len(bs) : i \in K
    BY <1>5, <2>1, <2>2, UpTo
  <2> QED BY <2>3 DEF K
<1> QED BY <1>4, <1>6, <1>7, <1>8 DEF S

\* One more tick of the first line.
LEMMA ProgressTick ==
    ASSUME NEW d \in Seq(Behavior), NEW bs \in Seq(Burst), bs # <<>>, NEW t \in Nat,
           Progress(d, bs, t),
           NEW cs, cs = [bs EXCEPT ![1].current_cpuburst = bs[1].current_cpuburst + 1]
    PROVE  Progress(d, cs, t + 1)
<1> DEFINE k == Len(d) - Len(bs)
           had == d[k + 1].cpuburst * (d[k + 1].repeat - bs[1].repeat)
<1>1. /\ Len(bs) \in Nat /\ 1 \in 1 .. Len(bs) /\ bs[1] \in Burst /\ Len(d) \in Nat
      /\ \A i \in 1 .. Len(bs) : bs[i] \in Burst
  BY EmptySeq
<1>2. /\ Len(cs) = Len(bs) /\ \A i \in 2 .. Len(bs) : cs[i] = bs[i]
      /\ cs[1].cpuburst = bs[1].cpuburst /\ cs[1].repeat = bs[1].repeat
      /\ cs[1].current_cpuburst = bs[1].current_cpuburst + 1
  BY <1>1 DEF Burst
<1>3. \A i \in 1 .. Len(bs) : cs[i].cpuburst = bs[i].cpuburst
  BY <1>1, <1>2
<1>4. k \in Nat /\ k \in 0 .. Len(d) /\ k + 1 \in 1 .. Len(d)
  BY <1>1 DEF Progress
<1>5. Sums(d)[k] \in Int /\ had \in Int /\ bs[1].current_cpuburst \in Int
  <2> DEFINE m == k + 1
  <2>1. m \in 1 .. Len(d)
    BY <1>4
  <2>2. d[m] \in Behavior
    <3> HIDE DEF m
    <3> QED BY <2>1
  <2>3. d[k + 1].cpuburst \in Int /\ d[k + 1].repeat \in Int
    BY <2>2, LineTyped
  <2>4. bs[1].repeat \in Int /\ bs[1].current_cpuburst \in Int
    BY <1>1, BurstTyped
  <2> HIDE DEF k
  <2>5. Sums(d)[k] \in Int
    BY <1>4, SumSteps
  <2>6. d[k + 1].repeat - bs[1].repeat \in Int
    BY <2>3, <2>4
  <2> QED BY <2>3, <2>4, <2>5, <2>6
<1>6. t = Sums(d)[k] + had + bs[1].current_cpuburst
  BY DEF Progress
<1>7. t + 1 = Sums(d)[k] + had + cs[1].current_cpuburst
  <2> HIDE DEF had, k
  <2> QED BY <1>2, <1>5, <1>6
<1> QED BY <1>2, <1>3, <1>7 DEF Progress

\* The same lines with other I/O.
LEMMA ProgressSame ==
    ASSUME NEW d, NEW bs \in Seq(Burst), bs # <<>>, NEW t, Progress(d, bs, t), NEW n,
           NEW cs, cs = [bs EXCEPT ![1].current_ioburst = n]
    PROVE  /\ Progress(d, cs, t)
           /\ cs[1].cpuburst = bs[1].cpuburst /\ cs[1].repeat = bs[1].repeat
           /\ cs[1].current_cpuburst = bs[1].current_cpuburst
<1>1. Len(bs) \in Nat /\ 1 \in 1 .. Len(bs) /\ bs[1] \in Burst
  BY EmptySeq
<1>2. /\ Len(cs) = Len(bs) /\ \A i \in 2 .. Len(bs) : cs[i] = bs[i]
      /\ cs[1].cpuburst = bs[1].cpuburst /\ cs[1].repeat = bs[1].repeat
      /\ cs[1].current_cpuburst = bs[1].current_cpuburst
  BY <1>1 DEF Burst
<1>3. \A i \in 1 .. Len(bs) : cs[i].cpuburst = bs[i].cpuburst
  BY <1>1, <1>2
<1> QED BY <1>2, <1>3 DEF Progress

\* The first line has one burst less to go, or is done.
LEMMA ProgressNext ==
    ASSUME NEW d \in Seq(Behavior), NEW bs \in Seq(Burst), bs # <<>>, NEW t \in Nat,
           Progress(d, bs, t), bs[1].repeat # 0, bs[1].current_cpuburst = bs[1].cpuburst
    PROVE  /\ Progress(d, NextBehaviors(bs), t)
           /\ NextBehaviors(bs)[1].current_cpuburst < NextBehaviors(bs)[1].cpuburst
<1> DEFINE k == Len(d) - Len(bs)
           cpu == d[k + 1].cpuburst
           rep == d[k + 1].repeat
           r == bs[1].repeat
           first == [bs[1] EXCEPT !.current_cpuburst = 0, !.current_ioburst = 0, !.repeat = @ - 1]
           cs == NextBehaviors(bs)
<1>1. /\ Len(bs) \in Nat /\ 1 \in 1 .. Len(bs) /\ bs[1] \in Burst /\ Len(d) \in Nat
      /\ \A i \in 1 .. Len(bs) : bs[i] \in Burst
  BY EmptySeq
<1>2. /\ k \in Nat /\ k \in 0 .. Len(d) /\ k + 1 \in 1 .. Len(d)
      /\ \A i \in 1 .. Len(bs) : k + i \in 1 .. Len(d) /\ d[k + i] \in Behavior
  BY <1>1 DEF Progress
<1>3. /\ cpu \in Nat \ {0} /\ rep \in Nat \ {0} /\ r \in 1 .. rep /\ Sums(d)[k] \in Int
      /\ bs[1].cpuburst = cpu
  <2>1. d[k + 1] \in Behavior /\ r \in 0 .. rep /\ bs[1].cpuburst = cpu
    BY <1>1, <1>2 DEF Progress
  <2>2. cpu \in Nat \ {0} /\ rep \in Nat \ {0}
    BY <2>1, LineTyped
  <2>3. Sums(d)[k] \in Int
    <3> HIDE DEF k
    <3> QED BY <1>2, SumSteps
  <2> HIDE DEF cpu, rep, k
  <2> QED BY <2>1, <2>2, <2>3
<1>4. /\ first.cpuburst = cpu /\ first.current_cpuburst = 0 /\ first.repeat = r - 1
  BY <1>1, <1>3 DEF Burst
<1>5. t = Sums(d)[k] + cpu * (rep - (r - 1))
  <2>1. t = Sums(d)[k] + cpu * (rep - r) + cpu
    BY <1>3 DEF Progress
  <2>2. cpu * (rep - (r - 1)) = cpu * (rep - r) + cpu
    <3> HIDE DEF cpu, rep, r
    <3>1. \A a, c \in Int : a * (c + 1) = a * c + a
      OBVIOUS
    <3>2. rep - (r - 1) = (rep - r) + 1 /\ rep - r \in Int /\ cpu \in Int
      BY <1>3
    <3> QED BY <3>1, <3>2
  <2>3. cpu * (rep - r) \in Int
    <3> HIDE DEF cpu, rep, r
    <3> QED BY <1>3
  <2> HIDE DEF cpu, rep, r, k
  <2> QED BY <2>1, <2>2, <2>3, <1>3
<1>6. CASE r - 1 = 0 /\ Len(bs) > 1
  <2>1. cs = Tail(bs)
    BY <1>4, <1>6 DEF NextBehaviors
  <2>2. /\ Len(cs) = Len(bs) - 1 /\ \A i \in 1 .. Len(bs) - 1 : cs[i] = bs[i + 1]
    BY <2>1, <1>1, HeadTailProperties
  <2>3. k + 1 = Len(d) - Len(cs) /\ k + 1 \in Nat
    BY <2>2, <1>1, <1>2
  <2>4. /\ \A i \in 1 .. Len(cs) : cs[i].cpuburst = d[(k + 1) + i].cpuburst
        /\ \A i \in 1 .. Len(cs) : cs[i].repeat = d[(k + 1) + i].repeat
                                   /\ cs[i].current_cpuburst = 0
    <3>1. ASSUME NEW i \in 1 .. Len(cs)
          PROVE  /\ cs[i].cpuburst = d[(k + 1) + i].cpuburst
                 /\ cs[i].repeat = d[(k + 1) + i].repeat /\ cs[i].current_cpuburst = 0
      <4> DEFINE j == i + 1
      <4>1. j \in 2 .. Len(bs) /\ j \in 1 .. Len(bs) /\ cs[i] = bs[j] /\ k + j = (k + 1) + i
        <5>1. k \in Nat /\ Len(bs) \in Nat /\ i \in 1 .. Len(bs) - 1
          BY <2>2, <1>1, <1>2
        <5> HIDE DEF cs, k
        <5>2. cs[i] = bs[j]
          BY <5>1, <2>2
        <5> QED BY <5>1, <5>2
      <4>2. /\ bs[j].cpuburst = d[k + j].cpuburst /\ bs[j].repeat = d[k + j].repeat
            /\ bs[j].current_cpuburst = 0
        <5> HIDE DEF j
        <5> QED BY <4>1 DEF Progress
      <4> QED BY <4>1, <4>2
    <3> QED BY <3>1
  <2>5. 1 \in 1 .. Len(cs) /\ d[(k + 1) + 1] \in Behavior
    <3>1. 2 \in 1 .. Len(bs) /\ k + 2 = (k + 1) + 1
      BY <1>1, <1>2, <1>6
    <3> QED BY <3>1, <1>1, <1>2, <2>2
  <2>6. /\ cs[1].repeat = d[(k + 1) + 1].repeat /\ cs[1].current_cpuburst = 0
        /\ cs[1].cpuburst \in Nat \ {0} /\ cs[1].repeat \in Nat \ {0}
    BY <2>4, <2>5, LineTyped
  <2>7. t = Sums(d)[k + 1]
    <3>1. Sums(d)[k + 1] = Sums(d)[(k + 1) - 1] + cpu * BurstsOf(d, k + 1)
      BY <1>2, SumSteps
    <3>2. k + 1 # Len(d) /\ BurstsOf(d, k + 1) = rep /\ (k + 1) - 1 = k
      BY <1>1, <1>2, <1>3, <1>6 DEF BurstsOf
    <3>3. rep - (r - 1) = rep
      BY <1>3, <1>6
    <3> QED BY <3>1, <3>2, <3>3, <1>5
  <2>8. d[(k + 1) + 1].cpuburst * (d[(k + 1) + 1].repeat - cs[1].repeat) = 0
    <3>1. d[(k + 1) + 1].cpuburst \in Int /\ d[(k + 1) + 1].repeat - cs[1].repeat = 0
      BY <2>5, <2>6, LineTyped
    <3> QED BY <3>1
  <2>9. Sums(d)[k + 1] \in Int
    BY <1>2, SumSteps
  <2>10. t = Sums(d)[k + 1] + d[(k + 1) + 1].cpuburst * (d[(k + 1) + 1].repeat - cs[1].repeat)
             + cs[1].current_cpuburst
    BY <2>6, <2>7, <2>8, <2>9
  <2>11. cs[1].current_cpuburst < cs[1].cpuburst
    BY <2>6
  <2>12. cs[1].repeat \in 0 .. d[(k + 1) + 1].repeat /\ cs[1].repeat # 0
    BY <2>6
  <2>13. \A i \in 2 .. Len(cs) : i \in 1 .. Len(cs)
    BY <2>2, <1>1
  <2> HIDE DEF cs, k
  <2>14. Progress(d, cs, t)
    BY <2>3, <2>4, <2>10, <2>12, <2>13 DEF Progress
  <2> QED BY <2>11, <2>14 DEF cs
<1>7. CASE ~ (r - 1 = 0 /\ Len(bs) > 1)
  <2>1. cs = <<first>> \o Tail(bs)
    BY <1>4, <1>7 DEF NextBehaviors
  <2>2. /\ Len(cs) = Len(bs) /\ cs[1] = first /\ \A i \in 2 .. Len(bs) : cs[i] = bs[i]
    <3> HIDE DEF first
    <3>1. /\ Tail(bs) \in Seq(Burst) /\ Len(Tail(bs)) = Len(bs) - 1
          /\ \A i \in 1 .. Len(bs) - 1 : Tail(bs)[i] = bs[i + 1]
      BY <1>1, HeadTailProperties
    <3>2. /\ Len(cs) = 1 + Len(Tail(bs)) /\ cs[1] = first
          /\ \A i \in 2 .. 1 + Len(Tail(bs)) : cs[i] = Tail(bs)[i - 1]
      BY <2>1, <3>1
    <3>3. \A i \in 2 .. Len(bs) : i - 1 \in 1 .. Len(bs) - 1 /\ (i - 1) + 1 = i
      BY <1>1
    <3> QED BY <3>1, <3>2, <3>3, <1>1
  <2>3. \A i \in 1 .. Len(cs) : cs[i].cpuburst = d[k + i].cpuburst
    <3> TAKE i \in 1 .. Len(cs)
    <3>1. CASE i = 1
      BY <3>1, <2>2, <1>4
    <3>2. CASE i # 1
      <4>1. i \in 2 .. Len(bs) /\ i \in 1 .. Len(bs)
        BY <3>2, <2>2, <1>1
      <4> QED BY <4>1, <2>2 DEF Progress
    <3> QED BY <3>1, <3>2
  <2>4. \A i \in 2 .. Len(cs) : cs[i].repeat = d[k + i].repeat /\ cs[i].current_cpuburst = 0
    BY <2>2 DEF Progress
  <2>5. cs[1].repeat = r - 1 /\ cs[1].current_cpuburst = 0 /\ cs[1].cpuburst = cpu
    BY <2>2, <1>4
  <2>6. cs[1].repeat \in 0 .. rep /\ (cs[1].repeat = 0 => Len(cs) = 1)
    BY <2>2, <2>5, <1>1, <1>3, <1>7
  <2>7. t = Sums(d)[k] + cpu * (rep - cs[1].repeat) + cs[1].current_cpuburst
    <3>1. cpu * (rep - (r - 1)) \in Int
      <4> HIDE DEF cpu, rep, r
      <4> QED BY <1>3
    <3> HIDE DEF cpu, rep, r, cs, k
    <3> QED BY <2>5, <1>3, <1>5, <3>1
  <2>8. cs[1].current_cpuburst < cs[1].cpuburst
    BY <2>5, <1>3
  <2> HIDE DEF cs
  <2>9. Progress(d, cs, t)
    BY <2>2, <2>3, <2>4, <2>6, <2>7, <1>2 DEF Progress
  <2> QED BY <2>8, <2>9 DEF cs
<1> QED BY <1>6, <1>7

\* All the bursts, and the one behind the last I/O.
LEMMA ProgressDone ==
    ASSUME NEW d \in Seq(Behavior), NEW bs \in Seq(Burst), bs # <<>>, NEW t \in Nat,
           Progress(d, bs, t), bs[1].repeat = 0, bs[1].current_cpuburst = bs[1].cpuburst
    PROVE  t = Demand(d)
<1> DEFINE k == Len(d) - Len(bs)
           cpu == d[k + 1].cpuburst
           rep == d[k + 1].repeat
<1>1. Len(d) \in Nat /\ Len(bs) = 1 /\ k \in Nat /\ k + 1 = Len(d) /\ k + 1 \in 1 .. Len(d)
  <2>1. Len(d) \in Nat /\ Len(bs) = 1 /\ k \in Nat
    BY DEF Progress
  <2> QED BY <2>1
<1>2. cpu \in Int /\ rep \in Int /\ Sums(d)[k] \in Int
  <2>1. d[k + 1] \in Behavior
    <3> HIDE DEF k
    <3> QED BY <1>1
  <2>2. Sums(d)[k] \in Int
    <3>1. k \in 0 .. Len(d)
      BY <1>1
    <3> HIDE DEF k
    <3> QED BY <3>1, SumSteps
  <2> HIDE DEF k
  <2>3. d[k + 1].cpuburst \in Int /\ d[k + 1].repeat \in Int
    BY <2>1, LineTyped
  <2> QED BY <2>2, <2>3
<1>3. t = Sums(d)[k] + cpu * (rep - 0) + cpu
  BY <1>1 DEF Progress
<1>4. Demand(d) = Sums(d)[(k + 1) - 1] + cpu * (rep + 1)
  BY <1>1, SumSteps DEF BurstsOf
<1>5. cpu * (rep - 0) + cpu = cpu * (rep + 1) /\ cpu * (rep - 0) \in Int
  <2> HIDE DEF cpu, rep
  <2>1. \A a, c \in Int : a * (c + 1) = a * (c - 0) + a
    OBVIOUS
  <2> QED BY <2>1, <1>2
<1>6. (k + 1) - 1 = k
  BY <1>1
<1> HIDE DEF cpu, rep, k
<1> QED BY <1>2, <1>3, <1>4, <1>5, <1>6

\* What is left of the description of a process, and what has been read of it.
LEMMA LinesOf ==
    ASSUME SchedInv, NEW p \in Pids
    PROVE  /\ input[p].behaviors \in Seq(Behavior)
           /\ process[p].behaviors \in Seq(Burst) /\ process[p].behaviors # <<>>
           /\ process[p].behaviors[1] \in Burst /\ process[p].total_clock_time \in Nat
<1>1. input \in Inputs /\ process[p] \in Process
  BY DEF SchedInv, TypeOK
<1>2. process[p].behaviors \in Seq(Burst) /\ process[p].behaviors # <<>>
      /\ process[p].total_clock_time \in Nat
  BY <1>1 DEF Process
<1>3. process[p].behaviors[1] \in Burst
  BY <1>2
<1> QED BY <1>1, <1>2, <1>3, InputsAssumption

\* A process in one of these queues is in none of the others.
LEMMA QueuesApart ==
    ASSUME SchedInv, ~ MixedUp, NEW p \in Pids
    PROVE  /\ \A l \in Levels : p \in Elements(ready[l]) =>
                 p \notin Elements(IOQ) /\ p \notin Elements(RemovalQ)
           /\ p \in Elements(IOQ) => p \notin Elements(RemovalQ)
<1>1. TypeOK /\ Places(p) = 1
  BY PlacesKept DEF SchedInv
<1>2. /\ In(ArrivalQ, p) \in Nat /\ In(IOQ, p) \in Nat /\ In(RemovalQ, p) \in Nat
      /\ \A l \in Levels : In(ready[l], p) \in Nat /\ In(ready[l], p) <= InReady(ready, p)
      /\ InReady(ready, p) \in Nat
      /\ Places(p) = In(ArrivalQ, p) + In(IOQ, p) + In(RemovalQ, p) + InReady(ready, p)
  BY <1>1, PlacesOf
<1>3. /\ p \in Elements(IOQ) <=> In(IOQ, p) # 0
      /\ p \in Elements(RemovalQ) <=> In(RemovalQ, p) # 0
      /\ \A l \in Levels : p \in Elements(ready[l]) <=> In(ready[l], p) # 0
  BY <1>1, InCounts DEF TypeOK
<1> QED BY <1>1, <1>2, <1>3

LEMMA RanRight ==
    ASSUME NEW p, process[p] \in Process
    PROVE  LET bs == process[p].behaviors IN
           /\ Ran(p).behaviors =
                 [bs EXCEPT ![1].current_cpuburst = bs[1].current_cpuburst + 1]
           /\ Ran(p).total_clock_time = process[p].total_clock_time + 1
           /\ Ran(p).behaviors[1].current_cpuburst = bs[1].current_cpuburst + 1
           /\ Ran(p).behaviors[1].cpuburst = bs[1].cpuburst
           /\ Ran(p).behaviors[1].repeat = bs[1].repeat
<1> DEFINE rec == process[p]
           bs == rec.behaviors
           one == [bs[1] EXCEPT !.current_cpuburst = bs[1].current_cpuburst + 1]
           bs2 == [bs EXCEPT ![1] = one]
           rec1 == [rec EXCEPT !.total_clock_time = rec.total_clock_time + 1]
           rec2 == [rec1 EXCEPT !.behaviors = bs2]
<1>1. bs \in Seq(Burst) /\ bs # <<>> /\ bs[1] \in Burst /\ 1 \in 1 .. Len(bs)
  BY DEF Process
<1>2. /\ one.current_cpuburst = bs[1].current_cpuburst + 1
      /\ one.cpuburst = bs[1].cpuburst /\ one.repeat = bs[1].repeat
  BY <1>1 DEF Burst
<1> HIDE DEF one
<1>3. bs2[1] = one
  BY <1>1
<1> HIDE DEF bs2
<1>4. rec2.behaviors = bs2 /\ rec2.total_clock_time = rec.total_clock_time + 1
  BY DEF Process
<1>5. rec2 = Ran(p)
  BY DEF Ran, rec1, bs2, one
<1>6. bs2 = [bs EXCEPT ![1].current_cpuburst = bs[1].current_cpuburst + 1]
  BY DEF bs2, one
<1> HIDE DEF rec2
<1> QED BY <1>2, <1>3, <1>4, <1>5, <1>6

\* The end of a tick of p, whatever the tick did to the ready queues.
LEMMA FinishDemand ==
    ASSUME SchedInv, DemandInv, ~ MixedUp, NEW p \in Pids,
           p \notin Elements(IOQ), p \notin Elements(RemovalQ),
           NEW l, NEW r, NEW used, NEW rec, FinishTick(p, l, r, used, rec),
           rec.behaviors = Ran(p).behaviors, rec.total_clock_time = Ran(p).total_clock_time
    PROVE  DemandInv'
<1> DEFINE bs == process[p].behaviors
           t == process[p].total_clock_time
           cs == Ran(p).behaviors
<1>1. /\ TypeOK /\ process \in [Pids -> Process] /\ IOQ \in Seq(Pids) /\ RemovalQ \in Seq(Pids)
      /\ process[p] \in Process
  BY DEF SchedInv, TypeOK
<1>2. /\ input[p].behaviors \in Seq(Behavior) /\ bs \in Seq(Burst) /\ bs # <<>>
      /\ bs[1] \in Burst /\ t \in Nat
  BY LinesOf
<1>3. /\ process' = [process EXCEPT ![p] = rec] /\ UNCHANGED input
      /\ \/ ~ BurstOver(p) /\ UNCHANGED <<IOQ, RemovalQ>>
         \/ /\ BurstOver(p) /\ rec.behaviors[1].repeat = 0
            /\ RemovalQ' = Append(RemovalQ, p) /\ UNCHANGED IOQ
         \/ /\ BurstOver(p) /\ rec.behaviors[1].repeat # 0
            /\ IOQ' = Append(IOQ, p) /\ UNCHANGED RemovalQ
  BY DEF FinishTick
<1>4. /\ cs = [bs EXCEPT ![1].current_cpuburst = bs[1].current_cpuburst + 1]
      /\ Ran(p).total_clock_time = t + 1
      /\ cs[1].current_cpuburst = bs[1].current_cpuburst + 1
      /\ cs[1].cpuburst = bs[1].cpuburst /\ cs[1].repeat = bs[1].repeat
  BY <1>1, RanRight
<1>5. BurstOver(p) <=> cs[1].current_cpuburst = cs[1].cpuburst
  BY <1>4 DEF BurstOver
<1>6. /\ process'[p].behaviors = cs /\ process'[p].total_clock_time = t + 1
      /\ \A x \in Pids \ {p} : process'[x] = process[x]
  BY <1>1, <1>3, <1>4
<1>7. Progress(input[p].behaviors, bs, t)
  BY DEF DemandInv, ProgressRight
<1>8. Progress(input[p].behaviors, cs, t + 1)
  <2> HIDE DEF bs, t, cs
  <2> QED BY <1>2, <1>4, <1>7, ProgressTick
<1>9. bs[1].current_cpuburst < bs[1].cpuburst
  BY DEF DemandInv, BurstsRight
<1>10. BurstOver(p) \/ cs[1].current_cpuburst < cs[1].cpuburst
  <2>1. bs[1].current_cpuburst \in Int /\ bs[1].cpuburst \in Int
    <3> HIDE DEF bs
    <3> QED BY <1>2, BurstTyped
  <2> QED BY <2>1, <1>4, <1>5, <1>9
<1> HIDE DEF bs, t, cs
<1>11. ProgressRight'
  <2> SUFFICES ASSUME NEW x \in Pids
               PROVE  Progress(input'[x].behaviors, process'[x].behaviors,
                               process'[x].total_clock_time)
    BY DEF ProgressRight, Progress, Sums
  <2>1. CASE x = p
    BY <2>1, <1>3, <1>6, <1>8
  <2>2. CASE x # p
    BY <2>2, <1>3, <1>6 DEF DemandInv, ProgressRight
  <2> QED BY <2>1, <2>2
<1>12. /\ \A x \in Pids \ {p} : /\ x \in Elements(IOQ') <=> x \in Elements(IOQ)
                                /\ x \in Elements(RemovalQ') <=> x \in Elements(RemovalQ)
       /\ Elements(RemovalQ') \subseteq Pids
       /\ p \in Elements(IOQ') => BurstOver(p) /\ cs[1].repeat # 0
       /\ p \in Elements(RemovalQ') => BurstOver(p) /\ cs[1].repeat = 0
       /\ BurstOver(p) => p \in Elements(IOQ') \/ p \in Elements(RemovalQ')
  <2>1. /\ Elements(Append(IOQ, p)) = Elements(IOQ) \cup {p}
        /\ Elements(Append(RemovalQ, p)) = Elements(RemovalQ) \cup {p}
    BY <1>1, AppendElements
  <2>2. Elements(RemovalQ) \subseteq Pids
    BY <1>1 DEF Elements
  <2> QED BY <2>1, <2>2, <1>3 DEF cs
<1>13. BurstsRight'
  <2> DEFINE line(x) == process'[x].behaviors[1]
             Over(x) == line(x).current_cpuburst = line(x).cpuburst
  <2>1. line(p) = cs[1]
    BY <1>6
  <2>2. \A x \in Pids \ {p} : line(x) = process[x].behaviors[1]
    BY <1>6
  <2>3. ASSUME NEW x \in Elements(RemovalQ') PROVE line(x).repeat = 0 /\ Over(x)
    <3>1. CASE x = p
      BY <3>1, <2>1, <2>3, <1>5, <1>12
    <3>2. CASE x # p
      <4>1. x \in Pids \ {p} /\ x \in Elements(RemovalQ)
        BY <3>2, <2>3, <1>12
      <4> QED BY <4>1, <2>2 DEF DemandInv, BurstsRight
    <3> QED BY <3>1, <3>2
  <2>4. ASSUME NEW x \in Pids
        PROVE  IF x \in Elements(IOQ') THEN line(x).repeat # 0 /\ Over(x)
               ELSE x \notin Elements(RemovalQ') => line(x).current_cpuburst < line(x).cpuburst
    <3>1. CASE x = p
      BY <3>1, <2>1, <1>5, <1>10, <1>12
    <3>2. CASE x # p
      BY <3>2, <2>2, <1>12 DEF DemandInv, BurstsRight
    <3> QED BY <3>1, <3>2
  <2> QED BY <2>3, <2>4 DEF BurstsRight
<1> QED BY <1>11, <1>13 DEF DemandInv

LEMMA ProgressPrimed ==
    ASSUME \A p \in Pids : Progress(input'[p].behaviors, process'[p].behaviors,
                                    process'[p].total_clock_time)
    PROVE  ProgressRight'
BY DEF ProgressRight, Progress, Sums

\* A step that runs nothing and moves nothing into or out of these two queues.
LEMMA DemandStays ==
    ASSUME DemandInv, UNCHANGED <<input, process, IOQ, RemovalQ>>, MixedUp => MixedUp'
    PROVE  DemandInv'
<1>1. ProgressRight'
  BY ProgressPrimed DEF DemandInv, ProgressRight
<1>2. BurstsRight'
  BY DEF DemandInv, BurstsRight
<1> QED BY <1>1, <1>2 DEF DemandInv

LEMMA ExecuteDemand ==
    ASSUME SchedInv, DemandInv, NEW l \in Levels, Promote(l) \/ Demote(l) \/ Requeue(l) \/ Stay(l)
    PROVE  DemandInv'
<1> DEFINE p == Head(ready[l])
<1>1. pc = "execute" /\ Serving(l) /\ ~ MixedUp
  BY DEF Promote, Demote, Requeue, Stay, MixedUp
<1>2. p \in Pids /\ p \in Elements(ready[l]) /\ process[p] \in Process
  BY <1>1, ServedFirst
<1>3. p \notin Elements(IOQ) /\ p \notin Elements(RemovalQ)
  BY <1>1, <1>2, QueuesApart
<1>4. \A m, n, k :
        /\ [Ran(p) EXCEPT !.level = m, !.current_b = n, !.current_g = k].behaviors = Ran(p).behaviors
        /\ [Ran(p) EXCEPT !.level = m, !.current_b = n, !.current_g = k].total_clock_time
              = Ran(p).total_clock_time
        /\ [Ran(p) EXCEPT !.current_b = n].behaviors = Ran(p).behaviors
        /\ [Ran(p) EXCEPT !.current_b = n].total_clock_time = Ran(p).total_clock_time
        /\ [Ran(p) EXCEPT !.current_g = n].behaviors = Ran(p).behaviors
        /\ [Ran(p) EXCEPT !.current_g = n].total_clock_time = Ran(p).total_clock_time
  <2>1. Ran(p) \in Process
    BY <1>2, RanKeeps
  <2> HIDE DEF p
  <2> QED BY <2>1 DEF Process
<1>5. ASSUME NEW to, NEW r, NEW used, NEW rec, FinishTick(p, to, r, used, rec),
             rec.behaviors = Ran(p).behaviors, rec.total_clock_time = Ran(p).total_clock_time
      PROVE  DemandInv'
  <2> HIDE DEF p
  <2> QED BY <1>1, <1>2, <1>3, <1>5, FinishDemand
<1>6. CASE Promote(l) \/ Demote(l)
  <2>1. PICK to, r, used :
            FinishTick(p, to, r, used, [Ran(p) EXCEPT !.level = to, !.current_b = 0, !.current_g = 0])
    BY <1>6 DEF Promote, Demote
  <2> DEFINE rec == [Ran(p) EXCEPT !.level = to, !.current_b = 0, !.current_g = 0]
  <2>2. rec.behaviors = Ran(p).behaviors /\ rec.total_clock_time = Ran(p).total_clock_time
    BY <1>4
  <2> HIDE DEF p, rec
  <2> QED BY <2>1, <2>2, <1>5 DEF rec
<1>7. CASE Requeue(l)
  <2> DEFINE n == IF l < 3 THEN Ran(p).current_b + 1 ELSE Ran(p).current_b
             rec == [Ran(p) EXCEPT !.current_b = n]
  <2>1. FinishTick(p, l, Moved(l, l), [current_q EXCEPT ![l] = 0], rec)
    BY <1>7 DEF Requeue
  <2>2. rec.behaviors = Ran(p).behaviors /\ rec.total_clock_time = Ran(p).total_clock_time
    BY <1>4
  <2> HIDE DEF p, rec
  <2> QED BY <2>1, <2>2, <1>5
<1>8. CASE Stay(l)
  <2> DEFINE n == IF Good(l, p) THEN Ran(p).current_g + 1 ELSE Ran(p).current_g
             rec == [Ran(p) EXCEPT !.current_g = n]
  <2>1. FinishTick(p, l, ready, [current_q EXCEPT ![l] = @ + 1], rec)
    BY <1>8 DEF Stay
  <2>2. rec.behaviors = Ran(p).behaviors /\ rec.total_clock_time = Ran(p).total_clock_time
    BY <1>4
  <2> HIDE DEF p, rec
  <2> QED BY <2>1, <2>2, <1>5
<1> QED BY <1>6, <1>7, <1>8

LEMMA AdvanceDemand ==
    ASSUME SchedInv, DemandInv, Advance
    PROVE  DemandInv'
<1> DEFINE p == IOQ[current]
           bs == process[p].behaviors
           n == bs[1].current_ioburst + 1
           cs == [bs EXCEPT ![1].current_ioburst = n]
           after == [process[p] EXCEPT !.behaviors = cs]
<1>1. /\ pc = "io" /\ current <= Len(IOQ) /\ process' = [process EXCEPT ![p] = after]
      /\ UNCHANGED <<input, IOQ, RemovalQ, pc>>
  BY DEF Advance
<1>2. p \in Pids /\ process[p] \in Process /\ process \in [Pids -> Process]
  BY <1>1, WalkAtHand DEF SchedInv, TypeOK
<1>3. bs \in Seq(Burst) /\ bs # <<>>
  BY <1>2 DEF Process
<1>4. Progress(input[p].behaviors, bs, process[p].total_clock_time)
  BY <1>2 DEF DemandInv, ProgressRight
<1>5. /\ Progress(input[p].behaviors, cs, process[p].total_clock_time)
      /\ cs[1].cpuburst = bs[1].cpuburst /\ cs[1].repeat = bs[1].repeat
      /\ cs[1].current_cpuburst = bs[1].current_cpuburst
  <2> DEFINE d == input[p].behaviors
             t == process[p].total_clock_time
  <2>1. cs = [bs EXCEPT ![1].current_ioburst = n] /\ Progress(d, bs, t)
    BY <1>4
  <2> HIDE DEF cs, bs, n, d, t
  <2>2. Progress(d, cs, t)
    BY <2>1, <1>3, ProgressSame
  <2>3. /\ cs[1].cpuburst = bs[1].cpuburst /\ cs[1].repeat = bs[1].repeat
        /\ cs[1].current_cpuburst = bs[1].current_cpuburst
    BY <2>1, <1>3, ProgressSame
  <2> QED BY <2>2, <2>3 DEF d, t
<1> HIDE DEF cs
<1>6. /\ after.behaviors = cs /\ after.total_clock_time = process[p].total_clock_time
  BY <1>2 DEF Process
<1> HIDE DEF after, p
<1>7. /\ process'[p] = after /\ \A x \in Pids \ {p} : process'[x] = process[x]
  BY <1>1, <1>2
<1>8. \A x \in Pids : /\ Progress(input[x].behaviors, process'[x].behaviors,
                                  process'[x].total_clock_time)
                      /\ process'[x].behaviors[1].cpuburst = process[x].behaviors[1].cpuburst
                      /\ process'[x].behaviors[1].repeat = process[x].behaviors[1].repeat
                      /\ process'[x].behaviors[1].current_cpuburst
                            = process[x].behaviors[1].current_cpuburst
  <2> TAKE x \in Pids
  <2>1. CASE x = p
    BY <2>1, <1>5, <1>6, <1>7
  <2>2. CASE x # p
    BY <2>2, <1>7 DEF DemandInv, ProgressRight
  <2> QED BY <2>1, <2>2
<1>9. ProgressRight'
  BY <1>1, <1>8, ProgressPrimed
<1>10. Elements(RemovalQ) \subseteq Pids
  BY DEF SchedInv, TypeOK, Elements
<1>11. BurstsRight'
  BY <1>1, <1>8, <1>10 DEF DemandInv, BurstsRight, MixedUp
<1> QED BY <1>9, <1>11 DEF DemandInv

LEMMA CompleteDemand ==
    ASSUME SchedInv, DemandInv, Complete
    PROVE  DemandInv'
<1> DEFINE p == IOQ[current]
           bs == process[p].behaviors
           cs == NextBehaviors(bs)
           one == [process[p] EXCEPT !.behaviors = cs]
           after == [one EXCEPT !.current_b = 0]
           rest == SubSeq(IOQ, 1, current - 1) \o SubSeq(IOQ, current + 1, Len(IOQ))
<1>1. /\ pc = "io" /\ current <= Len(IOQ) /\ process' = [process EXCEPT ![p] = after]
      /\ IOQ' = rest /\ UNCHANGED <<input, RemovalQ, pc>>
  <2>1. process' = [process EXCEPT ![p].behaviors = NextBehaviors(@), ![p].current_b = 0]
    BY DEF Complete
  <2>2. process' = [process EXCEPT ![p] = after]
    BY <2>1, WalkAtHand DEF Complete, SchedInv, TypeOK
  <2> QED BY <2>2 DEF Complete
<1>2. /\ p \in Pids /\ process[p] \in Process /\ process \in [Pids -> Process] /\ ~ MixedUp
      /\ IOQ \in Seq(Pids) /\ current \in 1 .. Len(IOQ) /\ p \in Elements(IOQ)
      /\ Elements(RemovalQ) \subseteq Pids
  <2>1. /\ process \in [Pids -> Process] /\ ~ MixedUp /\ IOQ \in Seq(Pids)
        /\ Elements(RemovalQ) \subseteq Pids
    BY <1>1 DEF SchedInv, TypeOK, MixedUp, Elements
  <2> QED BY <2>1, <1>1, WalkAtHand DEF Elements
<1>3. /\ input[p].behaviors \in Seq(Behavior) /\ bs \in Seq(Burst) /\ bs # <<>>
      /\ process[p].total_clock_time \in Nat
      /\ Progress(input[p].behaviors, bs, process[p].total_clock_time)
      /\ bs[1].repeat # 0 /\ bs[1].current_cpuburst = bs[1].cpuburst
  <2>1. /\ input[p].behaviors \in Seq(Behavior) /\ bs \in Seq(Burst) /\ bs # <<>>
        /\ process[p].total_clock_time \in Nat
    BY <1>2, LinesOf
  <2> QED BY <2>1, <1>2 DEF DemandInv, ProgressRight, BurstsRight
<1>4. /\ Progress(input[p].behaviors, cs, process[p].total_clock_time)
      /\ cs[1].current_cpuburst < cs[1].cpuburst
  <2> HIDE DEF bs, p
  <2> QED BY <1>3, ProgressNext
<1> HIDE DEF cs
<1>5. after.behaviors = cs /\ after.total_clock_time = process[p].total_clock_time
  BY <1>2 DEF Process
<1>6. /\ rest \in Seq(Pids)
      /\ \A x \in Pids : x \in Elements(rest) <=> x \in Elements(IOQ) /\ x # p
  <2>1. rest \in Seq(Pids) /\ \A x : In(IOQ, x) = In(rest, x) + (IF p = x THEN 1 ELSE 0)
    BY <1>2, InWithout
  <2> HIDE DEF rest
  <2>2. ASSUME NEW x \in Pids PROVE x \in Elements(rest) <=> x \in Elements(IOQ) /\ x # p
    <3>1. /\ In(IOQ, x) = In(rest, x) + (IF p = x THEN 1 ELSE 0)
          /\ In(IOQ, x) \in Nat /\ In(rest, x) \in Nat
          /\ x \in Elements(IOQ) <=> In(IOQ, x) # 0
          /\ x \in Elements(rest) <=> In(rest, x) # 0
      BY <1>2, <2>1, InCounts
    <3>2. In(IOQ, p) <= 1
      <4>1. /\ Places(p) = 1 /\ In(ArrivalQ, p) \in Nat /\ In(IOQ, p) \in Nat
            /\ In(RemovalQ, p) \in Nat /\ InReady(ready, p) \in Nat
            /\ Places(p) = In(ArrivalQ, p) + In(IOQ, p) + In(RemovalQ, p) + InReady(ready, p)
        BY <1>2, PlacesKept, PlacesOf DEF SchedInv
      <4> QED BY <4>1
    <3> HIDE DEF p
    <3> QED BY <3>1, <3>2
  <2> QED BY <2>1, <2>2
<1> HIDE DEF after, p, rest
<1>7. /\ process'[p] = after /\ \A x \in Pids \ {p} : process'[x] = process[x]
  BY <1>1, <1>2
<1>8. ASSUME NEW x \in Pids
      PROVE  Progress(input[x].behaviors, process'[x].behaviors, process'[x].total_clock_time)
  <2>1. CASE x = p
    BY <2>1, <1>4, <1>5, <1>7
  <2>2. CASE x # p
    BY <2>2, <1>7 DEF DemandInv, ProgressRight
  <2> QED BY <2>1, <2>2
<1>9. ProgressRight'
  BY <1>1, <1>8, ProgressPrimed
<1>10. p \notin Elements(RemovalQ)
  BY <1>2, QueuesApart
<1>11. BurstsRight'
  <2>1. \A x \in Elements(RemovalQ) : x \in Pids /\ x # p /\ process'[x] = process[x]
    BY <1>2, <1>7, <1>10
  <2>2. ASSUME NEW x \in Pids
        PROVE  LET line == process'[x].behaviors[1] IN
               IF x \in Elements(rest)
               THEN line.repeat # 0 /\ line.current_cpuburst = line.cpuburst
               ELSE x \notin Elements(RemovalQ) => line.current_cpuburst < line.cpuburst
    <3>1. CASE x = p
      BY <3>1, <1>4, <1>5, <1>6, <1>7
    <3>2. CASE x # p
      BY <3>2, <1>2, <1>6, <1>7 DEF DemandInv, BurstsRight
    <3> QED BY <3>1, <3>2
  <2> QED BY <2>1, <2>2, <1>1 DEF DemandInv, BurstsRight
<1> QED BY <1>9, <1>11 DEF DemandInv

LEMMA InitDemand == Init => DemandInv
<1> SUFFICES ASSUME Init PROVE DemandInv
  OBVIOUS
<1>1. IOQ = <<>> /\ RemovalQ = <<>> /\ input \in Inputs
  BY DEF Init
<1>2. ASSUME NEW p \in Pids
      PROVE  /\ Progress(input[p].behaviors, process[p].behaviors, process[p].total_clock_time)
             /\ process[p].behaviors[1].current_cpuburst < process[p].behaviors[1].cpuburst
  <2> DEFINE d == input[p].behaviors
             bs == process[p].behaviors
  <2>1. d \in Seq(Behavior) /\ d # <<>>
    BY <1>1, InputsAssumption
  <2>2. /\ bs = [i \in DOMAIN d |->
                    [cpuburst |-> d[i].cpuburst, current_cpuburst |-> 0,
                     ioburst |-> d[i].ioburst, current_ioburst |-> 0, repeat |-> d[i].repeat]]
        /\ process[p].total_clock_time = 0
    BY DEF Init
  <2> HIDE DEF d, bs
  <2>3. Len(d) \in Nat /\ 1 \in 1 .. Len(d) /\ DOMAIN d = 1 .. Len(d) /\ d[1] \in Behavior
    BY <2>1, EmptySeq
  <2>4. /\ Len(bs) = Len(d)
        /\ \A i \in 1 .. Len(d) : /\ bs[i].cpuburst = d[i].cpuburst /\ bs[i].repeat = d[i].repeat
                                  /\ bs[i].current_cpuburst = 0
    <3>1. bs \in Seq([cpuburst : {d[i].cpuburst : i \in 1 .. Len(d)}, current_cpuburst : {0},
                      ioburst : {d[i].ioburst : i \in 1 .. Len(d)}, current_ioburst : {0},
                      repeat : {d[i].repeat : i \in 1 .. Len(d)}])
          /\ DOMAIN bs = 1 .. Len(d)
      BY <2>2, <2>3
    <3>2. Len(bs) = Len(d)
      BY <3>1, <2>3
    <3> QED BY <3>2, <2>2, <2>3
  <2>5. /\ d[1].repeat \in Nat \ {0} /\ d[1].cpuburst \in Nat \ {0} /\ Sums(d)[0] = 0
    BY <2>1, <2>3, SumSteps, LineTyped
  <2>6. d[1].cpuburst * (d[1].repeat - bs[1].repeat) = 0
    BY <2>3, <2>4, <2>5
  <2>7. Progress(d, bs, 0)
    <3>1. Len(d) - Len(bs) = 0 /\ 0 + 1 = 1 /\ \A i \in 1 .. Len(bs) : 0 + i = i
      BY <2>3, <2>4
    <3>2. \A i \in 2 .. Len(bs) : i \in 1 .. Len(d) /\ 0 + i = i
      BY <2>3, <2>4
    <3>3. 0 = Sums(d)[0] + d[1].cpuburst * (d[1].repeat - bs[1].repeat) + bs[1].current_cpuburst
      BY <2>3, <2>4, <2>5, <2>6
    <3>4. bs[1].repeat \in 0 .. d[1].repeat /\ bs[1].repeat # 0
      BY <2>3, <2>4, <2>5
    <3> QED BY <3>1, <3>2, <3>3, <3>4, <2>4 DEF Progress
  <2>8. bs[1].current_cpuburst < bs[1].cpuburst
    BY <2>3, <2>4, <2>5
  <2> QED BY <2>2, <2>7, <2>8 DEF d, bs
<1>3. \A p : p \notin Elements(IOQ) /\ p \notin Elements(RemovalQ)
  BY <1>1, InEmpty
<1> QED BY <1>2, <1>3 DEF DemandInv, ProgressRight, BurstsRight

LEMMA NextDemand ==
    ASSUME SchedInv, DemandInv, [Next]_vars
    PROVE  DemandInv'
<1>1. CASE queue_new_arrivals
  BY <1>1, DemandStays DEF queue_new_arrivals, MixedUp
<1>2. CASE Idle
  BY <1>2, DemandStays DEF Idle, MixedUp
<1>3. CASE EndTick
  BY <1>3, DemandStays DEF EndTick, MixedUp
<1>4. CASE UNCHANGED vars
  BY <1>4, DemandStays DEF vars, MixedUp
<1> QED BY <1>1, <1>2, <1>3, <1>4, ExecuteDemand, AdvanceDemand, CompleteDemand DEF Next

\* GotItsDemand: a process that was removed has run for as long as its description asks.
THEOREM GotItsDemandInvariant == Spec => []GotItsDemand
<1>1. SchedInv /\ DemandInv => GotItsDemand
  <2> SUFFICES ASSUME SchedInv, DemandInv, NEW p \in Elements(RemovalQ)
               PROVE  process[p].total_clock_time = Demand(input[p].behaviors)
    BY DEF GotItsDemand
  <2>1. p \in Pids
    BY DEF SchedInv, TypeOK, Elements
  <2>2. /\ input[p].behaviors \in Seq(Behavior)
        /\ process[p].behaviors \in Seq(Burst) /\ process[p].behaviors # <<>>
        /\ process[p].total_clock_time \in Nat
    BY <2>1, LinesOf
  <2>3. /\ Progress(input[p].behaviors, process[p].behaviors, process[p].total_clock_time)
        /\ process[p].behaviors[1].repeat = 0
        /\ process[p].behaviors[1].current_cpuburst = process[p].behaviors[1].cpuburst
    BY <2>1 DEF DemandInv, ProgressRight, BurstsRight
  <2> QED BY <2>2, <2>3, ProgressDone
<1>2. SchedInv /\ DemandInv /\ [Next]_vars => DemandInv'
  BY NextDemand
<1> QED BY <1>1, <1>2, InitDemand, SchedInvariant, PTL DEF Spec

=============================================================================
