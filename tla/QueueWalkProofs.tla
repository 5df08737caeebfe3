--------------------------- MODULE QueueWalkProofs ---------------------------
(***************************************************************************)
(* Proofs about QueueWalk, for any number of threads, elements and         *)
(* priorities: WalkInv is an invariant, and the properties follow from it. *)
(* It says of a walk that nobody disturbed what it has still to see and    *)
(* that the position has not passed it, for each of its four calls.        *)
(***************************************************************************)
EXTENDS QueueWalk, SequenceTheorems, FiniteSetTheorems, WellFoundedInduction, TLAPS

Distinct == \A i, j \in 1 .. Len(list[q]) : list[q][i].info = list[q][j].info => i = j

GotApart ==
    \A t \in Takers : /\ got[t] \cap Contents = {}
                      /\ \A u \in Takers : t # u => got[t] \cap got[u] = {}

\* What a walk has still to see when it has finished with the element at hand.
ToSee(w) ==
    IF pc[w] \in {"priority", "use"} THEN unseen[w] \ {pointer[w]} ELSE unseen[w]

\* The places up to which it has seen everything.
Passed(w) ==
    IF pc[w] \in {"priority", "use", "next"} THEN position[q] ELSE position[q] - 1

Undisturbed(w) ==
    /\ pc[w] \in {"point", "priority", "use", "next"} => position[q] <= Len(list[q])
    /\ pc[w] \in {"priority", "use"} => pointer[w] \in Contents
    /\ ToSee(w) \subseteq Contents
    /\ \A i \in 1 .. Len(list[q]) : i <= Passed(w) => list[q][i].info \notin ToSee(w)

WalkersRight ==
    \A w \in Walkers :
        /\ pc[w] = "caller" => ~ disturbed[w]
        /\ disturbed[w] \/ pc[w] \in {"caller", "done"} => unseen[w] = {}
        /\ Walking(w) /\ ~ disturbed[w] => Undisturbed(w)

WalkInv == TypeOK /\ Distinct /\ GotApart /\ WalkersRight /\ EndsOnlyDisturbed

-----------------------------------------------------------------------------
(* The queue *)

\* What the steps below use of the type invariant.
LEMMA QueueTypes ==
    ASSUME TypeOK
    PROVE  /\ q \in Queues /\ list \in [Queues -> Seq(Q!Element)] /\ list[q] \in Seq(Q!Element)
           /\ Len(list[q]) \in Nat /\ position \in [Queues -> Nat \ {0}]
           /\ position[q] \in Nat \ {0} /\ position[q] <= Len(list[q]) + 1
           /\ \A i \in 1 .. Len(list[q]) : list[q][i] \in Q!Element /\ list[q][i].info \in Values
           /\ Contents \subseteq Values
<1>1. /\ q \in Queues /\ list \in [Queues -> Seq(Q!Element)] /\ list[q] \in Seq(Q!Element)
      /\ position \in [Queues -> Nat \ {0}]
      /\ position[q] \in Nat \ {0} /\ position[q] <= Len(list[q]) + 1
  BY DEF TypeOK, Q!TypeOK, Queues
<1>2. /\ Len(list[q]) \in Nat
      /\ \A i \in 1 .. Len(list[q]) : list[q][i] \in Q!Element
  BY <1>1
<1>3. \A i \in 1 .. Len(list[q]) : list[q][i].info \in Values
  BY <1>2 DEF Q!Element
<1> QED BY <1>1, <1>2, <1>3 DEF Contents

\* Where an element is inserted, whatever order the list is in.
LEMMA PlaceRight ==
    ASSUME NEW l \in Seq(Q!Element), NEW p \in Priorities, NEW fifo
    PROVE  Q!Place(l, p, fifo) \in 0 .. Len(l)
<1> DEFINE S == {n \in 0 .. Len(l) : n < Len(l) => <<l[n + 1].priority, p>> \notin Ahead}
<1>1. Len(l) \in Nat /\ Len(l) \in S /\ S \in SUBSET Nat
  OBVIOUS
<1>2. PICK m \in S : \A k \in S : ~ (<<k, m>> \in OpToRel(<, Nat))
  BY <1>1, NatLessThanWellFounded, WFMin
<1>3. \A k \in S : ~ (k < m)
  BY <1>1, <1>2 DEF OpToRel
<1>4. m \in 0 .. Len(l) /\ (m < Len(l) => <<l[m + 1].priority, p>> \notin Ahead)
  OBVIOUS
<1>5. \A i \in 1 .. m : <<l[i].priority, p>> \in Ahead
  <2> TAKE i \in 1 .. m
  <2>1. i - 1 \in 0 .. Len(l) /\ i - 1 < m /\ (i - 1) + 1 = i /\ i \in 1 .. Len(l)
    BY <1>1, <1>4
  <2> QED BY <2>1, <1>3
<1> HIDE DEF S
<1> DEFINE Fits(n) == /\ \A i \in 1 .. n : <<l[i].priority, p>> \in Ahead
                      /\ n < Len(l) => <<l[n + 1].priority, p>> \notin Ahead
<1>6. \E n \in 0 .. Len(l) : Fits(n)
  BY <1>4, <1>5
<1>7. (CHOOSE n \in 0 .. Len(l) : Fits(n)) \in 0 .. Len(l)
  <2> HIDE DEF Fits
  <2> QED BY <1>6
<1> QED BY <1>1, <1>7 DEF Q!Place

\* The list with one more element, at place n + 1.
Grown(l, s, n, e) ==
    /\ n \in 0 .. Len(l) /\ s \in Seq(Q!Element) /\ Len(s) = Len(l) + 1
    /\ s[n + 1] = e /\ \A i \in 1 .. n : s[i] = l[i]
    /\ \A i \in n + 1 .. Len(l) : s[i + 1] = l[i]

LEMMA InsertedRight ==
    ASSUME NEW l \in Seq(Q!Element), NEW e \in Q!Element, NEW fifo
    PROVE  \E n \in 0 .. Len(l) : Grown(l, Q!Inserted(l, e, fifo), n, e)
<1> DEFINE n == Q!Place(l, e.priority, fifo)
           u == SubSeq(l, 1, n)
           w == SubSeq(l, n + 1, Len(l))
           v == u \o <<e>>
           s == v \o w
<1>1. n \in 0 .. Len(l) /\ Len(l) \in Nat
  <2>1. e.priority \in Priorities
    BY DEF Q!Element
  <2> QED BY <2>1, PlaceRight
<1>2. s = Q!Inserted(l, e, fifo)
  BY DEF Q!Inserted
<1> HIDE DEF n
<1>3. /\ u \in Seq(Q!Element) /\ Len(u) = n /\ \A i \in 1 .. n : u[i] = l[i]
      /\ w \in Seq(Q!Element) /\ Len(w) = Len(l) - n
      /\ \A i \in 1 .. Len(l) - n : w[i] = l[n + i]
  BY <1>1
<1> HIDE DEF u, w
<1>4. /\ v \in Seq(Q!Element) /\ Len(v) = n + 1 /\ v[n + 1] = e
      /\ \A i \in 1 .. n : v[i] = l[i]
  BY <1>1, <1>3
<1> HIDE DEF v
<1>5. /\ s \in Seq(Q!Element) /\ Len(s) = Len(l) + 1
      /\ \A i \in 1 .. n + 1 : s[i] = v[i]
      /\ \A i \in 1 .. Len(l) - n : s[n + 1 + i] = w[i]
  BY <1>1, <1>3, <1>4, ConcatProperties
<1> HIDE DEF s
<1>6. s[n + 1] = e /\ \A i \in 1 .. n : s[i] = l[i]
  BY <1>1, <1>4, <1>5
<1>7. ASSUME NEW i \in n + 1 .. Len(l) PROVE s[i + 1] = l[i]
  <2>1. i - n \in 1 .. Len(l) - n /\ n + 1 + (i - n) = i + 1 /\ n + (i - n) = i
    BY <1>1
  <2>2. s[n + 1 + (i - n)] = w[i - n]
    BY <2>1, <1>5
  <2>3. w[i - n] = l[n + (i - n)]
    BY <2>1, <1>3
  <2> QED BY <2>1, <2>2, <2>3
<1> QED BY <1>1, <1>2, <1>5, <1>6, <1>7 DEF Grown

\* A new element goes somewhere into the list, and the list is rewound.
LEMMA AddRight ==
    ASSUME TypeOK, Distinct, NEW v \in Values, NEW p \in Priorities, add_to_queue(v, p)
    PROVE  /\ \E n \in 0 .. Len(list[q]) :
                  Grown(list[q], list'[q], n, [info |-> v, priority |-> p])
           /\ Q!TypeOK' /\ position'[q] = 1 /\ Contents' = Contents \cup {v} /\ Distinct'
           /\ v \notin Contents /\ \A t \in Takers : v \notin got[t]
<1> DEFINE l == list[q]
           e == [info |-> v, priority |-> p]
           s == Q!Inserted(l, e, kind[q].fifo)
<1>1. /\ q \in Queues /\ list \in [Queues -> Seq(Q!Element)] /\ l \in Seq(Q!Element)
      /\ Len(l) \in Nat /\ position \in [Queues -> Nat \ {0}] /\ e \in Q!Element
      /\ kind \in [Queues -> Q!Kind]
  BY QueueTypes DEF Q!Element, TypeOK, Q!TypeOK
<1>2. v \notin Contents /\ (\A t \in Takers : v \notin got[t]) /\ Q!Add(q, e)
  BY DEF add_to_queue, Added
<1>3. Q!Added(l, e, kind[q]) = s
  <2>1. \A i \in 1 .. Len(l) : l[i].info # e.info
    BY <1>2 DEF Contents
  <2> QED BY <2>1 DEF Q!Added
<1>4. PICK n \in 0 .. Len(l) : Grown(l, s, n, e)
  BY <1>1, InsertedRight
<1> HIDE DEF s
<1>5. /\ s \in Seq(Q!Element) /\ Len(s) = Len(l) + 1 /\ s[n + 1] = e
      /\ \A i \in 1 .. n : s[i] = l[i]
      /\ \A i \in n + 1 .. Len(l) : s[i + 1] = l[i]
  BY <1>4 DEF Grown
<1>6. s # l
  BY <1>1, <1>5
<1>7. /\ list' = [list EXCEPT ![q] = s] /\ position' = [position EXCEPT ![q] = 1] /\ kind' = kind
  BY <1>2, <1>3, <1>6 DEF Q!Add
<1>8. /\ list'[q] = s /\ position'[q] = 1
      /\ list' \in [Queues -> Seq(Q!Element)] /\ position' \in [Queues -> Nat \ {0}]
  BY <1>1, <1>5, <1>7
<1>9. Q!TypeOK'
  <2> SUFFICES ASSUME NEW x \in Queues PROVE position'[x] <= Len(list'[x]) + 1
    BY <1>1, <1>7, <1>8 DEF Q!TypeOK
  <2>1. x = q
    BY DEF Queues
  <2> QED BY <2>1, <1>1, <1>5, <1>8
<1>10. \A j \in 1 .. Len(s) : \/ j = n + 1
                              \/ j \in 1 .. n /\ j \in 1 .. Len(l) /\ s[j] = l[j]
                              \/ /\ j > n + 1 /\ j - 1 \in n + 1 .. Len(l)
                                 /\ j - 1 \in 1 .. Len(l) /\ s[j] = l[j - 1]
  <2> TAKE j \in 1 .. Len(s)
  <2>1. CASE j <= n
    BY <2>1, <1>1, <1>5
  <2>2. CASE j > n + 1
    <3>1. j - 1 \in n + 1 .. Len(l) /\ (j - 1) + 1 = j
      BY <2>2, <1>1, <1>5
    <3>2. s[(j - 1) + 1] = l[j - 1]
      BY <3>1, <1>5
    <3> QED BY <3>1, <3>2, <2>2, <1>1
  <2> QED BY <2>1, <2>2, <1>1
<1>11. e.info = v
  OBVIOUS
<1> HIDE DEF e
<1>12. \A j \in 1 .. Len(l) : l[j].info # v
  BY <1>2 DEF Contents
<1>13. {s[i].info : i \in 1 .. Len(s)} = Contents \cup {v}
  <2>1. ASSUME NEW j \in 1 .. Len(s) PROVE s[j].info \in Contents \cup {v}
    BY <1>5, <1>10, <1>11 DEF Contents
  <2>2. n + 1 \in 1 .. Len(s) /\ s[n + 1].info = v
    BY <1>1, <1>5, <1>11
  <2>3. ASSUME NEW j \in 1 .. Len(l) PROVE l[j].info \in {s[i].info : i \in 1 .. Len(s)}
    <3>1. CASE j <= n
      <4>1. j \in 1 .. Len(s) /\ s[j] = l[j]
        BY <3>1, <1>1, <1>5
      <4> QED BY <4>1
    <3>2. CASE j > n
      <4>1. j + 1 \in 1 .. Len(s) /\ s[j + 1] = l[j]
        BY <3>2, <1>1, <1>5
      <4> QED BY <4>1
    <3> QED BY <3>1, <3>2, <1>1
  <2> QED BY <2>1, <2>2, <2>3 DEF Contents
<1>14. ASSUME NEW i \in 1 .. Len(s), NEW j \in 1 .. Len(s), s[i].info = s[j].info
       PROVE  i = j
  <2>1. CASE i = n + 1
    <3>1. s[j].info = v
      BY <2>1, <1>5, <1>11, <1>14
    <3> QED BY <3>1, <2>1, <1>10, <1>12
  <2>2. CASE j = n + 1
    <3>1. s[i].info = v
      BY <2>2, <1>5, <1>11, <1>14
    <3> QED BY <3>1, <2>2, <1>10, <1>12
  <2>3. CASE i # n + 1 /\ j # n + 1
    <3>1. PICK a \in 1 .. Len(l) : s[i] = l[a] /\ (a = i \/ a = i - 1) /\ (a <= n <=> a = i)
      BY <2>3, <1>1, <1>10
    <3>2. PICK c \in 1 .. Len(l) : s[j] = l[c] /\ (c = j \/ c = j - 1) /\ (c <= n <=> c = j)
      BY <2>3, <1>1, <1>10
    <3>3. a = c
      BY <3>1, <3>2, <1>14 DEF Distinct
    <3> QED BY <3>1, <3>2, <3>3, <1>1
  <2> QED BY <2>1, <2>2, <2>3
<1>15. Contents' = Contents \cup {v} /\ Distinct'
  <2>1. Contents' = {s[i].info : i \in 1 .. Len(s)}
    BY <1>8 DEF Contents
  <2>2. Distinct'
    BY <1>8, <1>14 DEF Distinct
  <2> QED BY <2>1, <2>2, <1>13
<1> QED BY <1>2, <1>4, <1>8, <1>9, <1>15 DEF s, e

\* The first element goes.
LEMMA RemoveRight ==
    ASSUME TypeOK, Distinct, list[q] # <<>>, Q!RemoveFront(q)
    PROVE  /\ Q!TypeOK' /\ Distinct' /\ position'[q] = 1
           /\ list[q][1].info \in Contents /\ Contents' = Contents \ {list[q][1].info}
<1> DEFINE l == list[q]
           s == Tail(l)
<1>1. /\ q \in Queues /\ list \in [Queues -> Seq(Q!Element)] /\ l \in Seq(Q!Element)
      /\ Len(l) \in Nat /\ position \in [Queues -> Nat \ {0}]
      /\ kind \in [Queues -> Q!Kind]
  BY QueueTypes DEF TypeOK, Q!TypeOK
<1>2. /\ s \in Seq(Q!Element) /\ Len(s) = Len(l) - 1 /\ Len(l) # 0
      /\ \A i \in 1 .. Len(s) : i + 1 \in 1 .. Len(l) /\ s[i] = l[i + 1]
  BY <1>1, HeadTailProperties
<1> HIDE DEF s
<1>3. /\ list' = [list EXCEPT ![q] = s] /\ position' = [position EXCEPT ![q] = 1] /\ kind' = kind
  BY <1>1 DEF Q!RemoveFront, s
<1>4. /\ list'[q] = s /\ position'[q] = 1
      /\ list' \in [Queues -> Seq(Q!Element)] /\ position' \in [Queues -> Nat \ {0}]
  BY <1>1, <1>2, <1>3
<1>5. Q!TypeOK'
  <2> SUFFICES ASSUME NEW x \in Queues PROVE position'[x] <= Len(list'[x]) + 1
    BY <1>1, <1>3, <1>4 DEF Q!TypeOK
  <2>1. x = q
    BY DEF Queues
  <2> QED BY <2>1, <1>1, <1>2, <1>4
<1>6. 1 \in 1 .. Len(l) /\ Len(s) \in Nat
  BY <1>1, <1>2
<1>7. ASSUME NEW i \in 1 .. Len(s), NEW j \in 1 .. Len(s), s[i].info = s[j].info
      PROVE  i = j
  <2>1. i + 1 \in 1 .. Len(l) /\ j + 1 \in 1 .. Len(l) /\ s[i] = l[i + 1] /\ s[j] = l[j + 1]
    BY <1>2
  <2>2. l[i + 1].info = l[j + 1].info
    BY <2>1, <1>7
  <2>3. i + 1 = j + 1
    BY <2>1, <2>2 DEF Distinct
  <2> QED BY <2>3
<1>8. {s[i].info : i \in 1 .. Len(s)} = Contents \ {l[1].info}
  <2>1. ASSUME NEW i \in 1 .. Len(s) PROVE s[i].info \in Contents \ {l[1].info}
    <3>1. i + 1 \in 1 .. Len(l) /\ s[i] = l[i + 1] /\ i + 1 # 1
      BY <1>2
    <3> QED BY <3>1, <1>6 DEF Contents, Distinct
  <2>2. ASSUME NEW i \in 1 .. Len(l), l[i].info # l[1].info
        PROVE  l[i].info \in {s[k].info : k \in 1 .. Len(s)}
    <3>1. i # 1
      BY <2>2
    <3>2. i - 1 \in 1 .. Len(s) /\ (i - 1) + 1 = i
      BY <3>1, <1>1, <1>2
    <3>3. s[i - 1] = l[i]
      BY <3>2, <1>2
    <3> QED BY <3>2, <3>3
  <2> QED BY <2>1, <2>2 DEF Contents
<1>9. Contents' = {s[i].info : i \in 1 .. Len(s)}
  BY <1>4 DEF Contents
<1>10. Distinct'
  BY <1>4, <1>7 DEF Distinct
<1>11. l[1].info \in Contents
  BY <1>6 DEF Contents
<1> QED BY <1>4, <1>5, <1>8, <1>9, <1>10, <1>11

-----------------------------------------------------------------------------
(* The walks *)

LEMMA DisturbRight ==
    ASSUME TypeOK, NEW others \in SUBSET Walkers, Disturb(others)
    PROVE  /\ disturbed' \in [Walkers -> BOOLEAN] /\ unseen' \in [Walkers -> SUBSET Values]
           /\ \A w \in others : Walking(w) => disturbed'[w] /\ unseen'[w] = {}
           /\ \A w \in Walkers : w \notin others \/ ~ Walking(w) =>
                  disturbed'[w] = disturbed[w] /\ unseen'[w] = unseen[w]
<1> DEFINE hit == {w \in others : Walking(w)}
<1>1. /\ disturbed' = [w \in Walkers |-> disturbed[w] \/ w \in hit]
      /\ unseen' = [w \in Walkers |-> IF w \in hit THEN {} ELSE unseen[w]]
  BY DEF Disturb
<1>2. disturbed \in [Walkers -> BOOLEAN] /\ unseen \in [Walkers -> SUBSET Values]
  BY DEF TypeOK
<1>3. /\ \A w \in others : Walking(w) => w \in hit
      /\ \A w \in Walkers : w \notin others \/ ~ Walking(w) => w \notin hit
  OBVIOUS
<1> HIDE DEF hit
<1>4. unseen' \in [Walkers -> SUBSET Values] /\ disturbed' \in [Walkers -> BOOLEAN]
  BY <1>1, <1>2
<1>5. ASSUME NEW w \in others, Walking(w) PROVE disturbed'[w] /\ unseen'[w] = {}
  BY <1>1, <1>3, <1>5
<1>6. ASSUME NEW w \in Walkers, w \notin others \/ ~ Walking(w)
      PROVE  disturbed'[w] = disturbed[w] /\ unseen'[w] = unseen[w]
  BY <1>1, <1>2, <1>3, <1>6
<1> QED BY <1>4, <1>5, <1>6

\* A rewind takes no walk past what it has not seen.
LEMMA RewindKeeps ==
    ASSUME TypeOK, NEW w \in Walkers, Undisturbed(w), list'[q] = list[q], position'[q] = 1,
           pc'[w] = pc[w], pointer'[w] = pointer[w], unseen'[w] = unseen[w]
    PROVE  Undisturbed(w)'
<1>1. position[q] \in Nat \ {0} /\ Len(list[q]) \in Nat
  BY QueueTypes
<1>2. ToSee(w)' = ToSee(w) /\ Contents' = Contents
  BY DEF ToSee, Contents
<1>3. Passed(w)' <= Passed(w)
  BY <1>1 DEF Passed
<1>4. Passed(w) \in Int /\ Passed(w)' \in Int
  BY <1>1 DEF Passed
<1>5. \A i \in 1 .. Len(list[q]) : i <= Passed(w)' => i <= Passed(w)
  BY <1>3, <1>4
<1> QED BY <1>1, <1>2, <1>5 DEF Undisturbed

\* A walk that nothing touched.
LEMMA SameWalk ==
    ASSUME NEW w \in Walkers, Undisturbed(w), list'[q] = list[q], position'[q] = position[q],
           pc'[w] = pc[w], pointer'[w] = pointer[w], unseen'[w] = unseen[w]
    PROVE  Undisturbed(w)'
BY DEF Undisturbed, ToSee, Passed, Contents

LEMMA InitInv == Init => WalkInv
<1> SUFFICES ASSUME Init PROVE WalkInv
  OBVIOUS
<1>1. /\ list[q] = <<>> /\ Len(list[q]) = 0
      /\ pc = [w \in Walkers |-> "caller"] /\ pointer = [w \in Walkers |-> Null]
      /\ ended = Null /\ got = [t \in Takers |-> {}]
      /\ disturbed = [w \in Walkers |-> FALSE] /\ unseen = [w \in Walkers |-> {}]
  BY DEF Init, Q!Init, Queues
<1>2. TypeOK
  <2>1. Q!TypeOK
    BY DEF Init, Q!Init, Q!TypeOK, Queues
  <2> QED BY <2>1, <1>1 DEF TypeOK
<1>3. Distinct /\ GotApart
  BY <1>1 DEF Distinct, GotApart
<1>4. WalkersRight /\ EndsOnlyDisturbed
  BY <1>1 DEF WalkersRight, Walking, EndsOnlyDisturbed
<1> QED BY <1>2, <1>3, <1>4 DEF WalkInv

LEMMA AddKeeps ==
    ASSUME WalkInv, ended = Null, NEW v \in Values, NEW p \in Priorities, add_to_queue(v, p)
    PROVE  WalkInv'
<1>1. /\ UNCHANGED <<pc, pointer, ended, disturbed, unseen, got>>
      /\ TypeOK /\ Distinct /\ GotApart /\ WalkersRight
  BY DEF add_to_queue, WalkInv
<1>2. PICK n \in 0 .. Len(list[q]) :
          Grown(list[q], list'[q], n, [info |-> v, priority |-> p])
  BY <1>1, AddRight
<1>3. /\ Q!TypeOK' /\ position'[q] = 1 /\ Contents' = Contents \cup {v} /\ Distinct'
      /\ v \notin Contents /\ \A t \in Takers : v \notin got[t]
  BY <1>1, AddRight
<1>4. TypeOK' /\ GotApart' /\ EndsOnlyDisturbed'
  BY <1>1, <1>3 DEF TypeOK, GotApart, EndsOnlyDisturbed
<1>5. /\ position[q] \in Nat \ {0} /\ Len(list[q]) \in Nat /\ Len(list'[q]) = Len(list[q]) + 1
      /\ n = 0 => list'[q][1].info = v
      /\ n # 0 => list'[q][1] = list[q][1] /\ 1 \in 1 .. Len(list[q])
  BY <1>1, <1>2, QueueTypes DEF Grown
<1>6. ASSUME NEW w \in Walkers, Undisturbed(w) PROVE Undisturbed(w)'
  <2>1. ToSee(w)' = ToSee(w) /\ ToSee(w) \subseteq Contents
    BY <1>1, <1>6 DEF ToSee, Undisturbed
  <2>2. ASSUME NEW i \in 1 .. Len(list'[q]), i <= Passed(w)'
        PROVE  list'[q][i].info \notin ToSee(w)
    <3>1. i = 1 /\ Passed(w) = position[q]
      BY <2>2, <1>1, <1>3, <1>5 DEF Passed
    <3>2. CASE n = 0
      BY <3>1, <3>2, <2>1, <1>3, <1>5
    <3>3. CASE n # 0
      BY <3>1, <3>3, <1>5, <1>6 DEF Undisturbed
    <3> QED BY <3>2, <3>3
  <2> QED BY <2>1, <2>2, <1>1, <1>3, <1>5, <1>6 DEF Undisturbed
<1>7. WalkersRight'
  BY <1>1, <1>6 DEF WalkersRight, Walking
<1> QED BY <1>3, <1>4, <1>7 DEF WalkInv

LEMMA RemoveKeeps ==
    ASSUME WalkInv, ended = Null, NEW t \in Takers, remove_from_front(t)
    PROVE  WalkInv'
<1>1. /\ UNCHANGED <<pc, pointer, ended>> /\ Q!RemoveFront(q)
      /\ TypeOK /\ Distinct /\ GotApart /\ WalkersRight
      /\ got \in [Takers -> SUBSET Values]
  BY DEF remove_from_front, WalkInv, TypeOK
<1>2. EndsOnlyDisturbed'
  BY <1>1 DEF EndsOnlyDisturbed
<1>3. CASE list[q] = <<>>
  <2>1. Disturb({}) /\ got' = got
    BY <1>1, <1>3 DEF remove_from_front
  <2>2. /\ disturbed' \in [Walkers -> BOOLEAN] /\ unseen' \in [Walkers -> SUBSET Values]
        /\ \A w \in Walkers : disturbed'[w] = disturbed[w] /\ unseen'[w] = unseen[w]
    BY <1>1, <2>1, DisturbRight
  <2>3. q \in Queues /\ list' = list /\ position' = [position EXCEPT ![q] = 1] /\ kind' = kind
    <3>1. q \in Queues /\ list \in [Queues -> Seq(Q!Element)]
      BY <1>1, QueueTypes
    <3> QED BY <3>1, <1>1, <1>3 DEF Q!RemoveFront
  <2>4. Q!TypeOK' /\ position'[q] = 1
    BY <2>3, <1>1, <1>3, QueueTypes DEF TypeOK, Q!TypeOK, Queues
  <2>5. TypeOK' /\ Distinct' /\ GotApart'
    BY <2>1, <2>2, <2>3, <2>4, <1>1 DEF TypeOK, Distinct, GotApart, Contents
  <2>6. \A w \in Walkers : Undisturbed(w) => Undisturbed(w)'
    BY <1>1, <2>2, <2>3, <2>4, RewindKeeps
  <2>7. WalkersRight'
    BY <2>2, <2>6, <1>1 DEF WalkersRight, Walking
  <2> QED BY <2>5, <2>7, <1>2 DEF WalkInv
<1>4. CASE list[q] # <<>>
  <2> DEFINE v == list[q][1].info
  <2>1. Disturb(Walkers) /\ got' = [got EXCEPT ![t] = @ \cup {v}]
    BY <1>4 DEF remove_from_front
  <2>2. /\ disturbed' \in [Walkers -> BOOLEAN] /\ unseen' \in [Walkers -> SUBSET Values]
        /\ \A w \in Walkers : Walking(w) => disturbed'[w] /\ unseen'[w] = {}
        /\ \A w \in Walkers : ~ Walking(w) =>
               disturbed'[w] = disturbed[w] /\ unseen'[w] = unseen[w]
    BY <1>1, <2>1, DisturbRight
  <2>3. Q!TypeOK' /\ Distinct' /\ v \in Contents /\ Contents' = Contents \ {v}
    BY <1>1, <1>4, RemoveRight
  <2> HIDE DEF v
  <2>4. v \in Values /\ \A u \in Takers : v \notin got[u]
    BY <2>3, <1>1, QueueTypes DEF GotApart
  <2>5. TypeOK'
    BY <2>1, <2>2, <2>3, <2>4, <1>1 DEF TypeOK
  <2>6. GotApart'
    <3> SUFFICES ASSUME NEW u \in Takers
                 PROVE  /\ got'[u] \cap Contents' = {}
                        /\ \A x \in Takers : u # x => got'[u] \cap got'[x] = {}
      BY DEF GotApart
    <3>1. got'[u] = (IF u = t THEN got[u] \cup {v} ELSE got[u])
          /\ \A x \in Takers : got'[x] = (IF x = t THEN got[x] \cup {v} ELSE got[x])
      BY <2>1, <1>1
    <3>2. got[u] \cap Contents = {} /\ \A x \in Takers : u # x => got[u] \cap got[x] = {}
      BY <1>1 DEF GotApart
    <3> QED BY <3>1, <3>2, <2>3, <2>4
  <2>7. WalkersRight'
    BY <2>2, <1>1 DEF WalkersRight, Walking
  <2> QED BY <2>3, <2>5, <2>6, <2>7, <1>2 DEF WalkInv
<1> QED BY <1>3, <1>4

LEMMA WalkKeeps ==
    ASSUME WalkInv, ended = Null, NEW w \in Walkers, Walk(w)
    PROVE  WalkInv'
<1>1. /\ pc[w] = "caller" /\ pc' = [pc EXCEPT ![w] = "test"] /\ Q!Rewind(q)
      /\ unseen' = [unseen EXCEPT ![w] = Contents]
      /\ UNCHANGED <<pointer, ended, disturbed, got>>
      /\ TypeOK /\ Distinct /\ GotApart /\ WalkersRight
  BY DEF Walk, Goto, WalkInv
<1>2. /\ q \in Queues /\ list' = list /\ position' = [position EXCEPT ![q] = 1] /\ kind' = kind
      /\ Contents' = Contents /\ Contents \subseteq Values
  BY <1>1, QueueTypes DEF Q!Rewind, Contents
<1>3. Q!TypeOK' /\ position'[q] = 1
  BY <1>1, <1>2, QueueTypes DEF TypeOK, Q!TypeOK, Queues
<1>4. TypeOK' /\ Distinct' /\ GotApart' /\ EndsOnlyDisturbed'
  BY <1>1, <1>2, <1>3 DEF TypeOK, Distinct, GotApart, EndsOnlyDisturbed
<1>5. /\ pc'[w] = "test" /\ unseen'[w] = Contents /\ disturbed'[w] = disturbed[w] /\ ~ disturbed[w]
      /\ \A x \in Walkers \ {w} : /\ pc'[x] = pc[x] /\ unseen'[x] = unseen[x]
                                  /\ pointer'[x] = pointer[x] /\ disturbed'[x] = disturbed[x]
  BY <1>1 DEF TypeOK, WalkersRight
<1>6. Undisturbed(w)'
  BY <1>2, <1>3, <1>5 DEF Undisturbed, ToSee, Passed
<1>7. \A x \in Walkers \ {w} : Undisturbed(x) => Undisturbed(x)'
  BY <1>1, <1>2, <1>3, <1>5, RewindKeeps
<1>8. WalkersRight'
  <2> SUFFICES ASSUME NEW x \in Walkers
               PROVE  /\ pc'[x] = "caller" => ~ disturbed'[x]
                      /\ disturbed'[x] \/ pc'[x] \in {"caller", "done"} => unseen'[x] = {}
                      /\ Walking(x)' /\ ~ disturbed'[x] => Undisturbed(x)'
    BY DEF WalkersRight
  <2>1. CASE x = w
    BY <2>1, <1>5, <1>6
  <2>2. CASE x # w
    BY <2>2, <1>1, <1>5, <1>7 DEF WalkersRight, Walking
  <2> QED BY <2>1, <2>2
<1> QED BY <1>4, <1>8 DEF WalkInv

\* A step that changes nothing of the queue and at most one walk, which stays right.
LEMMA OneWalkKeeps ==
    ASSUME WalkInv, NEW w \in Walkers, NEW place \in {"test", "point", "priority", "use", "next", "done"},
           Walking(w), pc' = [pc EXCEPT ![w] = place],
           UNCHANGED <<queue, ended, disturbed, got>>, ended = Null,
           pointer' \in [Walkers -> Values \cup {Null}], unseen' \in [Walkers -> SUBSET Values],
           \A x \in Walkers \ {w} : pointer'[x] = pointer[x] /\ unseen'[x] = unseen[x],
           unseen'[w] \subseteq unseen[w],
           ~ disturbed[w] => /\ place # "done" => Undisturbed(w)'
                             /\ place = "done" => unseen'[w] = {}
    PROVE  WalkInv'
<1>1. /\ list' = list /\ position' = position /\ kind' = kind /\ got' = got
      /\ ended' = ended /\ disturbed' = disturbed /\ Contents' = Contents
      /\ TypeOK /\ Distinct /\ GotApart /\ WalkersRight
  BY DEF queue, WalkInv, Contents
<1>2. TypeOK' /\ Distinct' /\ GotApart' /\ EndsOnlyDisturbed'
  BY <1>1 DEF TypeOK, Q!TypeOK, Distinct, GotApart, EndsOnlyDisturbed
<1>3. pc'[w] = place /\ \A x \in Walkers \ {w} : pc'[x] = pc[x]
  BY <1>1 DEF TypeOK
<1>4. \A x \in Walkers \ {w} : Undisturbed(x) => Undisturbed(x)'
  BY <1>1, <1>3, SameWalk
<1>5. WalkersRight'
  <2> SUFFICES ASSUME NEW x \in Walkers
               PROVE  /\ pc'[x] = "caller" => ~ disturbed'[x]
                      /\ disturbed'[x] \/ pc'[x] \in {"caller", "done"} => unseen'[x] = {}
                      /\ Walking(x)' /\ ~ disturbed'[x] => Undisturbed(x)'
    BY DEF WalkersRight
  <2>1. CASE x = w
    <3>1. disturbed[w] => unseen[w] = {}
      BY <1>1 DEF WalkersRight
    <3>2. place # "caller"
      OBVIOUS
    <3> QED BY <2>1, <3>1, <3>2, <1>1, <1>3 DEF Walking
  <2>2. CASE x # w
    BY <2>2, <1>1, <1>3, <1>4 DEF WalkersRight, Walking
  <2> QED BY <2>1, <2>2
<1> QED BY <1>2, <1>5 DEF WalkInv

\* The program ends badly in a walk that was disturbed only.
LEMMA EndKeeps ==
    ASSUME WalkInv, NEW w \in Walkers, Walking(w), disturbed[w],
           NEW how \in {"NULL pointer", "exit", "freed memory"}, Ends(w, how)
    PROVE  WalkInv'
<1>1. /\ list' = list /\ position' = position /\ kind' = kind
      /\ UNCHANGED <<pc, pointer, disturbed, unseen, got>> /\ ended' = [how |-> how, by |-> w]
      /\ TypeOK /\ Distinct /\ GotApart /\ WalkersRight
  BY DEF Ends, queue, WalkInv
<1>2. TypeOK' /\ Distinct' /\ GotApart'
  <2>1. Q!TypeOK' /\ ended' \in Endings \cup {Null}
    BY <1>1 DEF TypeOK, Q!TypeOK, Endings
  <2>2. TypeOK'
    BY <2>1, <1>1 DEF TypeOK
  <2>3. Contents' = Contents
    BY <1>1 DEF Contents
  <2>4. Distinct'
    BY <1>1 DEF Distinct
  <2>5. GotApart'
    BY <1>1, <2>3 DEF GotApart
  <2> QED BY <2>2, <2>4, <2>5
<1>3. EndsOnlyDisturbed'
  BY <1>1 DEF EndsOnlyDisturbed, Walking
<1>4. \A x \in Walkers : Undisturbed(x) => Undisturbed(x)'
  BY <1>1, SameWalk
<1>5. WalkersRight'
  BY <1>1, <1>4 DEF WalkersRight, Walking
<1> QED BY <1>2, <1>3, <1>5 DEF WalkInv

LEMMA TestKeeps ==
    ASSUME WalkInv, ended = Null, NEW w \in Walkers, Test(w)
    PROVE  WalkInv'
<1> DEFINE place == IF AtEnd THEN "done" ELSE "point"
<1>1. /\ pc[w] = "test" /\ pc' = [pc EXCEPT ![w] = place] /\ TypeOK
      /\ UNCHANGED <<queue, pointer, ended, disturbed, unseen, got>>
  BY DEF Test, Goto, WalkInv
<1>2. pc'[w] = place /\ list' = list /\ position' = position /\ Contents' = Contents
  BY <1>1 DEF TypeOK, queue, Contents
<1>3. Walking(w)
  BY <1>1 DEF Walking
<1>4. position[q] \in Nat \ {0} /\ Len(list[q]) \in Nat
  BY <1>1, QueueTypes
<1>5. ASSUME ~ disturbed[w]
      PROVE  /\ place # "done" => Undisturbed(w)'
             /\ place = "done" => unseen'[w] = {}
  <2>1. /\ unseen[w] \subseteq Contents
        /\ \A i \in 1 .. Len(list[q]) : i <= position[q] - 1 => list[q][i].info \notin unseen[w]
    BY <1>1, <1>3, <1>5 DEF WalkInv, WalkersRight, Undisturbed, ToSee, Passed
  <2>2. CASE AtEnd
    <3>1. \A i \in 1 .. Len(list[q]) : i <= position[q] - 1
      BY <2>2, <1>4 DEF AtEnd
    <3> QED BY <3>1, <2>1, <2>2, <1>1 DEF Contents
  <2>3. CASE ~ AtEnd
    <3>1. position[q] <= Len(list[q]) /\ pc'[w] = "point"
      BY <2>3, <1>2, <1>4 DEF AtEnd
    <3> QED BY <3>1, <2>1, <2>3, <1>1, <1>2 DEF Undisturbed, ToSee, Passed
  <2> QED BY <2>2, <2>3
<1>6. place \in {"test", "point", "priority", "use", "next", "done"}
  OBVIOUS
<1> HIDE DEF place
<1> QED BY <1>1, <1>3, <1>5, <1>6, OneWalkKeeps DEF TypeOK

LEMMA PointKeeps ==
    ASSUME WalkInv, ended = Null, NEW w \in Walkers, Point(w)
    PROVE  WalkInv'
<1>1. pc[w] = "point" /\ TypeOK /\ Walking(w)
  BY DEF Point, WalkInv, Walking
<1>2. position[q] \in Nat \ {0} /\ Len(list[q]) \in Nat /\ (~ AtEnd <=> position[q] <= Len(list[q]))
  BY <1>1, QueueTypes DEF AtEnd
<1>3. ~ disturbed[w] => Undisturbed(w)
  BY <1>1 DEF WalkInv, WalkersRight
<1>4. CASE AtEnd /\ Ends(w, "NULL pointer")
  <2>1. disturbed[w]
    BY <1>1, <1>2, <1>3, <1>4 DEF Undisturbed
  <2> QED BY <2>1, <1>1, <1>4, EndKeeps
<1>5. CASE ~ AtEnd /\ ~ (AtEnd /\ Ends(w, "NULL pointer"))
  <2> DEFINE v == list[q][position[q]].info
  <2>0. ~ AtEnd
    BY <1>5
  <2>1. /\ pc' = [pc EXCEPT ![w] = "priority"] /\ pointer' = [pointer EXCEPT ![w] = v]
        /\ UNCHANGED <<queue, ended, disturbed, unseen, got>>
    BY <1>5 DEF Point, Goto
  <2>2. position[q] \in 1 .. Len(list[q])
    <3>1. position[q] <= Len(list[q])
      BY <1>2, <2>0
    <3> QED BY <3>1, <1>2
  <2>3. v \in Contents /\ v \in Values
    BY <2>2, <1>1, QueueTypes DEF Contents
  <2> HIDE DEF v
  <2>4. /\ pc'[w] = "priority" /\ pointer'[w] = v /\ unseen' = unseen
        /\ pointer' \in [Walkers -> Values \cup {Null}] /\ unseen' \in [Walkers -> SUBSET Values]
        /\ \A x \in Walkers \ {w} : pointer'[x] = pointer[x] /\ unseen'[x] = unseen[x]
        /\ list' = list /\ position' = position /\ Contents' = Contents
    BY <2>1, <2>3, <1>1 DEF TypeOK, queue, Contents
  <2>5. ASSUME ~ disturbed[w] PROVE Undisturbed(w)'
    <3>1. /\ unseen[w] \subseteq Contents
          /\ \A i \in 1 .. Len(list[q]) : i <= position[q] - 1 => list[q][i].info \notin unseen[w]
      BY <1>1, <1>3, <2>5 DEF Undisturbed, ToSee, Passed
    <3>2. ToSee(w)' = unseen[w] \ {v} /\ Passed(w)' = position[q]
      BY <2>4 DEF ToSee, Passed
    <3>3. ASSUME NEW i \in 1 .. Len(list[q]), i <= position[q]
          PROVE  list[q][i].info \notin unseen[w] \ {v}
      <4>1. i = position[q] \/ i <= position[q] - 1
        BY <3>3, <1>2
      <4> QED BY <4>1, <3>1 DEF v
    <3> QED BY <3>1, <3>2, <3>3, <2>3, <2>4, <2>2, <1>2 DEF Undisturbed
  <2> QED BY <2>1, <2>4, <2>5, <1>1, OneWalkKeeps
<1> QED BY <1>4, <1>5 DEF Point

LEMMA PriorityKeeps ==
    ASSUME WalkInv, ended = Null, NEW w \in Walkers, Priority(w)
    PROVE  WalkInv'
<1>1. pc[w] = "priority" /\ TypeOK /\ Walking(w)
  BY DEF Priority, WalkInv, Walking
<1>2. position[q] \in Nat \ {0} /\ Len(list[q]) \in Nat /\ (~ AtEnd <=> position[q] <= Len(list[q]))
  BY <1>1, QueueTypes DEF AtEnd
<1>3. ~ disturbed[w] => Undisturbed(w)
  BY <1>1 DEF WalkInv, WalkersRight
<1>4. CASE AtEnd /\ Ends(w, "exit")
  <2>1. disturbed[w]
    BY <1>1, <1>2, <1>3, <1>4 DEF Undisturbed
  <2> QED BY <2>1, <1>1, <1>4, EndKeeps
<1>5. CASE ~ AtEnd /\ ~ (AtEnd /\ Ends(w, "exit"))
  <2>1. /\ pc' = [pc EXCEPT ![w] = "use"]
        /\ UNCHANGED <<queue, pointer, ended, disturbed, unseen, got>>
    BY <1>5 DEF Priority, Goto
  <2>2. /\ pc'[w] = "use" /\ list' = list /\ position' = position /\ Contents' = Contents
        /\ pointer' \in [Walkers -> Values \cup {Null}] /\ unseen' \in [Walkers -> SUBSET Values]
    BY <2>1, <1>1 DEF TypeOK, queue, Contents
  <2>3. ~ disturbed[w] => Undisturbed(w)'
    BY <2>1, <2>2, <1>1, <1>3 DEF Undisturbed, ToSee, Passed
  <2> QED BY <2>1, <2>2, <2>3, <1>1, OneWalkKeeps
<1> QED BY <1>4, <1>5 DEF Priority

LEMMA UseKeeps ==
    ASSUME WalkInv, ended = Null, NEW w \in Walkers, Use(w)
    PROVE  WalkInv'
<1>1. pc[w] = "use" /\ TypeOK /\ Walking(w)
  BY DEF Use, WalkInv, Walking
<1>2. ~ disturbed[w] => Undisturbed(w)
  BY <1>1 DEF WalkInv, WalkersRight
<1>3. CASE pointer[w] \notin Contents /\ Ends(w, "freed memory")
  <2>1. disturbed[w]
    BY <1>1, <1>2, <1>3 DEF Undisturbed
  <2> QED BY <2>1, <1>1, <1>3, EndKeeps
<1>4. CASE pointer[w] \in Contents /\ ~ (pointer[w] \notin Contents /\ Ends(w, "freed memory"))
  <2>1. /\ pc' = [pc EXCEPT ![w] = "next"] /\ unseen' = [unseen EXCEPT ![w] = @ \ {pointer[w]}]
        /\ pointer' = [pointer EXCEPT ![w] = Null]
        /\ UNCHANGED <<queue, ended, disturbed, got>>
    BY <1>4 DEF Use, Goto
  <2>2. /\ pc'[w] = "next" /\ unseen'[w] = unseen[w] \ {pointer[w]}
        /\ pointer' \in [Walkers -> Values \cup {Null}] /\ unseen' \in [Walkers -> SUBSET Values]
        /\ \A x \in Walkers \ {w} : pointer'[x] = pointer[x] /\ unseen'[x] = unseen[x]
        /\ list' = list /\ position' = position /\ Contents' = Contents
    BY <2>1, <1>1 DEF TypeOK, queue, Contents
  <2>3. ~ disturbed[w] => Undisturbed(w)'
    BY <2>2, <1>1, <1>2 DEF Undisturbed, ToSee, Passed
  <2> QED BY <2>1, <2>2, <2>3, <1>1, OneWalkKeeps
<1> QED BY <1>3, <1>4 DEF Use

LEMMA next_elementKeeps ==
    ASSUME WalkInv, ended = Null, NEW w \in Walkers, next_element(w)
    PROVE  WalkInv'
<1>1. /\ pc[w] = "next" /\ Walking(w)
      /\ TypeOK /\ Distinct /\ GotApart /\ WalkersRight
  BY DEF next_element, WalkInv, Walking
<1>2. position[q] \in Nat \ {0} /\ Len(list[q]) \in Nat /\ (~ AtEnd <=> position[q] <= Len(list[q]))
  BY <1>1, QueueTypes DEF AtEnd
<1>3. ~ disturbed[w] => Undisturbed(w)
  BY <1>1 DEF WalkersRight
<1>4. CASE AtEnd /\ Ends(w, "exit")
  <2>1. disturbed[w]
    BY <1>1, <1>2, <1>3, <1>4 DEF Undisturbed
  <2> QED BY <2>1, <1>1, <1>4, EndKeeps
<1>5. CASE ~ (AtEnd /\ Ends(w, "exit"))
  <2>1. /\ pc' = [pc EXCEPT ![w] = "test"] /\ Q!Advance(q) /\ Disturb(Walkers \ {w})
        /\ UNCHANGED <<pointer, ended, got>>
    BY <1>5 DEF next_element, Goto
  <2>2. /\ q \in Queues /\ list' = list /\ kind' = kind /\ position[q] <= Len(list[q])
        /\ position' = [position EXCEPT ![q] = @ + 1] /\ Contents' = Contents
    BY <2>1, <1>1, QueueTypes DEF Q!Advance, Contents
  <2>3. position'[q] = position[q] + 1 /\ Q!TypeOK'
    BY <2>2, <1>1, <1>2, QueueTypes DEF TypeOK, Q!TypeOK, Queues
  <2>4. /\ disturbed' \in [Walkers -> BOOLEAN] /\ unseen' \in [Walkers -> SUBSET Values]
        /\ \A x \in Walkers \ {w} : Walking(x) => disturbed'[x] /\ unseen'[x] = {}
        /\ \A x \in Walkers : x \notin Walkers \ {w} \/ ~ Walking(x) =>
               disturbed'[x] = disturbed[x] /\ unseen'[x] = unseen[x]
    <3>1. Walkers \ {w} \in SUBSET Walkers
      OBVIOUS
    <3> QED BY <3>1, <1>1, <2>1, DisturbRight
  <2>5. pc'[w] = "test" /\ \A x \in Walkers \ {w} : pc'[x] = pc[x]
    BY <2>1, <1>1 DEF TypeOK
  <2>6. TypeOK' /\ Distinct' /\ GotApart' /\ EndsOnlyDisturbed'
    BY <2>1, <2>2, <2>3, <2>4, <1>1 DEF TypeOK, Distinct, GotApart, EndsOnlyDisturbed
  <2>7. ASSUME ~ disturbed[w] PROVE Undisturbed(w)'
    <3>1. /\ unseen[w] \subseteq Contents
          /\ \A i \in 1 .. Len(list[q]) : i <= position[q] => list[q][i].info \notin unseen[w]
      BY <1>1, <1>3, <2>7 DEF Undisturbed, ToSee, Passed
    <3>2. unseen'[w] = unseen[w]
      BY <2>4
    <3>3. pc'[w] \notin {"priority", "use", "next"}
      BY <2>5
    <3>4. ToSee(w)' = unseen[w]
      BY ONLY <3>2, <3>3 DEF ToSee
    <3>5. Passed(w)' = position[q]
      <4>1. Passed(w)' = position'[q] - 1
        BY ONLY <3>3 DEF Passed
      <4>2. position'[q] = position[q] + 1
        BY <2>3
      <4>3. position'[q] - 1 = position[q]
        BY ONLY <1>2, <4>2
      <4> QED BY ONLY <4>1, <4>3
    <3> QED BY <3>1, <3>4, <3>5, <2>2, <2>5 DEF Undisturbed
  <2>8. WalkersRight'
    <3> SUFFICES ASSUME NEW x \in Walkers
                 PROVE  /\ pc'[x] = "caller" => ~ disturbed'[x]
                        /\ disturbed'[x] \/ pc'[x] \in {"caller", "done"} => unseen'[x] = {}
                        /\ Walking(x)' /\ ~ disturbed'[x] => Undisturbed(x)'
      BY DEF WalkersRight
    <3>1. CASE x = w
      BY <3>1, <2>4, <2>5, <2>7, <1>1 DEF WalkersRight
    <3>2. CASE x # w
      BY <3>2, <2>4, <2>5, <1>1 DEF WalkersRight, Walking
    <3> QED BY <3>1, <3>2
  <2> QED BY <2>6, <2>8 DEF WalkInv
<1> QED BY <1>4, <1>5

LEMMA StutterKeeps ==
    ASSUME WalkInv, UNCHANGED vars
    PROVE  WalkInv'
<1>1. /\ UNCHANGED <<list, position, kind, pc, pointer, ended, disturbed, unseen, got>>
      /\ TypeOK /\ Distinct /\ GotApart /\ WalkersRight /\ EndsOnlyDisturbed
  BY DEF vars, WalkInv
<1>2. TypeOK' /\ Distinct' /\ GotApart' /\ EndsOnlyDisturbed'
  <2>1. Contents' = Contents
    BY <1>1 DEF Contents
  <2>2. Q!TypeOK'
    BY <1>1 DEF TypeOK, Q!TypeOK
  <2>3. TypeOK'
    BY <1>1, <2>2 DEF TypeOK
  <2>4. Distinct'
    BY <1>1 DEF Distinct
  <2>5. GotApart'
    BY <1>1, <2>1 DEF GotApart
  <2>6. EndsOnlyDisturbed'
    BY <1>1 DEF EndsOnlyDisturbed, Walking
  <2> QED BY <2>3, <2>4, <2>5, <2>6
<1>3. \A x \in Walkers : Undisturbed(x) => Undisturbed(x)'
  BY <1>1, SameWalk
<1>4. WalkersRight'
  BY <1>1, <1>3 DEF WalkersRight, Walking
<1> QED BY <1>2, <1>4 DEF WalkInv

LEMMA NextInv ==
    ASSUME WalkInv, [Next]_vars
    PROVE  WalkInv'
BY AddKeeps, RemoveKeeps, WalkKeeps, TestKeeps, PointKeeps, PriorityKeeps, UseKeeps,
   next_elementKeeps, StutterKeeps DEF Next, Loop

-----------------------------------------------------------------------------
(* The theorems *)

\* The inductive invariant: elements are in one place, and what undisturbed walks have
\* still to see lies before them.
THEOREM WalkInvariant == Spec => []WalkInv
BY InitInv, NextInv, PTL DEF Spec

\* EndsOnlyDisturbed: a walk that no other thread disturbed does not end the program.
THEOREM EndsOnlyDisturbedInvariant == Spec => []EndsOnlyDisturbed
<1>1. WalkInv => EndsOnlyDisturbed
  BY DEF WalkInv
<1> QED BY <1>1, WalkInvariant, PTL

\* SeesAll: an undisturbed walk uses every element that was there when it began.
THEOREM SeesAllInvariant == Spec => []SeesAll
<1>1. WalkInv => SeesAll
  BY DEF WalkInv, WalkersRight, SeesAll
<1> QED BY <1>1, WalkInvariant, PTL

\* TakenOnce: every element is in the queue once or with one thread.
THEOREM TakenOnceInvariant == Spec => []TakenOnce
<1>1. WalkInv => TakenOnce
  <2> SUFFICES ASSUME WalkInv PROVE Cardinality(Contents) = Len(list[q])
    BY DEF WalkInv, GotApart, TakenOnce
  <2> DEFINE n == Len(list[q])
             f == [i \in 1 .. n |-> list[q][i].info]
  <2>1. n \in Nat
    BY QueueTypes DEF WalkInv
  <2>2. f \in Bijection(1 .. n, Contents)
    BY DEF WalkInv, Distinct, Contents, Bijection, Injection, IsInjective, Surjection
  <2>3. IsFiniteSet(1 .. n) /\ Cardinality(1 .. n) = n
    BY <2>1, FS_Interval
  <2>4. Cardinality(Contents) = Cardinality(1 .. n)
    BY <2>2, <2>3, FS_Bijection DEF ExistsBijection
  <2> QED BY <2>3, <2>4
<1> QED BY <1>1, WalkInvariant, PTL

=============================================================================
