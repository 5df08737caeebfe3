--------------------------- MODULE PrioqueProofs ---------------------------
(***************************************************************************)
(* Proofs about Prioque.  A queue is a sequence of nodes that begins at    *)
(* head, follows next and ends at a nil pointer (IsList); NodesOf is that  *)
(* sequence.  Every function puts one node into one such sequence, takes   *)
(* one or all out, or moves a position (ShapeOf); copy_queue and           *)
(* merge_queues do so in a loop.  First come the pointers and their        *)
(* invariant ListInv, then what a caller sees of them, which is what       *)
(* PriorityList says.                                                      *)
(***************************************************************************)
EXTENDS Prioque, SequenceTheorems, FiniteSetTheorems, WellFoundedInduction, TLAPS

Pointer == Nodes \cup {Null}

Value == Values \cup {Null}

State == [next : [Nodes -> Pointer], info : [Nodes -> Value],
          priority : [Nodes -> Priorities \cup {Null}],
          head : [Queues -> Pointer], tail : [Queues -> Pointer],
          current : [Queues -> Pointer], previous : [Queues -> Pointer],
          queuelength : [Queues -> 0 .. Cardinality(Nodes)], kind : [Queues -> Kinds],
          live : SUBSET Nodes, ok : BOOLEAN]

Distinct(l) == \A i, j \in 1 .. Len(l) : l[i] = l[j] => i = j

\* l is what is found from the node h on.
IsList(next, h, l) ==
    /\ Distinct(l)
    /\ l = <<>> <=> h = Null
    /\ l # <<>> => l[1] = h /\ next[l[Len(l)]] = Null
    /\ \A i \in 1 .. Len(l) - 1 : next[l[i]] = l[i + 1]

\* The position of q is in l.
Placed(t, q, l) ==
    IF t.previous[q] = Null THEN t.current[q] = t.head[q]
    ELSE t.previous[q] \in Elements(l) /\ t.next[t.previous[q]] = t.current[q]

\* The queue q of the state t has the nodes l.
HasNodes(t, q, l) ==
    /\ IsList(t.next, t.head[q], l)
    /\ t.queuelength[q] = Len(l)
    /\ l # <<>> /\ t.kind[q].tag_only => t.tail[q] \in {l[Len(l)], Null}
    /\ Placed(t, q, l)

\* The queues of the state t have the nodes L, and there are no others in use.
Shape(t, L) ==
    /\ \A q \in Queues : HasNodes(t, q, L[q])
    /\ \A p, q \in Queues : p # q => Elements(L[p]) \cap Elements(L[q]) = {}
    /\ t.live = UNION {Elements(L[q]) : q \in Queues}
    /\ \A n \in t.live : t.priority[n] \in Priorities

NodesIn(t) == [q \in Queues |-> NodesOf(t, q)]

Lawful(t) ==
    /\ t \in State
    /\ t.ok => NodesIn(t) \in [Queues -> Seq(Nodes)] /\ Shape(t, NodesIn(t))

\* The inductive invariant.
ListInv == Lawful(s)

-----------------------------------------------------------------------------
(* A queue is one sequence of nodes *)

\* Induction over the numbers up to n, as a statement about a set.
LEMMA UpTo ==
    ASSUME NEW n \in Nat, NEW K, 0 \in K,
           \A k \in 0 .. n : k > 0 /\ k - 1 \in K => k \in K
    PROVE  \A k \in 0 .. n : k \in K
<1> SUFFICES ASSUME NEW x \in 0 .. n, x \notin K PROVE FALSE OBVIOUS
<1> DEFINE missing == {k \in 0 .. n : k \notin K}
<1>1. missing \in SUBSET Nat /\ missing # {}
  OBVIOUS
<1>2. PICK m \in missing : \A k \in missing : ~ (<<k, m>> \in OpToRel(<, Nat))
  BY <1>1, NatLessThanWellFounded, WFMin
<1>3. \A k \in missing : ~ (k < m)
  BY <1>1, <1>2 DEF OpToRel
<1>4. m \in 0 .. n /\ m \notin K /\ m > 0 /\ m - 1 \in 0 .. n
  OBVIOUS
<1> QED BY <1>3, <1>4

LEMMA NodesSize == IsFiniteSet(Nodes) /\ Cardinality(Nodes) \in Nat
BY NodesAssumption, FS_CardinalityType

LEMMA DistinctSize ==
    ASSUME NEW l \in Seq(Nodes), Distinct(l)
    PROVE  /\ IsFiniteSet(Elements(l)) /\ Elements(l) \subseteq Nodes
           /\ Cardinality(Elements(l)) = Len(l)
           /\ \A S \in SUBSET Nodes : Elements(l) \subseteq S => Len(l) <= Cardinality(S)
<1>1. Len(l) \in Nat /\ \A i \in 1 .. Len(l) : l[i] \in Nodes
  OBVIOUS
<1>2. Elements(l) \subseteq Nodes
  BY <1>1 DEF Elements
<1>3. IsFiniteSet(Elements(l))
  BY <1>2, NodesSize, FS_Subset
<1> DEFINE f == [i \in 1 .. Len(l) |-> l[i]]
<1>4. f \in Bijection(1 .. Len(l), Elements(l))
  BY <1>1 DEF Bijection, Injection, Surjection, IsInjective, Distinct, Elements
<1>5. IsFiniteSet(1 .. Len(l)) /\ Cardinality(1 .. Len(l)) = Len(l)
  <2> DEFINE n == Len(l)
  <2>1. n \in Nat /\ n \in Int /\ 1 \in Int
    BY <1>1
  <2> HIDE DEF n
  <2>2. IsFiniteSet(1 .. n) /\ Cardinality(1 .. n) = IF 1 > n THEN 0 ELSE n - 1 + 1
    BY <2>1, FS_Interval
  <2>3. (IF 1 > n THEN 0 ELSE n - 1 + 1) = n
    BY <2>1
  <2> QED BY <2>2, <2>3 DEF n
<1>6. Cardinality(Elements(l)) = Len(l)
  BY <1>4, <1>5, FS_Bijection DEF ExistsBijection
<1>7. ASSUME NEW S \in SUBSET Nodes, Elements(l) \subseteq S PROVE Len(l) <= Cardinality(S)
  BY <1>6, <1>7, NodesSize, FS_Subset
<1> QED BY <1>2, <1>3, <1>6, <1>7

\* One row of `from` in NodesOf after another.
Row(next, r) ==
    [n \in Nodes |-> IF next[n] = Null THEN <<n>> ELSE <<n>> \o r[next[n]]]

LEMMA RowsExist ==
    ASSUME NEW next, NEW C \in Nat
    PROVE  \E f : f = [k \in 0 .. C |-> IF k = 0 THEN [n \in Nodes |-> <<>>]
                                        ELSE Row(next, f[k - 1])]
<1> DEFINE Body(f, m) == [k \in 0 .. m |-> IF k = 0 THEN [n \in Nodes |-> <<>>]
                                           ELSE Row(next, f[k - 1])]
           K == {m \in 0 .. C : \E f : f = Body(f, m)}
<1>1. 0 \in K
  <2> DEFINE f == [k \in 0 .. 0 |-> [n \in Nodes |-> <<>>]]
  <2>1. f = Body(f, 0)
    OBVIOUS
  <2>2. 0 \in 0 .. C
    OBVIOUS
  <2> HIDE DEF f, Body
  <2> QED BY <2>1, <2>2
<1>2. ASSUME NEW m \in 0 .. C, m > 0, m - 1 \in K PROVE m \in K
  <2>1. PICK f : f = Body(f, m - 1)
    BY <1>2
  <2> DEFINE last == Row(next, f[m - 1])
             g == [k \in 0 .. m |-> IF k < m THEN f[k] ELSE last]
  <2>2. ASSUME NEW k \in 0 .. m PROVE g[k] = Body(g, m)[k]
    <3>1. CASE k = 0
      <4>1. g[k] = f[0] /\ f[0] = [n \in Nodes |-> <<>>]
        BY <3>1, <1>2, <2>1
      <4> QED BY <4>1, <3>1
    <3>2. CASE k # 0 /\ k < m
      <4>1. k \in 0 .. m - 1 /\ k - 1 \in 0 .. m /\ k - 1 < m
        BY <3>2
      <4>2. f[k] = Row(next, f[k - 1])
        BY <2>1, <3>2, <4>1
      <4> HIDE DEF last
      <4>3. g[k] = f[k] /\ g[k - 1] = f[k - 1]
        BY <3>2, <4>1
      <4> QED BY <4>2, <4>3, <3>2
    <3>3. CASE k = m
      <4>1. g[k] = last /\ g[k - 1] = f[k - 1]
        BY <3>3, <1>2
      <4>2. Body(g, m)[k] = Row(next, g[k - 1])
        BY <3>3, <1>2
      <4> QED BY <4>1, <4>2, <3>3
    <3> QED BY <3>1, <3>2, <3>3
  <2>3. g = Body(g, m)
    BY <2>2
  <2> QED BY <2>3
<1> HIDE DEF K
<1>3. C \in K
  <2>1. \A m \in 0 .. C : m \in K
    BY <1>1, <1>2, UpTo
  <2> QED BY <2>1
<1> QED BY <1>3 DEF K

LEMMA NodesOfList ==
    ASSUME NEW t, NEW q, NEW l \in Seq(Nodes), IsList(t.next, t.head[q], l)
    PROVE  NodesOf(t, q) = l
<1> DEFINE C == Cardinality(Nodes)
           Body(f) == [k \in 0 .. C |->
                         [n \in Nodes |-> IF k = 0 THEN <<>>
                                          ELSE IF t.next[n] = Null THEN <<n>>
                                          ELSE <<n>> \o f[k - 1][t.next[n]]]]
           from == CHOOSE f : f = Body(f)
<1>1. \E f : f = Body(f)
  <2>1. PICK f : f = [k \in 0 .. C |-> IF k = 0 THEN [n \in Nodes |-> <<>>]
                                       ELSE Row(t.next, f[k - 1])]
    BY NodesSize, RowsExist
  <2>2. ASSUME NEW k \in 0 .. C PROVE f[k] = Body(f)[k]
    <3>1. CASE k = 0
      BY <2>1, <3>1
    <3>2. CASE k # 0
      <4>1. f[k] = Row(t.next, f[k - 1])
        BY <2>1, <3>2
      <4> QED BY <4>1, <3>2 DEF Row
    <3> QED BY <3>1, <3>2
  <2>3. f = Body(f)
    BY <2>1, <2>2
  <2> QED BY <2>3
<1>2. from = Body(from)
  BY <1>1
<1>3. NodesOf(t, q) = IF t.head[q] = Null THEN <<>> ELSE from[C][t.head[q]]
  BY Zenon DEF NodesOf
<1>4. Len(l) \in Nat /\ C \in Nat /\ Len(l) <= C /\ \A j \in 1 .. Len(l) : l[j] \in Nodes
  BY DistinctSize, NodesSize DEF IsList
<1>5. ASSUME NEW k \in 0 .. C, NEW n \in Nodes
      PROVE  from[k][n] = IF k = 0 THEN <<>>
                          ELSE IF t.next[n] = Null THEN <<n>>
                          ELSE <<n>> \o from[k - 1][t.next[n]]
  <2> HIDE DEF from
  <2>1. from[k] = Body(from)[k]
    BY <1>2, Zenon
  <2> QED BY <2>1
<1> HIDE DEF from, C
<1> DEFINE K == {k \in 0 .. C : \A j \in 1 .. Len(l) :
                    Len(l) - j < k => from[k][l[j]] = SubSeq(l, j, Len(l))}
<1>6. 0 \in K
  BY <1>4
<1>7. ASSUME NEW k \in 0 .. C, k > 0, k - 1 \in K PROVE k \in K
  <2> SUFFICES ASSUME NEW j \in 1 .. Len(l), Len(l) - j < k
               PROVE  from[k][l[j]] = SubSeq(l, j, Len(l))
    OBVIOUS
  <2>1. l[j] \in Nodes /\ Len(l) \in j .. Len(l)
    BY <1>4
  <2>2. SubSeq(l, j, Len(l)) = <<l[j]>> \o SubSeq(l, j + 1, Len(l))
    BY <2>1, SubSeqRecursiveFirst
  <2>5. from[k][l[j]] = IF t.next[l[j]] = Null THEN <<l[j]>>
                        ELSE <<l[j]>> \o from[k - 1][t.next[l[j]]]
    <3>1. k # 0
      BY <1>7
    <3> QED BY <1>5, <2>1, <3>1, Zenon
  <2>3. CASE j = Len(l)
    <3>1. t.next[l[j]] = Null
      BY <2>3, <1>4 DEF IsList
    <3>2. SubSeq(l, j + 1, Len(l)) = <<>>
      BY <2>3, <1>4, SubSeqEmpty
    <3>3. from[k][l[j]] = <<l[j]>>
      BY <2>5, <3>1, Zenon
    <3>4. <<l[j]>> \in Seq(Nodes)
      BY <2>1
    <3> QED BY <2>2, <3>2, <3>3, <3>4, ConcatEmptySeq
  <2>4. CASE j # Len(l)
    <3>1. j \in 1 .. Len(l) - 1 /\ j + 1 \in 1 .. Len(l) /\ Len(l) - (j + 1) < k - 1
      BY <2>4, <1>4
    <3>2. t.next[l[j]] = l[j + 1] /\ l[j + 1] # Null
      BY <3>1, <1>4, NodesAssumption DEF IsList
    <3>3. from[k - 1][l[j + 1]] = SubSeq(l, j + 1, Len(l))
      BY <3>1, <1>7
    <3> QED BY <2>2, <2>5, <3>2, <3>3, Zenon
  <2> QED BY <2>3, <2>4
<1>8. \A k \in 0 .. C : k \in K
  <2> HIDE DEF K
  <2> QED BY <1>4, <1>6, <1>7, UpTo
<1>9. CASE l = <<>>
  BY <1>9, <1>3 DEF IsList
<1>10. CASE l # <<>>
  <2>1. 1 \in 1 .. Len(l) /\ t.head[q] = l[1] /\ t.head[q] # Null
    BY <1>10, EmptySeq DEF IsList
  <2>2. C \in K /\ Len(l) - 1 < C
    BY <1>4, <1>8, <2>1
  <2>3. from[C][l[1]] = SubSeq(l, 1, Len(l))
    BY <2>1, <2>2
  <2> QED BY <1>3, <2>1, <2>3, SubSeqFull
<1> QED BY <1>9, <1>10

-----------------------------------------------------------------------------
(* Putting a node in and taking one out *)

LEMMA FunctionSeq ==
    ASSUME NEW S, NEW m \in Nat, NEW f \in [1 .. m -> S]
    PROVE  f \in Seq(S) /\ Len(f) = m
<1>1. f \in Seq(S)
  BY SeqDef
<1>2. DOMAIN f = 1 .. Len(f) /\ Len(f) \in Nat
  BY <1>1, LenProperties
<1> QED BY <1>1, <1>2

\* l with n behind its first k.
Inserting(l, k, n) ==
    [i \in 1 .. Len(l) + 1 |-> IF i <= k THEN l[i] ELSE IF i = k + 1 THEN n ELSE l[i - 1]]

\* l without its k-th.
Without(l, k) == [i \in 1 .. Len(l) - 1 |-> IF i < k THEN l[i] ELSE l[i + 1]]

LEMMA InsertingSeq ==
    ASSUME NEW S, NEW l \in Seq(S), NEW n \in S, NEW k \in 0 .. Len(l)
    PROVE  /\ Inserting(l, k, n) \in Seq(S) /\ Len(Inserting(l, k, n)) = Len(l) + 1
           /\ Inserting(l, k, n) # <<>>
           /\ Elements(Inserting(l, k, n)) = Elements(l) \cup {n}
           /\ \A i \in 1 .. Len(l) + 1 :
                 Inserting(l, k, n)[i] =
                     IF i <= k THEN l[i] ELSE IF i = k + 1 THEN n ELSE l[i - 1]
<1> DEFINE m == Inserting(l, k, n)
<1>1. Len(l) \in Nat /\ \A i \in 1 .. Len(l) : l[i] \in S
  OBVIOUS
<1>2. \A i \in 1 .. Len(l) + 1 :
         m[i] = IF i <= k THEN l[i] ELSE IF i = k + 1 THEN n ELSE l[i - 1]
  BY DEF Inserting
<1>3. m \in [1 .. Len(l) + 1 -> S]
  BY <1>1 DEF Inserting
<1>4. m \in Seq(S) /\ Len(m) = Len(l) + 1
  BY <1>1, <1>3, FunctionSeq
<1>5. m # <<>>
  BY <1>1, <1>4, EmptySeq
<1> HIDE DEF m
<1>6. \A i \in 1 .. Len(l) : \E j \in 1 .. Len(m) : m[j] = l[i]
  <2> TAKE i \in 1 .. Len(l)
  <2> DEFINE j == IF i <= k THEN i ELSE i + 1
  <2>1. j \in 1 .. Len(m) /\ m[j] = l[i]
    BY <1>1, <1>2, <1>4
  <2> QED BY <2>1
<1>7. k + 1 \in 1 .. Len(m) /\ m[k + 1] = n
  BY <1>1, <1>2, <1>4
<1>8. \A i \in 1 .. Len(m) : m[i] = n \/ \E j \in 1 .. Len(l) : m[i] = l[j]
  <2> TAKE i \in 1 .. Len(m)
  <2>1. CASE i <= k
    BY <2>1, <1>1, <1>2, <1>4
  <2>2. CASE i = k + 1
    BY <2>2, <1>7
  <2>3. CASE i > k + 1
    <3>1. i - 1 \in 1 .. Len(l) /\ m[i] = l[i - 1]
      BY <2>3, <1>1, <1>2, <1>4
    <3> QED BY <3>1
  <2> QED BY <2>1, <2>2, <2>3, <1>1, <1>4
<1>9. Elements(m) = Elements(l) \cup {n}
  BY <1>6, <1>7, <1>8 DEF Elements
<1> QED BY <1>2, <1>4, <1>5, <1>9 DEF m

LEMMA WithoutSeq ==
    ASSUME NEW S, NEW l \in Seq(S), NEW k \in 1 .. Len(l)
    PROVE  /\ Without(l, k) \in Seq(S) /\ Len(Without(l, k)) = Len(l) - 1
           /\ \A i \in 1 .. Len(l) - 1 : Without(l, k)[i] = IF i < k THEN l[i] ELSE l[i + 1]
           /\ Distinct(l) => Elements(Without(l, k)) = Elements(l) \ {l[k]}
<1> DEFINE m == Without(l, k)
<1>1. Len(l) \in Nat /\ Len(l) - 1 \in Nat /\ \A i \in 1 .. Len(l) : l[i] \in S
  OBVIOUS
<1>2. \A i \in 1 .. Len(l) - 1 : m[i] = IF i < k THEN l[i] ELSE l[i + 1]
  BY DEF Without
<1>3. m \in [1 .. Len(l) - 1 -> S]
  BY <1>1 DEF Without
<1>4. m \in Seq(S) /\ Len(m) = Len(l) - 1
  BY <1>1, <1>3, FunctionSeq
<1> HIDE DEF m
<1>5. ASSUME Distinct(l) PROVE Elements(m) = Elements(l) \ {l[k]}
  <2>1. \A i \in 1 .. Len(l) : i # k => \E j \in 1 .. Len(m) : m[j] = l[i]
    <3> TAKE i \in 1 .. Len(l)
    <3> HAVE i # k
    <3> DEFINE j == IF i < k THEN i ELSE i - 1
    <3>1. j \in 1 .. Len(m) /\ m[j] = l[i]
      BY <1>1, <1>2, <1>4
    <3> QED BY <3>1
  <2>2. \A i \in 1 .. Len(m) : \E j \in 1 .. Len(l) : j # k /\ m[i] = l[j]
    <3> TAKE i \in 1 .. Len(m)
    <3> DEFINE j == IF i < k THEN i ELSE i + 1
    <3>1. j \in 1 .. Len(l) /\ j # k /\ m[i] = l[j]
      BY <1>1, <1>2, <1>4
    <3> QED BY <3>1
  <2>3. \A i \in 1 .. Len(l) : l[i] = l[k] => i = k
    BY <1>5 DEF Distinct
  <2>4. ASSUME NEW x \in Elements(m) PROVE x \in Elements(l) \ {l[k]}
    <3>1. PICK i \in 1 .. Len(m) : x = m[i]
      BY <2>4 DEF Elements
    <3>2. PICK j \in 1 .. Len(l) : j # k /\ x = l[j]
      BY <2>2, <3>1
    <3> QED BY <2>3, <3>2 DEF Elements
  <2>5. ASSUME NEW x \in Elements(l), x # l[k] PROVE x \in Elements(m)
    <3>1. PICK i \in 1 .. Len(l) : x = l[i] /\ i # k
      BY <2>5 DEF Elements
    <3>2. PICK j \in 1 .. Len(m) : m[j] = x
      BY <2>1, <3>1
    <3> QED BY <3>2 DEF Elements
  <2> QED BY <2>4, <2>5
<1> QED BY <1>2, <1>4, <1>5 DEF m

\* The node n is linked in behind the first k.
LEMMA InsertList ==
    ASSUME NEW next, NEW h, NEW l \in Seq(Nodes), IsList(next, h, l), NEW k \in 0 .. Len(l),
           NEW n \in Nodes, n \notin Elements(l), NEW g,
           g[n] = IF k = Len(l) THEN Null ELSE l[k + 1],
           k > 0 => g[l[k]] = n,
           \A i \in 1 .. Len(l) : i # k => g[l[i]] = next[l[i]]
    PROVE  IsList(g, IF k = 0 THEN n ELSE h, Inserting(l, k, n))
<1> DEFINE m == Inserting(l, k, n)
<1>1. /\ m \in Seq(Nodes) /\ Len(m) = Len(l) + 1 /\ m # <<>> /\ Len(l) \in Nat
      /\ \A i \in 1 .. Len(l) + 1 : m[i] = IF i <= k THEN l[i] ELSE IF i = k + 1 THEN n ELSE l[i - 1]
  <2>1. /\ Inserting(l, k, n) \in Seq(Nodes) /\ Len(Inserting(l, k, n)) = Len(l) + 1
        /\ Inserting(l, k, n) # <<>>
        /\ \A i \in 1 .. Len(l) + 1 :
              Inserting(l, k, n)[i] = IF i <= k THEN l[i] ELSE IF i = k + 1 THEN n ELSE l[i - 1]
    BY InsertingSeq
  <2> QED BY <2>1
<1>2. \A i \in 1 .. Len(l) : l[i] # n
  BY DEF Elements
<1> HIDE DEF m
<1>3. Distinct(m)
  <2> SUFFICES ASSUME NEW i \in 1 .. Len(m), NEW j \in 1 .. Len(m), m[i] = m[j], i < j PROVE FALSE
    BY <1>1 DEF Distinct
  <2> DEFINE at(x) == IF x <= k THEN x ELSE x - 1
  <2>3. \A x \in 1 .. Len(m) : x # k + 1 =>
           at(x) \in 1 .. Len(l) /\ m[x] = l[at(x)] /\ m[x] # n
    BY <1>1, <1>2
  <2>1. i # k + 1 /\ j # k + 1
    BY <1>1, <2>3
  <2>2. at(i) \in 1 .. Len(l) /\ at(j) \in 1 .. Len(l) /\ m[i] = l[at(i)] /\ m[j] = l[at(j)] /\ at(i) # at(j)
    BY <1>1, <2>1, <2>3
  <2>4. \A a, b \in 1 .. Len(l) : l[a] = l[b] => a = b
    BY DEF IsList, Distinct
  <2> HIDE DEF at
  <2> QED BY <2>2, <2>4
<1>4. m[1] = IF k = 0 THEN n ELSE h
  <2>1. CASE k = 0
    BY <2>1, <1>1
  <2>2. CASE k # 0
    <3>1. l # <<>> /\ m[1] = l[1]
      BY <2>2, <1>1, EmptySeq
    <3> QED BY <3>1, <2>2 DEF IsList
  <2> QED BY <2>1, <2>2
<1>5. g[m[Len(m)]] = Null
  <2>1. CASE k = Len(l)
    BY <2>1, <1>1
  <2>2. CASE k # Len(l)
    <3>1. m[Len(m)] = l[Len(l)] /\ Len(l) \in 1 .. Len(l) /\ l # <<>>
      BY <2>2, <1>1, EmptySeq
    <3> QED BY <3>1, <2>2 DEF IsList
  <2> QED BY <2>1, <2>2
<1>6. ASSUME NEW i \in 1 .. Len(m) - 1 PROVE g[m[i]] = m[i + 1]
  <2>1. CASE i < k
    <3>1. i \in 1 .. Len(l) - 1 /\ m[i] = l[i] /\ m[i + 1] = l[i + 1]
      BY <2>1, <1>1
    <3> QED BY <3>1, <2>1 DEF IsList
  <2>2. CASE i = k
    BY <2>2, <1>1
  <2>3. CASE i = k + 1
    BY <2>3, <1>1
  <2>4. CASE i > k + 1
    <3>0. i \in 1 .. Len(l) /\ i + 1 \in 1 .. Len(l) + 1 /\ ~ i <= k /\ ~ i + 1 <= k /\ i + 1 # k + 1
      BY <2>4, <1>1
    <3>1. i - 1 \in 1 .. Len(l) - 1 /\ m[i] = l[i - 1] /\ m[i + 1] = l[i] /\ i - 1 # k
      <4>1. m[i] = l[i - 1]
        BY <3>0, <2>4, <1>1
      <4>2. m[i + 1] = l[(i + 1) - 1]
        BY <3>0, <1>1, Zenon
      <4> QED BY <4>1, <4>2, <2>4, <3>0
    <3>2. next[l[i - 1]] = l[i]
      <4> DEFINE j == i - 1
      <4>1. next[l[j]] = l[j + 1]
        BY <3>1 DEF IsList
      <4> QED BY <4>1, <1>1
    <3>3. g[l[i - 1]] = next[l[i - 1]]
      BY <3>1, <1>1
    <3> QED BY <3>1, <3>2, <3>3, Zenon
  <2> QED BY <2>1, <2>2, <2>3, <2>4, <1>1
<1>7. (IF k = 0 THEN n ELSE h) # Null
  BY <1>1, <1>4, NodesAssumption, ElementOfSeq
<1> QED BY <1>1, <1>3, <1>4, <1>5, <1>6, <1>7 DEF IsList, m

\* The k-th node is taken out.
LEMMA WithoutList ==
    ASSUME NEW next, NEW h, NEW l \in Seq(Nodes), IsList(next, h, l), NEW k \in 1 .. Len(l), NEW g,
           k > 1 => g[l[k - 1]] = next[l[k]],
           \A i \in 1 .. Len(l) : i # k /\ i # k - 1 => g[l[i]] = next[l[i]]
    PROVE  IsList(g, IF k = 1 THEN next[h] ELSE h, Without(l, k))
<1> DEFINE m == Without(l, k)
<1>1. /\ m \in Seq(Nodes) /\ Len(m) = Len(l) - 1 /\ Len(l) \in Nat /\ l # <<>>
      /\ \A i \in 1 .. Len(l) - 1 : m[i] = IF i < k THEN l[i] ELSE l[i + 1]
  BY WithoutSeq, EmptySeq
<1> HIDE DEF m
<1>2. Distinct(m)
  <2> SUFFICES ASSUME NEW i \in 1 .. Len(m), NEW j \in 1 .. Len(m), m[i] = m[j], i < j PROVE FALSE
    BY <1>1 DEF Distinct
  <2> DEFINE at(x) == IF x < k THEN x ELSE x + 1
  <2>1. at(i) \in 1 .. Len(l) /\ at(j) \in 1 .. Len(l) /\ m[i] = l[at(i)] /\ m[j] = l[at(j)] /\ at(i) # at(j)
    BY <1>1
  <2>2. \A a, b \in 1 .. Len(l) : l[a] = l[b] => a = b
    BY DEF IsList, Distinct
  <2> HIDE DEF at
  <2> QED BY <2>1, <2>2
<1>3. /\ l[1] = h /\ next[l[Len(l)]] = Null
      /\ \A i \in 1 .. Len(l) - 1 : next[l[i]] = l[i + 1]
  BY <1>1 DEF IsList
<1>4. CASE Len(l) = 1
  <2>1. m = <<>> /\ k = 1 /\ next[h] = Null
    BY <1>4, <1>1, <1>3, EmptySeq
  <2>2. Len(<<>>) = 0 /\ 1 .. 0 - 1 = {}
    OBVIOUS
  <2> QED BY <2>1, <2>2, <1>2 DEF IsList, m
<1>5. CASE Len(l) # 1
  <2>1. m # <<>> /\ 1 \in 1 .. Len(l) - 1
    BY <1>5, <1>1, EmptySeq
  <2>2. m[1] = IF k = 1 THEN next[h] ELSE h
    BY <2>1, <1>1, <1>3
  <2>3. g[m[Len(m)]] = Null
    <3>1. CASE k = Len(l)
      <4>1. k > 1 /\ m[Len(m)] = l[k - 1]
        BY <3>1, <1>1, <2>1
      <4>2. next[l[k]] = Null
        BY <3>1, <1>3
      <4> QED BY <4>1, <4>2
    <3>2. CASE k # Len(l)
      <4>1. m[Len(m)] = l[Len(l)]
        BY <3>2, <1>1, <2>1
      <4>2. Len(l) \in 1 .. Len(l) /\ Len(l) # k /\ Len(l) # k - 1
        BY <3>2, <1>1, <1>5
      <4>3. g[l[Len(l)]] = next[l[Len(l)]]
        BY <4>2
      <4> QED BY <4>1, <4>3, <1>3
    <3> QED BY <3>1, <3>2
  <2>4. ASSUME NEW i \in 1 .. Len(m) - 1 PROVE g[m[i]] = m[i + 1]
    <3>1. i \in 1 .. Len(l) - 1 /\ i + 1 \in 1 .. Len(l) - 1
      BY <1>1
    <3>2. CASE i < k - 1
      <4>1. m[i] = l[i] /\ m[i + 1] = l[i + 1] /\ i # k /\ i # k - 1 /\ i \in 1 .. Len(l)
        BY <3>1, <3>2, <1>1
      <4>2. g[l[i]] = next[l[i]] /\ next[l[i]] = l[i + 1]
        BY <4>1, <3>1, <1>3
      <4> QED BY <4>1, <4>2
    <3>3. CASE i = k - 1
      <4>1. k > 1 /\ m[i] = l[k - 1] /\ m[i + 1] = l[k + 1] /\ k \in 1 .. Len(l) - 1
        BY <3>1, <3>3, <1>1
      <4> QED BY <4>1, <1>3
    <3>4. CASE i > k - 1
      <4> DEFINE j == i + 1
      <4>1. m[i] = l[j] /\ m[i + 1] = l[j + 1] /\ j \in 1 .. Len(l) - 1 /\ j # k /\ j # k - 1
        BY <3>1, <3>4, <1>1
      <4> HIDE DEF j
      <4> QED BY <4>1, <1>3
    <3> QED BY <3>1, <3>2, <3>3, <3>4, <1>1
  <2>5. (IF k = 1 THEN next[h] ELSE h) # Null
    BY <1>1, <2>1, <2>2, NodesAssumption, ElementOfSeq
  <2> QED BY <1>1, <1>2, <2>1, <2>2, <2>3, <2>4, <2>5 DEF IsList, m
<1> QED BY <1>4, <1>5

-----------------------------------------------------------------------------
(* Every queue but one as it was *)

SameQueue(t, u, q) ==
    /\ u.head[q] = t.head[q] /\ u.tail[q] = t.tail[q] /\ u.current[q] = t.current[q]
    /\ u.previous[q] = t.previous[q] /\ u.queuelength[q] = t.queuelength[q]
    /\ u.kind[q] = t.kind[q]

LEMMA HasNodesSame ==
    ASSUME NEW t, NEW u, NEW q, NEW l \in Seq(Nodes), HasNodes(t, q, l), SameQueue(t, u, q),
           \A n \in Elements(l) : u.next[n] = t.next[n]
    PROVE  HasNodes(u, q, l)
<1>1. Len(l) \in Nat /\ \A i \in 1 .. Len(l) : l[i] \in Elements(l)
  BY DEF Elements
<1>2. l # <<>> => Len(l) \in 1 .. Len(l)
  BY EmptySeq
<1>3. IsList(u.next, u.head[q], l)
  <2>1. IsList(t.next, t.head[q], l) /\ u.head[q] = t.head[q]
    BY DEF HasNodes, SameQueue
  <2>2. l # <<>> => u.next[l[Len(l)]] = Null
    BY <1>1, <1>2, <2>1 DEF IsList
  <2>3. \A i \in 1 .. Len(l) - 1 : u.next[l[i]] = l[i + 1]
    BY <1>1, <2>1 DEF IsList
  <2> QED BY <2>1, <2>2, <2>3 DEF IsList
<1> QED BY <1>3 DEF HasNodes, SameQueue, Placed

\* The queue q has the nodes l now, the others what they had.
LEMMA ShapeOf ==
    ASSUME NEW t, NEW u, NEW L \in [Queues -> Seq(Nodes)], Shape(t, L),
           NEW q \in Queues, NEW l \in Seq(Nodes), HasNodes(u, q, l),
           \A p \in Queues : p # q => SameQueue(t, u, p),
           \A n \in t.live : n \notin Elements(L[q]) =>
                u.next[n] = t.next[n] /\ u.priority[n] = t.priority[n] /\ n \notin Elements(l),
           u.live = (t.live \ Elements(L[q])) \cup Elements(l),
           \A n \in Elements(l) : u.priority[n] \in Priorities
    PROVE  Shape(u, [L EXCEPT ![q] = l])
<1> DEFINE M == [L EXCEPT ![q] = l]
<1>1. M[q] = l /\ \A p \in Queues : p # q => M[p] = L[p]
  OBVIOUS
<1>2. ASSUME NEW p \in Queues, p # q
      PROVE  /\ Elements(L[p]) \subseteq t.live /\ Elements(L[p]) \cap Elements(L[q]) = {}
             /\ Elements(L[p]) \cap Elements(l) = {}
  <2>1. Elements(L[p]) \subseteq t.live /\ Elements(L[p]) \cap Elements(L[q]) = {}
    BY <1>2 DEF Shape
  <2> QED BY <2>1
<1>3. ASSUME NEW p \in Queues PROVE HasNodes(u, p, M[p])
  <2>1. CASE p = q
    BY <2>1, <1>1
  <2>2. CASE p # q
    <3>1. HasNodes(t, p, L[p]) /\ SameQueue(t, u, p) /\ L[p] \in Seq(Nodes)
      BY <2>2 DEF Shape
    <3>2. \A n \in Elements(L[p]) : u.next[n] = t.next[n]
      BY <2>2, <1>2
    <3>3. HasNodes(u, p, L[p])
      BY <3>1, <3>2, HasNodesSame
    <3> QED BY <3>3, <2>2, <1>1
  <2> QED BY <2>1, <2>2
<1>4. ASSUME NEW p \in Queues, NEW r \in Queues, p # r
      PROVE  Elements(M[p]) \cap Elements(M[r]) = {}
  <2>1. CASE p = q
    BY <2>1, <1>1, <1>2, <1>4
  <2>2. CASE r = q
    BY <2>2, <1>1, <1>2, <1>4
  <2>3. CASE p # q /\ r # q
    BY <2>3, <1>1, <1>4 DEF Shape
  <2> QED BY <2>1, <2>2, <2>3
<1> HIDE DEF M
<1>5. u.live = UNION {Elements(M[p]) : p \in Queues}
  <2>1. t.live = UNION {Elements(L[p]) : p \in Queues}
    BY DEF Shape
  <2>2. ASSUME NEW n \in u.live PROVE \E p \in Queues : n \in Elements(M[p])
    <3>1. CASE n \in Elements(l)
      BY <3>1, <1>1
    <3>2. CASE n \in t.live /\ n \notin Elements(L[q])
      <4>1. PICK p \in Queues : n \in Elements(L[p])
        BY <3>2, <2>1
      <4> QED BY <4>1, <3>2, <1>1
    <3> QED BY <2>2, <3>1, <3>2
  <2>3. ASSUME NEW p \in Queues, NEW n \in Elements(M[p]) PROVE n \in u.live
    <3>1. CASE p = q
      BY <3>1, <1>1, <2>3
    <3>2. CASE p # q
      BY <3>2, <1>1, <1>2, <2>3
    <3> QED BY <3>1, <3>2
  <2> QED BY <2>2, <2>3
<1>6. \A n \in u.live : u.priority[n] \in Priorities
  BY DEF Shape
<1> QED BY <1>3, <1>4, <1>5, <1>6 DEF Shape, M

\* What Shape says of one queue.
LEMMA ShapeQueue ==
    ASSUME NEW t \in State, NEW L \in [Queues -> Seq(Nodes)], Shape(t, L), NEW q \in Queues
    PROVE  /\ L[q] \in Seq(Nodes) /\ Len(L[q]) \in Nat /\ HasNodes(t, q, L[q])
           /\ NodesOf(t, q) = L[q]
           /\ Elements(L[q]) \subseteq t.live /\ Distinct(L[q])
           /\ IsList(t.next, t.head[q], L[q]) /\ t.queuelength[q] = Len(L[q])
           /\ \A i \in 1 .. Len(L[q]) : L[q][i] \in Nodes /\ L[q][i] \in Elements(L[q])
           /\ \A i \in 1 .. Len(L[q]) : t.priority[L[q][i]] \in Priorities
<1>1. L[q] \in Seq(Nodes) /\ HasNodes(t, q, L[q]) /\ Elements(L[q]) \subseteq t.live
  BY DEF Shape
<1>2. Len(L[q]) \in Nat /\ \A i \in 1 .. Len(L[q]) : L[q][i] \in Nodes /\ L[q][i] \in Elements(L[q])
  BY <1>1 DEF Elements
<1>3. \A i \in 1 .. Len(L[q]) : t.priority[L[q][i]] \in Priorities
  BY <1>1, <1>2 DEF Shape
<1>4. IsList(t.next, t.head[q], L[q]) /\ Distinct(L[q]) /\ t.queuelength[q] = Len(L[q])
  BY <1>1 DEF HasNodes, IsList
<1>5. NodesOf(t, q) = L[q]
  BY <1>1, <1>4, NodesOfList
<1> QED BY <1>1, <1>2, <1>3, <1>4, <1>5

\* A free node, when there is one, is what malloc gives.
LEMMA FirstFree ==
    ASSUME NEW live \in SUBSET Nodes, live # Nodes
    PROVE  First(Nodes \ live) \in Nodes /\ First(Nodes \ live) \notin live
<1> DEFINE S == Nodes \ live
<1>1. S \in SUBSET Nat /\ S # {}
  BY NodesAssumption
<1>2. PICK x \in S : \A y \in S : ~ (<<y, x>> \in OpToRel(<, Nat))
  BY <1>1, NatLessThanWellFounded, WFMin
<1>3. \A y \in S : x <= y
  <2>1. TAKE y \in S
  <2>2. y \in Nat /\ x \in Nat
    BY <1>1
  <2>3. ~ (y < x)
    BY <1>2, <2>2 DEF OpToRel
  <2> QED BY <2>2, <2>3
<1> QED BY <1>3 DEF First

-----------------------------------------------------------------------------
(* Functions that only move a position *)

LEMMA RewoundFields ==
    ASSUME NEW t \in State, NEW q \in Queues
    PROVE  LET u == Rewound(t, q) IN
           /\ u \in State
           /\ u.next = t.next /\ u.info = t.info /\ u.priority = t.priority /\ u.head = t.head
           /\ u.tail = t.tail /\ u.queuelength = t.queuelength /\ u.kind = t.kind
           /\ u.live = t.live /\ u.ok = t.ok
           /\ u.current = [t.current EXCEPT ![q] = t.head[q]]
           /\ u.previous = [t.previous EXCEPT ![q] = Null]
BY DEF Rewound, State, Pointer

\* No list changes, and no position but that of q.
OnlyMoves(t, u, q) ==
    /\ u.next = t.next /\ u.priority = t.priority /\ u.live = t.live
    /\ u.head = t.head /\ u.tail = t.tail /\ u.queuelength = t.queuelength /\ u.kind = t.kind
    /\ \A p \in Queues : p # q => u.current[p] = t.current[p] /\ u.previous[p] = t.previous[p]

\* The position of q moves to a place between two of its nodes.
LEMMA MovedShape ==
    ASSUME NEW t \in State, NEW L \in [Queues -> Seq(Nodes)], Shape(t, L), NEW q \in Queues,
           NEW u \in State, OnlyMoves(t, u, q), Placed(u, q, L[q])
    PROVE  Shape(u, L)
<1>1. ASSUME NEW p \in Queues PROVE HasNodes(u, p, L[p])
  BY <1>1 DEF Shape, HasNodes, Placed, OnlyMoves
<1> QED BY <1>1 DEF Shape, OnlyMoves

LEMMA RewoundShape ==
    ASSUME NEW t \in State, NEW L \in [Queues -> Seq(Nodes)], Shape(t, L), NEW q \in Queues
    PROVE  Rewound(t, q) \in State /\ Shape(Rewound(t, q), L)
<1> DEFINE u == Rewound(t, q)
<1>1. /\ u \in State /\ u.next = t.next /\ u.priority = t.priority /\ u.head = t.head
      /\ u.tail = t.tail /\ u.queuelength = t.queuelength /\ u.kind = t.kind /\ u.live = t.live
      /\ u.current = [t.current EXCEPT ![q] = t.head[q]]
      /\ u.previous = [t.previous EXCEPT ![q] = Null]
  BY RewoundFields
<1>2. t.current \in [Queues -> Pointer] /\ t.previous \in [Queues -> Pointer]
  BY DEF State
<1> HIDE DEF u
<1>3. Placed(u, q, L[q])
  BY <1>1, <1>2 DEF Placed
<1>4. \A p \in Queues : p # q => u.current[p] = t.current[p] /\ u.previous[p] = t.previous[p]
  BY <1>1, <1>2
<1>5. OnlyMoves(t, u, q)
  BY <1>1, <1>4 DEF OnlyMoves
<1>6. Shape(u, L)
  BY <1>1, <1>3, <1>5, MovedShape
<1> QED BY <1>1, <1>6 DEF u

LEMMA FirstAt ==
    ASSUME NEW S \in SUBSET Nat, S # {}
    PROVE  First(S) \in S /\ \A m \in S : First(S) <= m
<1>1. PICK x \in S : \A y \in S : ~ (<<y, x>> \in OpToRel(<, Nat))
  BY NatLessThanWellFounded, WFMin
<1>2. \A y \in S : x <= y
  <2>1. TAKE y \in S
  <2>2. y \in Nat /\ x \in Nat
    OBVIOUS
  <2>3. ~ (y < x)
    BY <1>1, <2>2 DEF OpToRel
  <2> QED BY <2>2, <2>3
<1> QED BY <1>2 DEF First

\* The position is that of the first element equal to v, or the first of all.
LEMMA FoundShape ==
    ASSUME NEW t \in State, NEW L \in [Queues -> Seq(Nodes)], Shape(t, L), NEW q \in Queues, NEW v
    PROVE  /\ Found(t, q, v) \in State /\ Shape(Found(t, q, v), L)
           /\ Found(t, q, v).ok = t.ok /\ Found(t, q, v).kind = t.kind
           /\ Found(t, q, v).live = t.live
           /\ Found(t, q, v).info = t.info /\ Found(t, q, v).priority = t.priority
           /\ \A p \in Queues : p # q => SameQueue(t, Found(t, q, v), p)
<1> DEFINE l == L[q]
           at == {i \in 1 .. t.queuelength[q] : t.info[NodesOf(t, q)[i]] = v}
           k == First(at)
           u == [t EXCEPT !.current[q] = l[k], !.previous[q] = IF k = 1 THEN Null ELSE l[k - 1]]
<1>1. /\ l \in Seq(Nodes) /\ Len(l) \in Nat /\ NodesOf(t, q) = l /\ t.queuelength[q] = Len(l)
      /\ IsList(t.next, t.head[q], l)
      /\ \A i \in 1 .. Len(l) : l[i] \in Nodes /\ l[i] \in Elements(l)
  BY ShapeQueue
<1>2. CASE at = {}
  <2>1. Found(t, q, v) = Rewound(t, q)
    BY <1>2, Zenon DEF Found
  <2>2. /\ Rewound(t, q) \in State /\ Shape(Rewound(t, q), L)
        /\ Rewound(t, q).ok = t.ok /\ Rewound(t, q).kind = t.kind
        /\ Rewound(t, q).live = t.live
        /\ Rewound(t, q).info = t.info /\ Rewound(t, q).priority = t.priority
    BY RewoundShape, RewoundFields
  <2>3. \A p \in Queues : p # q => SameQueue(t, Rewound(t, q), p)
    BY DEF Rewound, State, SameQueue
  <2> QED BY <2>1, <2>2, <2>3, Zenon
<1>3. CASE at # {}
  <2>0. at \in SUBSET Nat
    BY <1>1
  <2>1. k \in at
    <3> HIDE DEF at
    <3> QED BY <2>0, <1>3, FirstAt
  <2>2. k \in 1 .. Len(l)
    BY <2>1, <1>1
  <2>3. Found(t, q, v) = u
    <3> HIDE DEF l
    <3> QED BY <1>3, <1>1, Zenon DEF Found
  <2> HIDE DEF k, at, l
  <2>4. u \in State
    <3>1. l[k] \in Pointer /\ (k # 1 => l[k - 1] \in Pointer) /\ Null \in Pointer
      BY <1>1, <2>2 DEF Pointer
    <3> QED BY <3>1 DEF State
  <2>5. /\ u.next = t.next /\ u.priority = t.priority /\ u.live = t.live /\ u.info = t.info
        /\ u.head = t.head /\ u.tail = t.tail /\ u.queuelength = t.queuelength /\ u.kind = t.kind
        /\ u.ok = t.ok
        /\ u.current[q] = l[k] /\ u.previous[q] = IF k = 1 THEN Null ELSE l[k - 1]
        /\ \A p \in Queues : p # q => u.current[p] = t.current[p] /\ u.previous[p] = t.previous[p]
    BY DEF State
  <2>6. Placed(u, q, l)
    <3>1. CASE k = 1
      BY <3>1, <2>2, <2>5, <1>1, EmptySeq DEF IsList, Placed
    <3>2. CASE k # 1
      <4> DEFINE j == k - 1
      <4>1. j \in 1 .. Len(l) /\ j \in 1 .. Len(l) - 1 /\ l[j] \in Nodes /\ l[j] \in Elements(l) /\ j + 1 = k
        BY <3>2, <2>2, <1>1
      <4>2. t.next[l[j]] = l[j + 1]
        BY <4>1, <1>1 DEF IsList
      <4>3. u.previous[q] = l[j] /\ l[j] # Null
        BY <3>2, <2>5, <4>1, NodesAssumption
      <4> QED BY <4>1, <4>2, <4>3, <2>5 DEF Placed
    <3> QED BY <3>1, <3>2
  <2> HIDE DEF u
  <2>7. Shape(u, L)
    <3>1. OnlyMoves(t, u, q) /\ Placed(u, q, L[q])
      BY <2>5, <2>6 DEF OnlyMoves, l
    <3> QED BY <3>1, <2>4, MovedShape
  <2>8. \A p \in Queues : p # q => SameQueue(t, u, p)
    BY <2>5 DEF SameQueue
  <2> QED BY <2>3, <2>4, <2>5, <2>7, <2>8
<1> QED BY <1>2, <1>3

\* Where the position of q is.
LEMMA CurrentPlace ==
    ASSUME NEW t \in State, NEW L \in [Queues -> Seq(Nodes)], Shape(t, L), NEW q \in Queues,
           t.current[q] # Null
    PROVE  \E k \in 1 .. Len(L[q]) :
              /\ t.current[q] = L[q][k]
              /\ t.previous[q] = IF k = 1 THEN Null ELSE L[q][k - 1]
<1> DEFINE l == L[q]
<1>1. /\ l \in Seq(Nodes) /\ HasNodes(t, q, l) /\ IsList(t.next, t.head[q], l) /\ Len(l) \in Nat
      /\ \A i \in 1 .. Len(l) : l[i] \in Nodes
  BY ShapeQueue
<1> HIDE DEF l
<1>2. CASE t.previous[q] = Null
  <2>1. l # <<>> /\ 1 \in 1 .. Len(l) /\ l[1] = t.current[q]
    BY <1>2, <1>1, EmptySeq DEF IsList, HasNodes, Placed
  <2> QED BY <2>1, <1>2 DEF l
<1>3. CASE t.previous[q] # Null
  <2>1. PICK i \in 1 .. Len(l) : t.previous[q] = l[i]
    BY <1>3, <1>1 DEF HasNodes, Placed, Elements
  <2>2. t.next[l[i]] = t.current[q] /\ l # <<>>
    BY <2>1, <1>3, <1>1, EmptySeq DEF HasNodes, Placed
  <2>3. i # Len(l)
    BY <2>2, <1>1 DEF IsList
  <2> DEFINE k == i + 1
  <2>4. i \in 1 .. Len(l) - 1 /\ k \in 1 .. Len(l) /\ k # 1 /\ k - 1 = i
    BY <2>3, <1>1
  <2>5. t.current[q] = l[k]
    BY <2>2, <2>4, <1>1 DEF IsList
  <2> HIDE DEF k
  <2> QED BY <2>1, <2>4, <2>5 DEF l
<1> QED BY <1>2, <1>3

LEMMA NextElementShape ==
    ASSUME NEW t \in State, NEW L \in [Queues -> Seq(Nodes)], Shape(t, L), NEW q \in Queues,
           t.current[q] # Null,
           NEW u, u = [t EXCEPT !.previous[q] = t.current[q], !.current[q] = t.next[t.current[q]]]
    PROVE  u \in State /\ Shape(u, L)
<1>1. t.current[q] \in Elements(L[q]) /\ t.current[q] \in Nodes
  <2>1. PICK k \in 1 .. Len(L[q]) : t.current[q] = L[q][k]
    BY CurrentPlace
  <2> QED BY <2>1, ShapeQueue
<1>2. t.next[t.current[q]] \in Pointer /\ t.current[q] \in Pointer
  BY <1>1 DEF State, Pointer
<1>3. u \in State
  BY <1>2 DEF State
<1>4. /\ u.next = t.next /\ u.priority = t.priority /\ u.live = t.live
      /\ u.head = t.head /\ u.tail = t.tail /\ u.queuelength = t.queuelength /\ u.kind = t.kind
      /\ u.current[q] = t.next[t.current[q]] /\ u.previous[q] = t.current[q]
      /\ \A p \in Queues : p # q => u.current[p] = t.current[p] /\ u.previous[p] = t.previous[p]
  BY DEF State
<1>5. Placed(u, q, L[q])
  BY <1>1, <1>4, NodesAssumption DEF Placed
<1>6. OnlyMoves(t, u, q)
  BY <1>4 DEF OnlyMoves
<1>7. Shape(u, L)
  BY <1>3, <1>5, <1>6, MovedShape
<1> QED BY <1>3, <1>7

LEMMA UpdateCurrentShape ==
    ASSUME NEW t \in State, NEW L \in [Queues -> Seq(Nodes)], Shape(t, L), NEW q \in Queues,
           t.current[q] # Null, NEW v \in Values,
           NEW u, u = [t EXCEPT !.info[t.current[q]] = v]
    PROVE  u \in State /\ Shape(u, L)
<1>1. u \in State
  BY DEF State, Value
<1>2. /\ u.next = t.next /\ u.priority = t.priority /\ u.live = t.live
      /\ u.head = t.head /\ u.tail = t.tail /\ u.queuelength = t.queuelength /\ u.kind = t.kind
      /\ u.current = t.current /\ u.previous = t.previous
  BY DEF State
<1>3. Placed(u, q, L[q])
  BY <1>2 DEF Shape, HasNodes, Placed
<1>4. OnlyMoves(t, u, q)
  BY <1>2 DEF OnlyMoves
<1>5. Shape(u, L)
  BY <1>1, <1>3, <1>4, MovedShape
<1> QED BY <1>1, <1>5

-----------------------------------------------------------------------------
(* Functions that take nodes out *)

LEMMA FreedFields ==
    ASSUME NEW t \in State, NEW gone \in SUBSET Nodes
    PROVE  LET u == Freed(t, gone) IN
           /\ u \in State
           /\ u.head = t.head /\ u.tail = t.tail /\ u.current = t.current
           /\ u.previous = t.previous /\ u.queuelength = t.queuelength /\ u.kind = t.kind
           /\ u.ok = t.ok /\ u.live = t.live \ gone
           /\ \A n \in Nodes : n \notin gone =>
                 u.next[n] = t.next[n] /\ u.info[n] = t.info[n] /\ u.priority[n] = t.priority[n]
BY DEF Freed, State, Pointer, Value

LastOrNull(x, l) == x \in {l[Len(l)], Null}

\* The tail that is computed when the k-th node is taken out.
LEMMA NewTail ==
    ASSUME NEW next, NEW h, NEW l \in Seq(Nodes), IsList(next, h, l), NEW k \in 1 .. Len(l),
           NEW tail, LastOrNull(tail, l), Without(l, k) # <<>>
    PROVE  LastOrNull(IF next[l[k]] = Null \/ next[next[l[k]]] = Null THEN next[l[k]] ELSE tail,
                      Without(l, k))
<1> DEFINE m == Without(l, k)
           after == next[l[k]]
<1>1. /\ m \in Seq(Nodes) /\ Len(m) = Len(l) - 1 /\ Len(l) \in Nat /\ l # <<>>
      /\ \A i \in 1 .. Len(l) - 1 : m[i] = IF i < k THEN l[i] ELSE l[i + 1]
      /\ \A i \in 1 .. Len(l) : l[i] \in Nodes
  BY WithoutSeq, EmptySeq
<1>2. m # <<>>
  OBVIOUS
<1> HIDE DEF m
<1>3. Len(m) \in 1 .. Len(m)
  BY <1>1, <1>2, EmptySeq
<1>4. CASE k = Len(l)
  BY <1>4, <1>1 DEF IsList, LastOrNull
<1>5. CASE k # Len(l)
  <2>1. k \in 1 .. Len(l) - 1 /\ m[Len(m)] = l[Len(l)]
    BY <1>5, <1>1, <1>3
  <2>2. after = l[k + 1] /\ after # Null
    BY <2>1, <1>1, NodesAssumption DEF IsList
  <2>3. CASE k + 1 = Len(l)
    BY <2>1, <2>2, <2>3 DEF m, LastOrNull
  <2>4. CASE k + 1 # Len(l)
    <3> DEFINE j == k + 1
    <3>1. j \in 1 .. Len(l) - 1 /\ j + 1 \in 1 .. Len(l)
      BY <2>1, <2>4, <1>1
    <3>2. next[l[j]] = l[j + 1]
      BY <3>1 DEF IsList
    <3>3. next[after] # Null
      BY <2>2, <3>1, <3>2, <1>1, NodesAssumption
    <3> QED BY <2>1, <2>2, <3>3 DEF m, LastOrNull
  <2> QED BY <2>3, <2>4
<1> QED BY <1>4, <1>5

\* What taking the k-th node out of q has to do.
TakenOut(t, u, q, l, k) ==
    /\ u.live = t.live \ {l[k]}
    /\ u.head[q] = IF k = 1 THEN t.next[t.head[q]] ELSE t.head[q]
    /\ k > 1 => u.next[l[k - 1]] = t.next[l[k]]
    /\ \A n \in Nodes : n # l[k] =>
          /\ k = 1 \/ n # l[k - 1] => u.next[n] = t.next[n]
          /\ u.info[n] = t.info[n] /\ u.priority[n] = t.priority[n]
    /\ u.queuelength[q] = t.queuelength[q] - 1
    /\ u.tail[q] = IF t.next[l[k]] = Null \/ t.next[t.next[l[k]]] = Null THEN t.next[l[k]]
                   ELSE t.tail[q]
    /\ u.kind = t.kind /\ u.ok = t.ok
    /\ \A p \in Queues : p # q => SameQueue(t, u, p)

LEMMA TakenOutShape ==
    ASSUME NEW t \in State, NEW L \in [Queues -> Seq(Nodes)], Shape(t, L), NEW q \in Queues,
           NEW k \in 1 .. Len(L[q]), NEW u, TakenOut(t, u, q, L[q], k),
           Placed(u, q, Without(L[q], k))
    PROVE  Shape(u, [L EXCEPT ![q] = Without(L[q], k)])
<1> DEFINE l == L[q]
           m == Without(l, k)
<1>1. /\ l \in Seq(Nodes) /\ HasNodes(t, q, l) /\ IsList(t.next, t.head[q], l) /\ Len(l) \in Nat
      /\ Distinct(l) /\ Elements(l) \subseteq t.live /\ t.queuelength[q] = Len(l)
      /\ \A i \in 1 .. Len(l) : l[i] \in Nodes /\ l[i] \in Elements(l)
      /\ \A i \in 1 .. Len(l) : t.priority[l[i]] \in Priorities
  BY ShapeQueue
<1>2. TakenOut(t, u, q, l, k) /\ Placed(u, q, m) /\ k \in 1 .. Len(l)
  OBVIOUS
<1> HIDE DEF l
<1>3. m \in Seq(Nodes) /\ Len(m) = Len(l) - 1 /\ Elements(m) = Elements(l) \ {l[k]}
  BY <1>1, <1>2, WithoutSeq
<1>4. /\ k > 1 => u.next[l[k - 1]] = t.next[l[k]]
      /\ \A i \in 1 .. Len(l) : i # k /\ i # k - 1 => u.next[l[i]] = t.next[l[i]]
  <2>1. \A i \in 1 .. Len(l) : i # k /\ i # k - 1 => l[i] # l[k] /\ (k # 1 => l[i] # l[k - 1])
    <3>1. \A i, j \in 1 .. Len(l) : l[i] = l[j] => i = j
      BY <1>1 DEF Distinct
    <3>2. k # 1 => k - 1 \in 1 .. Len(l)
      BY <1>1, <1>2
    <3> QED BY <3>1, <3>2, <1>2
  <2> QED BY <2>1, <1>1, <1>2 DEF TakenOut
<1>5. IsList(u.next, u.head[q], m)
  <2>1. IsList(u.next, IF k = 1 THEN t.next[t.head[q]] ELSE t.head[q], m)
    BY <1>1, <1>2, <1>4, WithoutList
  <2> QED BY <2>1, <1>2 DEF TakenOut
<1>6. u.queuelength[q] = Len(m)
  BY <1>1, <1>2, <1>3 DEF TakenOut
<1>7. m # <<>> /\ u.kind[q].tag_only => u.tail[q] \in {m[Len(m)], Null}
  <2> HAVE m # <<>> /\ u.kind[q].tag_only
  <2>1. l # <<>>
    BY <1>1, <1>2, EmptySeq
  <2>2. t.tail[q] \in {l[Len(l)], Null}
    BY <2>1, <1>1, <1>2 DEF HasNodes, TakenOut
  <2>3. u.tail[q] = IF t.next[l[k]] = Null \/ t.next[t.next[l[k]]] = Null THEN t.next[l[k]]
                    ELSE t.tail[q]
    BY <1>2 DEF TakenOut
  <2>4. (IF t.next[l[k]] = Null \/ t.next[t.next[l[k]]] = Null THEN t.next[l[k]]
         ELSE t.tail[q]) \in {m[Len(m)], Null}
    <3>1. LastOrNull(t.tail[q], l) /\ m # <<>>
      BY <2>2 DEF LastOrNull
    <3> HIDE DEF m
    <3>2. Without(l, k) # <<>>
      BY <3>1 DEF m
    <3>3. LastOrNull(IF t.next[l[k]] = Null \/ t.next[t.next[l[k]]] = Null THEN t.next[l[k]]
                     ELSE t.tail[q], Without(l, k))
      BY <3>1, <3>2, <1>1, <1>2, NewTail
    <3> QED BY <3>3 DEF LastOrNull, m
  <2> QED BY <2>3, <2>4
<1>8. HasNodes(u, q, m)
  BY <1>2, <1>5, <1>6, <1>7 DEF HasNodes
<1>9. l[k] \in Elements(l) /\ t.live \subseteq Nodes
  BY <1>1, <1>2 DEF State
<1>10. u.live = (t.live \ Elements(l)) \cup Elements(m)
  BY <1>1, <1>2, <1>3, <1>9 DEF TakenOut
<1>11. \A n \in t.live : n \notin Elements(l) =>
           u.next[n] = t.next[n] /\ u.priority[n] = t.priority[n] /\ n \notin Elements(m)
  <2>1. k # 1 => l[k - 1] \in Elements(l)
    BY <1>1, <1>2
  <2> QED BY <2>1, <1>2, <1>3, <1>9 DEF TakenOut
<1>12. \A n \in Elements(m) : u.priority[n] \in Priorities
  <2>1. \A n \in Elements(m) : t.priority[n] \in Priorities /\ n # l[k] /\ n \in Nodes
    BY <1>1, <1>3 DEF Elements
  <2> QED BY <2>1, <1>2 DEF TakenOut
<1>13. \A p \in Queues : p # q => SameQueue(t, u, p)
  BY <1>2 DEF TakenOut
<1> HIDE DEF m
<1>14. Shape(u, [L EXCEPT ![q] = m])
  BY <1>3, <1>8, <1>10, <1>11, <1>12, <1>13, ShapeOf DEF l
<1> QED BY <1>14 DEF l, m

LEMMA RemovedFrontShape ==
    ASSUME s \in State, NEW L \in [Queues -> Seq(Nodes)], Shape(s, L), NEW q \in Queues,
           s.head[q] # Null
    PROVE  /\ L[q] # <<>> /\ 1 \in 1 .. Len(L[q]) /\ RemovedFront(q) \in State
           /\ TakenOut(s, RemovedFront(q), q, L[q], 1)
           /\ Shape(RemovedFront(q), [L EXCEPT ![q] = Without(L[q], 1)])
           /\ RemovedFront(q).previous[q] = Null
<1> DEFINE l == L[q]
           after == s.next[s.head[q]]
           f == Freed(s, {s.head[q]})
           g == [f EXCEPT !.head[q] = after, !.queuelength[q] = @ - 1,
                          !.tail[q] = IF after = Null \/ s.next[after] = Null THEN after ELSE @]
           u == Rewound(g, q)
<1>1. /\ l \in Seq(Nodes) /\ HasNodes(s, q, l) /\ IsList(s.next, s.head[q], l) /\ Len(l) \in Nat
      /\ s.queuelength[q] = Len(l)
      /\ \A i \in 1 .. Len(l) : l[i] \in Nodes
  BY ShapeQueue
<1>2. l # <<>> /\ 1 \in 1 .. Len(l) /\ l[1] = s.head[q] /\ s.head[q] \in Nodes
  BY <1>1, EmptySeq DEF IsList
<1>3. u = RemovedFront(q)
  BY DEF RemovedFront
<1>4. after \in Pointer
  BY <1>2 DEF State
<1>5. /\ f \in State
      /\ f.head = s.head /\ f.tail = s.tail /\ f.current = s.current
      /\ f.previous = s.previous /\ f.queuelength = s.queuelength /\ f.kind = s.kind
      /\ f.ok = s.ok /\ f.live = s.live \ {s.head[q]}
      /\ \A n \in Nodes : n # s.head[q] =>
           f.next[n] = s.next[n] /\ f.info[n] = s.info[n] /\ f.priority[n] = s.priority[n]
  BY <1>2, FreedFields
<1> HIDE DEF f
<1>6. s.queuelength[q] - 1 \in 0 .. Cardinality(Nodes)
  BY <1>1, <1>2, NodesSize DEF State
<1>7. /\ g \in State
      /\ g.next = f.next /\ g.info = f.info /\ g.priority = f.priority /\ g.live = f.live
      /\ g.kind = f.kind /\ g.ok = f.ok /\ g.current = f.current /\ g.previous = f.previous
      /\ g.head = [s.head EXCEPT ![q] = after]
      /\ g.queuelength = [s.queuelength EXCEPT ![q] = s.queuelength[q] - 1]
      /\ g.tail = [s.tail EXCEPT ![q] = IF after = Null \/ s.next[after] = Null THEN after ELSE s.tail[q]]
  <2> HIDE DEF after
  <2>1. (IF after = Null \/ s.next[after] = Null THEN after ELSE s.tail[q]) \in Pointer
    BY <1>4 DEF State
  <2> QED BY <1>4, <1>5, <1>6, <2>1 DEF State
<1> HIDE DEF g
<1>8. /\ u \in State
      /\ u.next = g.next /\ u.info = g.info /\ u.priority = g.priority /\ u.head = g.head
      /\ u.tail = g.tail /\ u.queuelength = g.queuelength /\ u.kind = g.kind
      /\ u.live = g.live /\ u.ok = g.ok
      /\ u.current = [g.current EXCEPT ![q] = g.head[q]]
      /\ u.previous = [g.previous EXCEPT ![q] = Null]
  BY <1>7, RewoundFields
<1> HIDE DEF u
<1>9. TakenOut(s, u, q, l, 1)
  <2>1. u.live = s.live \ {l[1]} /\ u.kind = s.kind /\ u.ok = s.ok
    BY <1>2, <1>5, <1>7, <1>8
  <2>2. /\ u.head[q] = s.next[s.head[q]] /\ u.queuelength[q] = s.queuelength[q] - 1
        /\ u.tail[q] = IF s.next[l[1]] = Null \/ s.next[s.next[l[1]]] = Null THEN s.next[l[1]]
                       ELSE s.tail[q]
    BY <1>2, <1>7, <1>8 DEF State
  <2>3. \A n \in Nodes : n # l[1] =>
           u.next[n] = s.next[n] /\ u.info[n] = s.info[n] /\ u.priority[n] = s.priority[n]
    BY <1>2, <1>5, <1>7, <1>8
  <2>4. \A p \in Queues : p # q => SameQueue(s, u, p)
    BY <1>5, <1>7, <1>8 DEF SameQueue, State
  <2> QED BY <2>1, <2>2, <2>3, <2>4 DEF TakenOut
<1>10. u.previous[q] = Null /\ u.current[q] = u.head[q]
  BY <1>5, <1>7, <1>8 DEF State
<1>11. Placed(u, q, Without(l, 1))
  BY <1>10 DEF Placed
<1>12. Shape(u, [L EXCEPT ![q] = Without(L[q], 1)])
  BY <1>2, <1>9, <1>11, TakenOutShape
<1> QED BY <1>2, <1>3, <1>8, <1>9, <1>10, <1>12

LEMMA DeletedShape ==
    ASSUME s \in State, NEW L \in [Queues -> Seq(Nodes)], Shape(s, L), NEW q \in Queues,
           s.current[q] # Null
    PROVE  \E k \in 1 .. Len(L[q]) :
              /\ Deleted(q) \in State /\ s.current[q] = L[q][k]
              /\ TakenOut(s, Deleted(q), q, L[q], k)
              /\ Shape(Deleted(q), [L EXCEPT ![q] = Without(L[q], k)])
              /\ Deleted(q).current[q] = IF k = Len(L[q]) THEN Null ELSE L[q][k + 1]
<1> DEFINE l == L[q]
<1>1. PICK k \in 1 .. Len(l) :
         s.current[q] = l[k] /\ s.previous[q] = IF k = 1 THEN Null ELSE l[k - 1]
  BY CurrentPlace
<1> DEFINE m == Without(l, k)
           after == s.next[s.current[q]]
           newTail == IF after = Null \/ s.next[after] = Null THEN after ELSE s.tail[q]
           f == Freed(s, {s.current[q]})
           g == [f EXCEPT !.queuelength[q] = @ - 1]
           u == Deleted(q)
<1>2. /\ l \in Seq(Nodes) /\ HasNodes(s, q, l) /\ IsList(s.next, s.head[q], l) /\ Len(l) \in Nat
      /\ s.queuelength[q] = Len(l) /\ Distinct(l)
      /\ \A i \in 1 .. Len(l) : l[i] \in Nodes
  BY ShapeQueue
<1>3. l # <<>> /\ l[1] = s.head[q] /\ l[k] \in Nodes /\ 1 \in 1 .. Len(l)
  BY <1>2, EmptySeq DEF IsList
<1>4. u = IF s.previous[q] = Null
          THEN [g EXCEPT !.head[q] = s.next[s.head[q]], !.current[q] = s.next[s.head[q]],
                         !.tail[q] = newTail]
          ELSE [g EXCEPT !.next[s.previous[q]] = after, !.current[q] = after, !.tail[q] = newTail]
  BY Zenon DEF Deleted
<1> HIDE DEF l
<1>5. after \in Pointer /\ newTail \in Pointer
  BY <1>1, <1>3 DEF State
<1>6. after = IF k = Len(l) THEN Null ELSE l[k + 1]
  BY <1>1, <1>2, <1>3 DEF IsList
<1>7. /\ f \in State
      /\ f.head = s.head /\ f.tail = s.tail /\ f.current = s.current
      /\ f.previous = s.previous /\ f.queuelength = s.queuelength /\ f.kind = s.kind
      /\ f.ok = s.ok /\ f.live = s.live \ {l[k]}
      /\ \A n \in Nodes : n # l[k] =>
           f.next[n] = s.next[n] /\ f.info[n] = s.info[n] /\ f.priority[n] = s.priority[n]
  <2> DEFINE x == s.current[q]
  <2>1. x = l[k] /\ {x} \in SUBSET Nodes
    BY <1>1, <1>3
  <2> QED BY <2>1, FreedFields
<1> HIDE DEF f
<1>8. s.queuelength[q] - 1 \in 0 .. Cardinality(Nodes)
  BY <1>1, <1>2, NodesSize DEF State
<1>9. /\ g \in State
      /\ g.next = f.next /\ g.info = f.info /\ g.priority = f.priority /\ g.live = f.live
      /\ g.head = f.head /\ g.tail = f.tail
      /\ g.kind = f.kind /\ g.ok = f.ok /\ g.current = f.current /\ g.previous = f.previous
      /\ g.queuelength = [s.queuelength EXCEPT ![q] = s.queuelength[q] - 1]
  BY <1>7, <1>8 DEF State
<1> HIDE DEF g, u, newTail
<1>10. /\ u \in State /\ TakenOut(s, u, q, l, k) /\ Placed(u, q, m) /\ u.current[q] = after
  <2>1. CASE k = 1
    <3>1. s.previous[q] = Null /\ s.next[s.head[q]] = after
      BY <2>1, <1>1, <1>3
    <3>2. u = [g EXCEPT !.head[q] = after, !.current[q] = after, !.tail[q] = newTail]
      BY <3>1, <1>4
    <3> HIDE DEF after
    <3>3. /\ u \in State
          /\ u.next = g.next /\ u.info = g.info /\ u.priority = g.priority /\ u.live = g.live
          /\ u.kind = g.kind /\ u.ok = g.ok /\ u.previous = g.previous
          /\ u.queuelength = g.queuelength
          /\ u.head = [g.head EXCEPT ![q] = after]
          /\ u.current = [g.current EXCEPT ![q] = after]
          /\ u.tail = [g.tail EXCEPT ![q] = newTail]
      BY <3>2, <1>5, <1>9 DEF State
    <3>4. /\ u.head[q] = after /\ u.current[q] = after /\ u.tail[q] = newTail
          /\ u.previous[q] = Null /\ u.queuelength[q] = s.queuelength[q] - 1
      BY <3>1, <3>3, <1>7, <1>9 DEF State
    <3>5. Placed(u, q, m)
      BY <3>4 DEF Placed
    <3>6. \A p \in Queues : p # q => SameQueue(s, u, p)
      BY <3>3, <1>7, <1>9 DEF SameQueue, State
    <3>7. TakenOut(s, u, q, l, k)
      BY <3>1, <3>3, <3>4, <3>6, <2>1, <1>1, <1>7, <1>9 DEF TakenOut, newTail, after
    <3> QED BY <3>3, <3>4, <3>5, <3>7
  <2>2. CASE k # 1
    <3> DEFINE b == l[k - 1]
    <3>1. s.previous[q] = b /\ b \in Nodes /\ b # Null /\ b # l[k] /\ k - 1 \in 1 .. Len(l)
      BY <2>2, <1>1, <1>2, NodesAssumption DEF Distinct
    <3> HIDE DEF b
    <3>2. u = [g EXCEPT !.next[b] = after, !.current[q] = after, !.tail[q] = newTail]
      BY <3>1, <1>4
    <3> HIDE DEF after
    <3>3. /\ u \in State
          /\ u.next = [g.next EXCEPT ![b] = after]
          /\ u.info = g.info /\ u.priority = g.priority /\ u.live = g.live
          /\ u.kind = g.kind /\ u.ok = g.ok /\ u.previous = g.previous /\ u.head = g.head
          /\ u.queuelength = g.queuelength
          /\ u.current = [g.current EXCEPT ![q] = after]
          /\ u.tail = [g.tail EXCEPT ![q] = newTail]
      BY <3>1, <3>2, <1>5, <1>9 DEF State
    <3>4. /\ u.head[q] = s.head[q] /\ u.current[q] = after /\ u.tail[q] = newTail
          /\ u.previous[q] = b /\ u.queuelength[q] = s.queuelength[q] - 1
          /\ u.next[b] = after
          /\ \A n \in Nodes : n # b => u.next[n] = g.next[n]
      BY <3>1, <3>3, <1>7, <1>9 DEF State
    <3>5. b \in Elements(m)
      <4>1. Elements(m) = Elements(l) \ {l[k]}
        BY <1>2, WithoutSeq
      <4>2. b \in Elements(l)
        BY <3>1 DEF b, Elements
      <4> QED BY <4>1, <4>2, <3>1
    <3>6. Placed(u, q, m)
      BY <3>1, <3>4, <3>5 DEF Placed
    <3>7. \A p \in Queues : p # q => SameQueue(s, u, p)
      BY <3>3, <1>7, <1>9 DEF SameQueue, State
    <3>8. TakenOut(s, u, q, l, k)
      <4>1. u.next[l[k - 1]] = s.next[l[k]]
        BY <3>4, <1>1 DEF b, after
      <4>2. u.tail[q] = IF s.next[l[k]] = Null \/ s.next[s.next[l[k]]] = Null THEN s.next[l[k]]
                        ELSE s.tail[q]
        BY <3>4, <1>1 DEF newTail, after
      <4>3. \A n \in Nodes : n # l[k] =>
              /\ n # l[k - 1] => u.next[n] = s.next[n]
              /\ u.info[n] = s.info[n] /\ u.priority[n] = s.priority[n]
        BY <3>3, <3>4, <1>7, <1>9 DEF b
      <4> QED BY <4>1, <4>2, <4>3, <3>3, <3>4, <3>7, <2>2, <1>7, <1>9 DEF TakenOut
    <3> QED BY <3>3, <3>4, <3>6, <3>8
  <2> QED BY <2>1, <2>2
<1>11. Shape(u, [L EXCEPT ![q] = Without(L[q], k)])
  BY <1>10, TakenOutShape DEF l
<1> QED BY <1>1, <1>6, <1>10, <1>11 DEF l, u

\* u is t without the nodes of q.
IsEmptied(t, u, L, q) ==
    /\ u \in State /\ Shape(u, [L EXCEPT ![q] = <<>>])
    /\ u.live = t.live \ Elements(L[q]) /\ u.kind = t.kind /\ u.ok = t.ok
    /\ u.head[q] = Null /\ u.previous[q] = Null
    /\ \A p \in Queues : p # q => SameQueue(t, u, p)
    /\ \A n \in Nodes : n \notin Elements(L[q]) =>
          u.info[n] = t.info[n] /\ u.priority[n] = t.priority[n]

\* destroy_queue takes them all out.
LEMMA DestroyedShape ==
    ASSUME NEW t \in State, NEW L \in [Queues -> Seq(Nodes)], Shape(t, L), NEW q \in Queues
    PROVE  IsEmptied(t, Destroyed(t, q), L, q)
<1> DEFINE gone == Elements(L[q])
           f == Freed(t, gone)
           g == [f EXCEPT !.head[q] = Null, !.queuelength[q] = 0]
           u == Rewound(g, q)
<1>1. NodesOf(t, q) = L[q] /\ gone \in SUBSET Nodes /\ gone \subseteq t.live
  BY ShapeQueue DEF Elements
<1>2. u = Destroyed(t, q)
  BY <1>1 DEF Destroyed
<1> HIDE DEF gone
<1>3. /\ f \in State
      /\ f.head = t.head /\ f.tail = t.tail /\ f.current = t.current
      /\ f.previous = t.previous /\ f.queuelength = t.queuelength /\ f.kind = t.kind
      /\ f.ok = t.ok /\ f.live = t.live \ gone
      /\ \A n \in Nodes : n \notin gone =>
           f.next[n] = t.next[n] /\ f.info[n] = t.info[n] /\ f.priority[n] = t.priority[n]
  BY <1>1, FreedFields
<1> HIDE DEF f
<1>4. /\ g \in State
      /\ g.next = f.next /\ g.info = f.info /\ g.priority = f.priority /\ g.live = f.live
      /\ g.kind = f.kind /\ g.ok = f.ok /\ g.current = f.current /\ g.previous = f.previous
      /\ g.tail = f.tail
      /\ g.head = [t.head EXCEPT ![q] = Null]
      /\ g.queuelength = [t.queuelength EXCEPT ![q] = 0]
  <2>1. 0 \in 0 .. Cardinality(Nodes) /\ Null \in Pointer
    BY NodesSize DEF Pointer
  <2>2. f.head = t.head /\ f.queuelength = t.queuelength
    BY <1>3
  <2> QED BY <1>3, <2>1, <2>2 DEF State
<1> HIDE DEF g
<1>5. /\ u \in State
      /\ u.next = g.next /\ u.info = g.info /\ u.priority = g.priority /\ u.head = g.head
      /\ u.tail = g.tail /\ u.queuelength = g.queuelength /\ u.kind = g.kind
      /\ u.live = g.live /\ u.ok = g.ok
      /\ u.current = [g.current EXCEPT ![q] = g.head[q]]
      /\ u.previous = [g.previous EXCEPT ![q] = Null]
  BY <1>4, RewoundFields
<1> HIDE DEF u
<1>6. /\ u.head[q] = Null /\ u.queuelength[q] = 0 /\ u.previous[q] = Null
      /\ u.current[q] = u.head[q]
  BY <1>3, <1>4, <1>5 DEF State
<1>7. \A p \in Queues : p # q => SameQueue(t, u, p)
  BY <1>3, <1>4, <1>5 DEF SameQueue, State
<1>8. <<>> \in Seq(Nodes) /\ Len(<<>>) = 0 /\ Elements(<<>>) = {}
  BY EmptySeq DEF Elements
<1>9. HasNodes(u, q, <<>>)
  <2>1. Distinct(<<>>)
    BY <1>8 DEF Distinct
  <2>2. 1 .. Len(<<>>) - 1 = {}
    BY <1>8
  <2>3. IsList(u.next, u.head[q], <<>>)
    BY <2>1, <2>2, <1>6 DEF IsList
  <2> QED BY <2>3, <1>6, <1>8 DEF HasNodes, Placed
<1>10. u.live = (t.live \ gone) \cup Elements(<<>>)
  BY <1>3, <1>4, <1>5, <1>8
<1>11. \A n \in t.live : n \notin gone =>
          u.next[n] = t.next[n] /\ u.priority[n] = t.priority[n] /\ n \notin Elements(<<>>)
  BY <1>3, <1>4, <1>5, <1>8 DEF State
<1>12. \A n \in Elements(<<>>) : u.priority[n] \in Priorities
  BY <1>8
<1>13. Shape(u, [L EXCEPT ![q] = <<>>])
  BY <1>7, <1>8, <1>9, <1>10, <1>11, <1>12, ShapeOf DEF gone
<1>14. u.kind = t.kind /\ u.ok = t.ok /\ u.live = t.live \ gone
  BY <1>3, <1>4, <1>5
<1>15. \A n \in Nodes : n \notin gone => u.info[n] = t.info[n] /\ u.priority[n] = t.priority[n]
  BY <1>3, <1>4, <1>5
<1>16. IsEmptied(t, u, L, q)
  BY <1>5, <1>6, <1>7, <1>13, <1>14, <1>15 DEF IsEmptied, gone
<1> QED BY <1>2, <1>16

-----------------------------------------------------------------------------
(* nolock_add_to_queue *)

\* Behind how many of the nodes l a new one with priority p goes.
PlaceFor(l, priority, p, k) ==
    /\ \A i \in 1 .. k : p >= priority[l[i]]
    /\ k < Len(l) => ~ p >= priority[l[k + 1]]

LEMMA PlaceExists ==
    ASSUME NEW l \in Seq(Nodes), NEW priority, NEW p
    PROVE  \E k \in 0 .. Len(l) : PlaceFor(l, priority, p, k)
<1> DEFINE S == {i \in 1 .. Len(l) : ~ p >= priority[l[i]]}
<1>1. Len(l) \in Nat /\ S \in SUBSET Nat
  OBVIOUS
<1>2. CASE S = {}
  <2>1. Len(l) \in 0 .. Len(l) /\ \A i \in 1 .. Len(l) : p >= priority[l[i]]
    BY <1>1, <1>2
  <2> QED BY <2>1, <1>1 DEF PlaceFor
<1>3. CASE S # {}
  <2> DEFINE f == First(S)
             k == f - 1
  <2>1. f \in S /\ \A i \in S : f <= i
    BY <1>1, <1>3, FirstAt
  <2>2. f \in 1 .. Len(l) /\ ~ p >= priority[l[f]]
    BY <2>1
  <2>3. \A i \in 1 .. Len(l) : i < f => p >= priority[l[i]]
    <3> SUFFICES ASSUME NEW i \in 1 .. Len(l), i < f, ~ p >= priority[l[i]] PROVE FALSE
      OBVIOUS
    <3>1. f <= i
      BY <2>1
    <3> QED BY <3>1, <2>2
  <2> HIDE DEF f
  <2>4. k \in 0 .. Len(l) /\ k + 1 = f /\ \A i \in 1 .. k : i \in 1 .. Len(l) /\ i < f
    BY <2>2, <1>1
  <2> QED BY <2>2, <2>3, <2>4 DEF PlaceFor
<1> QED BY <1>2, <1>3

\* What putting the node n behind the first k of q has to do.
PutIn(t, u, q, l, k, n, v, p) ==
    /\ u.live = t.live \cup {n}
    /\ u.head[q] = IF k = 0 THEN n ELSE t.head[q]
    /\ u.next[n] = IF k = Len(l) THEN Null ELSE l[k + 1]
    /\ k > 0 => u.next[l[k]] = n
    /\ \A m \in Nodes : m # n /\ (k = 0 \/ m # l[k]) => u.next[m] = t.next[m]
    /\ u.info = [t.info EXCEPT ![n] = v] /\ u.priority = [t.priority EXCEPT ![n] = p]
    /\ u.queuelength[q] = t.queuelength[q] + 1
    /\ t.kind[q].tag_only => k = Len(l) /\ u.tail[q] = n
    /\ u.kind = t.kind /\ u.ok = t.ok
    /\ \A r \in Queues : r # q => SameQueue(t, u, r)

LEMMA PutInShape ==
    ASSUME NEW t \in State, NEW L \in [Queues -> Seq(Nodes)], Shape(t, L), NEW q \in Queues,
           NEW k \in 0 .. Len(L[q]), NEW n \in Nodes, n \notin t.live, NEW v, NEW p \in Priorities,
           NEW u, PutIn(t, u, q, L[q], k, n, v, p), Placed(u, q, Inserting(L[q], k, n))
    PROVE  Shape(u, [L EXCEPT ![q] = Inserting(L[q], k, n)])
<1> DEFINE l == L[q]
           m == Inserting(l, k, n)
<1>1. /\ l \in Seq(Nodes) /\ HasNodes(t, q, l) /\ IsList(t.next, t.head[q], l) /\ Len(l) \in Nat
      /\ Distinct(l) /\ Elements(l) \subseteq t.live /\ t.queuelength[q] = Len(l)
      /\ \A i \in 1 .. Len(l) : l[i] \in Nodes /\ l[i] \in Elements(l)
      /\ \A i \in 1 .. Len(l) : t.priority[l[i]] \in Priorities
  BY ShapeQueue
<1>2. PutIn(t, u, q, l, k, n, v, p) /\ Placed(u, q, m) /\ k \in 0 .. Len(l) /\ n \notin Elements(l)
  BY <1>1
<1> HIDE DEF l
<1>3. /\ m \in Seq(Nodes) /\ Len(m) = Len(l) + 1 /\ Elements(m) = Elements(l) \cup {n}
      /\ m[Len(l) + 1] = IF k = Len(l) THEN n ELSE l[Len(l)]
  <2>1. /\ m \in Seq(Nodes) /\ Len(m) = Len(l) + 1 /\ Elements(m) = Elements(l) \cup {n}
        /\ \A i \in 1 .. Len(l) + 1 : m[i] = IF i <= k THEN l[i] ELSE IF i = k + 1 THEN n ELSE l[i - 1]
    <3>1. l \in Seq(Nodes) /\ n \in Nodes /\ k \in 0 .. Len(l)
      BY <1>1, <1>2
    <3>2. /\ Inserting(l, k, n) \in Seq(Nodes) /\ Len(Inserting(l, k, n)) = Len(l) + 1
          /\ Elements(Inserting(l, k, n)) = Elements(l) \cup {n}
          /\ \A i \in 1 .. Len(l) + 1 :
                Inserting(l, k, n)[i] = IF i <= k THEN l[i] ELSE IF i = k + 1 THEN n ELSE l[i - 1]
      <4> HIDE DEF m
      <4> QED BY <3>1, InsertingSeq, SMTT(20)
    <3> QED BY <3>2
  <2> HIDE DEF m
  <2>2. m[Len(l) + 1] = IF k = Len(l) THEN n ELSE l[Len(l)]
    BY <2>1, <1>1, <1>2
  <2> QED BY <2>1, <2>2
<1>4. /\ u.next[n] = IF k = Len(l) THEN Null ELSE l[k + 1]
      /\ k > 0 => u.next[l[k]] = n
      /\ \A i \in 1 .. Len(l) : i # k => u.next[l[i]] = t.next[l[i]]
  <2>1. \A i \in 1 .. Len(l) : i # k => l[i] # n /\ (k # 0 => l[i] # l[k])
    <3>1. \A i, j \in 1 .. Len(l) : l[i] = l[j] => i = j
      BY <1>1 DEF Distinct
    <3>2. k # 0 => k \in 1 .. Len(l)
      BY <1>1, <1>2
    <3>3. \A i \in 1 .. Len(l) : l[i] # n
      BY <1>1, <1>2
    <3> QED BY <3>1, <3>2, <3>3
  <2> QED BY <2>1, <1>1, <1>2 DEF PutIn
<1>5. IsList(u.next, u.head[q], m)
  <2>1. IsList(u.next, IF k = 0 THEN n ELSE t.head[q], m)
    BY <1>1, <1>2, <1>4, InsertList
  <2> QED BY <2>1, <1>2 DEF PutIn
<1>6. HasNodes(u, q, m)
  <2>1. u.queuelength[q] = Len(m)
    BY <1>1, <1>2, <1>3 DEF PutIn
  <2>2. u.kind[q].tag_only => u.tail[q] = m[Len(m)]
    BY <1>2, <1>3 DEF PutIn
  <2> QED BY <2>1, <2>2, <1>2, <1>5 DEF HasNodes
<1>7. u.live = (t.live \ Elements(l)) \cup Elements(m)
  BY <1>1, <1>2, <1>3 DEF PutIn
<1>8. /\ u.priority[n] \in Priorities
      /\ \A j \in Nodes : j # n => u.priority[j] = t.priority[j]
  BY <1>2 DEF PutIn, State
<1>9. \A j \in t.live : j \notin Elements(l) =>
          u.next[j] = t.next[j] /\ u.priority[j] = t.priority[j] /\ j \notin Elements(m)
  <2>1. \A j \in t.live : j \in Nodes /\ j # n
    BY DEF State
  <2>2. k # 0 => l[k] \in Elements(l)
    BY <1>1, <1>2
  <2> QED BY <2>1, <2>2, <1>2, <1>3, <1>8 DEF PutIn
<1>10. \A j \in Elements(m) : u.priority[j] \in Priorities
  <2>1. \A j \in Elements(l) : t.priority[j] \in Priorities /\ j \in Nodes
    BY <1>1 DEF Elements
  <2> QED BY <2>1, <1>3, <1>8
<1>11. \A r \in Queues : r # q => SameQueue(t, u, r)
  BY <1>2 DEF PutIn
<1> HIDE DEF m
<1>12. Shape(u, [L EXCEPT ![q] = m])
  BY <1>3, <1>6, <1>7, <1>9, <1>10, <1>11, ShapeOf DEF l
<1> QED BY <1>12 DEF l, m

\* A queue of one node more.
Counted(t, q) == [t EXCEPT !.queuelength[q] = @ + 1]

\* The node n, with its contents, is linked in behind the first k of q; a tail that
\* is followed must be there.
LinkedIn(t, b, q, l, n, v, p) ==
    /\ b \in State
    /\ b.ok = FALSE
       \/ \E k \in 0 .. Len(l) :
             /\ IF t.kind[q].tag_only THEN k = Len(l) ELSE PlaceFor(l, t.priority, p, k)
             /\ PutIn(t, Counted(b, q), q, l, k, n, v, p)
    /\ b.kind = t.kind /\ b.queuelength = t.queuelength /\ b.live = t.live \cup {n}
    /\ b.info = [t.info EXCEPT ![n] = v] /\ b.priority = [t.priority EXCEPT ![n] = p]

LEMMA LinkedFields ==
    ASSUME NEW t \in State, NEW L \in [Queues -> Seq(Nodes)], Shape(t, L), NEW q \in Queues,
           NEW v \in Value, NEW p \in Priorities, NEW n \in Nodes, n \notin t.live
    PROVE  LinkedIn(t, Linked(Allocated(t, n, v, p), q, n, p), q, L[q], n, v, p)
<1> DEFINE a == Allocated(t, n, v, p)
           l == L[q]
           u == Linked(a, q, n, p)
           c(x) == Counted(x, q)
<1>1. /\ l \in Seq(Nodes) /\ HasNodes(t, q, l) /\ IsList(t.next, t.head[q], l) /\ Len(l) \in Nat
      /\ Distinct(l) /\ Elements(l) \subseteq t.live /\ t.queuelength[q] = Len(l)
      /\ \A i \in 1 .. Len(l) : l[i] \in Nodes /\ l[i] \in Elements(l)
  BY ShapeQueue
<1>2. \A i \in 1 .. Len(l) : l[i] # n /\ l[i] # Null
  BY <1>1, NodesAssumption
<1>3. /\ a \in State
      /\ a.next = t.next /\ a.head = t.head /\ a.tail = t.tail /\ a.current = t.current
      /\ a.previous = t.previous /\ a.queuelength = t.queuelength /\ a.kind = t.kind
      /\ a.ok = t.ok /\ a.live = t.live \cup {n}
      /\ a.info = [t.info EXCEPT ![n] = v] /\ a.priority = [t.priority EXCEPT ![n] = p]
  BY DEF Allocated, State
<1> HIDE DEF l, a
<1>4. l = <<>> \/ Len(l) \in 1 .. Len(l)
  BY <1>1, EmptySeq
<1>5. CASE t.head[q] = Null
  <2>1. l = <<>> /\ Len(l) = 0
    BY <1>1, <1>5, EmptySeq DEF IsList
  <2>2. u = [a EXCEPT !.next[n] = Null, !.head[q] = n, !.tail[q] = n]
    BY <1>5, <1>3 DEF Linked
  <2> HIDE DEF u
  <2>3. /\ u \in State
        /\ u.next = [a.next EXCEPT ![n] = Null] /\ u.head = [a.head EXCEPT ![q] = n]
        /\ u.tail = [a.tail EXCEPT ![q] = n]
        /\ u.info = a.info /\ u.priority = a.priority /\ u.live = a.live /\ u.kind = a.kind
        /\ u.ok = a.ok /\ u.current = a.current /\ u.previous = a.previous
        /\ u.queuelength = a.queuelength
    BY <2>2, <1>3 DEF State, Pointer
  <2>4. /\ c(u).next = u.next /\ c(u).head = u.head /\ c(u).tail = u.tail
        /\ c(u).info = u.info /\ c(u).priority = u.priority /\ c(u).live = u.live
        /\ c(u).kind = u.kind /\ c(u).ok = u.ok /\ c(u).current = u.current
        /\ c(u).previous = u.previous
        /\ c(u).queuelength = [u.queuelength EXCEPT ![q] = u.queuelength[q] + 1]
    BY <2>3 DEF State, Counted
  <2> HIDE DEF c
  <2>5. PutIn(t, c(u), q, l, 0, n, v, p)
    <3>1. \A r \in Queues : r # q => SameQueue(t, c(u), r)
      BY <2>3, <2>4, <1>3 DEF SameQueue, State
    <3>2. /\ c(u).next[n] = Null /\ \A m \in Nodes : m # n => c(u).next[m] = t.next[m]
          /\ c(u).head[q] = n /\ c(u).tail[q] = n
          /\ c(u).queuelength[q] = t.queuelength[q] + 1
      BY <2>3, <2>4, <1>3 DEF State
    <3>3. /\ c(u).live = t.live \cup {n} /\ c(u).kind = t.kind /\ c(u).ok = t.ok
          /\ c(u).info = [t.info EXCEPT ![n] = v] /\ c(u).priority = [t.priority EXCEPT ![n] = p]
      BY <2>3, <2>4, <1>3
    <3> QED BY <3>1, <3>2, <3>3, <2>1 DEF PutIn
  <2>6. PlaceFor(l, t.priority, p, 0) /\ 0 \in 0 .. Len(l) /\ 0 = Len(l)
    BY <2>1 DEF PlaceFor
  <2> QED BY <2>3, <2>5, <2>6, <1>3 DEF l, u, c, a, LinkedIn
<1>6. CASE t.head[q] # Null /\ t.kind[q].tag_only /\ t.tail[q] = Null
  <2>1. u = [a EXCEPT !.ok = FALSE]
    BY <1>6, <1>3 DEF Linked
  <2>2. u \in State /\ u.ok = FALSE /\ u.kind = a.kind /\ u.queuelength = a.queuelength
        /\ u.live = a.live /\ u.info = a.info /\ u.priority = a.priority
    BY <2>1, <1>3 DEF State
  <2> QED BY <2>2, <1>3 DEF a, LinkedIn
<1>7. CASE t.head[q] # Null /\ t.kind[q].tag_only /\ t.tail[q] # Null
  <2>1. l # <<>> /\ Len(l) \in 1 .. Len(l) /\ l[Len(l)] \in Nodes /\ l[Len(l)] # n
    BY <1>1, <1>2, <1>4, <1>7 DEF IsList
  <2>2. t.tail[q] = l[Len(l)]
    BY <1>1, <1>7, <2>1 DEF HasNodes
  <2> DEFINE b == l[Len(l)]
  <2>3. u = [a EXCEPT !.next = [@ EXCEPT ![b] = n, ![n] = Null], !.tail[q] = n]
    BY <1>7, <1>3, <2>2 DEF Linked
  <2>4. b \in Nodes /\ b # n
    BY <2>1
  <2> HIDE DEF u, b
  <2>5. /\ u \in State
        /\ u.next = [[a.next EXCEPT ![b] = n] EXCEPT ![n] = Null] /\ u.head = a.head
        /\ u.tail = [a.tail EXCEPT ![q] = n]
        /\ u.info = a.info /\ u.priority = a.priority /\ u.live = a.live /\ u.kind = a.kind
        /\ u.ok = a.ok /\ u.current = a.current /\ u.previous = a.previous
        /\ u.queuelength = a.queuelength
    BY <2>3, <2>4, <1>3 DEF State, Pointer
  <2>6. /\ c(u).next = u.next /\ c(u).head = u.head /\ c(u).tail = u.tail
        /\ c(u).info = u.info /\ c(u).priority = u.priority /\ c(u).live = u.live
        /\ c(u).kind = u.kind /\ c(u).ok = u.ok /\ c(u).current = u.current
        /\ c(u).previous = u.previous
        /\ c(u).queuelength = [u.queuelength EXCEPT ![q] = u.queuelength[q] + 1]
    BY <2>5 DEF State, Counted
  <2> HIDE DEF c
  <2>7. PutIn(t, c(u), q, l, Len(l), n, v, p)
    <3>1. \A r \in Queues : r # q => SameQueue(t, c(u), r)
      BY <2>5, <2>6, <1>3 DEF SameQueue, State
    <3>2. /\ c(u).next[n] = Null /\ c(u).next[b] = n
          /\ \A m \in Nodes : m # n /\ m # b => c(u).next[m] = t.next[m]
          /\ c(u).head[q] = t.head[q] /\ c(u).tail[q] = n
          /\ c(u).queuelength[q] = t.queuelength[q] + 1
      BY <2>4, <2>5, <2>6, <1>3 DEF State
    <3>3. /\ c(u).live = t.live \cup {n} /\ c(u).kind = t.kind /\ c(u).ok = t.ok
          /\ c(u).info = [t.info EXCEPT ![n] = v] /\ c(u).priority = [t.priority EXCEPT ![n] = p]
      BY <2>5, <2>6, <1>3
    <3> QED BY <3>1, <3>2, <3>3, <2>1 DEF PutIn, b
  <2>8. Len(l) \in 0 .. Len(l)
    BY <1>1
  <2> QED BY <2>5, <2>7, <2>8, <1>3, <1>7 DEF l, u, c, a, LinkedIn
<1>8. CASE t.head[q] # Null /\ ~ t.kind[q].tag_only
  <2> DEFINE before == Predecessor(a, q, p)
  <2>1. \E k \in 0 .. Len(l) : PlaceFor(l, t.priority, p, k) /\ before = IF k = 0 THEN Null ELSE l[k]
    <3>1. NodesOf(a, q) = l
      BY <1>1, <1>3, NodesOfList
    <3> DEFINE Fits(k) == /\ \A i \in 1 .. k : p >= a.priority[l[i]]
                          /\ k < Len(l) => ~ p >= a.priority[l[k + 1]]
               k == CHOOSE k \in 0 .. Len(l) : Fits(k)
    <3>2. before = IF k = 0 THEN Null ELSE l[k]
      BY <3>1 DEF Predecessor
    <3>3. \E j \in 0 .. Len(l) : Fits(j)
      BY <1>1, PlaceExists DEF PlaceFor
    <3>4. k \in 0 .. Len(l) /\ Fits(k)
      BY <3>3
    <3> HIDE DEF k
    <3>5. \A i \in 1 .. Len(l) : a.priority[l[i]] = t.priority[l[i]]
      BY <1>1, <1>2, <1>3 DEF State
    <3>6. PlaceFor(l, t.priority, p, k)
      <4>1. \A i \in 1 .. k : i \in 1 .. Len(l) /\ p >= a.priority[l[i]]
        BY <3>4, <1>1
      <4>2. k < Len(l) => k + 1 \in 1 .. Len(l) /\ ~ p >= a.priority[l[k + 1]]
        BY <3>4, <1>1
      <4>3. \A i \in 1 .. k : p >= t.priority[l[i]]
        BY <4>1, <3>5
      <4>4. k < Len(l) => ~ p >= t.priority[l[k + 1]]
        <5> DEFINE j == k + 1
        <5>1. k < Len(l) => j \in 1 .. Len(l) /\ ~ p >= a.priority[l[j]]
          BY <4>2
        <5> HIDE DEF j
        <5>2. k < Len(l) => ~ p >= t.priority[l[j]]
          BY <5>1, <3>5
        <5> QED BY <5>2 DEF j
      <4> HIDE DEF Fits
      <4> QED BY <4>3, <4>4 DEF PlaceFor
    <3> QED BY <3>2, <3>4, <3>6
  <2>2. PICK k \in 0 .. Len(l) :
           PlaceFor(l, t.priority, p, k) /\ before = IF k = 0 THEN Null ELSE l[k]
    BY <2>1
  <2>3. l # <<>> /\ t.head[q] = l[1] /\ 1 \in 1 .. Len(l)
    BY <1>1, <1>4, <1>8 DEF IsList
  <2>4. CASE k = 0
    <3>1. before = Null
      BY <2>2, <2>4
    <3>2. u = [a EXCEPT !.next[n] = a.head[q], !.tail[q] = a.head[q], !.head[q] = n]
      BY <1>8, <1>3, <3>1 DEF Linked
    <3> HIDE DEF u, before
    <3>3. /\ u \in State
          /\ u.next = [a.next EXCEPT ![n] = a.head[q]] /\ u.head = [a.head EXCEPT ![q] = n]
          /\ u.tail = [a.tail EXCEPT ![q] = a.head[q]]
          /\ u.info = a.info /\ u.priority = a.priority /\ u.live = a.live /\ u.kind = a.kind
          /\ u.ok = a.ok /\ u.current = a.current /\ u.previous = a.previous
          /\ u.queuelength = a.queuelength
      BY <3>2, <1>3 DEF State, Pointer
    <3>4. /\ c(u).next = u.next /\ c(u).head = u.head /\ c(u).tail = u.tail
          /\ c(u).info = u.info /\ c(u).priority = u.priority /\ c(u).live = u.live
          /\ c(u).kind = u.kind /\ c(u).ok = u.ok /\ c(u).current = u.current
          /\ c(u).previous = u.previous
          /\ c(u).queuelength = [u.queuelength EXCEPT ![q] = u.queuelength[q] + 1]
      BY <3>3 DEF State, Counted
    <3> HIDE DEF c
    <3>5. PutIn(t, c(u), q, l, 0, n, v, p)
      <4>1. \A r \in Queues : r # q => SameQueue(t, c(u), r)
        BY <3>3, <3>4, <1>3 DEF SameQueue, State
      <4>2. /\ c(u).next[n] = l[0 + 1] /\ \A m \in Nodes : m # n => c(u).next[m] = t.next[m]
            /\ c(u).head[q] = n /\ c(u).queuelength[q] = t.queuelength[q] + 1
        BY <3>3, <3>4, <1>3, <2>3 DEF State
      <4>3. /\ c(u).live = t.live \cup {n} /\ c(u).kind = t.kind /\ c(u).ok = t.ok
            /\ c(u).info = [t.info EXCEPT ![n] = v] /\ c(u).priority = [t.priority EXCEPT ![n] = p]
        BY <3>3, <3>4, <1>3
      <4>4. 0 # Len(l)
        BY <2>3
      <4> QED BY <4>1, <4>2, <4>3, <4>4, <1>8 DEF PutIn
    <3> QED BY <3>3, <3>5, <1>3, <1>8, <2>2, <2>4 DEF l, u, c, a, LinkedIn
  <2>5. CASE k # 0
    <3> DEFINE b == l[k]
    <3>1. before = b /\ b \in Nodes /\ b # n /\ b # Null /\ k \in 1 .. Len(l)
      BY <1>1, <1>2, <2>2, <2>5
    <3>2. t.next[b] = IF k = Len(l) THEN Null ELSE l[k + 1]
      BY <3>1, <1>1, <2>3 DEF IsList
    <3> HIDE DEF b
    <3>3. u = [a EXCEPT !.next = [@ EXCEPT ![n] = a.next[b], ![b] = n],
                        !.tail[q] = IF a.next[b] = Null THEN n ELSE @]
      BY <1>8, <1>3, <3>1 DEF Linked
    <3> HIDE DEF u, before
    <3> DEFINE tail == IF a.next[b] = Null THEN n ELSE a.tail[q]
    <3>4. tail \in Pointer /\ a.next[b] \in Pointer
      BY <1>3, <3>1 DEF State, Pointer
    <3>5. u = [a EXCEPT !.next = [@ EXCEPT ![n] = a.next[b], ![b] = n], !.tail[q] = tail]
      BY <3>3, <1>3 DEF State
    <3> HIDE DEF tail
    <3>6. /\ u \in State
          /\ u.next = [[a.next EXCEPT ![n] = a.next[b]] EXCEPT ![b] = n] /\ u.head = a.head
          /\ u.tail = [a.tail EXCEPT ![q] = tail]
          /\ u.info = a.info /\ u.priority = a.priority /\ u.live = a.live /\ u.kind = a.kind
          /\ u.ok = a.ok /\ u.current = a.current /\ u.previous = a.previous
          /\ u.queuelength = a.queuelength
      BY <3>1, <3>4, <3>5, <1>3 DEF State, Pointer
    <3>7. /\ c(u).next = u.next /\ c(u).head = u.head /\ c(u).tail = u.tail
          /\ c(u).info = u.info /\ c(u).priority = u.priority /\ c(u).live = u.live
          /\ c(u).kind = u.kind /\ c(u).ok = u.ok /\ c(u).current = u.current
          /\ c(u).previous = u.previous
          /\ c(u).queuelength = [u.queuelength EXCEPT ![q] = u.queuelength[q] + 1]
      BY <3>6 DEF State, Counted
    <3> HIDE DEF c
    <3>8. PutIn(t, c(u), q, l, k, n, v, p)
      <4>1. \A r \in Queues : r # q => SameQueue(t, c(u), r)
        BY <3>6, <3>7, <1>3 DEF SameQueue, State
      <4>2. /\ c(u).next[n] = t.next[b] /\ c(u).next[b] = n
            /\ \A m \in Nodes : m # n /\ m # b => c(u).next[m] = t.next[m]
            /\ c(u).head[q] = t.head[q] /\ c(u).queuelength[q] = t.queuelength[q] + 1
        BY <3>1, <3>6, <3>7, <1>3 DEF State
      <4>3. /\ c(u).live = t.live \cup {n} /\ c(u).kind = t.kind /\ c(u).ok = t.ok
            /\ c(u).info = [t.info EXCEPT ![n] = v] /\ c(u).priority = [t.priority EXCEPT ![n] = p]
        BY <3>6, <3>7, <1>3
      <4> QED BY <4>1, <4>2, <4>3, <3>2, <2>5, <1>8 DEF PutIn, b
    <3> QED BY <3>6, <3>8, <1>3, <1>8, <2>2 DEF l, u, c, a, LinkedIn
  <2> QED BY <2>4, <2>5
<1> QED BY <1>5, <1>6, <1>7, <1>8 DEF a, l

\* An element that is there already is only found.
Duplicate(t, q, v) == t.head[q] # Null /\ ~ t.kind[q].duplicates /\ Contains(t, q, v)

\* u is t with an element added to q: nolock_add_to_queue finds a duplicate, follows
\* a nil tail, or puts the node n in.
AddedRight(t, L, q, v, p, n, u) ==
    /\ u \in State /\ u.kind = t.kind /\ n \in Nodes /\ n \notin t.live
    /\ t.live \subseteq u.live /\ u.live \subseteq t.live \cup {n}
    /\ \A m \in t.live : u.info[m] = t.info[m] /\ u.priority[m] = t.priority[m]
    /\ u.ok => \A r \in Queues : r # q => SameQueue(t, u, r)
    /\ u.ok =>
         \/ Duplicate(t, q, v) /\ u = Found(t, q, v) /\ Shape(u, L)
         \/ /\ ~ Duplicate(t, q, v)
            /\ \E k \in 0 .. Len(L[q]) :
                  /\ IF t.kind[q].tag_only THEN k = Len(L[q])
                     ELSE PlaceFor(L[q], t.priority, p, k)
                  /\ PutIn(t, u, q, L[q], k, n, v, p) /\ u.previous[q] = Null
                  /\ Shape(u, [L EXCEPT ![q] = Inserting(L[q], k, n)])

LEMMA AddedShape ==
    ASSUME NEW t \in State, NEW L \in [Queues -> Seq(Nodes)], Shape(t, L), NEW q \in Queues,
           NEW v \in Value, NEW p \in Priorities, t.live # Nodes
    PROVE  AddedRight(t, L, q, v, p, First(Nodes \ t.live), AddedTo(t, q, v, p))
<1> DEFINE n == First(Nodes \ t.live)
           u == AddedTo(t, q, v, p)
           a == Allocated(t, n, v, p)
           b == Linked(a, q, n, p)
           c == Counted(b, q)
<1>1. n \in Nodes /\ n \notin t.live /\ t.live \in SUBSET Nodes
  BY FirstFree DEF State
<1> HIDE DEF n
<1>2. CASE Duplicate(t, q, v)
  <2>1. u = Found(t, q, v)
    BY <1>2 DEF AddedTo, Duplicate
  <2>2. /\ Found(t, q, v) \in State /\ Shape(Found(t, q, v), L)
        /\ Found(t, q, v).kind = t.kind /\ Found(t, q, v).live = t.live
        /\ Found(t, q, v).info = t.info /\ Found(t, q, v).priority = t.priority
        /\ \A r \in Queues : r # q => SameQueue(t, Found(t, q, v), r)
    BY FoundShape
  <2> HIDE DEF u
  <2>3. /\ u \in State /\ Shape(u, L) /\ u.kind = t.kind /\ u.live = t.live
        /\ u.info = t.info /\ u.priority = t.priority
        /\ \A r \in Queues : r # q => SameQueue(t, u, r)
    BY <2>1, <2>2, Zenon
  <2>4. AddedRight(t, L, q, v, p, n, u)
    BY <1>1, <1>2, <2>1, <2>3 DEF AddedRight
  <2> QED BY <2>4 DEF n, u
<1>3. CASE ~ Duplicate(t, q, v)
  <2>1. u = Rewound(c, q)
    BY <1>3 DEF AddedTo, Duplicate, Counted, n
  <2> HIDE DEF u
  <2>2. /\ b \in State
        /\ b.ok = FALSE
           \/ \E k \in 0 .. Len(L[q]) :
                 /\ IF t.kind[q].tag_only THEN k = Len(L[q]) ELSE PlaceFor(L[q], t.priority, p, k)
                 /\ PutIn(t, c, q, L[q], k, n, v, p)
        /\ b.kind = t.kind /\ b.queuelength = t.queuelength /\ b.live = t.live \cup {n}
        /\ b.info = [t.info EXCEPT ![n] = v] /\ b.priority = [t.priority EXCEPT ![n] = p]
    <3>1. LinkedIn(t, b, q, L[q], n, v, p)
      BY <1>1, LinkedFields
    <3> HIDE DEF b
    <3> QED BY <3>1 DEF LinkedIn
  <2> HIDE DEF b
  <2>3. t.queuelength[q] + 1 \in 0 .. Cardinality(Nodes)
    <3>1. L[q] \in Seq(Nodes) /\ Distinct(L[q]) /\ Elements(L[q]) \subseteq t.live
          /\ t.queuelength[q] = Len(L[q]) /\ Len(L[q]) \in Nat
      BY ShapeQueue
    <3>2. Len(L[q]) <= Cardinality(t.live)
      BY <3>1, <1>1, DistinctSize
    <3>3. Cardinality(t.live) < Cardinality(Nodes) /\ Cardinality(t.live) \in Nat
      BY <1>1, NodesSize, FS_Subset, FS_CardinalityType
    <3> QED BY <3>1, <3>2, <3>3, NodesSize
  <2>4. /\ c \in State
        /\ c.next = b.next /\ c.info = b.info /\ c.priority = b.priority /\ c.head = b.head
        /\ c.tail = b.tail /\ c.kind = b.kind /\ c.live = b.live /\ c.ok = b.ok
        /\ c.current = b.current /\ c.previous = b.previous
    BY <2>2, <2>3 DEF State, Counted
  <2> HIDE DEF c
  <2>5. /\ u \in State
        /\ u.next = c.next /\ u.info = c.info /\ u.priority = c.priority /\ u.head = c.head
        /\ u.tail = c.tail /\ u.queuelength = c.queuelength /\ u.kind = c.kind
        /\ u.live = c.live /\ u.ok = c.ok
        /\ u.current = [c.current EXCEPT ![q] = c.head[q]]
        /\ u.previous = [c.previous EXCEPT ![q] = Null]
    <3> DEFINE w == Rewound(c, q)
    <3>1. /\ w \in State
          /\ w.next = c.next /\ w.info = c.info /\ w.priority = c.priority /\ w.head = c.head
          /\ w.tail = c.tail /\ w.queuelength = c.queuelength /\ w.kind = c.kind
          /\ w.live = c.live /\ w.ok = c.ok
          /\ w.current = [c.current EXCEPT ![q] = c.head[q]]
          /\ w.previous = [c.previous EXCEPT ![q] = Null]
      BY <2>4, RewoundFields
    <3>2. u = w
      BY <2>1
    <3> HIDE DEF w
    <3> QED BY <3>1, <3>2
  <2>6. \A m \in t.live : u.info[m] = t.info[m] /\ u.priority[m] = t.priority[m]
    BY <2>2, <2>4, <2>5, <1>1 DEF State
  <2>7. ASSUME u.ok
        PROVE  \E k \in 0 .. Len(L[q]) :
                  /\ IF t.kind[q].tag_only THEN k = Len(L[q])
                     ELSE PlaceFor(L[q], t.priority, p, k)
                  /\ PutIn(t, u, q, L[q], k, n, v, p) /\ u.previous[q] = Null
                  /\ Shape(u, [L EXCEPT ![q] = Inserting(L[q], k, n)])
    <3>1. b.ok # FALSE
      BY <2>7, <2>4, <2>5
    <3>2. PICK k \in 0 .. Len(L[q]) :
             /\ IF t.kind[q].tag_only THEN k = Len(L[q]) ELSE PlaceFor(L[q], t.priority, p, k)
             /\ PutIn(t, c, q, L[q], k, n, v, p)
      BY <2>2, <3>1
    <3>3. \A r \in Queues : r # q => SameQueue(t, u, r)
      <4>1. \A r \in Queues : r # q => SameQueue(t, c, r)
        BY <3>2 DEF PutIn
      <4>2. \A r \in Queues : r # q => SameQueue(c, u, r)
        BY <2>4, <2>5 DEF SameQueue, State
      <4> QED BY <4>1, <4>2 DEF SameQueue
    <3>4. PutIn(t, u, q, L[q], k, n, v, p)
      BY <3>2, <3>3, <2>5 DEF PutIn
    <3>5. u.previous[q] = Null /\ Placed(u, q, Inserting(L[q], k, n))
      BY <2>4, <2>5 DEF Placed, State
    <3>6. Shape(u, [L EXCEPT ![q] = Inserting(L[q], k, n)])
      BY <3>4, <3>5, <1>1, PutInShape
    <3> QED BY <3>2, <3>4, <3>5, <3>6
  <2>8. u.ok => \A r \in Queues : r # q => SameQueue(t, u, r)
    BY <2>7 DEF PutIn
  <2>9. u \in State /\ u.kind = t.kind /\ u.live = t.live \cup {n}
    BY <2>2, <2>4, <2>5
  <2>10. AddedRight(t, L, q, v, p, n, u)
    BY <1>1, <1>3, <2>6, <2>7, <2>8, <2>9 DEF AddedRight
  <2> QED BY <2>10 DEF n, u
<1> QED BY <1>2, <1>3

-----------------------------------------------------------------------------
(* The list a caller sees *)

Item == [info : Value, priority : Priorities \cup {Null}]

\* The elements in the nodes l.
Records(t, l) == [i \in 1 .. Len(l) |-> [info |-> t.info[l[i]], priority |-> t.priority[l[i]]]]

KindOf(t, q) == [fifo |-> t.kind[q].tag_only, duplicates |-> t.kind[q].duplicates]

LEMMA RecordsSeq ==
    ASSUME NEW t \in State, NEW l \in Seq(Nodes)
    PROVE  /\ Records(t, l) \in Seq(Item) /\ Len(Records(t, l)) = Len(l)
           /\ \A i \in 1 .. Len(l) : /\ Records(t, l)[i].info = t.info[l[i]]
                                     /\ Records(t, l)[i].priority = t.priority[l[i]]
                                     /\ Records(t, l)[i] = [info |-> t.info[l[i]],
                                                            priority |-> t.priority[l[i]]]
<1>1. Len(l) \in Nat /\ \A i \in 1 .. Len(l) : l[i] \in Nodes
  OBVIOUS
<1>2. Records(t, l) \in [1 .. Len(l) -> Item]
  BY <1>1 DEF Records, Item, State
<1>3. Records(t, l) \in Seq(Item) /\ Len(Records(t, l)) = Len(l)
  BY <1>1, <1>2, FunctionSeq
<1> QED BY <1>3 DEF Records

\* Inserting is what PriorityList does with SubSeq.
LEMMA InsertingParts ==
    ASSUME NEW S, NEW l \in Seq(S), NEW e \in S, NEW k \in 0 .. Len(l)
    PROVE  SubSeq(l, 1, k) \o <<e>> \o SubSeq(l, k + 1, Len(l)) = Inserting(l, k, e)
<1> DEFINE a == SubSeq(l, 1, k)
           b == SubSeq(l, k + 1, Len(l))
           c == a \o <<e>>
           m == Inserting(l, k, e)
<1>1. Len(l) \in Nat /\ \A i \in 1 .. Len(l) : l[i] \in S
  OBVIOUS
<1>2. a \in Seq(S) /\ Len(a) = k /\ \A i \in 1 .. k : a[i] = l[i]
  <2>1. \A i \in 1 .. k : l[i] \in S
    BY <1>1
  <2>2. a = [i \in 1 .. k |-> l[i]]
    BY SubSeqRestrict DEF Restrict
  <2> HIDE DEF a
  <2>3. a \in [1 .. k -> S]
    BY <2>1, <2>2
  <2>5. k \in Nat
    BY <1>1
  <2>4. a \in Seq(S) /\ Len(a) = k
    BY <2>3, <2>5, FunctionSeq
  <2> QED BY <2>2, <2>4
<1>3. b \in Seq(S) /\ Len(b) = Len(l) - k /\ \A i \in 1 .. Len(l) - k : b[i] = l[k + i]
  <2>1. \A i \in k + 1 .. Len(l) : l[i] \in S
    BY <1>1
  <2>2. b \in Seq(S) /\ Len(b) = (IF k + 1 <= Len(l) THEN Len(l) - (k + 1) + 1 ELSE 0)
        /\ \A i \in 1 .. Len(l) - (k + 1) + 1 : b[i] = l[(k + 1) + i - 1]
    BY <1>1, <2>1, SubSeqProperties
  <2> HIDE DEF b
  <2>3. Len(b) = Len(l) - k
    BY <2>2, <1>1
  <2>4. \A i \in 1 .. Len(l) - k : b[i] = l[k + i]
    BY <2>2, <1>1
  <2> QED BY <2>2, <2>3, <2>4
<1> HIDE DEF a, b
<1>4. <<e>> \in Seq(S) /\ Len(<<e>>) = 1 /\ <<e>>[1] = e
  OBVIOUS
<1>5. c \in Seq(S) /\ Len(c) = k + 1
      /\ \A i \in 1 .. k + 1 : c[i] = IF i <= k THEN l[i] ELSE e
  <2>1. c \in Seq(S) /\ Len(c) = Len(a) + Len(<<e>>)
        /\ \A i \in 1 .. Len(a) + Len(<<e>>) : c[i] = IF i <= Len(a) THEN a[i] ELSE <<e>>[i - Len(a)]
    BY <1>2, <1>4, ConcatProperties
  <2> HIDE DEF c
  <2>2. \A i \in 1 .. k + 1 : c[i] = IF i <= k THEN l[i] ELSE e
    <3> TAKE i \in 1 .. k + 1
    <3>1. c[i] = IF i <= k THEN a[i] ELSE <<e>>[i - k]
      BY <2>1, <1>2, <1>4
    <3>2. ~ i <= k => i - k = 1
      OBVIOUS
    <3> QED BY <3>1, <3>2, <1>2, <1>4
  <2> QED BY <2>1, <2>2, <1>2, <1>4
<1> HIDE DEF c
<1>6. c \o b \in Seq(S) /\ Len(c \o b) = Len(l) + 1
      /\ \A i \in 1 .. Len(l) + 1 : (c \o b)[i] = IF i <= k + 1 THEN c[i] ELSE b[i - (k + 1)]
  <2>1. c \o b \in Seq(S) /\ Len(c \o b) = Len(c) + Len(b)
        /\ \A i \in 1 .. Len(c) + Len(b) : (c \o b)[i] = IF i <= Len(c) THEN c[i] ELSE b[i - Len(c)]
    BY <1>3, <1>5, ConcatProperties
  <2>2. Len(c) + Len(b) = Len(l) + 1
    BY <1>1, <1>3, <1>5
  <2> QED BY <2>1, <2>2, <1>5
<1>7. m \in Seq(S) /\ Len(m) = Len(l) + 1
      /\ \A i \in 1 .. Len(l) + 1 : m[i] = IF i <= k THEN l[i] ELSE IF i = k + 1 THEN e ELSE l[i - 1]
  BY InsertingSeq
<1> HIDE DEF m
<1>8. ASSUME NEW i \in 1 .. Len(l) + 1 PROVE (c \o b)[i] = m[i]
  <2>1. CASE i <= k + 1
    <3>1. (c \o b)[i] = c[i]
      BY <2>1, <1>6
    <3>2. i \in 1 .. k + 1 /\ (i <= k \/ i = k + 1)
      BY <2>1, <1>1
    <3> QED BY <3>1, <3>2, <1>1, <1>5, <1>7
  <2>2. CASE ~ i <= k + 1
    <3> DEFINE j == i - (k + 1)
    <3>1. j \in 1 .. Len(l) - k /\ k + j = i - 1
      BY <2>2, <1>1
    <3>2. (c \o b)[i] = b[j]
      BY <2>2, <1>6
    <3>3. b[j] = l[k + j]
      BY <3>1, <1>3
    <3>4. m[i] = l[i - 1]
      BY <2>2, <1>7
    <3> QED BY <3>1, <3>2, <3>3, <3>4
  <2> QED BY <2>1, <2>2
<1>9. c \o b = m
  BY <1>6, <1>7, <1>8, SeqEqual
<1> QED BY <1>9 DEF a, b, c, m

LEMMA PlaceIs ==
    ASSUME NEW t \in State, NEW l \in Seq(Nodes), NEW p \in Priorities, NEW fifo \in BOOLEAN,
           NEW k \in 0 .. Len(l), \A i \in 1 .. Len(l) : t.priority[l[i]] \in Priorities,
           IF fifo THEN k = Len(l) ELSE PlaceFor(l, t.priority, p, k)
    PROVE  List!Place(Records(t, l), p, fifo) = k
<1> DEFINE R == Records(t, l)
           Fits(n) == /\ \A i \in 1 .. n : <<R[i].priority, p>> \in LowerAhead
                      /\ n < Len(R) => <<R[n + 1].priority, p>> \notin LowerAhead
<1>1. Len(l) \in Nat /\ Len(R) = Len(l) /\ \A i \in 1 .. Len(l) : R[i].priority = t.priority[l[i]]
  <2>1. Len(l) \in Nat
    OBVIOUS
  <2> QED BY <2>1, RecordsSeq, Zenon
<1>2. \A i \in 1 .. Len(l) : <<R[i].priority, p>> \in LowerAhead <=> p >= R[i].priority
  <2> TAKE i \in 1 .. Len(l)
  <2>1. R[i].priority \in Priorities
    BY <1>1
  <2> DEFINE r == R[i].priority
  <2> HIDE DEF R, r
  <2>2. r \in Int /\ p \in Int /\ r \in Priorities
    BY <2>1, PrioritiesAssumption DEF r
  <2>3. <<r, p>> \in LowerAhead <=> p >= r
    BY <2>2 DEF LowerAhead
  <2> QED BY <2>3 DEF r
<1>3. CASE fifo
  BY <1>1, <1>3 DEF List!Place
<1>4. CASE ~ fifo
  <2>1. List!Place(R, p, fifo) = CHOOSE n \in 0 .. Len(R) : Fits(n)
    BY <1>4 DEF List!Place
  <2> HIDE DEF R
  <2>2. \A i \in 1 .. k : i \in 1 .. Len(l) /\ p >= R[i].priority
    BY <1>1, <1>4 DEF PlaceFor
  <2>3. k < Len(l) => ~ p >= R[k + 1].priority
    <3> DEFINE j == k + 1
    <3>1. k < Len(l) => j \in 1 .. Len(l) /\ ~ p >= t.priority[l[j]]
      BY <1>1, <1>4 DEF PlaceFor
    <3> HIDE DEF j
    <3>2. k < Len(l) => ~ p >= R[j].priority
      BY <3>1, <1>1
    <3> QED BY <3>2 DEF j
  <2>4. Fits(k)
    <3>1. \A i \in 1 .. k : <<R[i].priority, p>> \in LowerAhead
      BY <1>2, <2>2
    <3>2. k < Len(l) => <<R[k + 1].priority, p>> \notin LowerAhead
      <4>1. k < Len(l) => k + 1 \in 1 .. Len(l)
        BY <1>1
      <4> QED BY <4>1, <1>2, <2>3
    <3> QED BY <3>1, <3>2, <1>1
  <2>5. ASSUME NEW n \in 0 .. Len(l), Fits(n), n # k PROVE FALSE
    <3>1. CASE n < k
      <4>1. n + 1 \in 1 .. k /\ n < Len(R)
        BY <3>1, <1>1
      <4> QED BY <4>1, <1>2, <2>2, <2>5
    <3>2. CASE k < n
      <4>1. k + 1 \in 1 .. n /\ k < Len(l) /\ k + 1 \in 1 .. Len(l)
        BY <3>2, <1>1
      <4> QED BY <4>1, <1>2, <2>3, <2>5
    <3> QED BY <3>1, <3>2, <2>5, <1>1
  <2>6. \A n \in 0 .. Len(R) : Fits(n) => n = k
    BY <2>5, <1>1
  <2>7. k \in 0 .. Len(R)
    BY <1>1
  <2> HIDE DEF Fits
  <2>8. (CHOOSE n \in 0 .. Len(R) : Fits(n)) = k
    BY <2>4, <2>6, <2>7
  <2> QED BY <2>1, <2>8 DEF R
<1> QED BY <1>3, <1>4

\* u is t with what PriorityList adds to q.
AddedAs(t, L, q, v, p, u) ==
    \E l \in Seq(Nodes) :
       /\ Shape(u, [L EXCEPT ![q] = l])
       /\ Records(u, l) = List!Added(Records(t, L[q]), [info |-> v, priority |-> p],
                                     KindOf(t, q))

\* nolock_add_to_queue is Added.
LEMMA AddedRecords ==
    ASSUME NEW t \in State, NEW L \in [Queues -> Seq(Nodes)], Shape(t, L), NEW q \in Queues,
           NEW v \in Value, NEW p \in Priorities, t.live # Nodes, AddedTo(t, q, v, p).ok
    PROVE  AddedAs(t, L, q, v, p, AddedTo(t, q, v, p))
<1> DEFINE n == First(Nodes \ t.live)
           u == AddedTo(t, q, v, p)
           l == L[q]
           R == Records(t, l)
           e == [info |-> v, priority |-> p]
           kind == KindOf(t, q)
<1>1. /\ l \in Seq(Nodes) /\ Len(l) \in Nat /\ NodesOf(t, q) = l /\ IsList(t.next, t.head[q], l)
      /\ Elements(l) \subseteq t.live /\ t.live \subseteq Nodes
      /\ \A i \in 1 .. Len(l) : l[i] \in Nodes /\ l[i] \in Elements(l)
      /\ \A i \in 1 .. Len(l) : t.priority[l[i]] \in Priorities
  <2>1. t.live \subseteq Nodes
    BY DEF State
  <2> QED BY <2>1, ShapeQueue
<1>2. R \in Seq(Item) /\ Len(R) = Len(l)
      /\ \A i \in 1 .. Len(l) : R[i].info = t.info[l[i]] /\ R[i].priority = t.priority[l[i]]
                                /\ R[i] = [info |-> t.info[l[i]], priority |-> t.priority[l[i]]]
  BY <1>1, RecordsSeq
<1>3. Duplicate(t, q, v) <=> ~ kind.duplicates /\ \E i \in 1 .. Len(R) : R[i].info = e.info
  <2>1. Contains(t, q, v) <=> \E i \in 1 .. Len(R) : R[i].info = e.info
    BY <1>1, <1>2 DEF Contains, Elements
  <2>2. Contains(t, q, v) => t.head[q] # Null
    <3>1. Contains(t, q, v) => \E i \in 1 .. Len(l) : TRUE
      BY <1>1 DEF Contains, Elements
    <3> QED BY <3>1, <1>1, EmptySeq DEF IsList
  <2> QED BY <2>1, <2>2 DEF Duplicate, KindOf
<1>4. /\ u \in State /\ n \in Nodes /\ n \notin t.live
      /\ \/ Duplicate(t, q, v) /\ u = Found(t, q, v) /\ Shape(u, L)
         \/ /\ ~ Duplicate(t, q, v)
            /\ \E k \in 0 .. Len(l) :
                  /\ IF t.kind[q].tag_only THEN k = Len(l) ELSE PlaceFor(l, t.priority, p, k)
                  /\ PutIn(t, u, q, l, k, n, v, p) /\ u.previous[q] = Null
                  /\ Shape(u, [L EXCEPT ![q] = Inserting(l, k, n)])
  <2>1. AddedRight(t, L, q, v, p, n, u)
    BY AddedShape
  <2> HIDE DEF n
  <2> QED BY <2>1 DEF AddedRight
<1> HIDE DEF n, u
<1>5. CASE Duplicate(t, q, v)
  <2>1. u = Found(t, q, v) /\ Shape(u, L)
    BY <1>4, <1>5
  <2>2. [L EXCEPT ![q] = l] = L
    OBVIOUS
  <2>3. u.info = t.info /\ u.priority = t.priority
    BY <2>1, FoundShape
  <2>4. Records(u, l) = R
    BY <2>3 DEF Records
  <2>5. List!Added(R, e, kind) = R
    BY <1>3, <1>5 DEF List!Added
  <2>6. Shape(u, [L EXCEPT ![q] = l]) /\ Records(u, l) = List!Added(R, e, kind)
    BY <2>1, <2>2, <2>4, <2>5
  <2> QED BY <2>6, <1>1 DEF AddedAs, u
<1>6. CASE ~ Duplicate(t, q, v)
  <2>1. PICK k \in 0 .. Len(l) :
           /\ IF t.kind[q].tag_only THEN k = Len(l) ELSE PlaceFor(l, t.priority, p, k)
           /\ PutIn(t, u, q, l, k, n, v, p)
           /\ Shape(u, [L EXCEPT ![q] = Inserting(l, k, n)])
    BY <1>4, <1>6
  <2> DEFINE m == Inserting(l, k, n)
             M == Inserting(R, k, e)
  <2>2. List!Place(R, p, kind.fifo) = k
    <3>1. kind.fifo = t.kind[q].tag_only /\ kind.fifo \in BOOLEAN
      BY KindsAssumption DEF KindOf, State
    <3> DEFINE fifo == kind.fifo
    <3>2. IF fifo THEN k = Len(l) ELSE PlaceFor(l, t.priority, p, k)
      BY <2>1, <3>1
    <3> HIDE DEF fifo
    <3>3. fifo \in BOOLEAN
      BY <3>1 DEF fifo
    <3>4. List!Place(R, p, fifo) = k
      BY <1>1, <2>1, <3>2, <3>3, PlaceIs
    <3> QED BY <3>4 DEF fifo
  <2>3. List!Added(R, e, kind) = SubSeq(R, 1, k) \o <<e>> \o SubSeq(R, k + 1, Len(R))
    <3>1. List!Added(R, e, kind) = List!Inserted(R, e, kind.fifo)
      <4> HIDE DEF R, e, kind
      <4> QED BY <1>3, <1>6 DEF List!Added
    <3>2. e.priority = p
      OBVIOUS
    <3> HIDE DEF R, e, kind
    <3> QED BY <3>1, <3>2, <2>2 DEF List!Inserted
  <2>4. e \in Item /\ k \in 0 .. Len(R)
    BY <1>2 DEF Item
  <2>5. List!Added(R, e, kind) = M
    <3> HIDE DEF R, e, kind
    <3> QED BY <2>3, <2>4, <1>2, InsertingParts
  <2>6. m \in Seq(Nodes) /\ Len(m) = Len(l) + 1
        /\ \A i \in 1 .. Len(l) + 1 : m[i] = IF i <= k THEN l[i] ELSE IF i = k + 1 THEN n ELSE l[i - 1]
    <3> HIDE DEF l, m
    <3>1. l \in Seq(Nodes) /\ n \in Nodes /\ k \in 0 .. Len(l)
      BY <1>1, <1>4
    <3> QED BY <3>1, InsertingSeq DEF m
  <2>7. Records(u, m) = M
    <3> DEFINE N == Records(u, m)
    <3> HIDE DEF m
    <3>1. N \in Seq(Item) /\ Len(N) = Len(l) + 1
          /\ \A i \in 1 .. Len(l) + 1 : N[i] = [info |-> u.info[m[i]], priority |-> u.priority[m[i]]]
      BY <2>6, <1>4, RecordsSeq
    <3> HIDE DEF N, R, e
    <3>2. M \in Seq(Item) /\ Len(M) = Len(l) + 1
          /\ \A i \in 1 .. Len(l) + 1 : M[i] = IF i <= k THEN R[i] ELSE IF i = k + 1 THEN e ELSE R[i - 1]
      BY <1>2, <2>4, InsertingSeq
    <3>3. u.info[n] = v /\ u.priority[n] = p
      BY <1>4, <2>1 DEF PutIn, State
    <3>4. \A i \in 1 .. Len(l) : u.info[l[i]] = t.info[l[i]] /\ u.priority[l[i]] = t.priority[l[i]]
      BY <1>1, <1>4, <2>1 DEF PutIn, State
    <3> HIDE DEF M
    <3>5. ASSUME NEW i \in 1 .. Len(l) + 1 PROVE N[i] = M[i]
      <4>1. CASE i <= k
        <5>1. i \in 1 .. Len(l)
          BY <4>1, <1>1
        <5>2. m[i] = l[i] /\ M[i] = R[i]
          BY <4>1, <3>2, <2>6
        <5>3. N[i] = [info |-> t.info[l[i]], priority |-> t.priority[l[i]]]
          BY <5>1, <5>2, <3>1, <3>4
        <5>4. R[i] = [info |-> t.info[l[i]], priority |-> t.priority[l[i]]]
          BY <5>1, <1>2
        <5> QED BY <5>2, <5>3, <5>4
      <4>2. CASE i = k + 1
        <5>1. m[i] = n /\ M[i] = e
          BY <4>2, <3>2, <2>6
        <5> QED BY <5>1, <3>1, <3>3 DEF e
      <4>3. CASE i > k + 1
        <5> DEFINE j == i - 1
        <5>1. j \in 1 .. Len(l) /\ ~ i <= k /\ i # k + 1
          BY <4>3, <1>1
        <5>2. m[i] = l[j] /\ M[i] = R[j]
          BY <5>1, <3>2, <2>6
        <5> HIDE DEF j
        <5>3. N[i] = [info |-> t.info[l[j]], priority |-> t.priority[l[j]]]
          BY <5>1, <5>2, <3>1, <3>4
        <5>4. R[j] = [info |-> t.info[l[j]], priority |-> t.priority[l[j]]]
          BY <5>1, <1>2
        <5> QED BY <5>2, <5>3, <5>4
      <4> QED BY <4>1, <4>2, <4>3, <1>1
    <3>6. N = M
      BY <3>1, <3>2, <3>5, SeqEqual
    <3> QED BY <3>6 DEF N
  <2> HIDE DEF m, M
  <2>8. Shape(u, [L EXCEPT ![q] = m]) /\ Records(u, m) = List!Added(R, e, kind)
    BY <2>1, <2>5, <2>7 DEF m
  <2>9. m \in Seq(Nodes)
    BY <2>6
  <2> HIDE DEF R, e, kind
  <2>10. \E x \in Seq(Nodes) :
            Shape(u, [L EXCEPT ![q] = x]) /\ Records(u, x) = List!Added(R, e, kind)
    BY <2>8, <2>9
  <2> QED BY <2>10 DEF AddedAs, u, R, e, kind
<1> QED BY <1>5, <1>6 DEF u

-----------------------------------------------------------------------------
(* The loops of copy_queue and merge_queues *)

\* The i-th element of a loop that adds what the state t has in the nodes more.
AddedNext(t, q, more, x, i) ==
    IF x.ok THEN AddedTo(x, q, t.info[more[i]], t.priority[more[i]]) ELSE x

IsSum(f, t, q, more, N) ==
    f = [i \in 0 .. N |-> IF i = 0 THEN t ELSE AddedNext(t, q, more, f[i - 1], i)]

LEMMA SumExists ==
    ASSUME NEW t, NEW q, NEW more, NEW N \in Nat
    PROVE  \E f : IsSum(f, t, q, more, N)
<1> DEFINE Body(f, m) == [i \in 0 .. m |-> IF i = 0 THEN t ELSE AddedNext(t, q, more, f[i - 1], i)]
           K == {m \in 0 .. N : \E f : f = Body(f, m)}
<1>1. 0 \in K
  <2> DEFINE f == [i \in 0 .. 0 |-> t]
  <2>1. f = Body(f, 0)
    OBVIOUS
  <2>2. 0 \in 0 .. N
    OBVIOUS
  <2> HIDE DEF f, Body
  <2> QED BY <2>1, <2>2
<1>2. ASSUME NEW m \in 0 .. N, m > 0, m - 1 \in K PROVE m \in K
  <2>1. PICK f : f = Body(f, m - 1)
    BY <1>2
  <2> DEFINE last == AddedNext(t, q, more, f[m - 1], m)
             g == [i \in 0 .. m |-> IF i < m THEN f[i] ELSE last]
  <2>2. ASSUME NEW i \in 0 .. m PROVE g[i] = Body(g, m)[i]
    <3>1. CASE i = 0
      <4>1. g[i] = f[0] /\ f[0] = t
        BY <3>1, <1>2, <2>1
      <4> QED BY <4>1, <3>1
    <3>2. CASE i # 0 /\ i < m
      <4>1. i \in 0 .. m - 1 /\ i - 1 \in 0 .. m /\ i - 1 < m
        BY <3>2
      <4>2. f[i] = AddedNext(t, q, more, f[i - 1], i)
        BY <2>1, <3>2, <4>1
      <4> HIDE DEF last
      <4>3. g[i] = f[i] /\ g[i - 1] = f[i - 1]
        BY <3>2, <4>1
      <4> QED BY <4>2, <4>3, <3>2
    <3>3. CASE i = m
      <4>1. g[i] = last /\ g[i - 1] = f[i - 1]
        BY <3>3, <1>2
      <4>2. Body(g, m)[i] = AddedNext(t, q, more, g[i - 1], i)
        BY <3>3, <1>2
      <4> QED BY <4>1, <4>2, <3>3
    <3> QED BY <3>1, <3>2, <3>3
  <2>3. g = Body(g, m)
    BY <2>2
  <2> QED BY <2>3
<1> HIDE DEF K
<1>3. N \in K
  <2>1. \A m \in 0 .. N : m \in K
    BY <1>1, <1>2, UpTo
  <2> QED BY <2>1
<1> QED BY <1>3 DEF K, IsSum

\* What there is after each addition.
AddedSteps(f, t, q, more) ==
    /\ f[0] = t /\ AllAdded(t, q, more) = f[Len(more)]
    /\ \A i \in 1 .. Len(more) : f[i] = AddedNext(t, q, more, f[i - 1], i)

LEMMA AllAddedSteps ==
    ASSUME NEW t, NEW q, NEW more \in Seq(Nodes)
    PROVE  \E f : AddedSteps(f, t, q, more)
<1> DEFINE Body(f) == [i \in 0 .. Len(more) |->
                         IF i = 0 THEN t
                         ELSE IF f[i - 1].ok
                              THEN AddedTo(f[i - 1], q, t.info[more[i]], t.priority[more[i]])
                              ELSE f[i - 1]]
           sum == CHOOSE f : f = Body(f)
<1>1. Len(more) \in Nat
  OBVIOUS
<1>2. \E f : f = Body(f)
  <2>1. PICK f : IsSum(f, t, q, more, Len(more))
    BY <1>1, SumExists
  <2>2. f = Body(f)
    BY <2>1, Zenon DEF IsSum, AddedNext
  <2> QED BY <2>2
<1>3. sum = Body(sum)
  BY <1>2
<1>4. AllAdded(t, q, more) = sum[Len(more)]
  BY Zenon DEF AllAdded
<1> HIDE DEF sum
<1>5. ASSUME NEW i \in 0 .. Len(more)
      PROVE  sum[i] = IF i = 0 THEN t ELSE AddedNext(t, q, more, sum[i - 1], i)
  <2>1. sum[i] = Body(sum)[i]
    BY <1>3, Zenon
  <2> QED BY <2>1 DEF AddedNext
<1>6. sum[0] = t
  BY <1>1, <1>5
<1>7. \A i \in 1 .. Len(more) : sum[i] = AddedNext(t, q, more, sum[i - 1], i)
  BY <1>1, <1>5
<1>8. AddedSteps(sum, t, q, more)
  BY <1>4, <1>6, <1>7 DEF AddedSteps
<1> QED BY <1>8

IsListSum(f, l, more, kind, N) ==
    f = [i \in 0 .. N |-> IF i = 0 THEN l ELSE List!Added(f[i - 1], more[i], kind)]

LEMMA ListSumExists ==
    ASSUME NEW l, NEW more, NEW kind, NEW N \in Nat
    PROVE  \E f : IsListSum(f, l, more, kind, N)
<1> DEFINE Body(f, m) == [i \in 0 .. m |-> IF i = 0 THEN l ELSE List!Added(f[i - 1], more[i], kind)]
           K == {m \in 0 .. N : \E f : f = Body(f, m)}
<1>1. 0 \in K
  <2> DEFINE f == [i \in 0 .. 0 |-> l]
  <2>1. f = Body(f, 0)
    OBVIOUS
  <2>2. 0 \in 0 .. N
    OBVIOUS
  <2> HIDE DEF f, Body
  <2> QED BY <2>1, <2>2
<1>2. ASSUME NEW m \in 0 .. N, m > 0, m - 1 \in K PROVE m \in K
  <2>1. PICK f : f = Body(f, m - 1)
    BY <1>2
  <2> DEFINE last == List!Added(f[m - 1], more[m], kind)
             g == [i \in 0 .. m |-> IF i < m THEN f[i] ELSE last]
  <2>2. ASSUME NEW i \in 0 .. m PROVE g[i] = Body(g, m)[i]
    <3>1. CASE i = 0
      <4>1. g[i] = f[0] /\ f[0] = l
        BY <3>1, <1>2, <2>1
      <4> QED BY <4>1, <3>1
    <3>2. CASE i # 0 /\ i < m
      <4>1. i \in 0 .. m - 1 /\ i - 1 \in 0 .. m /\ i - 1 < m
        BY <3>2
      <4>2. f[i] = List!Added(f[i - 1], more[i], kind)
        BY <2>1, <3>2, <4>1
      <4> HIDE DEF last
      <4>3. g[i] = f[i] /\ g[i - 1] = f[i - 1]
        BY <3>2, <4>1
      <4> QED BY <4>2, <4>3, <3>2
    <3>3. CASE i = m
      <4>1. g[i] = last /\ g[i - 1] = f[i - 1]
        BY <3>3, <1>2
      <4>2. Body(g, m)[i] = List!Added(g[i - 1], more[i], kind)
        BY <3>3, <1>2
      <4> QED BY <4>1, <4>2, <3>3
    <3> QED BY <3>1, <3>2, <3>3
  <2>3. g = Body(g, m)
    BY <2>2
  <2> QED BY <2>3
<1> HIDE DEF K
<1>3. N \in K
  <2>1. \A m \in 0 .. N : m \in K
    BY <1>1, <1>2, UpTo
  <2> QED BY <2>1
<1> QED BY <1>3 DEF K, IsListSum

ListSteps(f, l, more, kind) ==
    /\ f[0] = l /\ List!AllAdded(l, more, kind) = f[Len(more)]
    /\ \A i \in 1 .. Len(more) : f[i] = List!Added(f[i - 1], more[i], kind)

LEMMA ListAddedSteps ==
    ASSUME NEW l, NEW more \in Seq(Item), NEW kind
    PROVE  \E f : ListSteps(f, l, more, kind)
<1> DEFINE Body(f) == [i \in 0 .. Len(more) |->
                         IF i = 0 THEN l ELSE List!Added(f[i - 1], more[i], kind)]
           sum == CHOOSE f : f = Body(f)
<1>1. Len(more) \in Nat
  OBVIOUS
<1>2. \E f : f = Body(f)
  <2>1. PICK f : IsListSum(f, l, more, kind, Len(more))
    BY <1>1, ListSumExists
  <2> QED BY <2>1, Zenon DEF IsListSum
<1>3. sum = Body(sum)
  BY <1>2
<1>4. List!AllAdded(l, more, kind) = sum[Len(more)]
  BY Zenon DEF List!AllAdded
<1> HIDE DEF sum
<1>5. ASSUME NEW i \in 0 .. Len(more)
      PROVE  sum[i] = IF i = 0 THEN l ELSE List!Added(sum[i - 1], more[i], kind)
  <2>1. sum[i] = Body(sum)[i]
    BY <1>3, Zenon
  <2> QED BY <2>1
<1>6. sum[0] = l
  BY <1>1, <1>5
<1>7. \A i \in 1 .. Len(more) : sum[i] = List!Added(sum[i - 1], more[i], kind)
  BY <1>1, <1>5
<1>8. ListSteps(sum, l, more, kind)
  BY <1>4, <1>6, <1>7 DEF ListSteps
<1> QED BY <1>8

\* After i additions to q, when a caller of PriorityList would see r.
LoopRight(t, L, q, i, u, r) ==
    /\ u \in State /\ u.kind = t.kind /\ t.live \subseteq u.live
    /\ \A m \in t.live : u.info[m] = t.info[m] /\ u.priority[m] = t.priority[m]
    /\ u.ok =>
         /\ Cardinality(Nodes \ u.live) >= Cardinality(Nodes \ t.live) - i
         /\ \A p \in Queues : p # q => SameQueue(t, u, p)
         /\ \E l \in Seq(Nodes) : Shape(u, [L EXCEPT ![q] = l]) /\ Records(u, l) = r

LEMMA AllAddedShape ==
    ASSUME NEW t \in State, NEW L \in [Queues -> Seq(Nodes)], Shape(t, L),
           NEW q \in Queues, NEW q2 \in Queues, q # q2,
           Len(L[q2]) <= Cardinality(Nodes \ t.live)
    PROVE  LoopRight(t, L, q, Len(L[q2]), AllAdded(t, q, L[q2]),
                     List!AllAdded(Records(t, L[q]), Records(t, L[q2]), KindOf(t, q)))
<1> DEFINE more == L[q2]
           items == Records(t, more)
           first == Records(t, L[q])
           kind == KindOf(t, q)
<1>1. /\ more \in Seq(Nodes) /\ Len(more) \in Nat /\ Elements(more) \subseteq t.live
      /\ \A i \in 1 .. Len(more) : more[i] \in Nodes /\ more[i] \in t.live
                                   /\ t.priority[more[i]] \in Priorities
  <2>1. /\ more \in Seq(Nodes) /\ Len(more) \in Nat /\ Elements(more) \subseteq t.live
        /\ \A i \in 1 .. Len(more) : more[i] \in Nodes /\ more[i] \in Elements(more)
        /\ \A i \in 1 .. Len(more) : t.priority[more[i]] \in Priorities
    BY ShapeQueue
  <2> QED BY <2>1
<1> HIDE DEF more
<1>2. /\ items \in Seq(Item) /\ Len(items) = Len(more)
      /\ \A i \in 1 .. Len(more) :
            items[i] = [info |-> t.info[more[i]], priority |-> t.priority[more[i]]]
  BY <1>1, RecordsSeq
<1> HIDE DEF items, kind, first
<1>3. \E f : AddedSteps(f, t, q, more)
  BY <1>1, AllAddedSteps
<1>4. \E g : ListSteps(g, first, items, kind)
  BY <1>2, ListAddedSteps
<1>5. PICK f : AddedSteps(f, t, q, more)
  BY <1>3
<1>6. PICK g : ListSteps(g, first, items, kind)
  BY <1>4
<1>7. /\ f[0] = t /\ AllAdded(t, q, more) = f[Len(more)]
       /\ \A i \in 1 .. Len(more) : f[i] = AddedNext(t, q, more, f[i - 1], i)
  BY <1>5 DEF AddedSteps
<1>8. /\ g[0] = first /\ List!AllAdded(first, items, kind) = g[Len(items)]
       /\ \A i \in 1 .. Len(items) : g[i] = List!Added(g[i - 1], items[i], kind)
  BY <1>6 DEF ListSteps
<1>9. IsFiniteSet(Nodes \ t.live) /\ Cardinality(Nodes \ t.live) \in Nat
  BY NodesSize, FS_Subset, FS_CardinalityType
<1> DEFINE K == {i \in 0 .. Len(more) : LoopRight(t, L, q, i, f[i], g[i])}
<1>10. 0 \in K
  <2>1. L[q] \in Seq(Nodes) /\ [L EXCEPT ![q] = L[q]] = L
    OBVIOUS
  <2>2. \A p \in Queues : SameQueue(t, t, p)
    BY DEF SameQueue
  <2>3. LoopRight(t, L, q, 0, t, first)
    BY <2>1, <2>2, <1>9 DEF LoopRight, first
  <2> QED BY <2>3, <1>1, <1>7, <1>8
<1>11. ASSUME NEW i \in 0 .. Len(more), i > 0, i - 1 \in K PROVE i \in K
  <2> DEFINE x == f[i - 1]
             y == g[i - 1]
             v == t.info[more[i]]
             p == t.priority[more[i]]
             u == AddedTo(x, q, v, p)
             n == First(Nodes \ x.live)
  <2>1. i \in 1 .. Len(more)
    BY <1>11
  <2>2. LoopRight(t, L, q, i - 1, x, y)
    BY <1>11
  <2>3. f[i] = IF x.ok THEN u ELSE x
    BY <2>1, <1>7 DEF AddedNext
  <2>4. g[i] = List!Added(y, [info |-> v, priority |-> p], kind)
    <3>1. g[i] = List!Added(y, items[i], kind)
      BY <2>1, <1>2, <1>8
    <3>2. items[i] = [info |-> v, priority |-> p]
      BY <2>1, <1>2
    <3> QED BY <3>1, <3>2
  <2>5. v \in Value /\ p \in Priorities
    BY <2>1, <1>1 DEF State
  <2> HIDE DEF x, y, v, p
  <2>6. CASE ~ x.ok
    <3>1. f[i] = x
      BY <2>3, <2>6
    <3>2. LoopRight(t, L, q, i, x, g[i])
      BY <2>2, <2>6 DEF LoopRight
    <3> QED BY <3>1, <3>2
  <2>7. CASE x.ok
    <3>1. /\ x \in State /\ x.kind = t.kind /\ t.live \subseteq x.live
          /\ \A m \in t.live : x.info[m] = t.info[m] /\ x.priority[m] = t.priority[m]
          /\ Cardinality(Nodes \ x.live) >= Cardinality(Nodes \ t.live) - (i - 1)
          /\ \A r \in Queues : r # q => SameQueue(t, x, r)
      BY <2>2, <2>7 DEF LoopRight
    <3>2. PICK l \in Seq(Nodes) : Shape(x, [L EXCEPT ![q] = l]) /\ Records(x, l) = y
      BY <2>2, <2>7 DEF LoopRight
    <3> DEFINE M == [L EXCEPT ![q] = l]
    <3>3. M \in [Queues -> Seq(Nodes)] /\ M[q] = l
      OBVIOUS
    <3>4. x.live \subseteq Nodes /\ IsFiniteSet(Nodes \ x.live) /\ Cardinality(Nodes \ x.live) \in Nat
      BY <3>1, NodesSize, FS_Subset, FS_CardinalityType DEF State
    <3>5. x.live # Nodes
      <4>1. Cardinality(Nodes \ x.live) > 0
        BY <3>1, <3>4, <2>1, <1>1, <1>9 DEF more
      <4>2. CASE x.live = Nodes
        <5>1. Nodes \ x.live = {}
          BY <4>2
        <5>2. Cardinality(Nodes \ x.live) = 0
          BY <5>1, FS_EmptySet
        <5> QED BY <4>1, <5>2
      <4> QED BY <4>2
    <3> HIDE DEF M
    <3>6. AddedRight(x, M, q, v, p, n, u)
      BY <3>1, <3>2, <3>3, <3>5, <2>5, AddedShape DEF M
    <3> HIDE DEF n, u
    <3>7. /\ u \in State /\ u.kind = t.kind /\ t.live \subseteq u.live
          /\ n \in Nodes /\ n \notin x.live /\ u.live \subseteq x.live \cup {n}
          /\ \A m \in t.live : u.info[m] = t.info[m] /\ u.priority[m] = t.priority[m]
      BY <3>1, <3>6 DEF AddedRight
    <3>8. ASSUME u.ok
          PROVE  /\ Cardinality(Nodes \ u.live) >= Cardinality(Nodes \ t.live) - i
                 /\ \A r \in Queues : r # q => SameQueue(t, u, r)
                 /\ \E k \in Seq(Nodes) : Shape(u, [L EXCEPT ![q] = k]) /\ Records(u, k) = g[i]
      <4>1. Cardinality(Nodes \ u.live) >= Cardinality(Nodes \ x.live) - 1
        <5> DEFINE A == Nodes \ x.live
                   B == Nodes \ u.live
        <5>1. IsFiniteSet(A) /\ IsFiniteSet(B) /\ Cardinality(A) \in Nat /\ Cardinality(B) \in Nat
          BY <3>4, NodesSize, FS_Subset, FS_CardinalityType
        <5>2. n \in A /\ A \ {n} \subseteq B
          BY <3>7
        <5> HIDE DEF A, B
        <5>3. IsFiniteSet(A \ {n}) /\ Cardinality(A \ {n}) = Cardinality(A) - 1
          BY <5>1, <5>2, FS_RemoveElement
        <5>4. Cardinality(A \ {n}) <= Cardinality(B)
          BY <5>1, <5>2, FS_Subset
        <5> QED BY <5>1, <5>3, <5>4 DEF A, B
      <4>2. \A r \in Queues : r # q => SameQueue(t, u, r)
        BY <3>1, <3>6, <3>8 DEF AddedRight, SameQueue
      <4>3. PICK k \in Seq(Nodes) :
               /\ Shape(u, [M EXCEPT ![q] = k])
               /\ Records(u, k) = List!Added(Records(x, M[q]), [info |-> v, priority |-> p],
                                             KindOf(x, q))
        <5>1. AddedTo(x, q, v, p).ok
          BY <3>8 DEF u
        <5>2. Shape(x, M)
          BY <3>2 DEF M
        <5>3. AddedAs(x, M, q, v, p, AddedTo(x, q, v, p))
          BY <5>1, <5>2, <3>1, <3>3, <3>5, <2>5, AddedRecords
        <5>4. AddedAs(x, M, q, v, p, u)
          BY <5>3 DEF u
        <5> QED BY <5>4 DEF AddedAs
      <4>4. [M EXCEPT ![q] = k] = [L EXCEPT ![q] = k]
        BY DEF M
      <4>5. KindOf(x, q) = kind
        BY <3>1 DEF KindOf, kind
      <4>6. Records(u, k) = g[i]
        BY <4>3, <4>5, <3>2, <3>3, <2>4
      <4>7. Cardinality(Nodes \ u.live) \in Nat
        BY NodesSize, FS_Subset, FS_CardinalityType
      <4>8. Cardinality(Nodes \ u.live) >= Cardinality(Nodes \ t.live) - i
        BY <4>1, <4>7, <3>1, <3>4, <1>9
      <4>9. Shape(u, [L EXCEPT ![q] = k]) /\ Records(u, k) = g[i]
        BY <4>3, <4>4, <4>6
      <4> QED BY <4>2, <4>8, <4>9
    <3>9. LoopRight(t, L, q, i, u, g[i])
      BY <3>7, <3>8 DEF LoopRight
    <3> QED BY <3>9, <2>3, <2>7
  <2> QED BY <2>6, <2>7
<1> HIDE DEF K
<1>12. \A i \in 0 .. Len(more) : i \in K
  BY <1>1, <1>10, <1>11, UpTo
<1>13. LoopRight(t, L, q, Len(more), f[Len(more)], g[Len(more)])
  BY <1>1, <1>12 DEF K
<1> QED BY <1>2, <1>7, <1>8, <1>13 DEF more, items, first, kind
-----------------------------------------------------------------------------
(* What a function does to one queue *)

\* The position of q is the k-th of the nodes l, or one behind the last.
At(t, q, l, k) == k \in 1 .. Len(l) + 1 /\ t.current[q] = IF k = Len(l) + 1 THEN Null ELSE l[k]

\* In u, q has the nodes l and the position k; nothing else is other than in t.
Effect(t, u, L, q, l, k) ==
    /\ u \in State /\ l \in Seq(Nodes) /\ Shape(u, [L EXCEPT ![q] = l])
    /\ u.kind = t.kind /\ \A r \in Queues : r # q => SameQueue(t, u, r)
    /\ \A n \in t.live : n \notin Elements(L[q]) =>
          u.info[n] = t.info[n] /\ u.priority[n] = t.priority[n]
    /\ At(u, q, l, k)

LEMMA AtFront ==
    ASSUME NEW t \in State, NEW L \in [Queues -> Seq(Nodes)], Shape(t, L), NEW q \in Queues,
           t.previous[q] = Null
    PROVE  At(t, q, L[q], 1)
<1>1. /\ L[q] \in Seq(Nodes) /\ Len(L[q]) \in Nat /\ HasNodes(t, q, L[q])
      /\ IsList(t.next, t.head[q], L[q])
  BY ShapeQueue
<1>2. t.current[q] = t.head[q]
  BY <1>1 DEF HasNodes, Placed
<1>3. CASE L[q] = <<>>
  <2>1. Len(L[q]) = 0 /\ t.head[q] = Null
    BY <1>1, <1>3, EmptySeq DEF IsList
  <2> QED BY <2>1, <1>2 DEF At
<1>4. CASE L[q] # <<>>
  <2>1. Len(L[q]) # 0 /\ t.head[q] = L[q][1]
    BY <1>1, <1>4, EmptySeq DEF IsList
  <2> QED BY <2>1, <1>1, <1>2 DEF At
<1> QED BY <1>3, <1>4

LEMMA RewoundEffect ==
    ASSUME NEW t \in State, NEW L \in [Queues -> Seq(Nodes)], Shape(t, L), NEW q \in Queues
    PROVE  Effect(t, Rewound(t, q), L, q, L[q], 1)
<1> DEFINE u == Rewound(t, q)
<1>1. u \in State /\ Shape(u, L)
  BY RewoundShape
<1>2. /\ u.info = t.info /\ u.priority = t.priority /\ u.kind = t.kind /\ u.previous[q] = Null
      /\ \A r \in Queues : r # q => SameQueue(t, u, r)
  BY DEF Rewound, State, SameQueue
<1> HIDE DEF u
<1>3. At(u, q, L[q], 1)
  BY <1>1, <1>2, AtFront
<1>4. L[q] \in Seq(Nodes) /\ [L EXCEPT ![q] = L[q]] = L
  OBVIOUS
<1>5. Effect(t, u, L, q, L[q], 1)
  BY <1>1, <1>2, <1>3, <1>4 DEF Effect
<1> QED BY <1>5 DEF u

LEMMA NextElementEffect ==
    ASSUME NEW t \in State, NEW L \in [Queues -> Seq(Nodes)], Shape(t, L), NEW q \in Queues,
           NEW k \in 1 .. Len(L[q]), t.current[q] = L[q][k],
           NEW u, u = [t EXCEPT !.previous[q] = t.current[q], !.current[q] = t.next[t.current[q]]]
    PROVE  Effect(t, u, L, q, L[q], k + 1)
<1>1. /\ L[q] \in Seq(Nodes) /\ Len(L[q]) \in Nat /\ IsList(t.next, t.head[q], L[q])
      /\ L[q][k] \in Nodes
  BY ShapeQueue
<1>2. t.current[q] # Null
  BY <1>1, NodesAssumption
<1>3. u \in State /\ Shape(u, L)
  BY <1>2, NextElementShape
<1>4. /\ u.info = t.info /\ u.priority = t.priority /\ u.kind = t.kind
      /\ u.current[q] = t.next[L[q][k]]
      /\ \A r \in Queues : r # q => SameQueue(t, u, r)
  BY DEF State, SameQueue
<1>5. At(u, q, L[q], k + 1)
  <2>1. L[q] # <<>> /\ Len(L[q]) # 0
    BY <1>1, EmptySeq
  <2>2. CASE k = Len(L[q])
    BY <2>1, <2>2, <1>1, <1>4 DEF At, IsList
  <2>3. CASE k # Len(L[q])
    <3>1. k \in 1 .. Len(L[q]) - 1
      BY <2>3, <1>1
    <3>2. u.current[q] = L[q][k + 1]
      BY <3>1, <1>1, <1>4 DEF IsList
    <3> QED BY <3>1, <3>2, <1>1 DEF At
  <2> QED BY <2>2, <2>3
<1>6. [L EXCEPT ![q] = L[q]] = L
  OBVIOUS
<1> QED BY <1>1, <1>3, <1>4, <1>5, <1>6 DEF Effect

LEMMA UpdateCurrentEffect ==
    ASSUME NEW t \in State, NEW L \in [Queues -> Seq(Nodes)], Shape(t, L), NEW q \in Queues,
           NEW k \in 1 .. Len(L[q]), t.current[q] = L[q][k], NEW v \in Values,
           NEW u, u = [t EXCEPT !.info[t.current[q]] = v]
    PROVE  Effect(t, u, L, q, L[q], k)
<1>1. /\ L[q] \in Seq(Nodes) /\ Len(L[q]) \in Nat
      /\ L[q][k] \in Nodes /\ L[q][k] \in Elements(L[q])
  BY ShapeQueue
<1>2. t.current[q] # Null
  BY <1>1, NodesAssumption
<1>3. u \in State /\ Shape(u, L)
  BY <1>2, UpdateCurrentShape
<1>4. /\ u.priority = t.priority /\ u.kind = t.kind /\ u.current = t.current
      /\ \A r \in Queues : r # q => SameQueue(t, u, r)
      /\ \A n \in t.live : n \notin Elements(L[q]) => u.info[n] = t.info[n]
  BY <1>1 DEF State, SameQueue
<1>5. At(u, q, L[q], k)
  BY <1>1, <1>4 DEF At
<1>6. [L EXCEPT ![q] = L[q]] = L
  OBVIOUS
<1> QED BY <1>1, <1>3, <1>4, <1>5, <1>6 DEF Effect

LEMMA RemovedFrontEffect ==
    ASSUME s \in State, NEW L \in [Queues -> Seq(Nodes)], Shape(s, L), NEW q \in Queues,
           s.head[q] # Null
    PROVE  /\ 1 \in 1 .. Len(L[q])
           /\ Effect(s, RemovedFront(q), L, q, Without(L[q], 1), 1)
           /\ \A n \in Nodes : n # L[q][1] => RemovedFront(q).info[n] = s.info[n]
                                             /\ RemovedFront(q).priority[n] = s.priority[n]
<1> DEFINE u == RemovedFront(q)
           m == Without(L[q], 1)
<1>1. /\ L[q] # <<>> /\ 1 \in 1 .. Len(L[q]) /\ u \in State
      /\ TakenOut(s, u, q, L[q], 1) /\ Shape(u, [L EXCEPT ![q] = m]) /\ u.previous[q] = Null
  BY RemovedFrontShape
<1>2. L[q] \in Seq(Nodes) /\ L[q][1] \in Elements(L[q]) /\ s.live \subseteq Nodes
  BY <1>1, ShapeQueue DEF State
<1>3. m \in Seq(Nodes)
  BY <1>1, <1>2, WithoutSeq
<1> HIDE DEF u, m
<1>4. /\ u.kind = s.kind /\ \A r \in Queues : r # q => SameQueue(s, u, r)
      /\ \A n \in Nodes : n # L[q][1] => u.info[n] = s.info[n] /\ u.priority[n] = s.priority[n]
  BY <1>1 DEF TakenOut
<1> DEFINE M == [L EXCEPT ![q] = m]
<1>5. M \in [Queues -> Seq(Nodes)] /\ M[q] = m
  BY <1>3
<1>6. At(u, q, m, 1)
  <2> HIDE DEF M
  <2>1. Shape(u, M)
    BY <1>1 DEF M
  <2>2. At(u, q, M[q], 1)
    BY <2>1, <1>1, <1>5, AtFront
  <2> QED BY <2>2, <1>5
<1>7. Effect(s, u, L, q, m, 1)
  BY <1>1, <1>2, <1>3, <1>4, <1>6 DEF Effect
<1> QED BY <1>1, <1>4, <1>7 DEF u, m

LEMMA DeletedEffect ==
    ASSUME s \in State, NEW L \in [Queues -> Seq(Nodes)], Shape(s, L), NEW q \in Queues,
           s.current[q] # Null
    PROVE  \E k \in 1 .. Len(L[q]) :
              /\ s.current[q] = L[q][k] /\ Effect(s, Deleted(q), L, q, Without(L[q], k), k)
              /\ \A n \in Nodes : n # L[q][k] => Deleted(q).info[n] = s.info[n]
                                                /\ Deleted(q).priority[n] = s.priority[n]
<1> DEFINE u == Deleted(q)
<1>1. PICK k \in 1 .. Len(L[q]) :
         /\ u \in State /\ s.current[q] = L[q][k] /\ TakenOut(s, u, q, L[q], k)
         /\ Shape(u, [L EXCEPT ![q] = Without(L[q], k)])
         /\ u.current[q] = IF k = Len(L[q]) THEN Null ELSE L[q][k + 1]
  BY DeletedShape
<1> DEFINE m == Without(L[q], k)
<1>2. /\ L[q] \in Seq(Nodes) /\ Len(L[q]) \in Nat /\ L[q][k] \in Elements(L[q])
      /\ s.live \subseteq Nodes
  BY ShapeQueue DEF State
<1>3. /\ m \in Seq(Nodes) /\ Len(m) = Len(L[q]) - 1
      /\ \A i \in 1 .. Len(L[q]) - 1 : m[i] = IF i < k THEN L[q][i] ELSE L[q][i + 1]
  BY <1>2, WithoutSeq
<1> HIDE DEF u, m
<1>4. /\ u.kind = s.kind /\ \A r \in Queues : r # q => SameQueue(s, u, r)
      /\ \A n \in Nodes : n # L[q][k] => u.info[n] = s.info[n] /\ u.priority[n] = s.priority[n]
  BY <1>1 DEF TakenOut
<1>5. At(u, q, m, k)
  <2>1. k \in 1 .. Len(m) + 1
    BY <1>2, <1>3
  <2>2. k = Len(m) + 1 <=> k = Len(L[q])
    BY <1>2, <1>3
  <2>3. k # Len(L[q]) => m[k] = L[q][k + 1]
    BY <1>2, <1>3
  <2> QED BY <2>1, <2>2, <2>3, <1>1 DEF At
<1>6. Effect(s, u, L, q, m, k)
  BY <1>1, <1>2, <1>3, <1>4, <1>5 DEF Effect, m
<1> QED BY <1>1, <1>4, <1>6 DEF u, m

LEMMA DestroyedEffect ==
    ASSUME NEW t \in State, NEW L \in [Queues -> Seq(Nodes)], Shape(t, L), NEW q \in Queues
    PROVE  Effect(t, Destroyed(t, q), L, q, <<>>, 1)
<1> DEFINE u == Destroyed(t, q)
           M == [L EXCEPT ![q] = <<>>]
<1>1. /\ u \in State /\ Shape(u, M) /\ u.kind = t.kind /\ u.previous[q] = Null
      /\ \A p \in Queues : p # q => SameQueue(t, u, p)
      /\ \A n \in Nodes : n \notin Elements(L[q]) =>
            u.info[n] = t.info[n] /\ u.priority[n] = t.priority[n]
  <2>1. IsEmptied(t, u, L, q)
    BY DestroyedShape
  <2> HIDE DEF u
  <2> QED BY <2>1 DEF IsEmptied
<1>2. <<>> \in Seq(Nodes)
  BY EmptySeq
<1>3. M \in [Queues -> Seq(Nodes)] /\ M[q] = <<>>
  BY <1>2
<1> HIDE DEF u
<1>4. At(u, q, <<>>, 1)
  <2> HIDE DEF M
  <2>1. At(u, q, M[q], 1)
    BY <1>1, <1>3, AtFront
  <2> QED BY <2>1, <1>3
<1>5. Effect(t, u, L, q, <<>>, 1)
  BY <1>1, <1>2, <1>4 DEF Effect, State
<1> QED BY <1>5 DEF u

\* Where the elements equal to v are.
Equal(t, l, v) == {i \in 1 .. Len(l) : t.info[l[i]] = v}

LEMMA FoundEffect ==
    ASSUME NEW t \in State, NEW L \in [Queues -> Seq(Nodes)], Shape(t, L), NEW q \in Queues, NEW v
    PROVE  Effect(t, Found(t, q, v), L, q, L[q],
                  IF Equal(t, L[q], v) = {} THEN 1 ELSE First(Equal(t, L[q], v)))
<1> DEFINE l == L[q]
           at == Equal(t, l, v)
           k == First(at)
           u == Found(t, q, v)
<1>1. /\ l \in Seq(Nodes) /\ Len(l) \in Nat /\ NodesOf(t, q) = l /\ t.queuelength[q] = Len(l)
  BY ShapeQueue
<1>2. CASE at = {}
  <2>1. Found(t, q, v) = Rewound(t, q)
    BY <1>1, <1>2, Zenon DEF Found, Equal
  <2> HIDE DEF at
  <2>2. Effect(t, Rewound(t, q), L, q, L[q], 1)
    BY RewoundEffect
  <2> QED BY <2>1, <2>2, <1>2 DEF at
<1>3. CASE at # {}
  <2>1. u = [t EXCEPT !.current[q] = l[k], !.previous[q] = IF k = 1 THEN Null ELSE l[k - 1]]
    BY <1>1, <1>3, Zenon DEF Found, Equal
  <2>2. k \in 1 .. Len(l)
    <3>1. at \in SUBSET Nat
      BY <1>1 DEF Equal
    <3>2. k \in at
      <4> HIDE DEF at
      <4> QED BY <3>1, <1>3, FirstAt
    <3> QED BY <3>2 DEF Equal
  <2>3. /\ u \in State /\ Shape(u, L) /\ u.kind = t.kind /\ u.info = t.info
        /\ u.priority = t.priority /\ \A p \in Queues : p # q => SameQueue(t, u, p)
    BY FoundShape
  <2>4. u.current[q] = l[k]
    <3> HIDE DEF k, u, l
    <3> QED BY <2>1 DEF State
  <2> HIDE DEF k, u, at
  <2>5. At(u, q, l, k)
    BY <2>2, <2>4, <1>1 DEF At
  <2>6. [L EXCEPT ![q] = l] = L
    OBVIOUS
  <2>7. Effect(t, u, L, q, l, k)
    BY <2>3, <2>5, <2>6, <1>1 DEF Effect
  <2> QED BY <2>7, <1>3 DEF u, k, at
<1> QED BY <1>2, <1>3

\* After add_to_queue q has the nodes l.
AddEffect(t, u, L, q, v, p, l) ==
    /\ Records(u, l) = List!Added(Records(t, L[q]), [info |-> v, priority |-> p], KindOf(t, q))
    /\ \/ Duplicate(t, q, v) /\ u = Found(t, q, v) /\ l = L[q]
       \/ Len(l) = Len(L[q]) + 1 /\ Effect(t, u, L, q, l, 1)

LEMMA AddToQueueEffect ==
    ASSUME NEW t \in State, NEW L \in [Queues -> Seq(Nodes)], Shape(t, L), NEW q \in Queues,
           NEW v \in Value, NEW p \in Priorities, t.live # Nodes, AddedTo(t, q, v, p).ok
    PROVE  \E l \in Seq(Nodes) : AddEffect(t, AddedTo(t, q, v, p), L, q, v, p, l)
<1> DEFINE u == AddedTo(t, q, v, p)
           n == First(Nodes \ t.live)
<1>1. AddedAs(t, L, q, v, p, u)
  BY AddedRecords
<1>2. AddedRight(t, L, q, v, p, n, u)
  BY AddedShape
<1>3. u.ok
  OBVIOUS
<1> HIDE DEF u, n
<1>4. PICK l \in Seq(Nodes) :
         /\ Shape(u, [L EXCEPT ![q] = l])
         /\ Records(u, l) = List!Added(Records(t, L[q]), [info |-> v, priority |-> p],
                                       KindOf(t, q))
  BY <1>1 DEF AddedAs
<1>5. u \in State
  BY <1>2 DEF AddedRight
<1>6. NodesOf(u, q) = l
  <2> DEFINE M == [L EXCEPT ![q] = l]
  <2>1. M \in [Queues -> Seq(Nodes)] /\ M[q] = l
    OBVIOUS
  <2> HIDE DEF M
  <2>2. Shape(u, M)
    BY <1>4 DEF M
  <2> QED BY <2>1, <2>2, <1>5, ShapeQueue
<1>7. CASE Duplicate(t, q, v) /\ u = Found(t, q, v) /\ Shape(u, L)
  <2>1. NodesOf(u, q) = L[q]
    BY <1>5, <1>7, ShapeQueue
  <2>2. AddEffect(t, u, L, q, v, p, l)
    BY <2>1, <1>4, <1>6, <1>7 DEF AddEffect
  <2> QED BY <2>2 DEF u
<1>8. ASSUME NEW k \in 0 .. Len(L[q]), PutIn(t, u, q, L[q], k, n, v, p), u.previous[q] = Null,
             Shape(u, [L EXCEPT ![q] = Inserting(L[q], k, n)])
      PROVE  AddEffect(t, u, L, q, v, p, l)
  <2> DEFINE m == Inserting(L[q], k, n)
             M == [L EXCEPT ![q] = m]
  <2>1. /\ L[q] \in Seq(Nodes) /\ t.live \subseteq Nodes /\ n \in Nodes /\ n \notin t.live
    BY <1>2 DEF AddedRight, State
  <2>2. m \in Seq(Nodes) /\ Len(m) = Len(L[q]) + 1
    BY <2>1, InsertingSeq
  <2> HIDE DEF m
  <2>3. M \in [Queues -> Seq(Nodes)] /\ M[q] = m
    BY <2>2
  <2>4. Shape(u, M)
    BY <1>8 DEF m
  <2> HIDE DEF M
  <2>5. At(u, q, M[q], 1) /\ NodesOf(u, q) = M[q]
    BY <2>3, <2>4, <1>5, <1>8, AtFront, ShapeQueue
  <2>6. l = m /\ At(u, q, l, 1)
    BY <2>3, <2>5, <1>6
  <2>7. /\ u.kind = t.kind /\ \A r \in Queues : r # q => SameQueue(t, u, r)
        /\ \A x \in t.live : u.info[x] = t.info[x] /\ u.priority[x] = t.priority[x]
    BY <1>2, <1>3 DEF AddedRight
  <2>8. Effect(t, u, L, q, l, 1)
    BY <2>6, <2>7, <1>4, <1>5 DEF Effect
  <2> QED BY <2>2, <2>6, <2>8, <1>4 DEF AddEffect
<1>9. CASE \E k \in 0 .. Len(L[q]) :
              /\ PutIn(t, u, q, L[q], k, n, v, p) /\ u.previous[q] = Null
              /\ Shape(u, [L EXCEPT ![q] = Inserting(L[q], k, n)])
  BY <1>8, <1>9 DEF u
<1> QED BY <1>2, <1>3, <1>7, <1>9 DEF AddedRight

\* copy_queue starts with an empty queue of the other's kind.
EmptyCopy(t, q1, q2) ==
    [Destroyed(t, q1) EXCEPT !.kind[q1] = t.kind[q2], !.tail[q1] = Null]

Emptied(t, u, L, q1, q2) ==
    /\ u \in State /\ Shape(u, [L EXCEPT ![q1] = <<>>])
    /\ u.kind = [t.kind EXCEPT ![q1] = t.kind[q2]] /\ u.live = t.live \ Elements(L[q1])
    /\ \A p \in Queues : p # q1 => SameQueue(t, u, p)
    /\ \A n \in t.live : n \notin Elements(L[q1]) =>
          u.info[n] = t.info[n] /\ u.priority[n] = t.priority[n]

LEMMA EmptyCopyShape ==
    ASSUME NEW t \in State, NEW L \in [Queues -> Seq(Nodes)], Shape(t, L), NEW q1 \in Queues,
           NEW q2 \in Queues, q1 # q2
    PROVE  Emptied(t, EmptyCopy(t, q1, q2), L, q1, q2)
<1> DEFINE d == Destroyed(t, q1)
           M == [L EXCEPT ![q1] = <<>>]
           u == [d EXCEPT !.kind[q1] = t.kind[q2], !.tail[q1] = Null]
<1>1. /\ d \in State /\ Shape(d, M) /\ d.kind = t.kind /\ d.ok = t.ok
      /\ d.live = t.live \ Elements(L[q1])
      /\ \A p \in Queues : p # q1 => SameQueue(t, d, p)
      /\ \A n \in Nodes : n \notin Elements(L[q1]) =>
            d.info[n] = t.info[n] /\ d.priority[n] = t.priority[n]
  <2>1. IsEmptied(t, d, L, q1)
    BY DestroyedShape
  <2> HIDE DEF d
  <2> QED BY <2>1 DEF IsEmptied
<1> HIDE DEF d
<1>2. t.kind[q2] \in Kinds /\ Null \in Pointer /\ t.live \subseteq Nodes
  BY DEF State, Pointer
<1>3. /\ u \in State /\ u.next = d.next /\ u.info = d.info /\ u.priority = d.priority
      /\ u.head = d.head /\ u.current = d.current /\ u.previous = d.previous
      /\ u.queuelength = d.queuelength /\ u.live = d.live /\ u.ok = d.ok
      /\ u.kind = [d.kind EXCEPT ![q1] = t.kind[q2]] /\ u.tail = [d.tail EXCEPT ![q1] = Null]
  BY <1>1, <1>2 DEF State
<1>4. u = EmptyCopy(t, q1, q2)
  BY DEF EmptyCopy, d
<1> HIDE DEF u
<1>5. \A p \in Queues : p # q1 => SameQueue(d, u, p) /\ SameQueue(t, u, p)
  BY <1>1, <1>3 DEF SameQueue, State
<1>6. <<>> \in Seq(Nodes)
  BY EmptySeq
<1>7. M \in [Queues -> Seq(Nodes)] /\ M[q1] = <<>>
  BY <1>6
<1> HIDE DEF M
<1>8. ASSUME NEW p \in Queues PROVE HasNodes(u, p, M[p])
  <2>1. HasNodes(d, p, M[p])
    BY <1>1 DEF Shape
  <2>2. CASE p = q1
    BY <2>1, <2>2, <1>3, <1>7 DEF HasNodes, Placed
  <2>3. CASE p # q1
    <3>1. M[p] \in Seq(Nodes) /\ SameQueue(d, u, p) /\ \A n \in Elements(M[p]) : u.next[n] = d.next[n]
      BY <2>3, <1>3, <1>5, <1>7
    <3> QED BY <2>1, <3>1, HasNodesSame
  <2> QED BY <2>2, <2>3
<1>9. Shape(u, M)
  BY <1>1, <1>3, <1>8 DEF Shape
<1>10. Emptied(t, u, L, q1, q2)
  BY <1>1, <1>2, <1>3, <1>5, <1>9 DEF M, Emptied
<1> QED BY <1>4, <1>10

\* The loop after which r is what PriorityList shows of q1, and the end of the function.
LoopEffect(t, u, L, q, r, l) ==
    /\ u \in State /\ Shape(u, [L EXCEPT ![q] = l]) /\ Records(u, l) = r
    /\ u.kind = t.kind /\ \A p \in Queues : p # q => SameQueue(t, u, p)
    /\ \A n \in t.live : u.info[n] = t.info[n] /\ u.priority[n] = t.priority[n]

LEMMA AllAddedEffect ==
    ASSUME NEW t \in State, NEW L \in [Queues -> Seq(Nodes)], Shape(t, L),
           NEW q \in Queues, NEW q2 \in Queues, q # q2,
           Len(L[q2]) <= Cardinality(Nodes \ t.live)
    PROVE  /\ AllAdded(t, q, L[q2]) \in State
           /\ AllAdded(t, q, L[q2]).ok => \E l \in Seq(Nodes) :
                 LoopEffect(t, AllAdded(t, q, L[q2]), L, q,
                            List!AllAdded(Records(t, L[q]), Records(t, L[q2]), KindOf(t, q)), l)
<1> DEFINE u == AllAdded(t, q, L[q2])
           r == List!AllAdded(Records(t, L[q]), Records(t, L[q2]), KindOf(t, q))
<1>1. LoopRight(t, L, q, Len(L[q2]), u, r)
  BY AllAddedShape
<1> HIDE DEF u, r
<1>2. u.ok => \E l \in Seq(Nodes) : LoopEffect(t, u, L, q, r, l)
  BY <1>1 DEF LoopRight, LoopEffect
<1> QED BY <1>1, <1>2 DEF LoopRight, u, r

Copied(t, q1, q2) ==
    Rewound(Rewound(AllAdded(EmptyCopy(t, q1, q2), q1, NodesOf(t, q2)), q1), q2)

Merged(t, q1, q2) ==
    LET u == AllAdded(t, q1, NodesOf(t, q2)) IN IF u.ok THEN Rewound(u, q1) ELSE u

-----------------------------------------------------------------------------
(* The invariant *)

LEMMA LawfulShape ==
    ASSUME NEW t \in State, NEW L \in [Queues -> Seq(Nodes)], Shape(t, L)
    PROVE  Lawful(t) /\ NodesIn(t) = L
<1>1. \A q \in Queues : NodesOf(t, q) = L[q]
  BY ShapeQueue
<1>2. NodesIn(t) = L
  BY <1>1 DEF NodesIn
<1> QED BY <1>2 DEF Lawful

LEMMA LawfulEffect ==
    ASSUME NEW t \in State, NEW u, NEW L \in [Queues -> Seq(Nodes)], NEW q \in Queues, NEW l,
           NEW k, Effect(t, u, L, q, l, k)
    PROVE  Lawful(u)
<1> DEFINE M == [L EXCEPT ![q] = l]
<1>1. u \in State /\ l \in Seq(Nodes) /\ Shape(u, M)
  BY DEF Effect
<1>2. M \in [Queues -> Seq(Nodes)]
  BY <1>1
<1> HIDE DEF M
<1> QED BY <1>1, <1>2, LawfulShape

LEMMA InitHolds == Init => ListInv
<1> SUFFICES ASSUME Init PROVE Lawful(s)
  BY DEF ListInv
<1> DEFINE L == [q \in Queues |-> <<>>]
<1>1. <<>> \in Seq(Nodes) /\ Len(<<>>) = 0 /\ Elements(<<>>) = {}
  BY EmptySeq DEF Elements
<1>2. L \in [Queues -> Seq(Nodes)] /\ \A q \in Queues : L[q] = <<>>
  BY <1>1
<1> HIDE DEF L
<1>3. s \in State
  BY NodesSize DEF Init, State, Pointer, Value
<1>4. /\ \A q \in Queues : s.head[q] = Null /\ s.current[q] = Null /\ s.previous[q] = Null
                           /\ s.queuelength[q] = 0
      /\ s.live = {}
  BY DEF Init
<1>5. ASSUME NEW q \in Queues PROVE HasNodes(s, q, <<>>)
  <2>1. Distinct(<<>>) /\ 1 .. Len(<<>>) - 1 = {}
    BY <1>1 DEF Distinct
  <2>2. IsList(s.next, s.head[q], <<>>)
    BY <2>1, <1>4 DEF IsList
  <2> QED BY <2>2, <1>1, <1>4 DEF HasNodes, Placed
<1>6. UNION {Elements(L[q]) : q \in Queues} = {}
  BY <1>1, <1>2
<1>7. Shape(s, L)
  BY <1>1, <1>2, <1>4, <1>5, <1>6 DEF Shape
<1> QED BY <1>2, <1>3, <1>7, LawfulShape

LEMMA CopyLawful ==
    ASSUME NEW t \in State, NEW L \in [Queues -> Seq(Nodes)], Shape(t, L), t.ok,
           NEW q1 \in Queues, NEW q2 \in Queues, q1 # q2,
           t.queuelength[q2] <= Cardinality(Nodes \ EmptyCopy(t, q1, q2).live)
    PROVE  Lawful(Copied(t, q1, q2))
<1> DEFINE e == EmptyCopy(t, q1, q2)
           M == [L EXCEPT ![q1] = <<>>]
           u == AllAdded(e, q1, NodesOf(t, q2))
           r == Rewound(u, q1)
<1>1. e \in State /\ Shape(e, M)
  BY EmptyCopyShape DEF Emptied
<1>2. M \in [Queues -> Seq(Nodes)] /\ M[q2] = L[q2]
  BY EmptySeq
<1>3. NodesOf(t, q2) = M[q2] /\ Len(M[q2]) = t.queuelength[q2]
  BY <1>2, ShapeQueue
<1> HIDE DEF M, e
<1>4. Len(M[q2]) <= Cardinality(Nodes \ e.live)
  BY <1>3 DEF e
<1>5. /\ u \in State
      /\ u.ok => \E l \in Seq(Nodes) : Shape(u, [M EXCEPT ![q1] = l])
  <2>1. /\ AllAdded(e, q1, M[q2]) \in State
        /\ AllAdded(e, q1, M[q2]).ok => \E l \in Seq(Nodes) :
              LoopEffect(e, AllAdded(e, q1, M[q2]), M, q1,
                         List!AllAdded(Records(e, M[q1]), Records(e, M[q2]), KindOf(e, q1)), l)
    BY <1>1, <1>2, <1>4, AllAddedEffect
  <2> QED BY <2>1, <1>3 DEF LoopEffect
<1> HIDE DEF u
<1>6. r \in State /\ r.ok = u.ok
  BY <1>5, RewoundFields
<1>7. Copied(t, q1, q2) = Rewound(r, q2)
  BY DEF Copied, u, e
<1> HIDE DEF r
<1>8. Rewound(r, q2) \in State /\ Rewound(r, q2).ok = u.ok
  BY <1>6, RewoundFields
<1>9. CASE ~ u.ok
  BY <1>7, <1>8, <1>9 DEF Lawful
<1>10. CASE u.ok
  <2>1. PICK l \in Seq(Nodes) : Shape(u, [M EXCEPT ![q1] = l])
    BY <1>5, <1>10
  <2> DEFINE N == [M EXCEPT ![q1] = l]
  <2>2. N \in [Queues -> Seq(Nodes)] /\ Shape(u, N)
    BY <2>1, <1>2
  <2> HIDE DEF N
  <2>3. Shape(r, N)
    BY <2>2, <1>5, RewoundShape DEF r
  <2>4. Shape(Rewound(r, q2), N)
    BY <2>2, <2>3, <1>6, RewoundShape
  <2> QED BY <2>2, <2>4, <1>7, <1>8, LawfulShape
<1> QED BY <1>9, <1>10

LEMMA MergeLawful ==
    ASSUME NEW t \in State, NEW L \in [Queues -> Seq(Nodes)], Shape(t, L), t.ok,
           NEW q1 \in Queues, NEW q2 \in Queues, q1 # q2,
           t.queuelength[q2] <= Cardinality(Nodes \ t.live)
    PROVE  Lawful(Merged(t, q1, q2))
<1> DEFINE u == AllAdded(t, q1, NodesOf(t, q2))
<1>1. NodesOf(t, q2) = L[q2] /\ Len(L[q2]) = t.queuelength[q2]
  BY ShapeQueue
<1>2. /\ u \in State
      /\ u.ok => \E l \in Seq(Nodes) : Shape(u, [L EXCEPT ![q1] = l])
  <2>1. /\ AllAdded(t, q1, L[q2]) \in State
        /\ AllAdded(t, q1, L[q2]).ok => \E l \in Seq(Nodes) :
              LoopEffect(t, AllAdded(t, q1, L[q2]), L, q1,
                         List!AllAdded(Records(t, L[q1]), Records(t, L[q2]), KindOf(t, q1)), l)
    BY <1>1, AllAddedEffect
  <2> QED BY <2>1, <1>1 DEF LoopEffect
<1>3. Merged(t, q1, q2) = IF u.ok THEN Rewound(u, q1) ELSE u
  BY DEF Merged
<1> HIDE DEF u
<1>4. CASE ~ u.ok
  BY <1>2, <1>3, <1>4 DEF Lawful
<1>5. CASE u.ok
  <2>1. PICK l \in Seq(Nodes) : Shape(u, [L EXCEPT ![q1] = l])
    BY <1>2, <1>5
  <2> DEFINE N == [L EXCEPT ![q1] = l]
  <2>2. N \in [Queues -> Seq(Nodes)] /\ Shape(u, N)
    BY <2>1
  <2> HIDE DEF N
  <2>3. Rewound(u, q1) \in State /\ Shape(Rewound(u, q1), N)
    BY <2>2, <1>2, RewoundShape
  <2> QED BY <2>2, <2>3, <1>3, <1>5, LawfulShape
<1> QED BY <1>4, <1>5

LEMMA StepHolds ==
    ASSUME ListInv, [Next]_s
    PROVE  ListInv'
<1> SUFFICES ASSUME Next PROVE Lawful(s')
  BY DEF ListInv
<1> DEFINE L == NodesIn(s)
<1>1. s.ok /\ s \in State /\ L \in [Queues -> Seq(Nodes)] /\ Shape(s, L)
  BY DEF Next, ListInv, Lawful
<1> HIDE DEF L
<1>2. ASSUME NEW q \in Queues, NEW v \in Values, NEW p \in Priorities, add_to_queue(q, v, p)
      PROVE  Lawful(s')
  <2>1. v \in Value /\ s.live # Nodes /\ s' = AddedTo(s, q, v, p)
    BY <1>2 DEF add_to_queue, Value
  <2>2. AddedRight(s, L, q, v, p, First(Nodes \ s.live), AddedTo(s, q, v, p))
    BY <2>1, <1>1, AddedShape
  <2>3. s' \in State
    BY <2>1, <2>2 DEF AddedRight
  <2>4. CASE ~ s'.ok
    BY <2>3, <2>4 DEF Lawful
  <2>5. CASE s'.ok
    <3>1. AddedAs(s, L, q, v, p, AddedTo(s, q, v, p))
      BY <2>1, <2>5, <1>1, AddedRecords
    <3>2. PICK l \in Seq(Nodes) : Shape(s', [L EXCEPT ![q] = l])
      BY <3>1, <2>1 DEF AddedAs
    <3> DEFINE M == [L EXCEPT ![q] = l]
    <3>3. M \in [Queues -> Seq(Nodes)] /\ Shape(s', M)
      BY <3>2, <1>1
    <3> HIDE DEF M
    <3> QED BY <3>3, <2>3, LawfulShape
  <2> QED BY <2>4, <2>5
<1>3. ASSUME NEW q \in Queues, remove_from_front(q) PROVE Lawful(s')
  <2>1. CASE s.head[q] = Null
    <3>1. s' = Rewound(s, q)
      BY <2>1, <1>3 DEF remove_from_front
    <3> QED BY <3>1, <1>1, RewoundShape, LawfulShape
  <2>2. CASE s.head[q] # Null
    <3>1. s' = RemovedFront(q)
      BY <2>2, <1>3 DEF remove_from_front
    <3>2. Effect(s, RemovedFront(q), L, q, Without(L[q], 1), 1)
      BY <2>2, <1>1, RemovedFrontEffect
    <3> QED BY <3>1, <3>2, <1>1, LawfulEffect
  <2> QED BY <2>1, <2>2
<1>4. ASSUME NEW q \in Queues, delete_current(q) PROVE Lawful(s')
  <2>1. s.current[q] # Null /\ s' = Deleted(q)
    BY <1>4 DEF delete_current
  <2>2. PICK k \in 1 .. Len(L[q]) : Effect(s, Deleted(q), L, q, Without(L[q], k), k)
    BY <2>1, <1>1, DeletedEffect
  <2> QED BY <2>1, <2>2, <1>1, LawfulEffect
<1>5. ASSUME NEW q \in Queues, NEW v \in Values, update_current(q, v) PROVE Lawful(s')
  BY <1>1, <1>5, UpdateCurrentShape, LawfulShape DEF update_current
<1>6. ASSUME NEW q \in Queues, rewind_queue(q) PROVE Lawful(s')
  BY <1>1, <1>6, RewoundShape, LawfulShape DEF rewind_queue
<1>7. ASSUME NEW q \in Queues, next_element(q) PROVE Lawful(s')
  BY <1>1, <1>7, NextElementShape, LawfulShape DEF next_element
<1>8. ASSUME NEW q \in Queues, NEW v \in Values, element_in_queue(q, v) PROVE Lawful(s')
  BY <1>1, <1>8, FoundShape, LawfulShape DEF element_in_queue
<1>9. ASSUME NEW q \in Queues, destroy_queue(q) PROVE Lawful(s')
  <2>1. Effect(s, Destroyed(s, q), L, q, <<>>, 1)
    BY <1>1, DestroyedEffect
  <2> QED BY <2>1, <1>1, <1>9, LawfulEffect DEF destroy_queue
<1>10. ASSUME NEW q1 \in Queues, NEW q2 \in Queues, q1 # q2, copy_queue(q1, q2) PROVE Lawful(s')
  <2>1. /\ s.queuelength[q2] <= Cardinality(Nodes \ EmptyCopy(s, q1, q2).live)
        /\ s' = Copied(s, q1, q2)
    BY <1>10, Zenon DEF copy_queue, EmptyCopy, Copied
  <2>2. Lawful(Copied(s, q1, q2))
    BY <2>1, <1>1, <1>10, CopyLawful
  <2> QED BY <2>1, <2>2
<1>11. ASSUME NEW q1 \in Queues, NEW q2 \in Queues, q1 # q2, merge_queues(q1, q2) PROVE Lawful(s')
  <2>1. s.queuelength[q2] <= Cardinality(Nodes \ s.live) /\ s' = Merged(s, q1, q2)
    BY <1>11, Zenon DEF merge_queues, Merged
  <2>2. Lawful(Merged(s, q1, q2))
    BY <2>1, <1>1, <1>11, MergeLawful
  <2> QED BY <2>1, <2>2
<1> QED BY <1>2, <1>3, <1>4, <1>5, <1>6, <1>7, <1>8, <1>9, <1>10, <1>11 DEF Next

\* Whatever functions of prioque.c are called, the nodes in use are those of the queues,
\* each the sequence that begins at its head, ends at a nil pointer and shares no
\* node with another; previous is the node before current, or nil where current is
\* the head; and queuelength is right.
THEOREM ListInvariant == Spec => []ListInv
<1>1. ListInv /\ UNCHANGED s => ListInv'
  BY DEF ListInv
<1> QED BY InitHolds, StepHolds, PTL DEF Spec

-----------------------------------------------------------------------------
(* The properties *)

LEMMA ListInvTypes == ListInv => TypeOK
BY DEF ListInv, Lawful, State, TypeOK, Pointer, Value

LEMMA ListInvWellFormed == ListInv => WellFormed
<1> SUFFICES ASSUME ListInv PROVE WellFormed
  OBVIOUS
<1>1. TypeOK
  BY ListInvTypes
<1>2. CASE ~ s.ok
  BY <1>1, <1>2 DEF WellFormed
<1>3. CASE s.ok
  <2> DEFINE L == NodesIn(s)
  <2>1. s \in State /\ L \in [Queues -> Seq(Nodes)] /\ Shape(s, L)
    BY <1>3 DEF ListInv, Lawful
  <2>2. \A q \in Queues : L[q] = NodesOf(s, q)
    BY DEF NodesIn
  <2> HIDE DEF L
  <2>3. s.live = UNION {Elements(NodesOf(s, q)) : q \in Queues}
    BY <2>1, <2>2 DEF Shape
  <2>4. \A q1, q2 \in Queues : q1 # q2 =>
             Elements(NodesOf(s, q1)) \cap Elements(NodesOf(s, q2)) = {}
    BY <2>1, <2>2 DEF Shape
  <2>5. ASSUME NEW q \in Queues
        PROVE  LET l == NodesOf(s, q) IN
               /\ s.queuelength[q] = Len(l) /\ Cardinality(Elements(l)) = Len(l)
               /\ l # <<>> => s.next[l[Len(l)]] = Null
               /\ IF s.previous[q] = Null THEN s.current[q] = s.head[q]
                  ELSE s.previous[q] \in Elements(l) /\ s.next[s.previous[q]] = s.current[q]
    <3> DEFINE l == NodesOf(s, q)
    <3>1. l = L[q]
      BY <2>2
    <3>2. /\ L[q] \in Seq(Nodes) /\ HasNodes(s, q, L[q]) /\ Distinct(L[q])
          /\ s.queuelength[q] = Len(L[q]) /\ IsList(s.next, s.head[q], L[q])
      BY <2>1, ShapeQueue
    <3> HIDE DEF l
    <3>3. Cardinality(Elements(l)) = Len(l)
      BY <3>1, <3>2, DistinctSize
    <3> QED BY <3>1, <3>2, <3>3 DEF HasNodes, Placed, IsList, l
  <2> QED BY <2>3, <2>4, <2>5, <1>1 DEF WellFormed
<1> QED BY <1>2, <1>3

LEMMA ListInvTail == ListInv => TailIsLast
<1> SUFFICES ASSUME ListInv, s.ok, NEW q \in Queues,
                    NodesOf(s, q) # <<>> /\ s.kind[q].tag_only
             PROVE  s.tail[q] \in {NodesOf(s, q)[Len(NodesOf(s, q))], Null}
  BY DEF TailIsLast
<1>1. HasNodes(s, q, NodesIn(s)[q]) /\ NodesIn(s)[q] = NodesOf(s, q)
  BY DEF ListInv, Lawful, Shape, NodesIn
<1> QED BY <1>1 DEF HasNodes

\* WellFormed: nothing that the functions of prioque.c do to their queues, in any
\* order, leaks a node, frees one twice, shares one between two queues, makes a list
\* without an end or a length that is wrong, or leaves previous behind current.
THEOREM WellFormedHolds == Spec => []WellFormed
BY ListInvariant, ListInvWellFormed, PTL

\* TailIsLast: the tail that nolock_add_to_queue follows in a FIFO queue is the last
\* element or nil.
THEOREM TailIsLastHolds == Spec => []TailIsLast
BY ListInvariant, ListInvTail, PTL

-----------------------------------------------------------------------------
(* What a caller of PriorityList sees of a state *)

ListsOf(t) == [q \in Queues |-> Records(t, NodesOf(t, q))]

PositionOf(t, q, l) ==
    IF t.current[q] = Null THEN Len(l) + 1 ELSE CHOOSE i \in 1 .. Len(l) : l[i] = t.current[q]

PositionsOf(t) == [q \in Queues |-> PositionOf(t, q, NodesOf(t, q))]

KindsOf(t) == [q \in Queues |-> KindOf(t, q)]

LEMMA ViewsAre ==
    /\ Lists = ListsOf(s) /\ Lists' = ListsOf(s')
    /\ Positions = PositionsOf(s) /\ Positions' = PositionsOf(s')
<1>1. Lists = ListsOf(s) /\ Lists' = ListsOf(s')
  BY DEF Lists, ListsOf, Records
<1>2. Positions = PositionsOf(s) /\ Positions' = PositionsOf(s')
  BY DEF Positions, PositionsOf, PositionOf
<1> QED BY <1>1, <1>2

\* The position of a queue is the one its current pointer stands for.
LEMMA PositionAt ==
    ASSUME NEW t, NEW q, NEW l \in Seq(Nodes), Distinct(l), NEW k, At(t, q, l, k)
    PROVE  PositionOf(t, q, l) = k
<1>1. /\ Len(l) \in Nat /\ k \in 1 .. Len(l) + 1
      /\ t.current[q] = IF k = Len(l) + 1 THEN Null ELSE l[k]
      /\ \A i \in 1 .. Len(l) : l[i] \in Nodes
  BY DEF At
<1>2. CASE k = Len(l) + 1
  BY <1>1, <1>2 DEF PositionOf
<1>3. CASE k # Len(l) + 1
  <2>1. k \in 1 .. Len(l) /\ t.current[q] = l[k] /\ t.current[q] # Null
    BY <1>1, <1>3, NodesAssumption
  <2>2. \A i \in 1 .. Len(l) : l[i] = t.current[q] => i = k
    BY <2>1 DEF Distinct
  <2>3. (CHOOSE i \in 1 .. Len(l) : l[i] = t.current[q]) = k
    BY <2>1, <2>2
  <2> QED BY <2>1, <2>3 DEF PositionOf
<1> QED BY <1>2, <1>3

LEMMA SomePosition ==
    ASSUME NEW t \in State, NEW L \in [Queues -> Seq(Nodes)], Shape(t, L), NEW q \in Queues
    PROVE  \E k : At(t, q, L[q], k)
<1>1. Len(L[q]) \in Nat
  BY ShapeQueue
<1>2. CASE t.current[q] = Null
  <2>1. At(t, q, L[q], Len(L[q]) + 1)
    BY <1>1, <1>2 DEF At
  <2> QED BY <2>1
<1>3. CASE t.current[q] # Null
  <2>1. PICK k \in 1 .. Len(L[q]) : t.current[q] = L[q][k]
    BY <1>3, CurrentPlace
  <2>2. At(t, q, L[q], k)
    BY <2>1, <1>1 DEF At
  <2> QED BY <2>2
<1> QED BY <1>2, <1>3

\* A queue whose nodes and contents a step leaves alone looks as before.
LEMMA ViewSame ==
    ASSUME NEW t \in State, NEW L \in [Queues -> Seq(Nodes)], Shape(t, L),
           NEW u \in State, NEW M \in [Queues -> Seq(Nodes)], Shape(u, M),
           NEW q \in Queues, M[q] = L[q], SameQueue(t, u, q),
           \A n \in Elements(L[q]) : u.info[n] = t.info[n] /\ u.priority[n] = t.priority[n]
    PROVE  ListsOf(u)[q] = ListsOf(t)[q] /\ PositionsOf(u)[q] = PositionsOf(t)[q]
<1>1. /\ NodesOf(t, q) = L[q] /\ NodesOf(u, q) = L[q]
      /\ \A i \in 1 .. Len(L[q]) : L[q][i] \in Elements(L[q])
  BY ShapeQueue
<1>2. Records(u, L[q]) = Records(t, L[q])
  BY <1>1 DEF Records
<1>3. PositionOf(u, q, L[q]) = PositionOf(t, q, L[q])
  BY DEF PositionOf, SameQueue
<1> QED BY <1>1, <1>2, <1>3 DEF ListsOf, PositionsOf

\* What an effect on one queue shows.
LEMMA EffectView ==
    ASSUME NEW t \in State, NEW L \in [Queues -> Seq(Nodes)], Shape(t, L), NEW q \in Queues,
           NEW u, NEW l, NEW k, Effect(t, u, L, q, l, k)
    PROVE  /\ ListsOf(u) = [ListsOf(t) EXCEPT ![q] = Records(u, l)]
           /\ PositionsOf(u) = [PositionsOf(t) EXCEPT ![q] = k]
           /\ KindsOf(u) = KindsOf(t)
<1> DEFINE M == [L EXCEPT ![q] = l]
<1>1. /\ u \in State /\ l \in Seq(Nodes) /\ Shape(u, M) /\ u.kind = t.kind
      /\ \A r \in Queues : r # q => SameQueue(t, u, r)
      /\ \A n \in t.live : n \notin Elements(L[q]) =>
            u.info[n] = t.info[n] /\ u.priority[n] = t.priority[n]
      /\ At(u, q, l, k)
  BY DEF Effect
<1>2. M \in [Queues -> Seq(Nodes)] /\ M[q] = l /\ \A r \in Queues : r # q => M[r] = L[r]
  BY <1>1
<1> HIDE DEF M
<1>3. ListsOf(u)[q] = Records(u, l) /\ PositionsOf(u)[q] = k
  <2>1. At(u, q, M[q], k)
    BY <1>1, <1>2
  <2>2. u \in State /\ Shape(u, M) /\ M \in [Queues -> Seq(Nodes)]
    BY <1>1, <1>2
  <2>3. NodesOf(u, q) = M[q] /\ M[q] \in Seq(Nodes) /\ Distinct(M[q])
    BY <2>2, ShapeQueue
  <2>4. PositionOf(u, q, M[q]) = k
    BY <2>1, <2>3, PositionAt
  <2> QED BY <2>3, <2>4, <1>2 DEF ListsOf, PositionsOf
<1>4. ASSUME NEW r \in Queues, r # q
      PROVE  ListsOf(u)[r] = ListsOf(t)[r] /\ PositionsOf(u)[r] = PositionsOf(t)[r]
  <2>1. \A n \in Elements(L[r]) : n \in t.live /\ n \notin Elements(L[q])
    BY <1>4 DEF Shape
  <2>2. \A n \in Elements(L[r]) : u.info[n] = t.info[n] /\ u.priority[n] = t.priority[n]
    BY <2>1, <1>1
  <2>3. M[r] = L[r] /\ SameQueue(t, u, r)
    BY <1>1, <1>2, <1>4
  <2> QED BY <2>2, <2>3, <1>1, <1>2, ViewSame
<1>5. ListsOf(u) = [ListsOf(t) EXCEPT ![q] = Records(u, l)]
  BY <1>3, <1>4 DEF ListsOf
<1>6. PositionsOf(u) = [PositionsOf(t) EXCEPT ![q] = k]
  BY <1>3, <1>4 DEF PositionsOf
<1>7. KindsOf(u) = KindsOf(t)
  BY <1>1 DEF KindsOf, KindOf
<1> QED BY <1>5, <1>6, <1>7

\* A step after which q shows the elements x and the position k.
Seen(q, x, k) ==
    /\ Lists' = [Lists EXCEPT ![q] = x] /\ Positions' = [Positions EXCEPT ![q] = k]
    /\ KindsOf(s') = KindsOf(s)

LEMMA EffectSeen ==
    ASSUME s \in State, NEW L \in [Queues -> Seq(Nodes)], Shape(s, L), NEW q \in Queues,
           NEW l, NEW k, Effect(s, s', L, q, l, k)
    PROVE  Seen(q, Records(s', l), k)
<1>1. /\ ListsOf(s') = [ListsOf(s) EXCEPT ![q] = Records(s', l)]
      /\ PositionsOf(s') = [PositionsOf(s) EXCEPT ![q] = k]
      /\ KindsOf(s') = KindsOf(s)
  BY EffectView
<1> QED BY <1>1, ViewsAre DEF Seen

LEMMA SeenNow ==
    ASSUME s \in State, NEW L \in [Queues -> Seq(Nodes)], Shape(s, L), NEW q \in Queues
    PROVE  /\ Lists \in [Queues -> Seq(Item)] /\ Lists[q] = Records(s, L[q])
           /\ Len(Lists[q]) = Len(L[q])
           /\ \A i \in 1 .. Len(L[q]) : Lists[q][i].info = s.info[L[q][i]]
           /\ DOMAIN Positions = Queues
           /\ \A k : At(s, q, L[q], k) => Positions[q] = k
<1>1. Lists = ListsOf(s) /\ Positions = PositionsOf(s)
  BY ViewsAre
<1>2. L[q] \in Seq(Nodes) /\ NodesOf(s, q) = L[q]
  BY ShapeQueue
<1>3. Records(s, L[q]) \in Seq(Item) /\ Len(Records(s, L[q])) = Len(L[q])
      /\ \A i \in 1 .. Len(L[q]) : Records(s, L[q])[i].info = s.info[L[q][i]]
  BY <1>2, RecordsSeq
<1>4. ASSUME NEW r \in Queues PROVE Records(s, NodesOf(s, r)) \in Seq(Item)
  <2>1. NodesOf(s, r) \in Seq(Nodes)
    BY ShapeQueue
  <2> QED BY <2>1, RecordsSeq
<1>5. ListsOf(s) \in [Queues -> Seq(Item)] /\ ListsOf(s)[q] = Records(s, L[q])
  BY <1>2, <1>4 DEF ListsOf
<1>6. DOMAIN PositionsOf(s) = Queues
  BY DEF PositionsOf
<1>7. ASSUME NEW k, At(s, q, L[q], k) PROVE PositionsOf(s)[q] = k
  <2>1. L[q] \in Seq(Nodes) /\ Distinct(L[q])
    BY ShapeQueue
  <2>2. PositionOf(s, q, L[q]) = k
    BY <2>1, <1>7, PositionAt
  <2> QED BY <2>2, <1>2 DEF PositionsOf
<1> QED BY <1>1, <1>3, <1>5, <1>6, <1>7

\* A caller does not see that a position or a node moved.
LEMMA SameRecords ==
    ASSUME NEW t, NEW u, NEW l, u.info = t.info, u.priority = t.priority
    PROVE  Records(u, l) = Records(t, l)
BY DEF Records

\* Without is what PriorityList does with SubSeq.
LEMMA WithoutRecords ==
    ASSUME NEW t \in State, NEW u \in State, NEW l \in Seq(Nodes), Distinct(l),
           NEW k \in 1 .. Len(l),
           \A n \in Nodes : n # l[k] => u.info[n] = t.info[n] /\ u.priority[n] = t.priority[n]
    PROVE  Records(u, Without(l, k)) = SubSeq(Records(t, l), 1, k - 1)
                                       \o SubSeq(Records(t, l), k + 1, Len(Records(t, l)))
<1> DEFINE R == Records(t, l)
           m == Without(l, k)
           N == Records(u, m)
           a == SubSeq(R, 1, k - 1)
           b == SubSeq(R, k + 1, Len(R))
<1>1. Len(l) \in Nat /\ \A i \in 1 .. Len(l) : l[i] \in Nodes
  OBVIOUS
<1>2. R \in Seq(Item) /\ Len(R) = Len(l)
      /\ \A i \in 1 .. Len(l) : R[i] = [info |-> t.info[l[i]], priority |-> t.priority[l[i]]]
  BY RecordsSeq
<1>3. m \in Seq(Nodes) /\ Len(m) = Len(l) - 1
      /\ \A i \in 1 .. Len(l) - 1 : m[i] = IF i < k THEN l[i] ELSE l[i + 1]
  BY WithoutSeq
<1> HIDE DEF R, m
<1>4. N \in Seq(Item) /\ Len(N) = Len(l) - 1
      /\ \A i \in 1 .. Len(l) - 1 : N[i] = [info |-> u.info[m[i]], priority |-> u.priority[m[i]]]
  <2>1. /\ Records(u, m) \in Seq(Item) /\ Len(Records(u, m)) = Len(m)
        /\ \A i \in 1 .. Len(m) :
              Records(u, m)[i] = [info |-> u.info[m[i]], priority |-> u.priority[m[i]]]
    BY <1>3, RecordsSeq
  <2> QED BY <2>1, <1>3
<1> HIDE DEF N
<1>5. a \in Seq(Item) /\ Len(a) = k - 1 /\ \A i \in 1 .. k - 1 : a[i] = R[i]
  BY <1>1, <1>2
<1>6. b \in Seq(Item) /\ Len(b) = Len(l) - k /\ \A i \in 1 .. Len(l) - k : b[i] = R[k + i]
  BY <1>1, <1>2
<1> HIDE DEF a, b
<1>7. a \o b \in Seq(Item) /\ Len(a \o b) = Len(l) - 1
      /\ \A i \in 1 .. Len(l) - 1 : (a \o b)[i] = IF i <= k - 1 THEN a[i] ELSE b[i - (k - 1)]
  BY <1>1, <1>5, <1>6
<1>8. ASSUME NEW i \in 1 .. Len(l) - 1 PROVE N[i] = (a \o b)[i]
  <2> DEFINE j == IF i < k THEN i ELSE i + 1
  <2>1. j \in 1 .. Len(l) /\ j # k
    BY <1>1
  <2>2. m[i] = l[j]
    BY <1>3
  <2>3. (a \o b)[i] = R[j]
    <3>1. CASE i < k
      <4>1. i <= k - 1 /\ i \in 1 .. k - 1
        BY <3>1, <1>1
      <4>2. (a \o b)[i] = a[i]
        BY <4>1, <1>7
      <4> QED BY <4>1, <4>2, <3>1, <1>5
    <3>2. CASE ~ i < k
      <4>1. i - (k - 1) \in 1 .. Len(l) - k /\ k + (i - (k - 1)) = i + 1
        BY <3>2, <1>1
      <4>2. (a \o b)[i] = b[i - (k - 1)]
        <5>1. ~ i <= k - 1
          BY <3>2, <1>1
        <5> QED BY <5>1, <1>7
      <4>3. b[i - (k - 1)] = R[k + (i - (k - 1))]
        BY <4>1, <1>6
      <4> QED BY <4>1, <4>2, <4>3, <3>2
    <3> QED BY <3>1, <3>2
  <2> HIDE DEF j
  <2>4. l[j] \in Nodes /\ l[j] # l[k]
    BY <2>1, <1>1 DEF Distinct
  <2>5. u.info[l[j]] = t.info[l[j]] /\ u.priority[l[j]] = t.priority[l[j]]
    BY <2>4
  <2>6. N[i] = [info |-> u.info[l[j]], priority |-> u.priority[l[j]]]
    BY <2>2, <1>4
  <2>7. R[j] = [info |-> t.info[l[j]], priority |-> t.priority[l[j]]]
    BY <2>1, <1>2
  <2> QED BY <2>3, <2>5, <2>6, <2>7
<1>9. N = a \o b
  BY <1>4, <1>7, <1>8, SeqEqual
<1> QED BY <1>9 DEF N, m, a, b, R

LEMMA TailIs ==
    ASSUME NEW S, NEW l \in Seq(S), l # <<>>
    PROVE  SubSeq(l, 1, 1 - 1) \o SubSeq(l, 1 + 1, Len(l)) = Tail(l)
<1> DEFINE a == SubSeq(l, 1, 1 - 1)
           b == SubSeq(l, 1 + 1, Len(l))
<1>1. Len(l) \in Nat /\ Len(l) # 0
  BY EmptySeq
<1>2. a \in Seq(S) /\ Len(a) = 0
  BY <1>1
<1>3. a = <<>>
  BY <1>2, EmptySeq
<1>4. b \in Seq(S) /\ Len(b) = Len(l) - 1 /\ \A i \in 1 .. Len(l) - 1 : b[i] = l[i + 1]
  BY <1>1
<1>5. Tail(l) \in Seq(S) /\ Len(Tail(l)) = Len(l) - 1 /\ \A i \in 1 .. Len(l) - 1 : Tail(l)[i] = l[i + 1]
  BY <1>1
<1> HIDE DEF a, b
<1>6. b = Tail(l)
  BY <1>4, <1>5, SeqEqual
<1>7. <<>> \o b = b
  BY <1>4
<1> QED BY <1>3, <1>6, <1>7 DEF a, b

-----------------------------------------------------------------------------
(* Every function does what PriorityList says *)

LEMMA RewindSeen ==
    ASSUME s \in State, NEW L \in [Queues -> Seq(Nodes)], Shape(s, L), NEW q \in Queues,
           rewind_queue(q)
    PROVE  List!Rewind(q)
<1>1. Effect(s, s', L, q, L[q], 1) /\ s' = Rewound(s, q)
  BY RewoundEffect DEF rewind_queue
<1>2. Seen(q, Records(s', L[q]), 1)
  BY <1>1, EffectSeen
<1>3. Lists \in [Queues -> Seq(Item)] /\ Lists[q] = Records(s, L[q])
  BY SeenNow
<1>4. Records(s', L[q]) = Lists[q]
  <2>1. s'.info = s.info /\ s'.priority = s.priority
    BY <1>1, RewoundFields
  <2> QED BY <2>1, <1>3, SameRecords
<1> QED BY <1>2, <1>3, <1>4 DEF Seen, List!Rewind, KindsOf, KindOf

LEMMA NextElementSeen ==
    ASSUME s \in State, NEW L \in [Queues -> Seq(Nodes)], Shape(s, L), NEW q \in Queues,
           next_element(q)
    PROVE  List!Advance(q)
<1>1. /\ s.current[q] # Null
      /\ s' = [s EXCEPT !.previous[q] = s.current[q], !.current[q] = s.next[s.current[q]]]
  BY DEF next_element
<1>2. PICK k \in 1 .. Len(L[q]) : s.current[q] = L[q][k]
  BY <1>1, CurrentPlace
<1>3. Effect(s, s', L, q, L[q], k + 1)
  BY <1>1, <1>2, NextElementEffect
<1>4. Seen(q, Records(s', L[q]), k + 1)
  BY <1>3, EffectSeen
<1>5. At(s, q, L[q], k) /\ Len(L[q]) \in Nat
  BY <1>2, ShapeQueue DEF At
<1>6. /\ Lists \in [Queues -> Seq(Item)] /\ Lists[q] = Records(s, L[q])
      /\ Len(Lists[q]) = Len(L[q]) /\ Positions[q] = k /\ DOMAIN Positions = Queues
  BY <1>5, SeenNow
<1>7. Records(s', L[q]) = Lists[q]
  <2>1. s'.info = s.info /\ s'.priority = s.priority
    BY <1>1 DEF State
  <2> QED BY <2>1, <1>6, SameRecords
<1> QED BY <1>4, <1>5, <1>6, <1>7 DEF Seen, List!Advance, KindsOf, KindOf

LEMMA UpdateCurrentSeen ==
    ASSUME s \in State, NEW L \in [Queues -> Seq(Nodes)], Shape(s, L), NEW q \in Queues,
           NEW v \in Values, update_current(q, v)
    PROVE  List!UpdateCurrent(q, v)
<1>1. s.current[q] # Null /\ s' = [s EXCEPT !.info[s.current[q]] = v]
  BY DEF update_current
<1>2. PICK k \in 1 .. Len(L[q]) : s.current[q] = L[q][k]
  BY <1>1, CurrentPlace
<1>3. Effect(s, s', L, q, L[q], k)
  BY <1>1, <1>2, UpdateCurrentEffect
<1>4. Seen(q, Records(s', L[q]), k) /\ s' \in State
  BY <1>3, EffectSeen DEF Effect
<1>5. /\ At(s, q, L[q], k) /\ L[q] \in Seq(Nodes) /\ Len(L[q]) \in Nat /\ Distinct(L[q])
      /\ \A i \in 1 .. Len(L[q]) : L[q][i] \in Nodes
  BY <1>2, ShapeQueue DEF At
<1>6. /\ Lists \in [Queues -> Seq(Item)] /\ Lists[q] = Records(s, L[q])
      /\ Len(Lists[q]) = Len(L[q]) /\ Positions[q] = k /\ DOMAIN Positions = Queues
  BY <1>5, SeenNow
<1>7. Records(s', L[q]) = [Lists[q] EXCEPT ![k].info = v]
  <2> DEFINE l == L[q]
  <2>1. s'.info = [s.info EXCEPT ![l[k]] = v] /\ s'.priority = s.priority
    BY <1>1, <1>2 DEF State
  <2>2. \A i \in 1 .. Len(l) : s'.info[l[i]] = IF i = k THEN v ELSE s.info[l[i]]
    <3>1. \A i \in 1 .. Len(l) : l[i] = l[k] => i = k
      BY <1>5 DEF Distinct
    <3>2. s.info \in [Nodes -> Value]
      BY DEF State
    <3> QED BY <3>1, <3>2, <2>1, <1>5
  <2> DEFINE R == Lists[q]
             item(i) == [info |-> s.info[l[i]], priority |-> s.priority[l[i]]]
  <2>3. R = [i \in 1 .. Len(l) |-> item(i)]
    BY <1>6 DEF Records
  <2>4. Records(s', l) =
           [i \in 1 .. Len(l) |-> [info |-> s'.info[l[i]], priority |-> s.priority[l[i]]]]
    BY <2>1 DEF Records
  <2> HIDE DEF l
  <2>5. [item(k) EXCEPT !.info = v] = [info |-> v, priority |-> s.priority[l[k]]]
    OBVIOUS
  <2> HIDE DEF R, item
  <2>6. [R EXCEPT ![k].info = v] =
           [i \in 1 .. Len(l) |-> IF i = k THEN [item(k) EXCEPT !.info = v] ELSE item(i)]
    BY <2>3 DEF l
  <2>7. \A i \in 1 .. Len(l) : [info |-> s'.info[l[i]], priority |-> s.priority[l[i]]] =
                              IF i = k THEN [item(k) EXCEPT !.info = v] ELSE item(i)
    <3>1. TAKE i \in 1 .. Len(l)
    <3>2. CASE i = k
      BY <3>2, <2>2, <2>5
    <3>3. CASE i # k
      BY <3>3, <2>2 DEF item
    <3> QED BY <3>2, <3>3
  <2> QED BY <2>4, <2>6, <2>7 DEF l, R
<1>8. [Lists EXCEPT ![q] = Records(s', L[q])] = [Lists EXCEPT ![q][k].info = v]
  BY <1>7
<1>9. Positions = [Positions EXCEPT ![q] = k]
  <2>1. Positions = [r \in Queues |-> Positions[r]]
    BY DEF Positions
  <2> QED BY <2>1, <1>6
<1> QED BY <1>4, <1>5, <1>6, <1>8, <1>9 DEF Seen, List!UpdateCurrent, KindsOf, KindOf

LEMMA RemoveFrontSeen ==
    ASSUME s \in State, NEW L \in [Queues -> Seq(Nodes)], Shape(s, L), NEW q \in Queues,
           remove_from_front(q)
    PROVE  List!RemoveFront(q)
<1>1. /\ Lists \in [Queues -> Seq(Item)] /\ Lists[q] = Records(s, L[q])
      /\ Len(Lists[q]) = Len(L[q])
  BY SeenNow
<1>2. /\ L[q] \in Seq(Nodes) /\ Len(L[q]) \in Nat /\ Distinct(L[q])
      /\ IsList(s.next, s.head[q], L[q])
  BY ShapeQueue
<1>3. Lists[q] = <<>> <=> s.head[q] = Null
  <2>1. Lists[q] \in Seq(Item)
    BY <1>1
  <2> QED BY <2>1, <1>1, <1>2, EmptySeq DEF IsList
<1>4. CASE s.head[q] = Null
  <2>1. s' = Rewound(s, q) /\ Effect(s, s', L, q, L[q], 1)
    BY <1>4, RewoundEffect DEF remove_from_front
  <2>2. Seen(q, Records(s', L[q]), 1)
    BY <2>1, EffectSeen
  <2>3. Records(s', L[q]) = Lists[q]
    <3>1. s'.info = s.info /\ s'.priority = s.priority
      BY <2>1, RewoundFields
    <3> QED BY <3>1, <1>1, SameRecords
  <2> QED BY <2>2, <2>3, <1>1, <1>3, <1>4 DEF Seen, List!RemoveFront, KindsOf, KindOf
<1>5. CASE s.head[q] # Null
  <2>1. s' = RemovedFront(q)
    BY <1>5 DEF remove_from_front
  <2>2. /\ 1 \in 1 .. Len(L[q]) /\ Effect(s, s', L, q, Without(L[q], 1), 1)
        /\ \A n \in Nodes : n # L[q][1] => s'.info[n] = s.info[n] /\ s'.priority[n] = s.priority[n]
    BY <2>1, <1>5, RemovedFrontEffect
  <2>3. Seen(q, Records(s', Without(L[q], 1)), 1) /\ s' \in State
    BY <2>2, EffectSeen DEF Effect
  <2>4. Records(s', Without(L[q], 1)) = Tail(Lists[q])
    <3> DEFINE R == Lists[q]
    <3>1. Records(s', Without(L[q], 1)) = SubSeq(Records(s, L[q]), 1, 1 - 1)
                                \o SubSeq(Records(s, L[q]), 1 + 1, Len(Records(s, L[q])))
      BY <2>2, <2>3, <1>2, WithoutRecords
    <3>2. R \in Seq(Item) /\ R # <<>>
      BY <1>1, <1>3, <1>5
    <3>3. SubSeq(R, 1, 1 - 1) \o SubSeq(R, 1 + 1, Len(R)) = Tail(R)
      BY <3>2, TailIs
    <3> QED BY <3>1, <3>3, <1>1
  <2> QED BY <2>3, <2>4, <1>1, <1>3, <1>5 DEF Seen, List!RemoveFront, KindsOf, KindOf
<1> QED BY <1>4, <1>5

LEMMA DeleteCurrentSeen ==
    ASSUME s \in State, NEW L \in [Queues -> Seq(Nodes)], Shape(s, L), NEW q \in Queues,
           delete_current(q)
    PROVE  List!DeleteCurrent(q)
<1>1. s.current[q] # Null /\ s' = Deleted(q)
  BY DEF delete_current
<1>2. PICK k \in 1 .. Len(L[q]) :
         /\ s.current[q] = L[q][k] /\ Effect(s, s', L, q, Without(L[q], k), k)
         /\ \A n \in Nodes : n # L[q][k] => s'.info[n] = s.info[n]
                                           /\ s'.priority[n] = s.priority[n]
  BY <1>1, DeletedEffect
<1>3. Seen(q, Records(s', Without(L[q], k)), k) /\ s' \in State
  BY <1>2, EffectSeen DEF Effect
<1>4. At(s, q, L[q], k) /\ L[q] \in Seq(Nodes) /\ Len(L[q]) \in Nat /\ Distinct(L[q])
  BY <1>2, ShapeQueue DEF At
<1>5. /\ Lists \in [Queues -> Seq(Item)] /\ Lists[q] = Records(s, L[q])
      /\ Len(Lists[q]) = Len(L[q]) /\ Positions[q] = k /\ DOMAIN Positions = Queues
  BY <1>4, SeenNow
<1>6. Records(s', Without(L[q], k)) = SubSeq(Lists[q], 1, k - 1)
                                      \o SubSeq(Lists[q], k + 1, Len(Lists[q]))
  BY <1>2, <1>3, <1>4, <1>5, WithoutRecords
<1>7. Positions = [Positions EXCEPT ![q] = k]
  <2>1. Positions = [r \in Queues |-> Positions[r]]
    BY DEF Positions
  <2> QED BY <2>1, <1>5
<1> QED BY <1>3, <1>4, <1>5, <1>6, <1>7 DEF Seen, List!DeleteCurrent, KindsOf, KindOf

\* The number of the first element equal to v, or 1.
FirstEqual(l, v) ==
    IF {i \in 1 .. Len(l) : l[i].info = v} = {} THEN 1
    ELSE CHOOSE i \in {i \in 1 .. Len(l) : l[i].info = v} :
            \A j \in {j \in 1 .. Len(l) : l[j].info = v} : i <= j

LEMMA FoundSeen ==
    ASSUME s \in State, NEW L \in [Queues -> Seq(Nodes)], Shape(s, L), NEW q \in Queues, NEW v,
           s' = Found(s, q, v)
    PROVE  /\ Lists' = Lists /\ KindsOf(s') = KindsOf(s)
           /\ Positions' = [Positions EXCEPT ![q] = FirstEqual(Lists[q], v)]
           /\ Records(s', L[q]) = Lists[q]
           /\ Contains(s, q, v) => {i \in 1 .. Len(Lists[q]) : Lists[q][i].info = v} # {}
<1> DEFINE equal == Equal(s, L[q], v)
           k == IF equal = {} THEN 1 ELSE First(equal)
           E == {i \in 1 .. Len(Lists[q]) : Lists[q][i].info = v}
<1>1. Effect(s, s', L, q, L[q], k)
  BY FoundEffect
<1> HIDE DEF k, equal
<1>2. Seen(q, Records(s', L[q]), k)
  BY <1>1, EffectSeen
<1>3. /\ Lists \in [Queues -> Seq(Item)] /\ Lists[q] = Records(s, L[q])
      /\ Len(Lists[q]) = Len(L[q])
      /\ \A i \in 1 .. Len(L[q]) : Lists[q][i].info = s.info[L[q][i]]
  BY SeenNow
<1>4. Records(s', L[q]) = Lists[q]
  <2>1. s'.info = s.info /\ s'.priority = s.priority
    BY FoundShape
  <2> QED BY <2>1, <1>3, SameRecords
<1>5. equal = E
  BY <1>3 DEF equal, Equal
<1>6. Lists' = Lists
  BY <1>2, <1>3, <1>4 DEF Seen
<1>7. k = FirstEqual(Lists[q], v)
  <2>1. FirstEqual(Lists[q], v) = IF E = {} THEN 1 ELSE CHOOSE i \in E : \A j \in E : i <= j
    BY Zenon DEF FirstEqual
  <2> HIDE DEF E
  <2>2. First(E) = CHOOSE i \in E : \A j \in E : i <= j
    BY Zenon DEF First
  <2> QED BY <2>1, <2>2, <1>5 DEF k
<1>8. Contains(s, q, v) => E # {}
  <2>1. NodesOf(s, q) = L[q]
    BY ShapeQueue
  <2>2. Contains(s, q, v) => \E i \in 1 .. Len(L[q]) : s.info[L[q][i]] = v
    BY <2>1 DEF Contains, Elements
  <2> QED BY <2>2, <1>3
<1> QED BY <1>2, <1>4, <1>6, <1>7, <1>8 DEF Seen

LEMMA FindSeen ==
    ASSUME s \in State, NEW L \in [Queues -> Seq(Nodes)], Shape(s, L), NEW q \in Queues,
           NEW v \in Values, element_in_queue(q, v)
    PROVE  List!Find(q, v)
<1>1. /\ Lists' = Lists /\ KindsOf(s') = KindsOf(s)
      /\ Positions' = [Positions EXCEPT ![q] = FirstEqual(Lists[q], v)]
  BY FoundSeen DEF element_in_queue
<1>2. List!Find(q, v) <=>
        /\ Positions' = [Positions EXCEPT ![q] = FirstEqual(Lists[q], v)]
        /\ UNCHANGED <<Lists, KindsOf(s)>>
  BY Zenon DEF List!Find, FirstEqual, KindsOf, KindOf
<1> QED BY <1>1, <1>2

LEMMA AddSeen ==
    ASSUME s \in State, NEW L \in [Queues -> Seq(Nodes)], Shape(s, L), NEW q \in Queues,
           NEW v \in Values, NEW p \in Priorities, add_to_queue(q, v, p), s'.ok
    PROVE  List!Add(q, [info |-> v, priority |-> p])
<1> DEFINE e == [info |-> v, priority |-> p]
           kind == KindsOf(s)[q]
<1>1. v \in Value /\ s.live # Nodes /\ s' = AddedTo(s, q, v, p)
  BY DEF add_to_queue, Value
<1>2. PICK l \in Seq(Nodes) : AddEffect(s, s', L, q, v, p, l)
  <2>1. AddedTo(s, q, v, p).ok
    BY <1>1
  <2>2. \E l \in Seq(Nodes) : AddEffect(s, AddedTo(s, q, v, p), L, q, v, p, l)
    BY <2>1, <1>1, AddToQueueEffect
  <2> QED BY <2>2, <1>1
<1>3. /\ Lists \in [Queues -> Seq(Item)] /\ Lists[q] = Records(s, L[q])
      /\ Len(Lists[q]) = Len(L[q])
  BY SeenNow
<1> DEFINE added == List!Added(Lists[q], e, kind)
           equal == {i \in 1 .. Len(Lists[q]) : Lists[q][i].info = e.info}
           first == CHOOSE i \in equal : \A j \in equal : i <= j
<1>4. kind = KindOf(s, q)
  BY DEF KindsOf
<1>5. Records(s', l) = added
  BY <1>2, <1>3, <1>4 DEF AddEffect
<1>6. List!Add(q, e) <=>
        /\ Positions' = [Positions EXCEPT ![q] = IF added # Lists[q] THEN 1 ELSE first]
        /\ Lists' = [Lists EXCEPT ![q] = added]
        /\ UNCHANGED KindsOf(s)
  BY Zenon DEF List!Add, KindsOf, KindOf
<1>7. e.info = v
  OBVIOUS
<1> HIDE DEF added, e, kind
<1>8. CASE Duplicate(s, q, v) /\ s' = Found(s, q, v) /\ l = L[q]
  <2>1. /\ Lists' = Lists /\ KindsOf(s') = KindsOf(s)
        /\ Positions' = [Positions EXCEPT ![q] = FirstEqual(Lists[q], v)]
        /\ Records(s', L[q]) = Lists[q]
        /\ Contains(s, q, v) => {i \in 1 .. Len(Lists[q]) : Lists[q][i].info = v} # {}
    BY <1>8, FoundSeen
  <2>2. FirstEqual(Lists[q], v) = first
    <3>1. {i \in 1 .. Len(Lists[q]) : Lists[q][i].info = v} # {}
      BY <2>1, <1>8 DEF Duplicate
    <3> QED BY <3>1, <1>7, Zenon DEF FirstEqual
  <2>3. added = Lists[q]
    BY <2>1, <1>5, <1>8
  <2>4. Lists' = [Lists EXCEPT ![q] = added]
    BY <2>1, <2>3, <1>3
  <2> HIDE DEF first, equal
  <2> QED BY <2>1, <2>2, <2>3, <2>4, <1>6 DEF e
<1>9. CASE Len(l) = Len(L[q]) + 1 /\ Effect(s, s', L, q, l, 1)
  <2>1. Seen(q, Records(s', l), 1)
    BY <1>9, EffectSeen
  <2>2. Len(Records(s', l)) = Len(l) /\ Len(l) \in Nat
    BY <1>9, RecordsSeq DEF Effect
  <2>3. added # Lists[q]
    BY <2>2, <1>3, <1>5, <1>9
  <2> HIDE DEF first, equal
  <2> QED BY <2>1, <2>3, <1>5, <1>6 DEF Seen, e
<1> QED BY <1>2, <1>8, <1>9 DEF AddEffect

LEMMA DestroySeen ==
    ASSUME s \in State, NEW L \in [Queues -> Seq(Nodes)], Shape(s, L), NEW q \in Queues,
           destroy_queue(q)
    PROVE  List!Destroy(q)
<1>1. Effect(s, s', L, q, <<>>, 1)
  BY DestroyedEffect DEF destroy_queue
<1>2. Seen(q, Records(s', <<>>), 1)
  BY <1>1, EffectSeen
<1>3. Records(s', <<>>) = <<>>
  <2>1. s' \in State /\ <<>> \in Seq(Nodes)
    BY <1>1, EmptySeq DEF Effect
  <2>2. Records(s', <<>>) \in Seq(Item) /\ Len(Records(s', <<>>)) = Len(<<>>)
    BY <2>1, RecordsSeq
  <2> QED BY <2>2, EmptySeq
<1> QED BY <1>2, <1>3 DEF Seen, List!Destroy, KindsOf, KindOf

\* After a loop over q1, and with the positions of the queues P at the front.
LoopSeen(q1, P, r) ==
    /\ Lists' = [Lists EXCEPT ![q1] = r]
    /\ Positions' = [q \in Queues |-> IF q \in P THEN 1 ELSE Positions[q]]

LEMMA LoopView ==
    ASSUME s \in State, NEW L \in [Queues -> Seq(Nodes)], Shape(s, L),
           s' \in State, NEW q1 \in Queues, NEW l \in Seq(Nodes), NEW P \in SUBSET Queues, q1 \in P,
           Shape(s', [L EXCEPT ![q1] = l]),
           \A q \in P : s'.previous[q] = Null,
           \A q \in Queues : q \notin P => SameQueue(s, s', q),
           \A n \in s.live : n \notin Elements(L[q1]) =>
                s'.info[n] = s.info[n] /\ s'.priority[n] = s.priority[n]
    PROVE  LoopSeen(q1, P, Records(s', l))
<1> DEFINE M == [L EXCEPT ![q1] = l]
           u == s'
<1>1. /\ M \in [Queues -> Seq(Nodes)] /\ M[q1] = l /\ \A q \in Queues : q # q1 => M[q] = L[q]
  OBVIOUS
<1>2. /\ Shape(u, M) /\ u \in State /\ \A q \in P : u.previous[q] = Null
      /\ \A q \in Queues : q \notin P => SameQueue(s, u, q)
      /\ \A n \in s.live : n \notin Elements(L[q1]) =>
            u.info[n] = s.info[n] /\ u.priority[n] = s.priority[n]
  OBVIOUS
<1> HIDE DEF M, u
<1>3. ASSUME NEW q \in Queues, q # q1 PROVE ListsOf(u)[q] = ListsOf(s)[q]
  <2>1. \A n \in Elements(L[q]) : n \in s.live /\ n \notin Elements(L[q1])
    BY <1>3 DEF Shape
  <2>2. Records(u, L[q]) = Records(s, L[q])
    <3>1. \A i \in 1 .. Len(L[q]) : L[q][i] \in Elements(L[q])
      BY ShapeQueue
    <3>2. \A i \in 1 .. Len(L[q]) : /\ u.info[L[q][i]] = s.info[L[q][i]]
                                    /\ u.priority[L[q][i]] = s.priority[L[q][i]]
      BY <2>1, <3>1, <1>2
    <3> QED BY <3>2 DEF Records
  <2>3. NodesOf(s, q) = L[q] /\ NodesOf(u, q) = M[q] /\ M[q] = L[q]
    BY <1>1, <1>2, <1>3, ShapeQueue
  <2> QED BY <2>2, <2>3 DEF ListsOf
<1>4. ListsOf(u)[q1] = Records(u, l)
  <2>1. NodesOf(u, q1) = M[q1]
    BY <1>1, <1>2, ShapeQueue
  <2> QED BY <2>1, <1>1 DEF ListsOf
<1>5. ListsOf(u) = [ListsOf(s) EXCEPT ![q1] = Records(u, l)]
  BY <1>3, <1>4 DEF ListsOf
<1>6. ASSUME NEW q \in Queues, q \notin P PROVE PositionsOf(u)[q] = PositionsOf(s)[q]
  <2>1. SameQueue(s, u, q) /\ M[q] = L[q]
    BY <1>1, <1>2, <1>6
  <2>2. NodesOf(s, q) = L[q] /\ NodesOf(u, q) = M[q]
    BY <1>1, <1>2, ShapeQueue
  <2>3. PositionOf(u, q, L[q]) = PositionOf(s, q, L[q])
    BY <2>1 DEF PositionOf, SameQueue
  <2> QED BY <2>1, <2>2, <2>3 DEF PositionsOf
<1>7. ASSUME NEW q \in P PROVE PositionsOf(u)[q] = 1
  <2>1. q \in Queues /\ u.previous[q] = Null
    BY <1>2
  <2>2. At(u, q, M[q], 1)
    BY <2>1, <1>1, <1>2, AtFront
  <2>3. NodesOf(u, q) = M[q] /\ M[q] \in Seq(Nodes) /\ Distinct(M[q])
    BY <2>1, <1>1, <1>2, ShapeQueue
  <2>4. PositionOf(u, q, M[q]) = 1
    BY <2>2, <2>3, PositionAt
  <2> QED BY <2>1, <2>3, <2>4 DEF PositionsOf
<1>8. PositionsOf(u) = [q \in Queues |-> IF q \in P THEN 1 ELSE PositionsOf(s)[q]]
  BY <1>6, <1>7 DEF PositionsOf
<1> QED BY <1>5, <1>8, ViewsAre DEF LoopSeen, u

LEMMA RewoundRest ==
    ASSUME NEW t \in State, NEW q \in Queues
    PROVE  LET u == Rewound(t, q) IN
           /\ u \in State /\ u.ok = t.ok /\ u.info = t.info /\ u.priority = t.priority
           /\ u.kind = t.kind /\ u.previous[q] = Null
           /\ \A p \in Queues : p # q => SameQueue(t, u, p)
BY DEF Rewound, State, Pointer, SameQueue

LEMMA MergeSeen ==
    ASSUME s \in State, NEW L \in [Queues -> Seq(Nodes)], Shape(s, L),
           NEW q1 \in Queues, NEW q2 \in Queues, q1 # q2, merge_queues(q1, q2), s'.ok
    PROVE  List!Merge(q1, q2)
<1> DEFINE u == AllAdded(s, q1, NodesOf(s, q2))
           r == List!AllAdded(Records(s, L[q1]), Records(s, L[q2]), KindOf(s, q1))
<1>1. NodesOf(s, q2) = L[q2] /\ Len(L[q2]) = s.queuelength[q2]
  BY ShapeQueue
<1>2. /\ s.queuelength[q2] <= Cardinality(Nodes \ s.live)
      /\ s' = IF u.ok THEN Rewound(u, q1) ELSE u
  BY Zenon DEF merge_queues
<1>3. /\ u \in State
      /\ u.ok => \E l \in Seq(Nodes) : LoopEffect(s, u, L, q1, r, l)
  BY <1>1, <1>2, AllAddedEffect
<1> HIDE DEF u, r
<1>4. u.ok /\ s' = Rewound(u, q1)
  BY <1>2
<1>5. PICK l \in Seq(Nodes) : LoopEffect(s, u, L, q1, r, l)
  BY <1>3, <1>4
<1>6. /\ Shape(u, [L EXCEPT ![q1] = l]) /\ Records(u, l) = r
      /\ u.kind = s.kind /\ \A p \in Queues : p # q1 => SameQueue(s, u, p)
      /\ \A n \in s.live : u.info[n] = s.info[n] /\ u.priority[n] = s.priority[n]
  BY <1>5 DEF LoopEffect
<1>7. /\ s' \in State /\ s'.info = u.info /\ s'.priority = u.priority /\ s'.kind = u.kind
      /\ s'.previous[q1] = Null /\ \A p \in Queues : p # q1 => SameQueue(u, s', p)
  BY <1>3, <1>4, RewoundRest
<1>8. Shape(s', [L EXCEPT ![q1] = l])
  <2> DEFINE M == [L EXCEPT ![q1] = l]
  <2>1. M \in [Queues -> Seq(Nodes)] /\ Shape(u, M)
    BY <1>6
  <2> HIDE DEF M
  <2>2. Shape(s', M)
    BY <2>1, <1>3, <1>4, RewoundShape
  <2> QED BY <2>2 DEF M
<1>9. \A p \in Queues : p \notin {q1} => SameQueue(s, s', p)
  BY <1>6, <1>7 DEF SameQueue
<1>10. LoopSeen(q1, {q1}, Records(s', l))
  BY <1>6, <1>7, <1>8, <1>9, LoopView
<1>11. Records(s', l) = r
  BY <1>6, <1>7, SameRecords
<1>12. Lists[q1] = Records(s, L[q1]) /\ Lists[q2] = Records(s, L[q2])
  BY SeenNow
<1>13. Positions' = [Positions EXCEPT ![q1] = 1]
  <2>1. Positions = [q \in Queues |-> Positions[q]]
    BY DEF Positions
  <2>2. Positions' = [q \in Queues |-> IF q \in {q1} THEN 1 ELSE Positions[q]]
    BY <1>10 DEF LoopSeen
  <2> QED BY <2>1, <2>2
<1>14. KindsOf(s') = KindsOf(s) /\ KindsOf(s)[q1] = KindOf(s, q1)
  BY <1>6, <1>7 DEF KindsOf, KindOf
<1>15. List!Merge(q1, q2) <=>
         /\ Lists' = [Lists EXCEPT ![q1] = List!AllAdded(Lists[q1], Lists[q2], KindsOf(s)[q1])]
         /\ Positions' = [Positions EXCEPT ![q1] = 1]
         /\ UNCHANGED KindsOf(s)
  BY Zenon DEF List!Merge, KindsOf, KindOf
<1> QED BY <1>10, <1>11, <1>12, <1>13, <1>14, <1>15 DEF LoopSeen, r

LEMMA CopySeen ==
    ASSUME s \in State, NEW L \in [Queues -> Seq(Nodes)], Shape(s, L),
           NEW q1 \in Queues, NEW q2 \in Queues, q1 # q2, copy_queue(q1, q2), s'.ok
    PROVE  List!Copy(q1, q2)
<1> DEFINE e == EmptyCopy(s, q1, q2)
           M == [L EXCEPT ![q1] = <<>>]
           u == AllAdded(e, q1, NodesOf(s, q2))
           a == Rewound(u, q1)
           r == List!AllAdded(Records(e, M[q1]), Records(e, M[q2]), KindOf(e, q1))
<1>1. /\ s.queuelength[q2] <= Cardinality(Nodes \ e.live) /\ s' = Rewound(a, q2)
  BY Zenon DEF copy_queue, EmptyCopy
<1>2. /\ e \in State /\ Shape(e, M)
      /\ e.kind = [s.kind EXCEPT ![q1] = s.kind[q2]] /\ e.live = s.live \ Elements(L[q1])
      /\ \A p \in Queues : p # q1 => SameQueue(s, e, p)
      /\ \A n \in s.live : n \notin Elements(L[q1]) =>
            e.info[n] = s.info[n] /\ e.priority[n] = s.priority[n]
  <2>1. Emptied(s, e, L, q1, q2)
    BY EmptyCopyShape
  <2> HIDE DEF e
  <2> QED BY <2>1 DEF Emptied
<1>3. M \in [Queues -> Seq(Nodes)] /\ M[q2] = L[q2] /\ M[q1] = <<>>
  BY EmptySeq
<1>4. NodesOf(s, q2) = M[q2] /\ Len(M[q2]) = s.queuelength[q2]
  BY <1>3, ShapeQueue
<1> HIDE DEF e, M
<1>5. /\ u \in State
      /\ u.ok => \E l \in Seq(Nodes) : LoopEffect(e, u, M, q1, r, l)
  <2>1. u = AllAdded(e, q1, M[q2]) /\ Len(M[q2]) <= Cardinality(Nodes \ e.live)
    BY <1>1, <1>4
  <2> HIDE DEF u, r
  <2>2. /\ AllAdded(e, q1, M[q2]) \in State
        /\ AllAdded(e, q1, M[q2]).ok => \E l \in Seq(Nodes) :
              LoopEffect(e, AllAdded(e, q1, M[q2]), M, q1, r, l)
    BY <2>1, <1>2, <1>3, AllAddedEffect DEF r
  <2> QED BY <2>1, <2>2
<1> HIDE DEF u, r
<1>6. /\ a \in State /\ a.ok = u.ok /\ a.info = u.info /\ a.priority = u.priority
      /\ a.kind = u.kind /\ a.previous[q1] = Null
      /\ \A p \in Queues : p # q1 => SameQueue(u, a, p)
  BY <1>5, RewoundRest
<1> HIDE DEF a
<1>7. /\ s' \in State /\ s'.ok = a.ok /\ s'.info = a.info /\ s'.priority = a.priority
      /\ s'.kind = a.kind /\ s'.previous[q2] = Null
      /\ \A p \in Queues : p # q2 => SameQueue(a, s', p)
  BY <1>1, <1>6, RewoundRest
<1>8. PICK l \in Seq(Nodes) : LoopEffect(e, u, M, q1, r, l)
  BY <1>5, <1>6, <1>7
<1>9. /\ Shape(u, [M EXCEPT ![q1] = l]) /\ Records(u, l) = r
      /\ u.kind = e.kind /\ \A p \in Queues : p # q1 => SameQueue(e, u, p)
      /\ \A n \in e.live : u.info[n] = e.info[n] /\ u.priority[n] = e.priority[n]
  BY <1>8 DEF LoopEffect
<1>10. Shape(s', [L EXCEPT ![q1] = l])
  <2> DEFINE N == [M EXCEPT ![q1] = l]
  <2>1. N \in [Queues -> Seq(Nodes)] /\ Shape(u, N)
    BY <1>3, <1>9
  <2>2. N = [L EXCEPT ![q1] = l]
    BY DEF M
  <2> HIDE DEF N
  <2>3. Shape(a, N)
    <3>1. Shape(Rewound(u, q1), N)
      BY <2>1, <1>5, RewoundShape
    <3> QED BY <3>1 DEF a
  <2>4. Shape(s', N)
    BY <2>1, <2>3, <1>1, <1>6, RewoundShape
  <2> QED BY <2>2, <2>4
<1> DEFINE P == {q1, q2}
<1>11. P \in SUBSET Queues /\ q1 \in P /\ \A q \in P : s'.previous[q] = Null
  BY <1>6, <1>7 DEF SameQueue
<1>12. \A p \in Queues : p \notin P => SameQueue(s, s', p)
  BY <1>2, <1>6, <1>7, <1>9 DEF SameQueue
<1>13. \A n \in s.live : n \notin Elements(L[q1]) =>
          s'.info[n] = s.info[n] /\ s'.priority[n] = s.priority[n]
  BY <1>2, <1>6, <1>7, <1>9
<1> HIDE DEF P
<1>14. LoopSeen(q1, P, Records(s', l))
  BY <1>7, <1>10, <1>11, <1>12, <1>13, LoopView
<1>15. Records(s', l) = r
  BY <1>6, <1>7, <1>9, SameRecords
<1>16. Lists[q2] = Records(s, L[q2])
  BY SeenNow
<1>17. r = List!AllAdded(<<>>, Lists[q2], KindsOf(s)[q2])
  <2>1. Records(e, M[q1]) = <<>>
    <3>1. Records(e, <<>>) \in Seq(Item) /\ Len(Records(e, <<>>)) = Len(<<>>)
      BY <1>2, EmptySeq, RecordsSeq
    <3> QED BY <3>1, <1>3, EmptySeq
  <2>2. Records(e, M[q2]) = Lists[q2]
    <3>1. \A i \in 1 .. Len(L[q2]) : L[q2][i] \in Elements(L[q2])
      BY ShapeQueue
    <3>2. \A n \in Elements(L[q2]) : n \in s.live /\ n \notin Elements(L[q1])
      BY DEF Shape
    <3>3. \A i \in 1 .. Len(L[q2]) : /\ e.info[L[q2][i]] = s.info[L[q2][i]]
                                     /\ e.priority[L[q2][i]] = s.priority[L[q2][i]]
      BY <3>1, <3>2, <1>2
    <3> QED BY <3>3, <1>3, <1>16 DEF Records
  <2>3. KindOf(e, q1) = KindsOf(s)[q2]
    BY <1>2 DEF KindsOf, KindOf, State
  <2> QED BY <2>1, <2>2, <2>3 DEF r
<1>18. Positions' = [Positions EXCEPT ![q1] = 1, ![q2] = 1]
  <2>1. Positions = [q \in Queues |-> Positions[q]]
    BY DEF Positions
  <2>2. Positions' = [q \in Queues |-> IF q \in {q1, q2} THEN 1 ELSE Positions[q]]
    BY <1>14 DEF LoopSeen, P
  <2> QED BY <2>1, <2>2
<1>19. KindsOf(s') = [KindsOf(s) EXCEPT ![q1] = KindsOf(s)[q2]]
  <2>1. s'.kind = [s.kind EXCEPT ![q1] = s.kind[q2]] /\ s.kind \in [Queues -> Kinds]
    BY <1>2, <1>6, <1>7, <1>9 DEF State
  <2>2. \A q \in Queues : KindOf(s', q) = IF q = q1 THEN KindOf(s, q2) ELSE KindOf(s, q)
    BY <2>1 DEF KindOf
  <2> QED BY <2>2 DEF KindsOf
<1>20. List!Copy(q1, q2) <=>
         /\ Lists' = [Lists EXCEPT ![q1] = List!AllAdded(<<>>, Lists[q2], KindsOf(s)[q2])]
         /\ Positions' = [Positions EXCEPT ![q1] = 1, ![q2] = 1]
         /\ KindsOf(s)' = [KindsOf(s) EXCEPT ![q1] = KindsOf(s)[q2]]
  BY Zenon DEF List!Copy, KindsOf, KindOf
<1> QED BY <1>14, <1>15, <1>17, <1>18, <1>19, <1>20 DEF LoopSeen

\* Queues that init_queue set up are empty lists.
LEMMA InitImplements == Init => List!Init
<1> SUFFICES ASSUME Init PROVE List!Init
  OBVIOUS
<1>1. /\ s.kind \in [Queues -> Kinds]
      /\ \A q \in Queues : s.head[q] = Null /\ s.current[q] = Null
  BY DEF Init
<1>2. \A q \in Queues : NodesOf(s, q) = <<>>
  BY <1>1 DEF NodesOf
<1>3. Records(s, <<>>) = <<>> /\ Len(<<>>) = 0
  BY DEF Records
<1>4. Lists = [q \in Queues |-> <<>>]
  BY <1>2, <1>3, ViewsAre DEF ListsOf
<1>5. Positions = [q \in Queues |-> 1]
  <2>1. \A q \in Queues : PositionOf(s, q, <<>>) = 1
    BY <1>1, <1>3 DEF PositionOf
  <2> QED BY <1>2, <2>1, ViewsAre DEF PositionsOf
<1>6. KindsOf(s) \in [Queues -> List!Kind]
  <2>1. \A q \in Queues : KindOf(s, q) \in List!Kind
    BY <1>1, KindsAssumption DEF KindOf, List!Kind
  <2> QED BY <2>1 DEF KindsOf
<1> QED BY <1>4, <1>5, <1>6 DEF List!Init, KindsOf, KindOf

LEMMA StepImplements ==
    ASSUME ListInv, Next, s'.ok
    PROVE  List!Next
<1> DEFINE L == NodesIn(s)
<1>1. s.ok /\ s \in State /\ L \in [Queues -> Seq(Nodes)] /\ Shape(s, L)
  BY DEF Next, ListInv, Lawful
<1> HIDE DEF L
<1>2. ASSUME NEW q \in Queues, NEW v \in Values, NEW p \in Priorities, add_to_queue(q, v, p)
      PROVE  List!Next
  <2>1. [info |-> v, priority |-> p] \in List!Element
    BY DEF List!Element
  <2>2. List!Add(q, [info |-> v, priority |-> p])
    BY <1>1, <1>2, AddSeen
  <2> QED BY <2>1, <2>2 DEF List!Next
<1>3. ASSUME NEW q \in Queues, remove_from_front(q) PROVE List!Next
  BY <1>1, <1>3, RemoveFrontSeen DEF List!Next
<1>4. ASSUME NEW q \in Queues, delete_current(q) PROVE List!Next
  BY <1>1, <1>4, DeleteCurrentSeen DEF List!Next
<1>5. ASSUME NEW q \in Queues, rewind_queue(q) PROVE List!Next
  BY <1>1, <1>5, RewindSeen DEF List!Next
<1>6. ASSUME NEW q \in Queues, next_element(q) PROVE List!Next
  BY <1>1, <1>6, NextElementSeen DEF List!Next
<1>7. ASSUME NEW q \in Queues, destroy_queue(q) PROVE List!Next
  BY <1>1, <1>7, DestroySeen DEF List!Next
<1>8. ASSUME NEW q \in Queues, NEW v \in Values, update_current(q, v) PROVE List!Next
  BY <1>1, <1>8, UpdateCurrentSeen DEF List!Next
<1>9. ASSUME NEW q \in Queues, NEW v \in Values, element_in_queue(q, v) PROVE List!Next
  BY <1>1, <1>9, FindSeen DEF List!Next
<1>10. ASSUME NEW q1 \in Queues, NEW q2 \in Queues, q1 # q2, copy_queue(q1, q2) PROVE List!Next
  BY <1>1, <1>10, CopySeen DEF List!Next
<1>11. ASSUME NEW q1 \in Queues, NEW q2 \in Queues, q1 # q2, merge_queues(q1, q2) PROVE List!Next
  BY <1>1, <1>11, MergeSeen DEF List!Next
<1> QED BY <1>2, <1>3, <1>4, <1>5, <1>6, <1>7, <1>8, <1>9, <1>10, <1>11 DEF Next

\* ImplementsList: a caller sees lists that begin empty, and what each function of
\* prioque.c makes of them is what PriorityList says of it, for any number of queues,
\* elements and nodes.
THEOREM ImplementsListHolds == Spec => List!Init /\ ImplementsList
<1>1. ListInv /\ [Next]_s => [s'.ok => List!Next]_s
  BY StepImplements
<1>2. Spec => [][s'.ok => List!Next]_s
  BY <1>1, ListInvariant, PTL DEF Spec
<1>3. Spec => List!Init
  BY InitImplements, PTL DEF Spec
<1> QED BY <1>2, <1>3 DEF ImplementsList

=============================================================================
