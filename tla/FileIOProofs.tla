---------------------------- MODULE FileIOProofs ----------------------------
(***************************************************************************)
(* Proofs about FileIO: FileInv is an invariant, and the properties follow *)
(* from it.  Blocks have any size: what is used of the division by it is   *)
(* stated first.  A step keeps the blocks of a file or adds free ones to   *)
(* it (Grown); what is read then changes only where the step stores        *)
(* something (ReadsKept).  delete_file is the exception to both.           *)
(***************************************************************************)
EXTENDS FileIOInv, SequenceTheorems, FiniteSetTheorems, TLAPS

-----------------------------------------------------------------------------
(* Free blocks *)

LEMMA BlocksFinite ==
    /\ IsFiniteSet(Blocks) /\ Cardinality(Blocks) <= NumBlocks /\ Cardinality(Blocks) \in Nat
    /\ IsFiniteSet(Free) /\ Cardinality(Free) \in Nat /\ Blocks \subseteq Nat
<1>1. IsFiniteSet(Blocks) /\ Cardinality(Blocks) <= NumBlocks /\ Blocks \subseteq Nat
  <2>1. MetaBlocks \in Int /\ NumBlocks \in Nat /\ MetaBlocks >= 1 /\ NumBlocks - 1 \in Int
    BY GeometryAssumption
  <2>2. /\ IsFiniteSet(MetaBlocks .. NumBlocks - 1)
        /\ Cardinality(MetaBlocks .. NumBlocks - 1)
             = IF MetaBlocks > NumBlocks - 1 THEN 0 ELSE NumBlocks - 1 - MetaBlocks + 1
    BY <2>1, FS_Interval
  <2> QED BY <2>1, <2>2 DEF Blocks
<1>2. Free \in SUBSET Blocks
  BY DEF Free
<1> QED BY <1>1, <1>2, FS_Subset, FS_CardinalityType

\* How many of the members of S are less than b.
Below(S, b) == {c \in S : c < b}

\* The members of a finite set of numbers are told apart by how many of it are less,
\* and so one of them has any number of them below it.
LEMMA RankExists ==
    ASSUME NEW S \in SUBSET Nat, IsFiniteSet(S), NEW k \in 0 .. Cardinality(S) - 1
    PROVE  \E b \in S : Cardinality(Below(S, b)) = k
<1> DEFINE n == Cardinality(S)
           r == [b \in S |-> Cardinality(Below(S, b))]
<1>1. n \in Nat
  BY FS_CardinalityType
<1>2. ASSUME NEW b \in S
      PROVE  IsFiniteSet(Below(S, b)) /\ Cardinality(Below(S, b)) \in 0 .. n - 1
  <2>1. Below(S, b) \in SUBSET S /\ Below(S, b) # S
    BY DEF Below
  <2>2. IsFiniteSet(Below(S, b)) /\ Cardinality(Below(S, b)) <= n /\ n # Cardinality(Below(S, b))
    BY <2>1, FS_Subset
  <2> QED BY <1>1, <2>2, FS_CardinalityType
<1>3. ASSUME NEW b \in S, NEW c \in S, c < b
      PROVE  Cardinality(Below(S, c)) < Cardinality(Below(S, b))
  <2>1. c \in Below(S, b) /\ c \notin Below(S, c)
    BY <1>3 DEF Below
  <2> \A d \in Below(S, c) : d \in Below(S, b)
    BY <1>3 DEF Below
  <2>2. Cardinality(Below(S, c)) <= Cardinality(Below(S, b))
        /\ Cardinality(Below(S, b)) # Cardinality(Below(S, c))
    BY <1>2, <2>1, FS_Subset
  <2> QED BY <1>2, <2>2
<1>4. r \in Injection(S, 0 .. n - 1)
  <2>1. r \in [S -> 0 .. n - 1]
    BY <1>2
  <2>2. ASSUME NEW b \in S, NEW c \in S, r[b] = r[c] PROVE b = c
    <3>1. b \in Nat /\ c \in Nat
      OBVIOUS
    <3>2. ~ (b < c) /\ ~ (c < b)
      BY <1>2, <1>3, <2>2
    <3> QED BY <3>1, <3>2
  <2> QED BY <2>1, <2>2 DEF Injection, IsInjective
<1>5. IsFiniteSet(0 .. n - 1) /\ Cardinality(0 .. n - 1) = n
  BY <1>1, FS_Interval
<1>6. r \in Surjection(S, 0 .. n - 1)
  BY <1>4, <1>5, FS_Injection
<1> QED BY <1>6 DEF Surjection

\* Blocks that are found one after the other are free and different.
LEMMA FirstsFreeRight ==
    ASSUME NEW n \in 0 .. Cardinality(Free)
    PROVE  /\ FirstsFree(n) \in Seq(Free) /\ Len(FirstsFree(n)) = n
           /\ \A i, j \in 1 .. n : FirstsFree(n)[i] = FirstsFree(n)[j] => i = j
<1>1. n \in Nat /\ Free \in SUBSET Nat /\ IsFiniteSet(Free) /\ Cardinality(Free) \in Nat
  <2>1. Free \subseteq Blocks
    BY DEF Free
  <2> QED BY <2>1, BlocksFinite
<1>2. \A i \in 1 .. n : /\ FirstsFree(n)[i] \in Free
                        /\ Cardinality(Below(Free, FirstsFree(n)[i])) = i - 1
  <2>1. TAKE i \in 1 .. n
  <2>2. i - 1 \in 0 .. Cardinality(Free) - 1
    BY <1>1
  <2>3. \E b \in Free : Cardinality(Below(Free, b)) = i - 1
    BY <1>1, <2>2, RankExists
  <2> QED BY <2>3 DEF FirstsFree, Below
<1>3. FirstsFree(n) \in [1 .. n -> Free]
  BY <1>2 DEF FirstsFree
<1> QED BY <1>1, <1>2, <1>3, SeqDef
    
LEMMA FirstFreeRight ==
    ASSUME Free # {}
    PROVE  FirstFree \in Free
<1>1. Free \in SUBSET Nat /\ IsFiniteSet(Free)
  BY BlocksFinite DEF Free
<1>2. Cardinality(Free) # 0 /\ Cardinality(Free) \in Nat
  BY <1>1, FS_EmptySet, FS_CardinalityType
<1>3. PICK b \in Free : Cardinality(Below(Free, b)) = 0
  BY <1>1, <1>2, RankExists
<1>4. Below(Free, b) \in SUBSET Free
  BY DEF Below
<1>5. Below(Free, b) = {}
  BY <1>1, <1>3, <1>4, FS_Subset, FS_EmptySet
<1>6. \A c \in Free : b <= c
  BY <1>1, <1>5 DEF Below
<1> QED BY <1>6 DEF FirstFree

-----------------------------------------------------------------------------
(* Blocks and positions *)

\* BlockSize is any positive number: what the proofs use of division by it.
LEMMA Division ==
    ASSUME NEW p \in Nat
    PROVE  /\ p \div BlockSize \in Nat /\ p % BlockSize \in Offsets
           /\ p = (p \div BlockSize) * BlockSize + (p % BlockSize)
           /\ Needed(p) \in Nat \ {0}
BY GeometryAssumption DEF Offsets, Needed

LEMMA SameBlock ==
    ASSUME NEW p \in Nat, NEW r \in Nat, p \div BlockSize = r \div BlockSize
    PROVE  /\ p % BlockSize = r % BlockSize => p = r
           /\ p % BlockSize < r % BlockSize <=> p < r
BY Division, GeometryAssumption

LEMMA NextPosition ==
    ASSUME NEW p \in Nat, (p + 1) % BlockSize # 0
    PROVE  (p + 1) \div BlockSize = p \div BlockSize
BY GeometryAssumption

LEMMA HasRoom ==
    ASSUME NEW p \in Nat, NEW n \in Nat
    PROVE  p < n * BlockSize <=> p \div BlockSize + 1 \in 1 .. n
<1>1. ASSUME p < n * BlockSize PROVE p \div BlockSize + 1 \in 1 .. n
  BY <1>1, GeometryAssumption
<1>2. ASSUME p \div BlockSize + 1 \in 1 .. n PROVE p < n * BlockSize
  BY <1>2, GeometryAssumption
<1> QED BY <1>1, <1>2

LEMMA Product ==
    ASSUME NEW m \in Nat, NEW n \in Nat, m <= n
    PROVE  m * BlockSize \in Nat /\ n * BlockSize \in Nat /\ m * BlockSize <= n * BlockSize
BY GeometryAssumption

\* A file has no more blocks than there are, and its positions are in Reach.
LEMMA ChainsShort ==
    ASSUME NEW c \in Seq(Blocks), \A i, j \in 1 .. Len(c) : c[i] = c[j] => i = j
    PROVE  /\ Len(c) \in Nat /\ Len(c) <= NumBlocks
           /\ \A p \in Nat : p < Len(c) * BlockSize => p \in Reach
<1>1. c \in [1 .. Len(c) -> Blocks] /\ Len(c) \in Nat
  OBVIOUS
<1>2. c \in Injection(1 .. Len(c), Blocks)
  BY <1>1 DEF Injection, IsInjective
<1>3. Cardinality(1 .. Len(c)) <= Cardinality(Blocks)
  BY <1>2, BlocksFinite, FS_Injection
<1>4. Cardinality(1 .. Len(c)) = Len(c)
  <2> DEFINE n == Len(c)
  <2>1. n \in Nat
    BY <1>1
  <2> HIDE DEF n
  <2>2. Cardinality(1 .. n) = IF 1 > n THEN 0 ELSE n - 1 + 1
    BY <2>1, FS_Interval
  <2>3. Cardinality(1 .. n) = n
    BY <2>1, <2>2
  <2> QED BY <2>3 DEF n
<1>5. Len(c) <= NumBlocks
  BY <1>1, <1>3, <1>4, BlocksFinite, GeometryAssumption
<1>6. /\ Len(c) * BlockSize \in Nat /\ NumBlocks * BlockSize \in Nat
      /\ Len(c) * BlockSize <= NumBlocks * BlockSize
  BY <1>1, <1>5, Product, GeometryAssumption
<1>7. ASSUME NEW p \in Nat, p < Len(c) * BlockSize PROVE p \in Reach
  <2>1. p <= NumBlocks * BlockSize - 1
    BY <1>6, <1>7
  <2> QED BY <2>1, <1>6 DEF Reach
<1> QED BY <1>1, <1>5, <1>7

LEMMA InReach ==
    ASSUME TypeOK, ChainsApart, NEW f \in Files, NEW p \in Nat, p < Len(chain[f]) * BlockSize
    PROVE  p \in Reach
<1>1. chain[f] \in Seq(Blocks) /\ \A i, j \in 1 .. Len(chain[f]) : chain[f][i] = chain[f][j] => i = j
  BY DEF TypeOK, ChainsApart
<1> QED BY <1>1, ChainsShort

\* The block of a position in a file.
LEMMA BlockOfPosition ==
    ASSUME TypeOK, NEW f \in Files, NEW p \in Nat, p < Len(chain[f]) * BlockSize
    PROVE  /\ p \div BlockSize + 1 \in 1 .. Len(chain[f])
           /\ BlockOf(chain[f], p) \in Blocks
           /\ BlockOf(chain[f], p) \in Elements(chain[f])
           /\ BlockOf(chain[f], p) \notin Free
<1>1. p \div BlockSize + 1 \in 1 .. Len(chain[f])
  BY HasRoom DEF TypeOK
<1> QED BY <1>1 DEF TypeOK, BlockOf, Elements, Free

-----------------------------------------------------------------------------
(* How a step changes the chains: they grow by free blocks, or stay *)

\* File f gets free blocks, if any, and then has one for position p.
Grown(f, p) ==
    /\ chain' \in [Files -> Seq(Blocks)]
    /\ \A g \in Files \ {f} : chain'[g] = chain[g]
    /\ Len(chain[f]) <= Len(chain'[f]) /\ p < Len(chain'[f]) * BlockSize
    /\ \A i \in 1 .. Len(chain[f]) : chain'[f][i] = chain[f][i]
    /\ \A i \in 1 .. Len(chain'[f]) : i > Len(chain[f]) => chain'[f][i] \in Free
    /\ \A i, j \in 1 .. Len(chain'[f]) :
          i > Len(chain[f]) /\ j > Len(chain[f]) /\ chain'[f][i] = chain'[f][j] => i = j

LEMMA ExtendGrows ==
    ASSUME TypeOK, NEW f \in Files, NEW p \in Nat, Extend(f, p)
    PROVE  Grown(f, p)
<1> DEFINE n   == Missing(f, p)
           new == FirstsFree(n)
           c   == chain[f]
<1>1. c \in Seq(Blocks) /\ Len(c) \in Nat
  BY DEF TypeOK
<1>2. Needed(p) \in Nat
  BY Division
<1>3. n \in 0 .. Cardinality(Free) /\ Len(c) + n >= Needed(p)
  BY <1>1, <1>2, BlocksFinite DEF Extend, RunsFull, Missing
<1> HIDE DEF n
<1>4. /\ new \in Seq(Free) /\ Len(new) = n
      /\ \A i, j \in 1 .. n : new[i] = new[j] => i = j
  BY <1>3, FirstsFreeRight
<1>5. new \in Seq(Blocks)
  BY <1>4, SeqMonotonic DEF Free
<1> HIDE DEF new
<1>6. chain'[f] = c \o new /\ chain' \in [Files -> Seq(Blocks)]
      /\ \A g \in Files \ {f} : chain'[g] = chain[g]
  BY <1>1, <1>5 DEF Extend, TypeOK, new, n
<1>7. Len(chain'[f]) = Len(c) + n
  BY <1>1, <1>4, <1>5, <1>6
<1>8. \A i \in 1 .. Len(c) : chain'[f][i] = c[i]
  BY <1>1, <1>5, <1>6
<1>9. \A i \in 1 .. Len(chain'[f]) : i > Len(c) => i - Len(c) \in 1 .. n /\ chain'[f][i] = new[i - Len(c)]
  BY <1>1, <1>4, <1>5, <1>6, <1>7
<1>10. \A i \in 1 .. n : new[i] \in Free
  BY <1>4
<1>11. p < Len(chain'[f]) * BlockSize
  <2>1. p \div BlockSize + 1 \in 1 .. Len(chain'[f])
    BY <1>1, <1>2, <1>3, <1>7, Division DEF Needed
  <2> QED BY <2>1, <1>1, <1>3, <1>7, HasRoom
<1>12. Len(c) <= Len(chain'[f])
  BY <1>1, <1>3, <1>7
<1>13. \A i, j \in 1 .. Len(chain'[f]) :
          i > Len(c) /\ j > Len(c) /\ chain'[f][i] = chain'[f][j] => i = j
  <2> SUFFICES ASSUME NEW i \in 1 .. Len(chain'[f]), NEW j \in 1 .. Len(chain'[f]),
                      i > Len(c), j > Len(c), chain'[f][i] = chain'[f][j]
               PROVE  i = j
    OBVIOUS
  <2>1. /\ i - Len(c) \in 1 .. n /\ j - Len(c) \in 1 .. n
        /\ new[i - Len(c)] = new[j - Len(c)]
    BY <1>9
  <2>2. i - Len(c) = j - Len(c)
    BY <2>1, <1>4
  <2> QED BY <2>2, <1>1, <1>7, <1>3
<1> QED BY <1>6, <1>8, <1>9, <1>10, <1>11, <1>12, <1>13 DEF Grown

\* create_file gives the file one free block.
LEMMA CreateGrows ==
    ASSUME TypeOK, NEW f \in Files, create_file(f)
    PROVE  Grown(f, 0) /\ chain'[f] # <<>>
<1>1. chain[f] = <<>> /\ chain'[f] = <<FirstFree>> /\ FirstFree \in Free
  BY FirstFreeRight DEF create_file, TypeOK
<1>2. chain' \in [Files -> Seq(Blocks)] /\ \A g \in Files \ {f} : chain'[g] = chain[g]
  BY <1>1 DEF create_file, TypeOK, Free
<1>3. Len(chain[f]) = 0 /\ Len(chain'[f]) = 1 /\ chain'[f][1] = FirstFree
  BY <1>1
<1>4. 0 < Len(chain'[f]) * BlockSize
  BY <1>3, GeometryAssumption
<1> QED BY <1>1, <1>2, <1>3, <1>4 DEF Grown

LEMMA SameGrows ==
    ASSUME TypeOK, UNCHANGED chain, NEW f \in Files, NEW p \in Nat, p < Len(chain[f]) * BlockSize
    PROVE  Grown(f, p)
BY DEF Grown, TypeOK

LEMMA GrownApart ==
    ASSUME TypeOK, ChainsApart, NEW f \in Files, NEW p \in Nat, Grown(f, p)
    PROVE  /\ ChainsApart' /\ Free' \subseteq Free
           /\ chain'[f] # <<>> /\ \A g \in Files : chain[g] # <<>> => chain'[g] # <<>>
<1>1. \A g \in Files : Len(chain[g]) \in Nat /\ Len(chain'[g]) \in Nat
  BY DEF TypeOK, Grown
<1>2. \A g \in Files : \A i \in 1 .. Len(chain[g]) : chain[g][i] \notin Free
  BY DEF Free, Elements
<1>3. \A g \in Files : \A i \in 1 .. Len(chain[g]) :
          i \in 1 .. Len(chain'[g]) /\ chain'[g][i] = chain[g][i]
  BY <1>1 DEF Grown
<1>4. \A g \in Files : \A i \in 1 .. Len(chain'[g]) :
          i \in 1 .. Len(chain[g]) \/ (g = f /\ i > Len(chain[f]) /\ chain'[g][i] \in Free)
  BY <1>1 DEF Grown
<1>5. ChainsApart'
  <2> SUFFICES ASSUME NEW g \in Files, NEW h \in Files, NEW i \in 1 .. Len(chain'[g]),
                      NEW j \in 1 .. Len(chain'[h]), chain'[g][i] = chain'[h][j]
               PROVE  g = h /\ i = j
    BY DEF ChainsApart
  <2>1. CASE i \in 1 .. Len(chain[g]) /\ j \in 1 .. Len(chain[h])
    BY <2>1, <1>3 DEF ChainsApart
  <2>2. CASE i \notin 1 .. Len(chain[g]) /\ j \notin 1 .. Len(chain[h])
    BY <2>2, <1>4 DEF Grown
  <2>3. CASE i \in 1 .. Len(chain[g]) /\ j \notin 1 .. Len(chain[h])
    <3>1. chain'[h][j] \in Free
      BY <2>3, <1>4
    <3>2. chain'[g][i] \notin Free
      BY <2>3, <1>2, <1>3
    <3> QED BY <3>1, <3>2
  <2>4. CASE i \notin 1 .. Len(chain[g]) /\ j \in 1 .. Len(chain[h])
    <3>1. chain'[g][i] \in Free
      BY <2>4, <1>4
    <3>2. chain'[h][j] \notin Free
      BY <2>4, <1>2, <1>3
    <3> QED BY <3>1, <3>2
  <2> QED BY <2>1, <2>2, <2>3, <2>4
<1>6. Free' \subseteq Free
  BY <1>3 DEF Free, Elements
<1>7. Len(chain'[f]) # 0
  BY <1>1, GeometryAssumption DEF Grown
<1>8. chain'[f] # <<>>
  BY <1>7
<1> QED BY <1>5, <1>6, <1>8 DEF Grown

-----------------------------------------------------------------------------
(* What is read: the block of a position, and whether its byte is in the buffer *)

\* The contents of a block as a call sees them.
Shown(b) == IF Working /\ call.block = b THEN call.buffer ELSE content[b]

\* A step that stores nothing at a position but what the history says, or loses it.
LEMMA ReadsKept ==
    ASSUME TypeOK, TypeOK', ChainsApart, NothingBehind, ReadsBack, call # Clobbered,
           NEW f \in Files, NEW p \in Nat, Grown(f, p),
           \A b \in Free : Shown(b)' = ZeroBlock,
           \A g \in Files : \A q \in Reach :
               q >= Len(chain[g]) * BlockSize => written'[g][q] = Hole,
           \A g \in Files : \A q \in 0 .. Len(chain[g]) * BlockSize - 1 : \A b \in Blocks :
               b = BlockOf(chain[g], q) =>
                   \/ written'[g][q] = written[g][q]
                      /\ Shown(b)'[q % BlockSize] = Shown(b)[q % BlockSize]
                   \/ written'[g][q] = Lost
                   \/ Shown(b)'[q % BlockSize] = written'[g][q] /\ written'[g][q] \in Bytes
    PROVE  ReadsBack' /\ NothingBehind'
<1>1. \A g \in Files : Len(chain[g]) \in Nat /\ Len(chain'[g]) \in Nat /\ Len(chain[g]) <= Len(chain'[g])
  <2> TAKE g \in Files
  <2>1. chain[g] \in Seq(Blocks) /\ chain'[g] \in Seq(Blocks)
    BY DEF TypeOK
  <2>2. g # f => chain'[g] = chain[g]
    BY DEF Grown
  <2>3. Len(chain[f]) <= Len(chain'[f])
    BY DEF Grown
  <2> QED BY <2>1, <2>2, <2>3
<1>2. \A g \in Files : /\ Len(chain[g]) * BlockSize \in Nat /\ Len(chain'[g]) * BlockSize \in Nat
                       /\ Len(chain[g]) * BlockSize <= Len(chain'[g]) * BlockSize
  BY <1>1, Product
<1>3. NothingBehind'
  <2> SUFFICES ASSUME NEW g \in Files, NEW q \in Reach, q >= Len(chain'[g]) * BlockSize
               PROVE  written'[g][q] = Hole
    BY DEF NothingBehind
  <2>1. q \in Int /\ Len(chain[g]) * BlockSize \in Nat /\ Len(chain'[g]) * BlockSize \in Nat
    BY <1>2, GeometryAssumption DEF Reach
  <2>2. q >= Len(chain[g]) * BlockSize
    BY <1>2, <2>1
  <2> QED BY <2>2
<1>4. ChainsApart'
  BY GrownApart
<1>5. (Idle <=> ~ Working) /\ (call' # Clobbered => (Idle' <=> ~ Working'))
  <2>1. Idle <=> ~ Working
    BY DEF TypeOK, Idle, Working, NoCall, Clobbered
  <2>2. call' # Clobbered => (Idle' <=> ~ Working')
    BY DEF TypeOK, Idle, Working, NoCall, Clobbered
  <2> QED BY <2>1, <2>2
<1>6. ReadsBack'
  <2> SUFFICES ASSUME call' # Clobbered, NEW g \in Files,
                      NEW q \in 0 .. Len(chain'[g]) * BlockSize - 1
               PROVE  /\ written'[g][q] \in Bytes => ByteAt(g, q)' = written'[g][q]
                      /\ written'[g][q] = Hole => ByteAt(g, q)' = 0
    BY DEF ReadsBack
  <2> DEFINE i == q \div BlockSize + 1
  <2>1. q \in Nat /\ q < Len(chain'[g]) * BlockSize /\ q % BlockSize \in Offsets
    <3>1. Len(chain'[g]) * BlockSize \in Nat
      BY <1>2
    <3>2. q \in Nat /\ q < Len(chain'[g]) * BlockSize
      BY <3>1
    <3> QED BY <3>2, Division
  <2>2. PICK b \in Blocks : b = BlockOf(chain'[g], q)
    BY <2>1, HasRoom, <1>1 DEF BlockOf, TypeOK
  <2>3. ByteAt(g, q)' = Shown(b)'[q % BlockSize]
    BY <1>5, <2>2 DEF ByteAt, Shown
  <2>4. i \in 1 .. Len(chain'[g])
    BY <2>1, <1>1, HasRoom
  <2>5. CASE q < Len(chain[g]) * BlockSize
    <3>1. i \in 1 .. Len(chain[g])
      BY <2>5, <2>1, <1>1, HasRoom
    <3>2. b = BlockOf(chain[g], q)
      BY <2>2, <3>1 DEF Grown, BlockOf
    <3>3. q \in 0 .. Len(chain[g]) * BlockSize - 1
      BY <2>1, <2>5, <1>2
    <3>4. ByteAt(g, q) = Shown(b)[q % BlockSize]
      BY <1>5, <3>2 DEF ByteAt, Shown
    <3>5. /\ written[g][q] \in Bytes => ByteAt(g, q) = written[g][q]
          /\ written[g][q] = Hole => ByteAt(g, q) = 0
      BY <3>3 DEF ReadsBack
    <3>6. CASE written'[g][q] = written[g][q] /\ Shown(b)'[q % BlockSize] = Shown(b)[q % BlockSize]
      BY <3>6, <3>5, <3>4, <2>3
    <3>7. CASE written'[g][q] = Lost
      BY <3>7, DataAssumption
    <3>8. CASE Shown(b)'[q % BlockSize] = written'[g][q] /\ written'[g][q] \in Bytes
      BY <3>8, <2>3, DataAssumption
    <3> QED BY <3>2, <3>3, <3>6, <3>7, <3>8
  <2>6. CASE q >= Len(chain[g]) * BlockSize
    <3>1. q \in Reach
      <4>1. /\ chain'[g] \in Seq(Blocks)
            /\ \A k, l \in 1 .. Len(chain'[g]) : chain'[g][k] = chain'[g][l] => k = l
        BY <1>4 DEF TypeOK, ChainsApart
      <4> QED BY <4>1, <2>1, ChainsShort
    <3>2. written'[g][q] = Hole
      BY <3>1, <2>6
    <3>3. ~ (i \in 1 .. Len(chain[g]))
      BY <2>6, <2>1, <1>1, <1>2, HasRoom
    <3>4. i > Len(chain[g]) /\ g = f
      BY <2>4, <3>3, <1>1 DEF Grown
    <3>5. b \in Free
      BY <3>4, <2>2, <2>4 DEF Grown, BlockOf
    <3>6. Shown(b)'[q % BlockSize] = 0
      BY <3>5, <2>1 DEF ZeroBlock
    <3> QED BY <3>2, <3>6, <2>3, DataAssumption
  <2> QED BY <2>1, <2>5, <2>6, <1>2
<1> QED BY <1>3, <1>6

-----------------------------------------------------------------------------
(* The steps between calls *)

LEMMA InitFileInv == Init => FileInv
<1> SUFFICES ASSUME Init PROVE FileInv
  OBVIOUS
<1>1. \A f \in Files : Len(chain[f]) = 0 /\ ~ Opened(f)
  BY ClosedAssumption DEF Init, Opened
<1>2. TypeOK
  <2>1. content \in [Blocks -> [Offsets -> Bytes]]
    BY DataAssumption DEF Init, ZeroDisk, ZeroBlock
  <2> QED BY <2>1 DEF Init, TypeOK, Untouched
<1>3. ChainsApart /\ NoTrace /\ FreeClean /\ NothingBehind
  BY <1>1 DEF Init, ChainsApart, NoTrace, FreeClean, NothingBehind, ZeroDisk, Free, Untouched
<1>4. BlockAtHand /\ BufferRight /\ LengthAhead
  BY DEF Init, BlockAtHand, BufferRight, LengthAhead, Working, NoCall
<1>5. Covered /\ LengthKept
  BY DEF Init, Covered, LengthKept
<1>6. ReadsBack
  <2>1. \A f \in Files : Len(chain[f]) * BlockSize = 0
    BY <1>1, GeometryAssumption
  <2> QED BY <2>1 DEF ReadsBack
<1> QED BY <1>2, <1>3, <1>4, <1>5, <1>6 DEF FileInv

LEMMA StutterFileInv == FileInv /\ UNCHANGED vars => FileInv'
<1> SUFFICES ASSUME FileInv, UNCHANGED vars PROVE FileInv'
  OBVIOUS
<1> USE DEF vars
<1>1. TypeOK' /\ ChainsApart' /\ NoTrace' /\ NothingBehind'
  BY DEF FileInv, TypeOK, ChainsApart, NoTrace, NothingBehind, Opened
<1>2. FreeClean' /\ BlockAtHand'
  BY DEF FileInv, FreeClean, Free, Elements, BlockAtHand, Working, BlockOf, Opened
<1>3. BufferRight' /\ LengthAhead'
  BY DEF FileInv, BufferRight, LengthAhead, Dropped
<1>4. Covered' /\ LengthKept'
  BY DEF FileInv, Covered, LengthKept, LengthTold, Size, Opened, file_length
<1>5. ReadsBack'
  BY DEF FileInv, ReadsBack, ByteAt, Idle, BlockOf
<1> QED BY <1>1, <1>2, <1>3, <1>4, <1>5 DEF FileInv

\* What holds of a call at work holds when there is none.
LEMMA NoCallNoClaim ==
    call' = NoCall => BlockAtHand' /\ BufferRight' /\ LengthAhead'
BY DEF BlockAtHand, BufferRight, LengthAhead, Working, NoCall

\* A step that starts and ends between calls and leaves blocks and history alone.
LEMMA IdleKept ==
    ASSUME FileInv, Idle, UNCHANGED <<chain, content, call, written>>
    PROVE  /\ ChainsApart' /\ FreeClean' /\ NothingBehind' /\ ReadsBack'
           /\ BlockAtHand' /\ BufferRight' /\ LengthAhead' /\ call' # Clobbered
<1>1. ChainsApart' /\ NothingBehind'
  BY DEF FileInv, ChainsApart, NothingBehind
<1>2. FreeClean'
  BY DEF FileInv, FreeClean, Free, Elements
<1>3. ReadsBack'
  BY DEF FileInv, ReadsBack, ByteAt, Idle, BlockOf
<1> QED BY <1>1, <1>2, <1>3, NoCallNoClaim DEF Idle, NoCall, Clobbered

\* Between calls what LengthKept says of a file is the simpler.
LEMMA IdleLength ==
    ASSUME FileInv, Idle, NEW f \in Files, chain[f] # <<>>
    PROVE  LengthTold(f) /\ Size(f) <= reached[f] /\ call.op # "write"
<1>1. call # Clobbered /\ call.op # "write"
  BY DEF Idle, NoCall, Clobbered
<1>2. LengthTold(f)
  BY <1>1 DEF FileInv, LengthKept
<1> QED BY <1>1, <1>2 DEF LengthTold

\* It stays with the length of a file that no write works on.
LEMMA ToldKept ==
    ASSUME NEW f \in Files, LengthTold(f), ~ (call.op = "write" /\ call.on = f),
           Size(f)' = Size(f), written'[f] = written[f], reached'[f] = reached[f],
           f \in failed => f \in failed',
           Opened(f)' => Opened(f) /\ file'[f].fp = file[f].fp
    PROVE  LengthTold(f)'
BY DEF LengthTold

LEMMA open_fileInv ==
    ASSUME FileInv, NEW f \in Files, NEW mode \in {"READ_ONLY", "READ_WRITE"}, open_file(f, mode)
    PROVE  FileInv'
<1> DEFINE o == [mode |-> mode, fp |-> 0, file_size |-> length[f]]
<1>1. TypeOK
  BY DEF FileInv
<1>2. o \in File
  BY <1>1 DEF TypeOK, File
<1>3. /\ file'[f] = o /\ \A g \in Files \ {f} : file'[g] = file[g]
      /\ file' \in [Files -> File \cup {Closed}]
  BY <1>1, <1>2 DEF open_file, TypeOK
<1>4. TypeOK'
  BY <1>1, <1>3 DEF open_file, TypeOK
<1>5. /\ Opened(f)' /\ ~ Opened(f) /\ chain[f] # <<>>
      /\ \A g \in Files \ {f} : Opened(g)' <=> Opened(g)
  BY <1>2, <1>3, ClosedAssumption DEF open_file, Opened
<1>6. NoTrace'
  BY <1>5 DEF FileInv, NoTrace, open_file
<1>7. Idle /\ call # Clobbered /\ UNCHANGED <<chain, length, content, call, written, failed, reached>>
  BY DEF open_file, Idle, NoCall, Clobbered
<1>8. Covered'
  <2> SUFFICES ASSUME NEW g \in Files, chain'[g] # <<>>
               PROVE  LET room == Len(chain'[g]) * BlockSize IN
                      /\ length'[g] < room
                      /\ Opened(g)' => file'[g].fp < room /\ file'[g].file_size < room
    BY DEF Covered
  <2>1. length[g] < Len(chain[g]) * BlockSize /\ length[g] \in Nat
    BY <1>1, <1>7 DEF FileInv, Covered, TypeOK
  <2>2. CASE g = f
    <3>1. 0 < Len(chain[f]) * BlockSize
      BY <2>1, <2>2, <1>1, GeometryAssumption DEF TypeOK
    <3> QED BY <2>1, <2>2, <3>1, <1>3, <1>7
  <2>3. CASE g # f
    BY <2>3, <1>3, <1>5, <1>7 DEF FileInv, Covered, Idle, NoCall
  <2> QED BY <2>2, <2>3
<1>9. LengthKept'
  <2> SUFFICES ASSUME NEW g \in Files, chain[g] # <<>> PROVE LengthTold(g)'
    BY <1>7 DEF LengthKept
  <2>1. Size(g)' = Size(g)
    BY <1>3, <1>5, <1>7 DEF file_length, Size
  <2>2. LengthTold(g) /\ Size(g) <= reached[g] /\ call.op # "write"
    BY <1>7, IdleLength
  <2>3. CASE g = f
    <3>1. file'[f].fp = 0 /\ reached'[f] = reached[f] /\ reached[f] \in Nat
      BY <1>1, <1>3, <1>7 DEF TypeOK
    <3>2. file'[f].fp <= reached'[f]
      BY <3>1
    <3> QED BY <2>1, <2>2, <2>3, <3>2, <1>7 DEF LengthTold
  <2>4. CASE g # f
    BY <2>1, <2>2, <2>4, <1>3, <1>5, <1>7, ToldKept
  <2> QED BY <2>3, <2>4
<1> QED BY <1>4, <1>6, <1>7, <1>8, <1>9, IdleKept DEF FileInv

LEMMA close_fileInv ==
    ASSUME FileInv, NEW f \in Files, close_file(f)
    PROVE  FileInv'
<1>1. TypeOK
  BY DEF FileInv
<1>2. file[f] \in File
  BY <1>1 DEF TypeOK, close_file, Opened
<1>3. /\ file'[f] = Closed /\ \A g \in Files \ {f} : file'[g] = file[g]
      /\ length'[f] = file[f].file_size /\ \A g \in Files \ {f} : length'[g] = length[g]
      /\ file' \in [Files -> File \cup {Closed}] /\ length' \in [Files -> Nat]
  BY <1>1, <1>2 DEF close_file, TypeOK, File
<1>4. TypeOK'
  BY <1>1, <1>3 DEF close_file, TypeOK
<1>5. Opened(f) /\ ~ Opened(f)' /\ \A g \in Files \ {f} : Opened(g)' <=> Opened(g)
  BY <1>3 DEF close_file, Opened
<1>6. NoTrace'
  BY <1>3, <1>5 DEF FileInv, NoTrace, close_file
<1>7. Idle /\ call # Clobbered /\ UNCHANGED <<chain, content, call, written, failed, reached>>
  BY DEF close_file, Idle, NoCall, Clobbered
<1>8. Covered'
  <2> SUFFICES ASSUME NEW g \in Files, chain[g] # <<>>
               PROVE  LET room == Len(chain[g]) * BlockSize IN
                      /\ length'[g] < room
                      /\ Opened(g)' => file'[g].fp < room /\ file'[g].file_size < room
    BY <1>7 DEF Covered
  <2> QED BY <1>3, <1>5, <1>7 DEF FileInv, Covered, Idle, NoCall
<1>9. LengthKept'
  <2> SUFFICES ASSUME NEW g \in Files, chain[g] # <<>> PROVE LengthTold(g)'
    BY <1>7 DEF LengthKept
  <2>1. Size(g)' = Size(g)
    BY <1>3, <1>5 DEF file_length, Size
  <2>2. LengthTold(g) /\ call.op # "write"
    BY <1>7, IdleLength
  <2>3. Opened(g)' => Opened(g) /\ file'[g].fp = file[g].fp
    BY <1>3, <1>5
  <2> QED BY <2>1, <2>2, <2>3, <1>7, ToldKept
<1> QED BY <1>4, <1>6, <1>7, <1>8, <1>9, IdleKept DEF FileInv

LEMMA write_file_refusedInv ==
    ASSUME FileInv, NEW f \in Files, write_file_refused(f)
    PROVE  FileInv'
<1>1. Idle /\ UNCHANGED <<chain, length, content, file, call, written, failed, reached>>
  BY DEF write_file_refused
<1>2. TypeOK' /\ NoTrace'
  BY DEF FileInv, write_file_refused, TypeOK, NoTrace, Opened
<1>3. Covered' /\ LengthKept'
  BY <1>1 DEF FileInv, Covered, LengthKept, LengthTold, Size, Opened, file_length
<1> QED BY <1>1, <1>2, <1>3, IdleKept DEF FileInv

LEMMA RoomGrows ==
    ASSUME TypeOK, NEW f \in Files, NEW p \in Nat, Grown(f, p), NEW g \in Files
    PROVE  /\ Len(chain[g]) * BlockSize \in Nat /\ Len(chain'[g]) * BlockSize \in Nat
           /\ Len(chain[g]) * BlockSize <= Len(chain'[g]) * BlockSize
<1>1. chain[g] \in Seq(Blocks) /\ chain'[g] \in Seq(Blocks)
  BY DEF TypeOK, Grown
<1>2. Len(chain[g]) <= Len(chain'[g])
  BY <1>1 DEF Grown
<1>3. Len(chain[g]) \in Nat /\ Len(chain'[g]) \in Nat
  BY <1>1
<1> QED BY <1>2, <1>3, Product

\* Between calls a file gets blocks, and its old ones stay as they are.
LEMMA IdleGrown ==
    ASSUME FileInv, Idle, UNCHANGED <<content, call, written>>, TypeOK',
           NEW f \in Files, NEW p \in Nat, Grown(f, p)
    PROVE  /\ ChainsApart' /\ FreeClean' /\ NothingBehind' /\ ReadsBack'
           /\ BlockAtHand' /\ BufferRight' /\ LengthAhead' /\ call' # Clobbered
<1>1. TypeOK /\ ChainsApart /\ NothingBehind /\ ReadsBack /\ FreeClean
  BY DEF FileInv
<1>2. call # Clobbered /\ call' = NoCall /\ ~ Working /\ ~ Working'
  BY DEF Idle, NoCall, Clobbered, Working
<1>3. ChainsApart' /\ Free' \subseteq Free
  BY <1>1, GrownApart
<1>4. FreeClean'
  BY <1>1, <1>3 DEF FreeClean
<1>5. \A b \in Blocks : Shown(b) = content[b] /\ Shown(b)' = content[b]
  BY <1>2 DEF Shown
<1>6. \A b \in Free : Shown(b)' = ZeroBlock
  BY <1>1, <1>5 DEF FreeClean, Free
<1>7. \A g \in Files : \A q \in Reach : q >= Len(chain[g]) * BlockSize => written'[g][q] = Hole
  BY <1>1 DEF NothingBehind
<1>8. ReadsBack' /\ NothingBehind'
  BY <1>1, <1>2, <1>5, <1>6, <1>7, ReadsKept
<1> QED BY <1>2, <1>3, <1>4, <1>8, NoCallNoClaim DEF NoCall, Clobbered

LEMMA create_fileInv ==
    ASSUME FileInv, NEW f \in Files, create_file(f)
    PROVE  FileInv'
<1> DEFINE o == [mode |-> "READ_WRITE", fp |-> 0, file_size |-> 0]
<1>1. TypeOK /\ o \in File
  BY DEF FileInv, File
<1>2. Grown(f, 0) /\ chain'[f] # <<>>
  BY <1>1, CreateGrows
<1>3. /\ file'[f] = o /\ \A g \in Files \ {f} : file'[g] = file[g]
      /\ file' \in [Files -> File \cup {Closed}]
  BY <1>1 DEF create_file, TypeOK
<1>4. TypeOK'
  BY <1>1, <1>2, <1>3 DEF create_file, TypeOK, Grown
<1>5. /\ Opened(f)' /\ \A g \in Files \ {f} : (Opened(g)' <=> Opened(g)) /\ chain'[g] = chain[g]
  BY <1>1, <1>2, <1>3, ClosedAssumption DEF Opened, Grown
<1>6. Idle /\ call # Clobbered /\ UNCHANGED <<length, content, call, written, failed, reached>>
  BY DEF create_file, Idle, NoCall, Clobbered
<1>7. NoTrace'
  BY <1>2, <1>5, <1>6 DEF FileInv, NoTrace
<1>8. length[f] = 0 /\ written[f] = Untouched /\ reached[f] = 0
  BY DEF FileInv, NoTrace, create_file
<1>9. Covered'
  <2> SUFFICES ASSUME NEW g \in Files, chain'[g] # <<>>
               PROVE  LET room == Len(chain'[g]) * BlockSize IN
                      /\ length'[g] < room
                      /\ Opened(g)' => file'[g].fp < room /\ file'[g].file_size < room
    BY DEF Covered
  <2>1. CASE g = f
    BY <2>1, <1>2, <1>3, <1>6, <1>8 DEF Grown
  <2>2. CASE g # f
    BY <2>2, <1>3, <1>5, <1>6 DEF FileInv, Covered, Idle, NoCall
  <2> QED BY <2>1, <2>2
<1>10. LengthKept'
  <2> SUFFICES ASSUME NEW g \in Files, chain'[g] # <<>> PROVE LengthTold(g)'
    BY <1>6 DEF LengthKept
  <2>1. CASE g = f
    <3>1. Size(f)' = 0 /\ file'[f].fp = 0 /\ reached'[f] = 0
      BY <1>3, <1>5, <1>6, <1>8 DEF file_length, Size
    <3>2. \A p \in Reach : written'[f][p] = Hole
      BY <1>6, <1>8 DEF Untouched
    <3> QED BY <2>1, <3>1, <3>2 DEF LengthTold
  <2>2. CASE g # f
    <3>1. Size(g)' = Size(g) /\ chain[g] # <<>>
      BY <2>2, <1>3, <1>5, <1>6 DEF file_length, Size
    <3>2. LengthTold(g) /\ call.op # "write"
      BY <3>1, <1>6, IdleLength
    <3> QED BY <2>2, <3>1, <3>2, <1>3, <1>5, <1>6, ToldKept
  <2> QED BY <2>1, <2>2
<1> QED BY <1>2, <1>4, <1>6, <1>7, <1>9, <1>10, IdleGrown DEF FileInv

LEMMA ReachesRight ==
    ASSUME TypeOK, NEW f \in Files, NEW p \in Nat, Reaches(f, p)
    PROVE  /\ reached' \in [Files -> Nat] /\ p <= reached'[f] /\ reached[f] <= reached'[f]
           /\ \A g \in Files \ {f} : reached'[g] = reached[g]
<1>1. reached \in [Files -> Nat]
  BY DEF TypeOK
<1>2. reached' = [reached EXCEPT ![f] = IF p > reached[f] THEN p ELSE reached[f]]
  BY DEF Reaches
<1> QED BY <1>1, <1>2

LEMMA seek_fileInv ==
    ASSUME FileInv, NEW f \in Files, NEW p \in Positions, seek_file(f, p)
    PROVE  FileInv'
<1>1. TypeOK /\ p \in Nat /\ Idle /\ Opened(f) /\ call # Clobbered
      /\ UNCHANGED <<length, content, call, written, failed>>
  BY DataAssumption DEF FileInv, seek_file, Idle, NoCall, Clobbered
<1>2. CASE OutOfSpace(f, p) /\ fserror' = "FS_OUT_OF_SPACE" /\ UNCHANGED <<chain, file, reached>>
  <2>1. TypeOK' /\ NoTrace'
    BY <1>1, <1>2 DEF FileInv, TypeOK, NoTrace, Opened
  <2>2. Covered' /\ LengthKept'
    BY <1>1, <1>2 DEF FileInv, Covered, LengthKept, LengthTold, Size, Opened, file_length
  <2> QED BY <1>1, <1>2, <2>1, <2>2, IdleKept DEF FileInv
<1>3. CASE Extend(f, p) /\ fserror' = "FS_NONE" /\ file' = [file EXCEPT ![f].fp = p] /\ Reaches(f, p)
  <2>1. Grown(f, p)
    BY <1>1, <1>3, ExtendGrows
  <2>2. file[f] \in File
    BY <1>1 DEF TypeOK, Opened
  <2>3. /\ file'[f] = [file[f] EXCEPT !.fp = p] /\ file'[f] \in File
        /\ file'[f].fp = p /\ file'[f].file_size = file[f].file_size
        /\ \A g \in Files \ {f} : file'[g] = file[g]
        /\ file' \in [Files -> File \cup {Closed}]
    BY <1>1, <1>3, <2>2 DEF TypeOK, File
  <2>10. /\ reached' \in [Files -> Nat] /\ p <= reached'[f] /\ reached[f] <= reached'[f]
        /\ \A g \in Files \ {f} : reached'[g] = reached[g]
    BY <1>1, <1>3, ReachesRight
  <2>4. TypeOK'
    BY <1>1, <1>3, <2>1, <2>3, <2>10 DEF TypeOK, Grown
  <2>5. \A g \in Files : Opened(g)' <=> Opened(g)
    BY <1>1, <2>3, ClosedAssumption DEF Opened
  <2>6. chain[f] # <<>> /\ \A g \in Files : chain'[g] = <<>> <=> chain[g] = <<>>
    <3>1. chain[f] # <<>>
      BY <1>1 DEF FileInv, NoTrace
    <3>2. chain'[f] # <<>>
      BY <1>1, <2>1, GrownApart DEF FileInv
    <3> QED BY <3>1, <3>2, <2>1 DEF Grown
  <2>7. NoTrace'
    BY <1>1, <2>5, <2>6, <2>10 DEF FileInv, NoTrace
  <2>8. Covered'
    <3> SUFFICES ASSUME NEW g \in Files, chain'[g] # <<>>
                 PROVE  LET room == Len(chain'[g]) * BlockSize IN
                        /\ length'[g] < room
                        /\ Opened(g)' => file'[g].fp < room /\ file'[g].file_size < room
      BY DEF Covered
    <3>1. LET room == Len(chain[g]) * BlockSize IN
          /\ length[g] < room /\ length[g] \in Nat
          /\ Opened(g) => file[g].fp < room /\ file[g].file_size < room
      BY <1>1, <2>6 DEF FileInv, Covered, Idle, NoCall, TypeOK
    <3>2. Opened(g) => file[g] \in File
      BY <1>1 DEF TypeOK, Opened
    <3>3. /\ Len(chain[g]) * BlockSize \in Nat /\ Len(chain'[g]) * BlockSize \in Nat
          /\ Len(chain[g]) * BlockSize <= Len(chain'[g]) * BlockSize
      BY <1>1, <2>1, RoomGrows
    <3>4. length'[g] < Len(chain'[g]) * BlockSize
      BY <3>1, <3>3, <1>1
    <3>5. CASE g = f
      BY <3>1, <3>2, <3>3, <3>4, <3>5, <2>1, <2>3, <2>5 DEF Grown, File
    <3>6. CASE g # f
      BY <3>1, <3>2, <3>3, <3>4, <3>6, <2>3, <2>5 DEF File
    <3> QED BY <3>5, <3>6
  <2>9. LengthKept'
    <3> SUFFICES ASSUME NEW g \in Files, chain'[g] # <<>> PROVE LengthTold(g)'
      BY <1>1 DEF LengthKept
    <3>1. Size(g)' = Size(g) /\ chain[g] # <<>>
      BY <1>1, <2>3, <2>5, <2>6 DEF file_length, Size
    <3>2. LengthTold(g) /\ Size(g) <= reached[g] /\ call.op # "write"
      BY <3>1, <1>1, IdleLength
    <3>3. CASE g = f
      <4>1. Size(f) \in Nat /\ reached[f] \in Nat /\ reached'[f] \in Nat
        BY <1>1, <2>2, <2>10 DEF Size, file_length, File, TypeOK
      <4>2. Size(f)' <= reached'[f] /\ file'[f].fp <= reached'[f]
        BY <4>1, <3>1, <3>2, <3>3, <2>3, <2>10
      <4> QED BY <4>2, <3>1, <3>2, <3>3, <1>1 DEF LengthTold
    <3>4. CASE g # f
      BY <3>1, <3>2, <3>4, <2>3, <2>5, <2>10, <1>1, ToldKept
    <3> QED BY <3>3, <3>4
  <2> QED BY <1>1, <2>1, <2>4, <2>7, <2>8, <2>9, IdleGrown DEF FileInv
<1> QED BY <1>2, <1>3 DEF seek_file

\* The blocks of two files are different ones.
LEMMA Disjoint ==
    ASSUME TypeOK, ChainsApart, NEW f \in Files, NEW g \in Files, f # g
    PROVE  \A b \in Elements(chain[g]) : b \in Blocks \ Elements(chain[f])
<1>1. chain[g] \in Seq(Blocks)
  BY DEF TypeOK
<1> SUFFICES ASSUME NEW i \in 1 .. Len(chain[g])
             PROVE  chain[g][i] \in Blocks \ Elements(chain[f])
  BY DEF Elements
<1>2. chain[g][i] \in Blocks
  BY <1>1
<1> QED BY <1>2 DEF ChainsApart, Elements

LEMMA delete_fileInv ==
    ASSUME FileInv, NEW f \in Files, delete_file(f)
    PROVE  FileInv'
<1>1. TypeOK /\ Idle /\ ~ Opened(f) /\ UNCHANGED <<file, call>> /\ call # Clobbered
  BY DEF FileInv, delete_file, Idle, NoCall, Clobbered
<1>2. /\ chain'[f] = <<>> /\ length'[f] = 0 /\ written'[f] = Untouched /\ failed' = failed \ {f}
      /\ reached'[f] = 0
      /\ \A g \in Files \ {f} : /\ chain'[g] = chain[g] /\ length'[g] = length[g]
                                /\ written'[g] = written[g] /\ reached'[g] = reached[g]
      /\ Len(chain'[f]) = 0
  BY <1>1 DEF delete_file, TypeOK
<1>3. \A b \in Blocks : content'[b] = IF b \in Elements(chain[f]) THEN ZeroBlock ELSE content[b]
  BY DEF delete_file
<1>4. TypeOK'
  <2>1. ZeroBlock \in [Offsets -> Bytes]
    BY DataAssumption DEF ZeroBlock
  <2>2. content' \in [Blocks -> [Offsets -> Bytes]]
    BY <1>1, <2>1 DEF delete_file, TypeOK
  <2>3. chain' \in [Files -> Seq(Blocks)] /\ length' \in [Files -> Nat]
    BY <1>1 DEF delete_file, TypeOK
  <2>4. written' \in [Files -> [Reach -> Bytes \cup {Hole, Lost}]]
    BY <1>1 DEF delete_file, TypeOK, Untouched
  <2>5. fserror' = "FS_NONE" /\ failed' \subseteq Files /\ reached' \in [Files -> Nat]
    BY <1>1 DEF delete_file, TypeOK
  <2> QED BY <1>1, <2>2, <2>3, <2>4, <2>5 DEF TypeOK
<1>5. ChainsApart'
  BY <1>2 DEF FileInv, ChainsApart
<1>6. NoTrace'
  BY <1>1, <1>2 DEF FileInv, NoTrace, Opened
<1>7. FreeClean'
  <2> SUFFICES ASSUME NEW b \in Blocks, b \in Free' PROVE content'[b] = ZeroBlock
    BY DEF FreeClean, Free
  <2>1. b \in Elements(chain[f]) \/ b \in Free
    BY <1>2 DEF Free, Elements
  <2> QED BY <2>1, <1>3 DEF FileInv, FreeClean
<1>8. NothingBehind'
  BY <1>2 DEF FileInv, NothingBehind, Untouched
<1>9. ReadsBack'
  <2> SUFFICES ASSUME NEW g \in Files, NEW q \in 0 .. Len(chain'[g]) * BlockSize - 1
               PROVE  /\ written'[g][q] \in Bytes => ByteAt(g, q)' = written'[g][q]
                      /\ written'[g][q] = Hole => ByteAt(g, q)' = 0
    BY DEF ReadsBack
  <2>1. g # f
    <3>1. 0 * BlockSize = 0
      BY GeometryAssumption
    <3> QED BY <3>1, <1>2
  <2>2. q \in 0 .. Len(chain[g]) * BlockSize - 1 /\ written'[g] = written[g] /\ chain'[g] = chain[g]
    BY <2>1, <1>2
  <2>3. Len(chain[g]) * BlockSize \in Nat
    BY <1>1, GeometryAssumption DEF TypeOK
  <2>4. q \in Nat /\ q < Len(chain[g]) * BlockSize
    BY <2>2, <2>3
  <2>5. BlockOf(chain[g], q) \in Blocks \ Elements(chain[f])
    BY <1>1, <2>1, <2>4, BlockOfPosition, Disjoint DEF FileInv
  <2>6. ByteAt(g, q)' = content'[BlockOf(chain[g], q)][q % BlockSize]
    BY <1>1, <2>2 DEF ByteAt, Idle, BlockOf
  <2>7. ByteAt(g, q) = content[BlockOf(chain[g], q)][q % BlockSize]
    BY <1>1 DEF ByteAt, Idle
  <2>8. ByteAt(g, q)' = ByteAt(g, q)
    BY <2>5, <2>6, <2>7, <1>3
  <2> QED BY <2>2, <2>8, <1>1 DEF FileInv, ReadsBack
<1>10. Covered'
  BY <1>1, <1>2 DEF FileInv, Covered, Opened, Idle, NoCall
<1>11. LengthKept'
  <2> SUFFICES ASSUME NEW g \in Files, chain'[g] # <<>> PROVE LengthTold(g)'
    BY DEF LengthKept
  <2>1. g # f /\ written'[g] = written[g] /\ reached'[g] = reached[g] /\ chain[g] # <<>>
        /\ (g \in failed => g \in failed')
    BY <1>2
  <2>2. Size(g)' = Size(g) /\ (Opened(g)' => Opened(g) /\ file'[g].fp = file[g].fp)
    BY <1>1, <1>2, <2>1 DEF file_length, Size, Opened
  <2>3. LengthTold(g) /\ call.op # "write"
    BY <2>1, <1>1, IdleLength
  <2> QED BY <2>1, <2>2, <2>3, ToldKept
<1>12. BlockAtHand' /\ BufferRight' /\ LengthAhead'
  BY <1>1, NoCallNoClaim DEF Idle
<1> QED BY <1>4, <1>5, <1>6, <1>7, <1>8, <1>9, <1>10, <1>11, <1>12 DEF FileInv

\* What happens after a clobbering is not modelled, and nothing is claimed of it.
LEMMA ClobberInv ==
    ASSUME FileInv, NEW f \in Files, Clobber(f)
    PROVE  FileInv'
<1>1. call' = Clobbered /\ UNCHANGED <<chain, length, content, file, fserror, written, failed, reached>>
  BY DEF Clobber
<1>2. TypeOK' /\ ChainsApart' /\ NoTrace' /\ NothingBehind'
  BY <1>1 DEF FileInv, TypeOK, ChainsApart, NoTrace, NothingBehind, Opened
<1>3. FreeClean'
  BY <1>1 DEF FileInv, FreeClean, Free, Elements
<1>4. BlockAtHand' /\ BufferRight' /\ LengthAhead'
  BY <1>1 DEF BlockAtHand, BufferRight, LengthAhead, Working, Clobbered
<1>5. Covered' /\ ReadsBack' /\ LengthKept'
  BY <1>1 DEF Covered, ReadsBack, LengthKept
<1> QED BY <1>2, <1>3, <1>4, <1>5 DEF FileInv

-----------------------------------------------------------------------------
(* The steps of a call *)

\* A call begins with the block of the current position in its buffer.
LEMMA BeginsRight ==
    ASSUME FileInv, Idle, NEW f \in Files, Opened(f),
           NEW op \in {"read", "write"}, NEW data,
           op = "read" => data \in Counts, op = "write" => data \in Data,
           call' = Begun(op, f, data), UNCHANGED <<chain, content, written>>,
           file'[f].fp = file[f].fp, Opened(f)'
    PROVE  /\ call'.op = op /\ call'.on = f /\ call'.data = data /\ call'.done = 0
           /\ op = "read" => call' \in ReadCall
           /\ op = "write" => call' \in WriteCall
           /\ ChainsApart' /\ FreeClean' /\ NothingBehind' /\ ReadsBack'
           /\ BlockAtHand' /\ BufferRight' /\ chain[f] # <<>> /\ call' # Clobbered
<1> DEFINE b == BlockOf(chain[f], file[f].fp)
<1>1. TypeOK /\ chain[f] # <<>> /\ call # Clobbered /\ file[f] \in File
  BY DEF FileInv, NoTrace, Idle, NoCall, Clobbered, Opened, TypeOK
<1>2. file[f].fp \in Nat /\ file[f].fp < Len(chain[f]) * BlockSize
  BY <1>1 DEF FileInv, Covered, File
<1>3. b \in Blocks /\ content[b] \in [Offsets -> Bytes]
  BY <1>1, <1>2, BlockOfPosition DEF TypeOK
<1>4. call' = [op |-> op, on |-> f, data |-> data, done |-> 0, block |-> b, buffer |-> content[b]]
  BY DEF Begun, ReadBlock
<1> HIDE DEF b
<1>5. /\ call'.op = op /\ call'.on = f /\ call'.data = data /\ call'.done = 0
      /\ call'.block = b /\ call'.buffer = content[b]
      /\ op = "read" => call' \in ReadCall
      /\ op = "write" => call' \in WriteCall
  BY <1>3, <1>4 DEF ReadCall, WriteCall
<1>6. call' # Clobbered
  BY <1>5 DEF Clobbered
<1>7. ChainsApart' /\ FreeClean' /\ NothingBehind'
  BY DEF FileInv, ChainsApart, FreeClean, Free, Elements, NothingBehind
<1>8. ReadsBack'
  BY <1>1, <1>5 DEF FileInv, ReadsBack, ByteAt, BlockOf, Idle
<1>9. BlockAtHand'
  BY <1>1, <1>2, <1>5 DEF BlockAtHand, BlockOf, b
<1>10. BufferRight'
  BY <1>5 DEF BufferRight
<1> QED BY <1>1, <1>5, <1>6, <1>7, <1>8, <1>9, <1>10

LEMMA read_fileInv ==
    ASSUME FileInv, NEW f \in Files, NEW count \in Counts, read_file(f, count)
    PROVE  FileInv'
<1>1. /\ Idle /\ Opened(f) /\ Opened(f)' /\ UNCHANGED <<chain, length, content, file, written, failed, reached>>
      /\ \/ count # 0 /\ call' = Begun("read", f, count) /\ UNCHANGED fserror
         \/ count = 0 /\ UNCHANGED call /\ fserror' = "FS_NONE"
  BY DEF read_file, Opened
<1>2. \A g \in Files : chain[g] # <<>> =>
          LengthTold(g) /\ Size(g) <= reached[g] /\ call.op # "write"
  BY <1>1, IdleLength
<1>3. CASE count # 0
  <2>1. call' = Begun("read", f, count) /\ UNCHANGED fserror
    BY <1>1, <1>3
  <2>2. /\ call'.op = "read" /\ call' \in ReadCall
        /\ ChainsApart' /\ FreeClean' /\ NothingBehind' /\ ReadsBack'
        /\ BlockAtHand' /\ BufferRight'
    BY <1>1, <1>3, <2>1, BeginsRight
  <2>3. TypeOK' /\ NoTrace' /\ LengthAhead'
    BY <1>1, <2>1, <2>2 DEF FileInv, TypeOK, NoTrace, Opened, LengthAhead
  <2>4. Covered'
    BY <1>1, <2>2 DEF FileInv, Covered, Opened, Idle, NoCall, Clobbered
  <2>5. LengthKept'
    BY <1>1, <1>2, <2>2 DEF LengthKept, LengthTold, Size, Opened, file_length
  <2> QED BY <2>2, <2>3, <2>4, <2>5 DEF FileInv
<1>4. CASE count = 0
  <2>1. UNCHANGED call /\ fserror' = "FS_NONE"
    BY <1>1, <1>4
  <2>2. /\ ChainsApart' /\ FreeClean' /\ NothingBehind' /\ ReadsBack'
        /\ BlockAtHand' /\ BufferRight' /\ LengthAhead'
    BY <1>1, <2>1, IdleKept
  <2>3. TypeOK' /\ NoTrace'
    BY <1>1, <2>1 DEF FileInv, TypeOK, NoTrace, Opened
  <2>4. Covered' /\ LengthKept'
    BY <1>1, <2>1 DEF FileInv, Covered, LengthKept, LengthTold, Size, Opened, file_length
  <2> QED BY <2>2, <2>3, <2>4 DEF FileInv
<1> QED BY <1>3, <1>4

LEMMA write_fileInv ==
    ASSUME FileInv, NEW f \in Files, NEW data \in Data, write_file(f, data)
    PROVE  FileInv'
<1> DEFINE fp   == file[f].fp
           size == file[f].file_size
           end  == fp + Len(data)
<1>1. /\ TypeOK /\ Idle /\ Opened(f) /\ file[f] \in File /\ call # Clobbered
      /\ UNCHANGED <<chain, length, content, written, failed, reached>>
      /\ \/ data # <<>> /\ call' = Begun("write", f, data) /\ UNCHANGED fserror
         \/ data = <<>> /\ UNCHANGED call /\ fserror' = "FS_NONE"
  BY DEF FileInv, write_file, Opened, TypeOK, Idle, NoCall, Clobbered
<1>2. Len(data) \in Nat /\ fp \in Nat /\ size \in Nat /\ data \in Seq(Bytes)
      /\ (data # <<>> => Len(data) # 0)
  BY <1>1, DataAssumption DEF File
<1>3. /\ file'[f] \in File /\ file'[f].fp = fp
      /\ file'[f].file_size = IF end > size THEN end ELSE size
      /\ \A g \in Files \ {f} : file'[g] = file[g]
      /\ file' \in [Files -> File \cup {Closed}]
  <2> DEFINE new == IF end > size THEN end ELSE size
  <2>1. new \in Nat
    BY <1>2
  <2>2. file' = [file EXCEPT ![f] = [file[f] EXCEPT !.file_size = new]]
    BY <1>1 DEF write_file, TypeOK
  <2> HIDE DEF new
  <2>3. /\ [file[f] EXCEPT !.file_size = new] \in File
        /\ [file[f] EXCEPT !.file_size = new].fp = fp
        /\ [file[f] EXCEPT !.file_size = new].file_size = new
    BY <1>1, <2>1 DEF File
  <2>4. file \in [Files -> File \cup {Closed}]
    BY <1>1 DEF TypeOK
  <2>5. /\ file'[f] = [file[f] EXCEPT !.file_size = new] /\ \A g \in Files \ {f} : file'[g] = file[g]
        /\ file' \in [Files -> File \cup {Closed}]
    BY <2>2, <2>3, <2>4
  <2> QED BY <2>3, <2>5 DEF new
<1>4. \A g \in Files : Opened(g)' <=> Opened(g)
  BY <1>1, <1>3, ClosedAssumption DEF Opened
<1>5. /\ ChainsApart' /\ FreeClean' /\ NothingBehind' /\ ReadsBack'
      /\ BlockAtHand' /\ BufferRight' /\ chain[f] # <<>> /\ call' # Clobbered
      /\ data # <<>> => /\ call'.op = "write" /\ call'.on = f /\ call'.data = data /\ call'.done = 0
                        /\ call' \in WriteCall
      /\ data = <<>> => LengthAhead'
  <2>1. chain[f] # <<>>
    BY <1>1 DEF FileInv, NoTrace
  <2>2. CASE data # <<>>
    BY <1>1, <1>3, <1>4, <2>2, BeginsRight
  <2>3. CASE data = <<>>
    BY <1>1, <2>1, <2>3, IdleKept
  <2> QED BY <2>2, <2>3
<1>6. TypeOK' /\ NoTrace'
  BY <1>1, <1>3, <1>4, <1>5 DEF FileInv, TypeOK, NoTrace
<1>7. fp < Len(chain[f]) * BlockSize /\ size < Len(chain[f]) * BlockSize
  BY <1>1, <1>5 DEF FileInv, Covered, Idle, NoCall
<1>8. LengthAhead'
  BY <1>1, <1>2, <1>3, <1>5, <1>7 DEF LengthAhead
<1>9. Covered'
  <2>1. data = <<>> => Len(data) = 0
    OBVIOUS
  <2>2. data = <<>> => file'[f].file_size < Len(chain[f]) * BlockSize
    BY <2>1, <1>2, <1>3, <1>7
  <2> QED BY <1>1, <1>3, <1>4, <1>5, <1>7, <2>2 DEF FileInv, Covered, Idle, NoCall
<1>10. LengthKept'
  <2> SUFFICES ASSUME NEW g \in Files, chain[g] # <<>> PROVE LengthTold(g)'
    BY <1>1 DEF LengthKept
  <2>1. LengthTold(g) /\ Size(g) <= reached[g] /\ reached[g] \in Nat /\ call.op # "write"
    BY <1>1, IdleLength DEF TypeOK
  <2>2. CASE g = f
    <3>1. Size(f) = size /\ Size(f)' = IF end > size THEN end ELSE size
      BY <1>1, <1>3, <1>4 DEF Size, file_length
    <3>2. \A p \in Reach : p \in Int
      BY GeometryAssumption DEF Reach
    <3>3. f \notin failed => \A p \in Reach : written[f][p] # Hole => p < Size(f)'
      BY <2>1, <2>2, <3>1, <3>2, <1>2 DEF LengthTold
    <3>4. fp <= reached[f]
      BY <2>1, <2>2, <1>1 DEF LengthTold
    <3>5. CASE data # <<>>
      <4>1. \/ Size(f)' <= reached[f]
            \/ Size(f)' = file'[f].fp - call'.done + Len(call'.data)
        BY <2>1, <2>2, <3>1, <3>5, <1>2, <1>3, <1>5
      <4> QED BY <2>2, <3>3, <3>4, <3>5, <4>1, <1>1, <1>3, <1>5 DEF LengthTold
    <3>6. CASE data = <<>>
      <4>1. Len(data) = 0
        BY <3>6
      <4>2. Size(f)' <= reached[f]
        BY <2>1, <2>2, <3>1, <3>4, <4>1, <1>2
      <4> QED BY <2>2, <3>3, <3>4, <4>2, <1>1, <1>3 DEF LengthTold
    <3> QED BY <3>5, <3>6
  <2>3. CASE g # f
    <3>1. Size(g)' = Size(g)
      BY <2>3, <1>1, <1>3, <1>4 DEF file_length, Size
    <3> QED BY <3>1, <2>1, <2>3, <1>1, <1>3, <1>4, ToldKept
  <2> QED BY <2>2, <2>3
<1> QED BY <1>5, <1>6, <1>8, <1>9, <1>10 DEF FileInv

LEMMA ReadEndInv == FileInv /\ ReadEnd => FileInv'
<1> SUFFICES ASSUME FileInv, ReadEnd PROVE FileInv'
  OBVIOUS
<1>1. /\ call.op = "read" /\ call' = NoCall /\ call # Clobbered
      /\ UNCHANGED <<chain, length, content, file, fserror, written, failed, reached>>
  BY DEF ReadEnd, Clobbered
<1>2. TypeOK' /\ ChainsApart' /\ NoTrace' /\ NothingBehind'
  BY <1>1 DEF FileInv, TypeOK, ChainsApart, NoTrace, NothingBehind, Opened
<1>3. FreeClean'
  BY <1>1 DEF FileInv, FreeClean, Free, Elements
<1>4. Covered' /\ LengthKept'
  BY <1>1 DEF FileInv, Covered, LengthKept, LengthTold, Size, Opened, file_length, NoCall
<1>5. ReadsBack'
  <2>1. call.buffer = content[call.block]
    BY <1>1 DEF FileInv, BufferRight
  <2> QED BY <1>1, <2>1 DEF FileInv, ReadsBack, ByteAt, BlockOf, Idle
<1> QED BY <1>1, <1>2, <1>3, <1>4, <1>5, NoCallNoClaim DEF FileInv

\* A call that ends in a failure: fp and size are those it leaves.
LEMMA WriteFailsInv ==
    ASSUME FileInv, call.op = "write", call.on \in Files, NEW fp \in Nat, NEW size \in Nat,
           fp < Len(chain[call.on]) * BlockSize, size < Len(chain[call.on]) * BlockSize,
           fp <= reached[call.on], size <= reached[call.on], WriteFails(call.on, fp, size),
           fserror' \in {"FS_NONE", "FS_OUT_OF_SPACE", "FS_FILE_READ_ONLY"}
    PROVE  FileInv'
<1> DEFINE f == call.on
           r == file[f].fp
<1>1. /\ TypeOK /\ ChainsApart /\ call \in WriteCall /\ Opened(f) /\ chain[f] # <<>>
      /\ call # Clobbered /\ ~ Idle /\ Working
      /\ call.block = BlockOf(chain[f], r) /\ call.done <= r /\ file[f] \in File
      /\ call' = NoCall /\ UNCHANGED <<chain, length, content, reached>> /\ failed' = failed \cup {f}
      /\ r < Len(chain[f]) * BlockSize
  BY DEF FileInv, TypeOK, BlockAtHand, Working, Idle, NoCall, Clobbered, Opened, Covered, WriteFails
<1>2. /\ file'[f] \in File
      /\ file'[f].fp = fp /\ file'[f].file_size = size
      /\ \A g \in Files \ {f} : file'[g] = file[g]
      /\ file' \in [Files -> File \cup {Closed}]
  <2>1. [file[f] EXCEPT !.fp = fp, !.file_size = size] \in File
    BY <1>1 DEF File
  <2>2. file'[f] = [file[f] EXCEPT !.fp = fp, !.file_size = size]
        /\ \A g \in Files \ {f} : file'[g] = file[g]
    BY <1>1 DEF WriteFails, TypeOK, File
  <2>3. /\ [file[f] EXCEPT !.fp = fp, !.file_size = size].fp = fp
        /\ [file[f] EXCEPT !.fp = fp, !.file_size = size].file_size = size
    BY <1>1 DEF File
  <2>4. file' \in [Files -> File \cup {Closed}]
    BY <1>1, <2>1, <2>2 DEF WriteFails, TypeOK
  <2> QED BY <2>1, <2>2, <2>3, <2>4
<1>3. /\ \A p \in Reach : written'[f][p] = IF p \in Dropped(f) THEN Lost ELSE written[f][p]
      /\ \A g \in Files \ {f} : written'[g] = written[g]
      /\ written' \in [Files -> [Reach -> Bytes \cup {Hole, Lost}]]
  <2> DEFINE w == [p \in Reach |-> IF p \in Dropped(f) THEN Lost ELSE written[f][p]]
  <2>1. w \in [Reach -> Bytes \cup {Hole, Lost}]
    BY <1>1 DEF TypeOK
  <2>2. written' = [written EXCEPT ![f] = w]
    BY DEF WriteFails
  <2>3. \A p \in Reach : w[p] = IF p \in Dropped(f) THEN Lost ELSE written[f][p]
    OBVIOUS
  <2> HIDE DEF w
  <2> QED BY <1>1, <2>1, <2>2, <2>3 DEF TypeOK
<1>4. TypeOK'
  BY <1>1, <1>2, <1>3 DEF TypeOK
<1>5. \A g \in Files : Opened(g)' <=> Opened(g)
  BY <1>1, <1>2, ClosedAssumption DEF Opened
<1>6. ChainsApart' /\ FreeClean'
  BY <1>1 DEF FileInv, ChainsApart, FreeClean, Free, Elements
<1>7. NoTrace'
  BY <1>1, <1>3, <1>5 DEF FileInv, NoTrace
<1>8. Covered'
  BY <1>1, <1>2, <1>5 DEF FileInv, Covered
<1>9. LengthKept'
  <2> SUFFICES ASSUME NEW g \in Files, chain[g] # <<>> PROVE LengthTold(g)'
    BY <1>1 DEF LengthKept
  <2>1. CASE g = f
    <3>1. Opened(g)' /\ file'[g].file_size = size /\ file'[g].fp = fp
      BY <2>1, <1>1, <1>2, <1>5
    <3>2. Size(g)' = size
      BY <3>1 DEF Size, file_length
    <3> QED BY <2>1, <3>1, <3>2, <1>1 DEF LengthTold
  <2>2. CASE g # f
    <3>1. Size(g)' = Size(g) /\ LengthTold(g)
      BY <2>2, <1>1, <1>2, <1>5 DEF FileInv, LengthKept, file_length, Size
    <3> QED BY <2>2, <3>1, <1>1, <1>2, <1>3, <1>5, ToldKept
  <2> QED BY <2>1, <2>2
<1>10. /\ r \in Nat /\ call.done \in Nat /\ Len(chain[f]) * BlockSize \in Nat
       /\ \A p \in Dropped(f) : p \in 0 .. r - 1 /\ p \div BlockSize = r \div BlockSize
  <2>1. r \in Nat /\ call.done \in Nat /\ Len(chain[f]) * BlockSize \in Nat
    BY <1>1, GeometryAssumption DEF File, WriteCall, TypeOK
  <2> QED BY <1>1, <2>1 DEF Dropped
<1>11. ReadsBack' /\ NothingBehind'
  <2>1. NothingBehind /\ ReadsBack
    BY DEF FileInv
  <2>2. Grown(f, r)
    BY <1>1, <1>10, SameGrows
  <2>3. \A b \in Free : Shown(b)' = ZeroBlock
    BY <1>1 DEF FileInv, FreeClean, Shown, Working, NoCall
  <2>4. \A g \in Files : \A q \in Reach :
            q >= Len(chain[g]) * BlockSize => written'[g][q] = Hole
    <3> SUFFICES ASSUME NEW q \in Reach, q >= Len(chain[f]) * BlockSize
                 PROVE  written'[f][q] = Hole
      BY <1>3, <2>1 DEF NothingBehind
    <3>1. q \in Int
      BY GeometryAssumption DEF Reach
    <3>2. q \notin Dropped(f)
      BY <3>1, <1>1, <1>10
    <3> QED BY <3>2, <1>3, <2>1 DEF NothingBehind
  <2>5. ASSUME NEW g \in Files, NEW q \in 0 .. Len(chain[g]) * BlockSize - 1,
               NEW b \in Blocks, b = BlockOf(chain[g], q)
        PROVE  \/ written'[g][q] = written[g][q]
                  /\ Shown(b)'[q % BlockSize] = Shown(b)[q % BlockSize]
               \/ written'[g][q] = Lost
    <3>1. Shown(b)' = content[b] /\ (b # call.block => Shown(b) = content[b])
          /\ (b = call.block => Shown(b) = call.buffer)
      BY <1>1 DEF Shown, Working, NoCall
    <3>2. Len(chain[g]) * BlockSize \in Nat
      BY <1>1, GeometryAssumption DEF TypeOK
    <3>3. q \in Nat /\ q < Len(chain[g]) * BlockSize
      BY <3>2
    <3>4. q \in Reach /\ q % BlockSize \in Offsets
      BY <1>1, <3>3, InReach, Division
    <3>5. CASE g # f
      <4>1. b # call.block
        <5>1. b \in Elements(chain[g])
          BY <3>3, <2>5, <1>1, BlockOfPosition
        <5>2. call.block \in Elements(chain[f])
          BY <1>1, <1>10, BlockOfPosition
        <5> QED BY <5>1, <5>2, <3>5, <1>1, Disjoint
      <4> QED BY <4>1, <3>1, <3>5, <1>3
    <3>6. CASE g = f
      <4>1. CASE q \in Dropped(f)
        BY <4>1, <3>4, <3>6, <1>3
      <4>2. CASE q \notin Dropped(f) /\ b # call.block
        BY <4>2, <3>1, <3>4, <3>6, <1>3
      <4>3. CASE q \notin Dropped(f) /\ b = call.block
        <5>1. /\ q \div BlockSize + 1 \in 1 .. Len(chain[f])
              /\ r \div BlockSize + 1 \in 1 .. Len(chain[f])
          BY <3>3, <3>6, <1>1, <1>10, BlockOfPosition
        <5>2. q \div BlockSize + 1 = r \div BlockSize + 1
          <6>1. chain[f][q \div BlockSize + 1] = chain[f][r \div BlockSize + 1]
            BY <4>3, <2>5, <3>6, <1>1 DEF BlockOf
          <6> QED BY <6>1, <5>1, <1>1 DEF ChainsApart
        <5>3. q \div BlockSize = r \div BlockSize
          BY <5>2, <3>3, <1>10, Division
        <5>4. \A p \in Dropped(f) : p % BlockSize # q % BlockSize
          <6> SUFFICES ASSUME NEW p \in Dropped(f), p % BlockSize = q % BlockSize PROVE FALSE
            OBVIOUS
          <6>1. p \in Nat /\ p \div BlockSize = q \div BlockSize
            BY <1>10, <5>3
          <6>2. p = q
            BY <6>1, <3>3, SameBlock
          <6> QED BY <6>2, <4>3
        <5>5. call.buffer[q % BlockSize] = content[b][q % BlockSize]
          BY <5>4, <3>4, <4>3 DEF FileInv, BufferRight
        <5> QED BY <5>5, <3>1, <3>4, <3>6, <4>3, <1>3
      <4> QED BY <4>1, <4>2, <4>3
    <3> QED BY <3>5, <3>6
  <2> QED BY <1>1, <1>4, <1>10, <2>1, <2>2, <2>3, <2>4, <2>5, ReadsKept
<1> QED BY <1>1, <1>4, <1>6, <1>7, <1>8, <1>9, <1>11, NoCallNoClaim DEF FileInv

LEMMA WriteTooLongInv == FileInv /\ WriteTooLong => FileInv'
<1> SUFFICES ASSUME FileInv, WriteTooLong PROVE FileInv'
  OBVIOUS
<1>1. call.op = "write" /\ WriteFails(call.on, MaxLength - 1, MaxLength) /\ fserror' = fserror
      /\ file[call.on].fp > MaxLength
  BY DEF WriteTooLong
<1>2. call.on \in Files /\ chain[call.on] # <<>> /\ Opened(call.on) /\ call # Clobbered
  BY <1>1 DEF FileInv, TypeOK, WriteCall, BlockAtHand, Working, NoCall, Clobbered
<1>3. file[call.on].fp < Len(chain[call.on]) * BlockSize /\ file[call.on].fp \in Nat
  BY <1>2 DEF FileInv, Covered, TypeOK, Opened, File
<1>4. Len(chain[call.on]) * BlockSize \in Nat
  BY <1>2, GeometryAssumption DEF FileInv, TypeOK
<1>5. /\ MaxLength - 1 \in Nat /\ MaxLength \in Nat
      /\ MaxLength - 1 < Len(chain[call.on]) * BlockSize
      /\ MaxLength < Len(chain[call.on]) * BlockSize
  BY <1>1, <1>3, <1>4, GeometryAssumption
<1>6. MaxLength - 1 <= reached[call.on] /\ MaxLength <= reached[call.on]
  <2>1. file[call.on].fp <= reached[call.on] /\ reached[call.on] \in Nat
    BY <1>2 DEF FileInv, LengthKept, LengthTold, TypeOK
  <2> QED BY <2>1, <1>1, <1>3, <1>5
<1>7. fserror' \in {"FS_NONE", "FS_OUT_OF_SPACE", "FS_FILE_READ_ONLY"}
  BY <1>1 DEF FileInv, TypeOK
<1> QED BY <1>1, <1>2, <1>5, <1>6, <1>7, WriteFailsInv

LEMMA WriteOutOfSpaceInv == FileInv /\ WriteOutOfSpace => FileInv'
<1> SUFFICES ASSUME FileInv, WriteOutOfSpace PROVE FileInv'
  OBVIOUS
<1>1. call.op = "write" /\ WriteFails(call.on, file[call.on].fp, file[call.on].fp)
      /\ fserror' = "FS_OUT_OF_SPACE"
  BY DEF WriteOutOfSpace
<1>2. call.on \in Files /\ chain[call.on] # <<>> /\ Opened(call.on) /\ call # Clobbered
  BY <1>1 DEF FileInv, TypeOK, WriteCall, BlockAtHand, Working, NoCall, Clobbered
<1>3. file[call.on].fp < Len(chain[call.on]) * BlockSize /\ file[call.on].fp \in Nat
  BY <1>2 DEF FileInv, Covered, TypeOK, Opened, File
<1>4. file[call.on].fp <= reached[call.on]
  BY <1>2 DEF FileInv, LengthKept, LengthTold
<1> QED BY <1>1, <1>2, <1>3, <1>4, WriteFailsInv

\* The file of a call at work, its position and the block of it.
LEMMA AtWork ==
    ASSUME FileInv, Working
    PROVE  LET f == call.on  r == file[f].fp IN
           /\ f \in Files /\ Opened(f) /\ file[f] \in File /\ chain[f] # <<>>
           /\ call # Clobbered /\ ~ Idle
           /\ r \in Nat /\ r < Len(chain[f]) * BlockSize /\ call.done \in Nat /\ call.done <= r
           /\ call.block = BlockOf(chain[f], r) /\ call.block \in Blocks
           /\ call.block \in Elements(chain[f]) /\ call.block \notin Free
           /\ call.buffer \in [Offsets -> Bytes]
           /\ call.op = "read" => call \in ReadCall
           /\ call.op = "write" => call \in WriteCall
<1> DEFINE f == call.on
           r == file[f].fp
<1>1. /\ f \in Files /\ call.done \in Nat /\ call.buffer \in [Offsets -> Bytes]
      /\ call # Clobbered /\ ~ Idle
      /\ call.op = "read" => call \in ReadCall
      /\ call.op = "write" => call \in WriteCall
  BY DEF FileInv, TypeOK, Working, ReadCall, WriteCall, Idle, NoCall, Clobbered
<1>2. Opened(f) /\ chain[f] # <<>> /\ call.done <= r /\ call.block = BlockOf(chain[f], r)
  BY DEF FileInv, BlockAtHand
<1>3. TypeOK /\ file[f] \in File
  BY <1>1, <1>2 DEF FileInv, TypeOK, Opened
<1>4. r \in Nat /\ r < Len(chain[f]) * BlockSize
  BY <1>1, <1>2, <1>3 DEF FileInv, Covered, File
<1>5. call.block \in Blocks /\ call.block \in Elements(chain[f]) /\ call.block \notin Free
  BY <1>1, <1>2, <1>3, <1>4, BlockOfPosition
<1> QED BY <1>1, <1>2, <1>3, <1>4, <1>5

\* A record of a call after its fields were assigned one after the other.
LEMMA CallChanges ==
    ASSUME NEW Ops, NEW D,
           NEW R, R = [op : Ops, on : Files, data : D, done : Nat,
                       block : Blocks, buffer : [Offsets -> Bytes]],
           NEW c \in R, NEW b \in Blocks, NEW buffer \in [Offsets -> Bytes], NEW d
    PROVE  /\ d = [c EXCEPT !.done = @ + 1, !.block = b, !.buffer = buffer] =>
              /\ d \in R /\ d.op = c.op /\ d.on = c.on /\ d.data = c.data
              /\ d.done = c.done + 1 /\ d.block = b /\ d.buffer = buffer
           /\ d = [c EXCEPT !.done = @ + 1, !.buffer = buffer] =>
              /\ d \in R /\ d.op = c.op /\ d.on = c.on /\ d.data = c.data
              /\ d.done = c.done + 1 /\ d.block = c.block /\ d.buffer = buffer
<1> DEFINE d1 == [c EXCEPT !.done = c.done + 1]
           d2 == [d1 EXCEPT !.block = b]
           d3 == [d2 EXCEPT !.buffer = buffer]
           e2 == [d1 EXCEPT !.buffer = buffer]
<1>1. /\ d1 \in R /\ d1.op = c.op /\ d1.on = c.on /\ d1.data = c.data
      /\ d1.done = c.done + 1 /\ d1.block = c.block
  OBVIOUS
<1>2. /\ d3 = [c EXCEPT !.done = @ + 1, !.block = b, !.buffer = buffer]
      /\ e2 = [c EXCEPT !.done = @ + 1, !.buffer = buffer]
  OBVIOUS
<1> HIDE DEF d1
<1>3. /\ d2 \in R /\ d2.op = c.op /\ d2.on = c.on /\ d2.data = c.data
      /\ d2.done = c.done + 1 /\ d2.block = b
  BY <1>1
<1>4. /\ e2 \in R /\ e2.op = c.op /\ e2.on = c.on /\ e2.data = c.data
      /\ e2.done = c.done + 1 /\ e2.block = c.block /\ e2.buffer = buffer
  BY <1>1
<1> HIDE DEF d2
<1>5. /\ d3 \in R /\ d3.op = c.op /\ d3.on = c.on /\ d3.data = c.data
      /\ d3.done = c.done + 1 /\ d3.block = b /\ d3.buffer = buffer
  BY <1>3
<1> HIDE DEF d3, e2
<1> QED BY <1>2, <1>4, <1>5

\* TurnBlock keeps the buffer, or writes it and has the block of the next position.
LEMMA TurnRight ==
    ASSUME FileInv, Working, NEW count,
           Grown(call.on, file[call.on].fp + 1), NEW buffer \in [Offsets -> Bytes],
           TurnBlock(call.on, file[call.on].fp + 1, buffer, count)
    PROVE  /\ content' \in [Blocks -> [Offsets -> Bytes]]
           /\ content' = [content EXCEPT ![call.block] = buffer] \/ content' = content
           /\ \A b \in Blocks : Shown(b)' = IF b = call.block THEN buffer ELSE content[b]
           /\ \/ call' = NoCall /\ call.done + 1 = count
              \/ /\ call.op = "read" => call' \in ReadCall
                 /\ call.op = "write" => call' \in WriteCall
                 /\ call'.op = call.op /\ call'.on = call.on /\ call'.data = call.data
                 /\ call'.done = call.done + 1 /\ call.done + 1 # count
                 /\ call'.block = BlockOf(chain'[call.on], file[call.on].fp + 1)
                 /\ \/ call'.buffer = content'[call'.block]
                    \/ /\ content' = content /\ call'.buffer = buffer /\ call'.block = call.block
                       /\ (file[call.on].fp + 1) \div BlockSize
                             = file[call.on].fp \div BlockSize
<1> DEFINE f == call.on
           r == file[f].fp
           b == BlockOf(chain'[f], r + 1)
<1>1. /\ f \in Files /\ r \in Nat /\ r < Len(chain[f]) * BlockSize /\ call.done \in Nat
      /\ call.block = BlockOf(chain[f], r) /\ call.block \in Blocks
      /\ call.op = "read" => call \in ReadCall
      /\ call.op = "write" => call \in WriteCall
      /\ TypeOK /\ content \in [Blocks -> [Offsets -> Bytes]]
  BY AtWork DEF FileInv, TypeOK
<1>2. chain'[f] \in Seq(Blocks) /\ r + 1 < Len(chain'[f]) * BlockSize /\ Len(chain'[f]) \in Nat
  BY <1>1 DEF Grown
<1>3. (r + 1) \div BlockSize + 1 \in 1 .. Len(chain'[f])
  BY <1>1, <1>2, HasRoom
<1>4. b \in Blocks
  BY <1>2, <1>3 DEF BlockOf
<1>5. CASE AtBlockEnd(r + 1, count)
  <2>1. /\ content' = [content EXCEPT ![call.block] = buffer]
        /\ call' = IF call.done + 1 = count THEN NoCall
                   ELSE [call EXCEPT !.done = @ + 1, !.block = b, !.buffer = content'[b]]
    BY <1>5 DEF TurnBlock, WriteBlock, ReadBlock
  <2>2. content' \in [Blocks -> [Offsets -> Bytes]]
        /\ \A c \in Blocks : content'[c] = IF c = call.block THEN buffer ELSE content[c]
    BY <2>1, <1>1
  <2>3. CASE call.done + 1 = count
    <3>1. call' = NoCall
      BY <2>1, <2>3
    <3>2. \A c \in Blocks : Shown(c)' = content'[c]
      BY <3>1 DEF Shown, Working, NoCall
    <3> QED BY <2>1, <2>2, <2>3, <3>1, <3>2
  <2>4. CASE call.done + 1 # count
    <3> HIDE DEF b
    <3>1. call' = [call EXCEPT !.done = @ + 1, !.block = b, !.buffer = content'[b]]
      BY <2>1, <2>4
    <3>2. content'[b] \in [Offsets -> Bytes]
      BY <1>4, <2>2
    <3>3. CASE call.op = "read"
      <4>0. call \in ReadCall
        BY <1>1, <3>3
      <4>1. /\ call' \in ReadCall /\ call'.op = call.op /\ call'.on = call.on
            /\ call'.data = call.data /\ call'.done = call.done + 1
            /\ call'.block = b /\ call'.buffer = content'[b]
        BY <1>4, <3>1, <3>2, <4>0, CallChanges DEF ReadCall
      <4>2. \A c \in Blocks : Shown(c)' = content'[c]
        BY <4>1, <3>3 DEF Shown, Working
      <4> QED BY <2>1, <2>2, <2>4, <4>1, <4>2, <3>3 DEF b
    <3>4. CASE call.op = "write"
      <4>0. call \in WriteCall
        BY <1>1, <3>4
      <4>1. /\ call' \in WriteCall /\ call'.op = call.op /\ call'.on = call.on
            /\ call'.data = call.data /\ call'.done = call.done + 1
            /\ call'.block = b /\ call'.buffer = content'[b]
        BY <1>4, <3>1, <3>2, <4>0, CallChanges DEF WriteCall
      <4>2. \A c \in Blocks : Shown(c)' = content'[c]
        BY <4>1, <3>4 DEF Shown, Working
      <4> QED BY <2>1, <2>2, <2>4, <4>1, <4>2, <3>4 DEF b
    <3> QED BY <3>3, <3>4 DEF Working
  <2> QED BY <2>3, <2>4
<1>6. CASE ~ AtBlockEnd(r + 1, count)
  <2>1. /\ content' = content /\ call' = [call EXCEPT !.done = @ + 1, !.buffer = buffer]
        /\ call.done + 1 # count /\ (r + 1) % BlockSize # 0
    BY <1>6 DEF TurnBlock, AtBlockEnd
  <2>2. (r + 1) \div BlockSize = r \div BlockSize
    BY <1>1, <2>1, NextPosition
  <2>3. b = call.block
    <3>1. r \div BlockSize + 1 \in 1 .. Len(chain[f])
      BY <1>1, BlockOfPosition
    <3> QED BY <1>1, <2>2, <3>1 DEF BlockOf, Grown
  <2> HIDE DEF b
  <2>4. /\ call.op = "read" => call' \in ReadCall
        /\ call.op = "write" => call' \in WriteCall
        /\ call'.op = call.op /\ call'.on = call.on /\ call'.data = call.data
        /\ call'.done = call.done + 1 /\ call'.block = call.block /\ call'.buffer = buffer
    <3>1. CASE call.op = "read"
      BY <1>1, <2>1, <3>1, CallChanges DEF ReadCall
    <3>2. CASE call.op = "write"
      BY <1>1, <2>1, <3>2, CallChanges DEF WriteCall
    <3> QED BY <3>1, <3>2 DEF Working
  <2>5. \A c \in Blocks : Shown(c)' = IF c = call.block THEN buffer ELSE content[c]
    BY <2>1, <2>4 DEF Shown, Working
  <2> QED BY <1>1, <2>1, <2>2, <2>3, <2>4, <2>5 DEF b
<1> QED BY <1>5, <1>6

\* The File object after the position has moved by one.
LEMMA PositionMoves ==
    ASSUME TypeOK, NEW f \in Files, file[f] \in File, file' = [file EXCEPT ![f].fp = file[f].fp + 1]
    PROVE  /\ file'[f] \in File /\ file'[f].fp = file[f].fp + 1
           /\ file'[f].file_size = file[f].file_size
           /\ \A g \in Files \ {f} : file'[g] = file[g]
           /\ file' \in [Files -> File \cup {Closed}]
           /\ \A g \in Files : Opened(g)' <=> Opened(g)
<1> DEFINE o == [file[f] EXCEPT !.fp = file[f].fp + 1]
<1>1. o \in File /\ o.fp = file[f].fp + 1 /\ o.file_size = file[f].file_size
  BY DEF File
<1>2. file' = [file EXCEPT ![f] = o]
  BY DEF TypeOK
<1> HIDE DEF o
<1>3. /\ file'[f] = o /\ \A g \in Files \ {f} : file'[g] = file[g]
      /\ file' \in [Files -> File \cup {Closed}]
  BY <1>1, <1>2 DEF TypeOK
<1>4. \A g \in Files : Opened(g)' <=> Opened(g)
  BY <1>1, <1>3, ClosedAssumption DEF Opened
<1> QED BY <1>1, <1>3, <1>4

LEMMA ReadByteInv == FileInv /\ ReadByte => FileInv'
<1> SUFFICES ASSUME FileInv, ReadByte PROVE FileInv'
  OBVIOUS
<1> DEFINE f == call.on
           r == file[f].fp
<1>1. /\ call.op = "read" /\ Working /\ r < file[f].file_size
      /\ chain' = chain /\ file' = [file EXCEPT ![f].fp = r + 1]
      /\ TurnBlock(f, r + 1, call.buffer, call.data)
      /\ UNCHANGED <<length, written, failed, reached>>
      /\ fserror' \in {"FS_NONE", "FS_OUT_OF_SPACE", "FS_FILE_READ_ONLY"}
  BY DEF ReadByte, Working, FileInv, TypeOK
<1>2. /\ TypeOK /\ ChainsApart /\ f \in Files /\ Opened(f) /\ file[f] \in File /\ chain[f] # <<>>
      /\ r \in Nat /\ r < Len(chain[f]) * BlockSize /\ call.done \in Nat /\ call.done <= r
      /\ call.block \in Blocks /\ call.block \notin Free /\ call.buffer \in [Offsets -> Bytes]
      /\ call # Clobbered
  BY <1>1, AtWork DEF FileInv
<1>3. /\ file[f].file_size < Len(chain[f]) * BlockSize /\ file[f].file_size \in Nat
      /\ Len(chain[f]) * BlockSize \in Nat
  BY <1>1, <1>2, GeometryAssumption DEF FileInv, Covered, File, TypeOK
<1>4. r + 1 < Len(chain[f]) * BlockSize
  BY <1>1, <1>2, <1>3
<1>5. Grown(f, r + 1)
  BY <1>1, <1>2, <1>4, SameGrows
<1>6. /\ content' = [content EXCEPT ![call.block] = call.buffer] \/ content' = content
      /\ \A b \in Blocks : Shown(b)' = IF b = call.block THEN call.buffer ELSE content[b]
      /\ \/ call' = NoCall
         \/ /\ call' \in ReadCall /\ call'.op = "read" /\ call'.on = f
            /\ call'.done = call.done + 1
            /\ call'.block = BlockOf(chain'[f], r + 1)
            /\ \/ call'.buffer = content'[call'.block]
               \/ /\ content' = content /\ call'.buffer = call.buffer /\ call'.block = call.block
  BY <1>1, <1>2, <1>5, TurnRight
<1>7. call.buffer = content[call.block] /\ content' = content
  BY <1>1, <1>2, <1>6 DEF FileInv, BufferRight, TypeOK
<1>8. /\ file'[f] \in File /\ file'[f].fp = r + 1 /\ file'[f].file_size = file[f].file_size
      /\ \A g \in Files \ {f} : file'[g] = file[g]
      /\ file' \in [Files -> File \cup {Closed}]
      /\ \A g \in Files : Opened(g)' <=> Opened(g)
  BY <1>1, <1>2, PositionMoves
<1>9. TypeOK'
  BY <1>1, <1>2, <1>6, <1>7, <1>8 DEF TypeOK
<1>10. ChainsApart' /\ FreeClean' /\ NoTrace'
  BY <1>1, <1>7, <1>8 DEF FileInv, ChainsApart, FreeClean, Free, Elements, NoTrace
<1>11. BlockAtHand' /\ BufferRight' /\ LengthAhead' /\ call' # Clobbered
  <2>1. CASE call' = NoCall
    BY <2>1, NoCallNoClaim DEF NoCall, Clobbered
  <2>2. CASE call' # NoCall
    <3>1. call'.op = "read" /\ call'.on = f /\ call'.done = call.done + 1
          /\ call'.block = BlockOf(chain'[f], r + 1) /\ call'.buffer = content'[call'.block]
      BY <2>2, <1>6, <1>7
    <3> QED BY <3>1, <1>1, <1>2, <1>8 DEF BlockAtHand, BufferRight, LengthAhead, Clobbered
  <2> QED BY <2>1, <2>2
<1>12. Covered'
  BY <1>1, <1>2, <1>3, <1>4, <1>8 DEF FileInv, Covered
<1>13. LengthKept'
  <2> SUFFICES ASSUME NEW g \in Files, chain[g] # <<>> PROVE LengthTold(g)'
    BY <1>1 DEF LengthKept
  <2>1. LengthTold(g) /\ reached[g] \in Nat
    BY <1>2 DEF FileInv, LengthKept, TypeOK
  <2>4. Size(g)' = Size(g)
    <3>1. file'[g].file_size = file[g].file_size
      BY <1>8
    <3> QED BY <3>1, <1>1, <1>8 DEF file_length, Size
  <2>2. CASE g = f
    <3>1. Size(f) = file[f].file_size /\ Size(f) <= reached[f]
      BY <2>1, <2>2, <1>1, <1>2 DEF LengthTold, Size, file_length
    <3>2. r + 1 <= reached[f]
      BY <2>1, <2>2, <3>1, <1>1, <1>2, <1>3
    <3> QED BY <2>1, <2>2, <2>4, <3>1, <3>2, <1>1, <1>8 DEF LengthTold
  <2>3. CASE g # f
    BY <2>1, <2>3, <2>4, <1>1, <1>8, ToldKept
  <2> QED BY <2>2, <2>3
<1>14. ReadsBack' /\ NothingBehind'
  <2>1. NothingBehind /\ ReadsBack /\ FreeClean
    BY DEF FileInv
  <2>2. \A b \in Blocks : Shown(b)' = content[b] /\ Shown(b) = content[b]
    BY <1>6, <1>7 DEF Shown
  <2>3. \A b \in Free : Shown(b)' = ZeroBlock
    BY <2>1, <2>2 DEF FreeClean, Free
  <2>4. \A g \in Files : \A q \in Reach :
            q >= Len(chain[g]) * BlockSize => written'[g][q] = Hole
    BY <1>1, <2>1 DEF NothingBehind
  <2> QED BY <1>1, <1>2, <1>5, <1>9, <2>1, <2>2, <2>3, <2>4, ReadsKept
<1> QED BY <1>9, <1>10, <1>11, <1>12, <1>13, <1>14 DEF FileInv

\* A byte more at the position and a byte more done: the end stays.
LEMMA SameEnd ==
    ASSUME NEW i \in Nat, NEW j \in Nat, NEW k \in Nat
    PROVE  (i + 1) - (j + 1) + k = i - j + k
OBVIOUS

LEMMA WriteByteInv == FileInv /\ WriteByte => FileInv'
<1> SUFFICES ASSUME FileInv, WriteByte PROVE FileInv'
  OBVIOUS
<1> DEFINE f      == call.on
           r      == file[f].fp
           size   == file[f].file_size
           o      == r % BlockSize
           byte   == call.data[call.done + 1]
           buffer == [call.buffer EXCEPT ![o] = byte]
<1>1. /\ call.op = "write" /\ Working
      /\ Extend(f, r + 1) /\ file' = [file EXCEPT ![f].fp = r + 1]
      /\ TurnBlock(f, r + 1, buffer, Len(call.data))
      /\ written' = [written EXCEPT ![f][r] = byte]
      /\ fserror' = "FS_NONE" /\ UNCHANGED <<length, failed>> /\ Reaches(f, r + 1)
  BY DEF WriteByte, Working
<1>2. /\ TypeOK /\ ChainsApart /\ f \in Files /\ Opened(f) /\ file[f] \in File /\ chain[f] # <<>>
      /\ r \in Nat /\ r < Len(chain[f]) * BlockSize /\ call.done \in Nat /\ call.done <= r
      /\ call.block = BlockOf(chain[f], r) /\ call.block \in Blocks
      /\ call.block \in Elements(chain[f]) /\ call.block \notin Free
      /\ call.buffer \in [Offsets -> Bytes] /\ call \in WriteCall /\ call # Clobbered
  BY <1>1, AtWork DEF FileInv
<1>3. /\ call.data \in Seq(Bytes) /\ Len(call.data) \in Nat /\ call.done < Len(call.data)
      /\ byte \in Bytes
  <2>1. call.data \in Seq(Bytes) /\ Len(call.data) \in Nat
    BY <1>2, DataAssumption DEF WriteCall
  <2>2. call.done < Len(call.data)
    BY <1>1 DEF FileInv, LengthAhead
  <2> QED BY <2>1, <2>2, <1>2
<1>4. o \in Offsets /\ buffer \in [Offsets -> Bytes]
      /\ \A x \in Offsets : buffer[x] = IF x = o THEN byte ELSE call.buffer[x]
  BY <1>2, <1>3, Division
<1>5. r \in Reach
  BY <1>2, InReach
<1>6. Grown(f, r + 1)
  BY <1>1, <1>2, ExtendGrows
<1> HIDE DEF byte, buffer, o
<1>7. /\ content' \in [Blocks -> [Offsets -> Bytes]]
      /\ content' = [content EXCEPT ![call.block] = buffer] \/ content' = content
      /\ \A b \in Blocks : Shown(b)' = IF b = call.block THEN buffer ELSE content[b]
      /\ \/ call' = NoCall /\ call.done + 1 = Len(call.data)
         \/ /\ call' \in WriteCall /\ call'.op = "write" /\ call'.on = f
            /\ call'.data = call.data
            /\ call'.done = call.done + 1 /\ call.done + 1 # Len(call.data)
            /\ call'.block = BlockOf(chain'[f], r + 1)
            /\ \/ call'.buffer = content'[call'.block]
               \/ /\ content' = content /\ call'.buffer = buffer /\ call'.block = call.block
                  /\ (r + 1) \div BlockSize = r \div BlockSize
  BY <1>1, <1>2, <1>4, <1>6, TurnRight
<1>8. /\ file'[f] \in File /\ file'[f].fp = r + 1 /\ file'[f].file_size = size
      /\ \A g \in Files \ {f} : file'[g] = file[g]
      /\ file' \in [Files -> File \cup {Closed}]
      /\ \A g \in Files : Opened(g)' <=> Opened(g)
  BY <1>1, <1>2, PositionMoves
<1>9. /\ written'[f][r] = byte /\ \A p \in Reach \ {r} : written'[f][p] = written[f][p]
      /\ \A g \in Files \ {f} : written'[g] = written[g]
      /\ written' \in [Files -> [Reach -> Bytes \cup {Hole, Lost}]]
  BY <1>1, <1>2, <1>3, <1>5 DEF TypeOK
<1>10. chain' \in [Files -> Seq(Blocks)]
  BY <1>6 DEF Grown
<1>10a. /\ reached' \in [Files -> Nat] /\ r + 1 <= reached'[f] /\ reached[f] <= reached'[f]
       /\ \A g \in Files \ {f} : reached'[g] = reached[g]
  <2>1. r + 1 \in Nat
    BY <1>2
  <2> QED BY <2>1, <1>1, <1>2, ReachesRight
<1>11. TypeOK'
  BY <1>1, <1>2, <1>7, <1>8, <1>9, <1>10, <1>10a DEF TypeOK
<1>12. /\ ChainsApart' /\ Free' \subseteq Free /\ chain'[f] # <<>>
       /\ \A g \in Files : chain[g] # <<>> => chain'[g] # <<>>
  BY <1>2, <1>6, GrownApart
<1>13. /\ \A g \in Files \ {f} : chain'[g] = chain[g]
       /\ r + 1 < Len(chain'[f]) * BlockSize
       /\ Len(chain[f]) * BlockSize \in Nat /\ Len(chain'[f]) * BlockSize \in Nat
       /\ Len(chain[f]) * BlockSize <= Len(chain'[f]) * BlockSize
  <2>1. /\ \A g \in Files \ {f} : chain'[g] = chain[g]
        /\ r + 1 < Len(chain'[f]) * BlockSize
    BY <1>6 DEF Grown
  <2>2. r + 1 \in Nat
    BY <1>2
  <2>3. /\ Len(chain[f]) * BlockSize \in Nat /\ Len(chain'[f]) * BlockSize \in Nat
        /\ Len(chain[f]) * BlockSize <= Len(chain'[f]) * BlockSize
    BY <1>2, <1>6, <2>2, RoomGrows
  <2> QED BY <2>1, <2>3
<1>14. NoTrace'
  BY <1>1, <1>2, <1>8, <1>9, <1>12, <1>13, <1>10a DEF FileInv, NoTrace
<1>15. FreeClean'
  <2> SUFFICES ASSUME NEW b \in Free' PROVE content'[b] = ZeroBlock
    BY DEF FreeClean
  <2>1. b \in Free /\ b \in Blocks /\ b # call.block
    BY <1>2, <1>12 DEF Free
  <2>2. content'[b] = content[b]
    BY <2>1, <1>2, <1>7 DEF TypeOK
  <2> QED BY <2>1, <2>2 DEF FileInv, FreeClean
<1>16. size \in Nat /\ size >= r - call.done + Len(call.data)
       /\ (size = r - call.done + Len(call.data) \/ size < Len(chain[f]) * BlockSize)
  BY <1>1, <1>2 DEF FileInv, LengthAhead, File
\* The end of the write, in terms of what is still to be done.
<1>17. call' # NoCall =>
         /\ call'.op = "write" /\ call'.on = f /\ call'.data = call.data
         /\ call'.done = call.done + 1 /\ call.done + 1 < Len(call.data)
         /\ call'.block = BlockOf(chain'[f], r + 1)
         /\ \/ call'.buffer = content'[call'.block]
            \/ /\ content' = content /\ call'.buffer = buffer /\ call'.block = call.block
               /\ (r + 1) \div BlockSize = r \div BlockSize
  BY <1>2, <1>3, <1>7
<1>18. call' = NoCall => call.done + 1 = Len(call.data)
  BY <1>7 DEF NoCall
<1>19. BlockAtHand'
  BY <1>1, <1>2, <1>8, <1>12, <1>17 DEF BlockAtHand, Working, NoCall
<1>20. LengthAhead'
  <2> SUFFICES ASSUME call'.op = "write"
               PROVE  /\ call'.done < Len(call'.data)
                      /\ size >= (r + 1) - (call.done + 1) + Len(call.data)
                      /\ \/ size = (r + 1) - (call.done + 1) + Len(call.data)
                         \/ size < Len(chain'[f]) * BlockSize
    BY <1>8, <1>17 DEF LengthAhead, NoCall
  <2>1. (r + 1) - (call.done + 1) + Len(call.data) = r - call.done + Len(call.data)
    <3>1. r \in Nat /\ call.done \in Nat /\ Len(call.data) \in Nat
      BY <1>2, <1>3
    <3> QED BY <3>1, SameEnd
  <2>2. size < Len(chain[f]) * BlockSize => size < Len(chain'[f]) * BlockSize
    BY <1>13, <1>16
  <2>3. call'.done < Len(call'.data)
    BY <1>17 DEF NoCall
  <2> QED BY <2>1, <2>2, <2>3, <1>16
<1>21. BufferRight'
  <2> SUFFICES ASSUME call' # NoCall
               PROVE  \A x \in Offsets :
                         \/ call'.buffer[x] = content'[call'.block][x]
                         \/ \E p \in Dropped(f)' : p % BlockSize = x
    BY <1>17 DEF BufferRight, NoCall
  <2>1. CASE call'.buffer = content'[call'.block]
    BY <2>1
  <2>2. CASE /\ content' = content /\ call'.buffer = buffer /\ call'.block = call.block
             /\ (r + 1) \div BlockSize = r \div BlockSize
    <3>1. Dropped(f)' = {p \in r - call.done .. r : p \div BlockSize = r \div BlockSize}
      <4>1. /\ file'[f].fp - call'.done = r - call.done /\ file'[f].fp - 1 = r
            /\ file'[f].fp \div BlockSize = r \div BlockSize
        BY <1>2, <1>8, <1>17, <2>2
      <4>2. f' = f
        BY <1>17, <2>2
      <4> QED BY <4>1, <4>2 DEF Dropped
    <3>2. Dropped(f) = {p \in r - call.done .. r - 1 : p \div BlockSize = r \div BlockSize}
      BY DEF Dropped
    <3>3. r \in Dropped(f)' /\ \A p \in Dropped(f) : p \in Dropped(f)'
      BY <1>2, <3>1, <3>2
    <3> SUFFICES ASSUME NEW x \in Offsets, buffer[x] # content[call.block][x]
                 PROVE  \E p \in Dropped(f)' : p % BlockSize = x
      BY <2>2
    <3>4. CASE x = o
      BY <3>3, <3>4 DEF o
    <3>5. CASE x # o
      <4>1. call.buffer[x] # content[call.block][x]
        BY <3>5, <1>4
      <4>2. PICK p \in Dropped(f) : p % BlockSize = x
        BY <4>1, <1>1 DEF FileInv, BufferRight
      <4> QED BY <4>2, <3>3
    <3> QED BY <3>4, <3>5
  <2> QED BY <2>1, <2>2, <1>17
<1>22. Covered'
  <2> SUFFICES ASSUME NEW g \in Files, chain'[g] # <<>>
               PROVE  LET room == Len(chain'[g]) * BlockSize IN
                      /\ length'[g] < room
                      /\ Opened(g)' => /\ file'[g].fp < room
                                       /\ file'[g].file_size < room
                                          \/ (call'.op = "write" /\ call'.on = g)
    BY DEF Covered
  <2>1. CASE g = f
    <3>1. length[f] < Len(chain[f]) * BlockSize /\ length[f] \in Nat
      BY <1>2 DEF FileInv, Covered, TypeOK
    <3>2. length'[f] < Len(chain'[f]) * BlockSize
      BY <3>1, <1>1, <1>13
    <3>3. call' = NoCall => size < Len(chain'[f]) * BlockSize
      BY <1>2, <1>3, <1>13, <1>16, <1>18
    <3> QED BY <2>1, <3>2, <3>3, <1>8, <1>13, <1>17
  <2>2. CASE g # f
    BY <2>2, <1>1, <1>2, <1>8, <1>13 DEF FileInv, Covered
  <2> QED BY <2>1, <2>2
<1>23. LengthKept'
  <2> SUFFICES ASSUME NEW g \in Files, chain'[g] # <<>> PROVE LengthTold(g)'
    BY <1>1 DEF LengthKept
  <2>1. Size(g)' = Size(g)
    BY <1>1, <1>8 DEF file_length, Size
  <2>2. CASE g = f
    <3>1. Size(f) = size /\ LengthTold(f) /\ reached[f] \in Nat /\ reached'[f] \in Nat
      BY <1>2, <1>10a DEF FileInv, LengthKept, Size, file_length, TypeOK
    <3>2. f \notin failed => \A p \in Reach : written'[f][p] # Hole => p < size
      <4>1. r < size
        BY <1>2, <1>3, <1>16
      <4> QED BY <4>1, <3>1, <1>9 DEF LengthTold
    <3>3. CASE size <= reached[f]
      <4>1. size <= reached'[f]
        BY <3>1, <3>3, <1>16, <1>10a
      <4> QED BY <4>1, <2>1, <2>2, <3>1, <3>2, <1>1, <1>8, <1>10a DEF LengthTold
    <3>4. CASE size = r - call.done + Len(call.data) /\ call' = NoCall
      <4>1. size = r + 1
        BY <3>4, <1>2, <1>3, <1>18
      <4> QED BY <4>1, <2>1, <2>2, <3>1, <3>2, <1>1, <1>8, <1>10a DEF LengthTold
    <3>5. CASE size = r - call.done + Len(call.data) /\ call' # NoCall
      <4>1. size = file'[f].fp - call'.done + Len(call'.data)
        <5>1. r \in Nat /\ call.done \in Nat /\ Len(call.data) \in Nat
          BY <1>2, <1>3
        <5>2. /\ file'[f].fp = r + 1 /\ call'.done = call.done + 1
              /\ Len(call'.data) = Len(call.data)
          BY <3>5, <1>8, <1>17
        <5>3. (r + 1) - (call.done + 1) + Len(call.data) = r - call.done + Len(call.data)
          BY <5>1, SameEnd
        <5> QED BY <3>5, <5>2, <5>3
      <4> QED BY <4>1, <3>5, <2>1, <2>2, <3>1, <3>2, <1>1, <1>8, <1>17, <1>10a DEF LengthTold
    <3> QED BY <3>1, <3>3, <3>4, <3>5 DEF LengthTold
  <2>3. CASE g # f
    <3>1. LengthTold(g)
      BY <2>3, <1>2, <1>13 DEF FileInv, LengthKept
    <3> QED BY <2>1, <2>3, <3>1, <1>1, <1>8, <1>9, <1>10a, ToldKept
  <2> QED BY <2>2, <2>3
<1>24. ReadsBack' /\ NothingBehind'
  <2>1. NothingBehind /\ ReadsBack /\ FreeClean
    BY DEF FileInv
  <2>2. \A b \in Free : Shown(b)' = ZeroBlock
    BY <1>2, <1>7, <2>1 DEF FreeClean, Free
  <2>3. \A g \in Files : \A q \in Reach :
            q >= Len(chain[g]) * BlockSize => written'[g][q] = Hole
    <3> SUFFICES ASSUME NEW q \in Reach, q >= Len(chain[f]) * BlockSize
                 PROVE  written'[f][q] = Hole
      BY <1>9, <2>1 DEF NothingBehind
    <3>1. q \in Int /\ q # r
      BY <1>2, <1>13, GeometryAssumption DEF Reach
    <3> QED BY <3>1, <1>9, <2>1, <1>2 DEF NothingBehind
  <2>4. ASSUME NEW g \in Files, NEW q \in 0 .. Len(chain[g]) * BlockSize - 1,
               NEW b \in Blocks, b = BlockOf(chain[g], q)
        PROVE  \/ written'[g][q] = written[g][q]
                  /\ Shown(b)'[q % BlockSize] = Shown(b)[q % BlockSize]
               \/ Shown(b)'[q % BlockSize] = written'[g][q] /\ written'[g][q] \in Bytes
    <3>1. /\ b # call.block => Shown(b) = content[b] /\ Shown(b)' = content[b]
          /\ b = call.block => Shown(b) = call.buffer /\ Shown(b)' = buffer
      BY <1>1, <1>7 DEF Shown
    <3>2. Len(chain[g]) * BlockSize \in Nat
      BY <1>2, GeometryAssumption DEF TypeOK
    <3>3. q \in Nat /\ q < Len(chain[g]) * BlockSize
      BY <3>2
    <3>4. q \in Reach /\ q % BlockSize \in Offsets
      BY <1>2, <3>3, InReach, Division
    <3>5. CASE g # f
      <4>1. b \in Elements(chain[g])
        BY <3>3, <2>4, <1>2, BlockOfPosition
      <4>2. b # call.block
        BY <4>1, <3>5, <1>2, Disjoint
      <4> QED BY <4>2, <3>1, <3>5, <1>9
    <3>6. CASE g = f /\ q = r
      <4>1. b = call.block /\ q % BlockSize = o
        BY <3>6, <2>4, <1>2 DEF o
      <4>2. Shown(b)'[q % BlockSize] = byte
        BY <4>1, <3>1, <1>4
      <4> QED BY <4>2, <3>6, <1>3, <1>9
    <3>7. CASE g = f /\ q # r /\ b # call.block
      BY <3>7, <3>1, <3>4, <1>9
    <3>8. CASE g = f /\ q # r /\ b = call.block
      <4>1. /\ q \div BlockSize + 1 \in 1 .. Len(chain[f])
            /\ r \div BlockSize + 1 \in 1 .. Len(chain[f])
        BY <3>3, <3>8, <1>2, BlockOfPosition
      <4>2. chain[f][q \div BlockSize + 1] = chain[f][r \div BlockSize + 1]
        BY <3>8, <2>4, <1>2 DEF BlockOf
      <4>3. q \div BlockSize + 1 = r \div BlockSize + 1
        BY <4>1, <4>2, <1>2 DEF ChainsApart
      <4>4. q \div BlockSize = r \div BlockSize
        <5>1. q \div BlockSize \in Nat /\ r \div BlockSize \in Nat
          BY <3>3, <1>2, Division
        <5> QED BY <4>3, <5>1
      <4>5. q % BlockSize # o
        BY <4>4, <3>3, <3>8, <1>2, SameBlock DEF o
      <4> QED BY <4>5, <3>1, <3>4, <3>8, <1>4, <1>9
    <3> QED BY <3>5, <3>6, <3>7, <3>8
  <2>5. r + 1 \in Nat
    BY <1>2
  <2> QED BY <1>2, <1>6, <1>11, <2>1, <2>2, <2>3, <2>4, <2>5, ReadsKept
<1> QED BY <1>11, <1>12, <1>14, <1>15, <1>19, <1>20, <1>21, <1>22, <1>23, <1>24 DEF FileInv

-----------------------------------------------------------------------------
(* Theorems *)

LEMMA NextFileInv == FileInv /\ [Next]_vars => FileInv'
<1> SUFFICES ASSUME FileInv, [Next]_vars PROVE FileInv'
  OBVIOUS
<1>1. ASSUME NEW f \in Files, create_file(f) PROVE FileInv'
  BY <1>1, create_fileInv
<1>2. ASSUME NEW f \in Files, close_file(f) PROVE FileInv'
  BY <1>2, close_fileInv
<1>3. ASSUME NEW f \in Files, delete_file(f) PROVE FileInv'
  BY <1>3, delete_fileInv
<1>4. ASSUME NEW f \in Files, Clobber(f) PROVE FileInv'
  BY <1>4, ClobberInv
<1>5. ASSUME NEW f \in Files, NEW mode \in {"READ_ONLY", "READ_WRITE"}, open_file(f, mode)
      PROVE FileInv'
  BY <1>5, open_fileInv
<1>6. ASSUME NEW f \in Files, NEW p \in Positions, seek_file(f, p) PROVE FileInv'
  BY <1>6, seek_fileInv
<1>7. ASSUME NEW f \in Files, write_file_refused(f) PROVE FileInv'
  BY <1>7, write_file_refusedInv
<1>8. ASSUME NEW f \in Files, NEW data \in Data, write_file(f, data) PROVE FileInv'
  BY <1>8, write_fileInv
<1>9. ASSUME NEW f \in Files, NEW count \in Counts, read_file(f, count) PROVE FileInv'
  BY <1>9, read_fileInv
<1>10. CASE WriteTooLong
  BY <1>10, WriteTooLongInv
<1>11. CASE WriteOutOfSpace
  BY <1>11, WriteOutOfSpaceInv
<1>12. CASE WriteByte
  BY <1>12, WriteByteInv
<1>13. CASE ReadEnd
  BY <1>13, ReadEndInv
<1>14. CASE ReadByte
  BY <1>14, ReadByteInv
<1>15. CASE UNCHANGED vars
  BY <1>15, StutterFileInv
<1> QED
  BY <1>1, <1>2, <1>3, <1>4, <1>5, <1>6, <1>7, <1>8, <1>9, <1>10, <1>11, <1>12, <1>13,
     <1>14, <1>15 DEF Next

\* Whatever the sizes of the disk, of its blocks and of the data, every step of every call
\* keeps the files apart, what is free clean, and the buffer of the call at work right.
THEOREM FileInvInvariant == Spec => []FileInv
BY InitFileInv, NextFileInv, PTL DEF Spec

\* The current position and the end of a file lie in its blocks: no call follows a chain
\* past its last block (get_block_of_byte_file).
THEOREM CoveredInvariant == Spec => []Covered
<1>1. FileInv => Covered
  BY DEF FileInv
<1> QED BY <1>1, FileInvInvariant, PTL

\* A read delivers what was stored last at its position, and zero where nothing was,
\* whichever calls came in between (read_file, write_file, seek_file, delete_file).
THEOREM ReadsBackInvariant == Spec => []ReadsBack
<1>1. FileInv => ReadsBack
  BY DEF FileInv
<1> QED BY <1>1, FileInvInvariant, PTL

\* Between calls, whatever was written, of no bytes even, and wherever it was sought, the
\* length of a file takes in every byte stored in it and ends no further than the furthest
\* position that a call moved to (write_file, seek_file, close_file).
THEOREM LengthRightInvariant == Spec => []LengthRight
<1>1. FileInv => LengthRight
  <2> SUFFICES ASSUME FileInv, Idle, NEW f \in Files, chain[f] # <<>>
               PROVE  /\ f \notin failed => \A p \in Reach : written[f][p] # Hole => p < Size(f)
                      /\ Size(f) <= reached[f]
    BY DEF LengthRight
  <2> QED BY IdleLength DEF LengthTold
<1> QED BY <1>1, FileInvInvariant, PTL

\* A step stores in the blocks of the file it works on only, and read_file, which writes
\* its buffer back to the disk, stores nothing new.
THEOREM OthersKeptAlways == Spec => OthersKept
<1> DEFINE Kept == /\ \A f \in Files : file'[f] = file[f] /\ chain'[f] = chain[f] =>
                        \A b \in Elements(chain[f]) : content'[b] = content[b]
                   /\ call.op = "read" => content' = content
<1>1. FileInv /\ [Next]_vars => [Kept]_vars
  <2> SUFFICES ASSUME FileInv, Next, content' # content PROVE Kept
    BY DEF vars
  <2>1. TypeOK /\ ChainsApart
    BY DEF FileInv
  <2>2. ASSUME NEW f \in Files, delete_file(f) PROVE Kept
    <3>1. call.op # "read" /\ chain[f] # <<>> /\ chain'[f] = <<>>
      BY <2>1, <2>2 DEF delete_file, Idle, NoCall, TypeOK
    <3>2. ASSUME NEW g \in Files, g # f, NEW b \in Elements(chain[g])
          PROVE  content'[b] = content[b]
      <4>1. b \in Blocks /\ b \notin Elements(chain[f])
        BY <2>1, <3>2, Disjoint
      <4> QED BY <4>1, <2>2 DEF delete_file
    <3> QED BY <3>1, <3>2
  <2>3. CASE WriteByte
    <3> DEFINE f == call.on
               r == file[f].fp
               o == r % BlockSize
               buffer == [call.buffer EXCEPT ![o] = call.data[call.done + 1]]
    <3>1. /\ call.op = "write" /\ Working
          /\ file' = [file EXCEPT ![f].fp = r + 1]
          /\ TurnBlock(f, r + 1, buffer, Len(call.data))
      BY <2>3 DEF WriteByte, Working
    <3>2. /\ f \in Files /\ file[f] \in File /\ r \in Nat /\ call.block \in Elements(chain[f])
      BY <3>1, AtWork
    <3>3. file'[f] # file[f]
      <4>1. file'[f].fp = r + 1
        BY <2>1, <3>1, <3>2, PositionMoves
      <4> QED BY <4>1, <3>2
    <3>4. content' = [content EXCEPT ![call.block] = buffer]
      BY <3>1 DEF TurnBlock, WriteBlock
    <3> HIDE DEF buffer
    <3>5. ASSUME NEW g \in Files, g # f, NEW b \in Elements(chain[g])
          PROVE  content'[b] = content[b]
      <4>1. b \in Blocks /\ b # call.block
        BY <2>1, <3>2, <3>5, Disjoint
      <4> QED BY <4>1, <3>4, <2>1 DEF TypeOK
    <3> QED BY <3>1, <3>3, <3>5
  <2>4. ~ ReadByte
    <3> SUFFICES ASSUME ReadByte PROVE content' = content
      OBVIOUS
    <3>1. call.op = "read" /\ Working /\ call.buffer = content[call.block]
      BY DEF ReadByte, Working, FileInv, BufferRight
    <3>2. content' = [content EXCEPT ![call.block] = call.buffer] \/ content' = content
      BY DEF ReadByte, TurnBlock, WriteBlock
    <3> QED BY <3>1, <3>2, <2>1 DEF TypeOK
  <2>5. \/ \E f \in Files : delete_file(f)
        \/ WriteByte
    BY <2>4 DEF Next, create_file, close_file, Clobber, open_file, seek_file, write_file_refused,
       write_file, read_file, WriteTooLong, WriteOutOfSpace, WriteFails, ReadEnd
  <2> QED BY <2>2, <2>3, <2>5
<1> QED BY <1>1, FileInvInvariant, PTL DEF Spec, OthersKept

=============================================================================
