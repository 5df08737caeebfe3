------------------------- MODULE SoftwareDiskProofs -------------------------
(***************************************************************************)
(* SoftwareDisk is whole whenever it is open, and implements BlockDevice,  *)
(* for disks, buffers and blocks of any size.                              *)
(***************************************************************************)
EXTENDS SoftwareDisk, WellFoundedInduction, TLAPS

LEMMA ZerosSeq ==
    ASSUME NEW n \in Nat
    PROVE  /\ Zeros(n) \in Seq(Data) /\ Len(Zeros(n)) = n
           /\ \A i \in 1 .. n : Zeros(n)[i] = Zero
BY DiskAssumption DEF Zeros

\* The blocks of the file and of the buffer, one after the other.
LEMMA Appended ==
    ASSUME NEW s \in Seq(Data), NEW n \in Nat
    PROVE  /\ s \o Zeros(n) \in Seq(Data) /\ Len(s \o Zeros(n)) = Len(s) + n
           /\ \A i \in 1 .. Len(s) + n :
                /\ i <= Len(s) => (s \o Zeros(n))[i] = s[i]
                /\ i > Len(s) => (s \o Zeros(n))[i] = Zero
<1> DEFINE z == Zeros(n)
<1>1. z \in Seq(Data) /\ Len(z) = n /\ \A i \in 1 .. n : z[i] = Zero
  BY ZerosSeq
<1> HIDE DEF z
<1>2. s \o z \in Seq(Data) /\ Len(s \o z) = Len(s) + n
  BY <1>1
<1>3. ASSUME NEW i \in 1 .. Len(s) + n
      PROVE  /\ i <= Len(s) => (s \o z)[i] = s[i]
             /\ i > Len(s) => (s \o z)[i] = Zero
  <2>1. Len(s) \in Nat /\ i \in Nat
    OBVIOUS
  <2>2. CASE i <= Len(s)
    BY <2>1, <2>2, <1>1
  <2>3. CASE i > Len(s)
    <3>1. i - Len(s) \in 1 .. n
      BY <2>1, <2>3
    <3> QED BY <2>1, <2>3, <3>1, <1>1
  <2> QED BY <2>1, <2>2, <2>3
<1> QED BY <1>2, <1>3 DEF z

LEMMA WholeSeq ==
    ASSUME TypeOK
    PROVE  /\ Whole \in Seq(Data) /\ Len(Whole) = Len(store) + pending
           /\ Len(Whole) \in Nat /\ Len(Whole) <= NumBlocks
<1>1. store \in Seq(Data) /\ pending \in Nat /\ Len(store) + pending <= NumBlocks
  BY DEF TypeOK
<1>2. Whole \in Seq(Data) /\ Len(Whole) = Len(store) + pending
  BY <1>1, Appended DEF Whole
<1>3. Len(store) \in Nat
  BY <1>1
<1> QED BY <1>1, <1>2, <1>3

\* The file ends with the last block that is written to it.
LEMMA FlushedLength ==
    ASSUME TypeOK
    PROVE  \E n \in Len(Whole) .. NumBlocks :
             /\ \A b \in stale : b < n
             /\ n > Len(Whole) => n - 1 \in stale
<1> DEFINE S == {n \in Len(Whole) .. NumBlocks : \A b \in stale : b < n}
<1>1. Len(Whole) \in Nat /\ Len(Whole) <= NumBlocks /\ NumBlocks \in Nat /\ stale \subseteq Blocks
  BY WholeSeq, DiskAssumption DEF TypeOK
<1>2. NumBlocks \in S
  BY <1>1 DEF Blocks
<1>3. S \in SUBSET Nat
  BY <1>1
<1> HIDE DEF S
<1>4. PICK n \in S : \A y \in S : ~ (<<y, n>> \in OpToRel(<, Nat))
  BY <1>2, <1>3, NatLessThanWellFounded, WFMin
<1>5. \A y \in S : ~ (y < n)
  BY <1>3, <1>4 DEF OpToRel
<1>6. n \in Len(Whole) .. NumBlocks /\ \A b \in stale : b < n
  BY <1>4 DEF S
<1>7. ASSUME n > Len(Whole) PROVE n - 1 \in stale
  <2>1. n - 1 \in Len(Whole) .. NumBlocks /\ n - 1 < n
    BY <1>1, <1>6, <1>7
  <2>2. n - 1 \notin S
    BY <2>1, <1>5
  <2>3. PICK b \in stale : ~ (b < n - 1)
    BY <2>1, <2>2 DEF S
  <2>4. b \in Nat /\ n \in Nat /\ b < n
    BY <2>3, <1>1, <1>6 DEF Blocks
  <2>5. b = n - 1
    BY <2>3, <2>4
  <2> QED BY <2>3, <2>5
<1> QED BY <1>6, <1>7

LEMMA FlushedSeq ==
    ASSUME TypeOK
    PROVE  /\ Flushed(stale) \in Seq(Data) /\ Len(Flushed(stale)) \in Len(Whole) .. NumBlocks
           /\ stale = {} => Flushed(stale) = Whole
<1> DEFINE n == CHOOSE n \in Len(Whole) .. NumBlocks :
                  /\ \A b \in stale : b < n
                  /\ n > Len(Whole) => n - 1 \in stale
<1>1. n \in Len(Whole) .. NumBlocks /\ (n > Len(Whole) => n - 1 \in stale)
  BY FlushedLength
<1> HIDE DEF n
<1>2. Len(Whole) \in Nat /\ Whole \in Seq(Data) /\ n \in Nat
  BY WholeSeq, <1>1
<1>3. Flushed(stale) =
        [i \in 1 .. n |-> IF i - 1 \in stale \/ i > Len(Whole) THEN Zero ELSE Whole[i]]
  BY DEF Flushed, n
<1>4. \A i \in 1 .. n : (IF i - 1 \in stale \/ i > Len(Whole) THEN Zero ELSE Whole[i]) \in Data
  BY <1>2, DiskAssumption
<1>5. Flushed(stale) \in [1 .. n -> Data]
  BY <1>3, <1>4
<1>6. Flushed(stale) \in Seq(Data) /\ Len(Flushed(stale)) = n
  BY <1>2, <1>5
<1>7. ASSUME stale = {} PROVE Flushed(stale) = Whole
  <2>1. n = Len(Whole)
    BY <1>1, <1>2, <1>7
  <2>2. Flushed(stale) = [i \in 1 .. Len(Whole) |-> Whole[i]]
    BY <1>2, <1>3, <1>7, <2>1
  <2>3. Whole = [i \in 1 .. Len(Whole) |-> Whole[i]]
    BY <1>2
  <2> QED BY <2>2, <2>3
<1> QED BY <1>1, <1>6, <1>7

LEMMA NothingBehind ==
    ASSUME NEW s \in Seq(Data)
    PROVE  s \o Zeros(0) = s
<1>1. Zeros(0) = << >>
  BY DEF Zeros
<1> QED BY <1>1

-----------------------------------------------------------------------------
(* The invariant *)

\* What the type invariant says of the file.
LEMMA FileTypes ==
    ASSUME TypeOK
    PROVE  /\ store \in Seq(Data) /\ Len(store) \in Nat /\ pending \in Nat
           /\ Len(store) + pending <= NumBlocks /\ NumBlocks \in Nat \ {0}
           /\ stale \subseteq Blocks /\ data \in Data /\ Zero \in Data
<1>1. store \in Seq(Data) /\ pending \in Nat /\ Len(store) + pending <= NumBlocks
      /\ stale \subseteq Blocks /\ data \in Data
  BY DEF TypeOK
<1> QED BY <1>1, DiskAssumption

LEMMA AbandonsTypes ==
    ASSUME TypeOK, Abandons
    PROVE  stale' \subseteq Blocks
BY FileTypes DEF Abandons, Blocks

\* The disk is all there when a read or a write gets at it.
LEMMA OpensWhole ==
    ASSUME DiskInv, Opens
    PROVE  /\ Len(Whole) = NumBlocks /\ Whole \in Seq(Data)
           /\ Disk = [b \in Blocks |-> Whole[b + 1]] /\ Disk # NoDisk
           /\ exists = TRUE /\ fp' = TRUE /\ formatting = FALSE
<1>1. TypeOK /\ OpenIsWhole
  BY DEF DiskInv
<1>2. exists \in BOOLEAN /\ fp \in BOOLEAN /\ formatting \in BOOLEAN
  BY <1>1 DEF TypeOK
<1>3. exists = TRUE /\ fp' = TRUE /\ formatting = FALSE
  BY <1>1, <1>2, Zenon DEF Opens, OpenIsWhole
<1>4. Len(Whole) = NumBlocks
  <2>1. CASE fp
    BY <1>1, <1>3, <2>1 DEF OpenIsWhole
  <2>2. CASE Len(store) = NumBlocks
    BY <1>1, <2>2, FileTypes, WholeSeq
  <2> QED BY <2>1, <2>2 DEF Opens
<1>5. Whole \in Seq(Data)
  BY <1>1, WholeSeq
<1>6. Disk = [b \in Blocks |-> Whole[b + 1]]
  BY <1>3, <1>4 DEF Disk
<1>7. [b \in Blocks |-> Whole[b + 1]] \in [0 .. NumBlocks - 1 -> Data]
  BY <1>4, <1>5, DiskAssumption DEF Blocks
<1>8. Disk # NoDisk
  BY <1>6, <1>7, DiskAssumption
<1> QED BY <1>3, <1>4, <1>5, <1>6, <1>8

LEMMA InitInv == Init => DiskInv
<1> SUFFICES ASSUME Init PROVE DiskInv
  OBVIOUS
<1>1. PICK n \in 0 .. NumBlocks : store \in [1 .. n -> Data]
  BY DEF Init
<1>2. store \in Seq(Data) /\ Len(store) + 0 <= NumBlocks
  BY <1>1, DiskAssumption
<1>3. /\ exists \in BOOLEAN /\ fp = FALSE /\ pending = 0 /\ stale = {} /\ formatting = FALSE
      /\ sderror = "SD_NONE" /\ data = Zero /\ broken = FALSE /\ (~ exists => store = << >>)
  BY DEF Init
<1>4. TypeOK
  BY <1>2, <1>3, DiskAssumption DEF TypeOK
<1>5. OpenIsWhole
  BY <1>3 DEF OpenIsWhole
<1> QED BY <1>4, <1>5 DEF DiskInv

\* A step after which no stream has anything in its buffer, or after which the file
\* is whole.
LEMMA ClosedStep ==
    ASSUME DiskInv, fp' = FALSE, formatting' = FALSE, pending' = 0, stale' \subseteq Blocks,
           stale' # {} => exists, exists' = exists, broken' = broken, data' = data,
           sderror' \in {"SD_NONE", "SD_INTERNAL_ERROR"},
           store' \in Seq(Data), Len(store') <= NumBlocks, ~ exists => store' = << >>
    PROVE  DiskInv'
<1>1. exists \in BOOLEAN /\ broken \in BOOLEAN /\ data \in Data
  BY DEF DiskInv, TypeOK
<1>2. Len(store') + 0 <= NumBlocks /\ 0 \in Nat
  BY DiskAssumption
<1>3. TypeOK'
  BY <1>1, <1>2 DEF TypeOK
<1>4. OpenIsWhole'
  BY DEF OpenIsWhole
<1> QED BY <1>3, <1>4 DEF DiskInv

\* A step of read_sd_block or write_sd_block with an open stream.
LEMMA OpenStep ==
    ASSUME DiskInv, Opens, UNCHANGED <<exists, stale, formatting>>,
           sderror' \in {"SD_NONE", "SD_ILLEGAL_BLOCK_NUMBER", "SD_INTERNAL_ERROR"},
           data' \in Data, broken' \in BOOLEAN,
           \/ UNCHANGED <<store, pending>>
           \/ pending' = 0 /\ store' \in Seq(Data) /\ Len(store') = NumBlocks
    PROVE  DiskInv'
<1>1. /\ Len(Whole) = NumBlocks /\ exists = TRUE /\ fp' = TRUE /\ formatting = FALSE
  BY OpensWhole
<1>2. TypeOK /\ OpenIsWhole
  BY DEF DiskInv
<1>3. Len(Whole') = NumBlocks
  <2>1. CASE UNCHANGED <<store, pending>>
    BY <2>1, <1>1 DEF Whole, Zeros
  <2>2. CASE pending' = 0 /\ store' \in Seq(Data) /\ Len(store') = NumBlocks
    BY <2>2, NothingBehind DEF Whole, Zeros
  <2> QED BY <2>1, <2>2
<1>4. store' \in Seq(Data) /\ pending' \in Nat /\ Len(store') + pending' <= NumBlocks
  BY <1>2, FileTypes
<1>5. TypeOK'
  BY <1>1, <1>2, <1>4 DEF TypeOK
<1>6. OpenIsWhole'
  BY <1>1, <1>3 DEF OpenIsWhole
<1> QED BY <1>5, <1>6 DEF DiskInv

LEMMA FormatInv ==
    ASSUME DiskInv, init_software_disk \/ InitBlock \/ InitReturns
    PROVE  DiskInv'
<1>1. TypeOK /\ OpenIsWhole
  BY DEF DiskInv
<1>2. CASE init_software_disk
  <2>1. /\ formatting' = TRUE /\ exists' = TRUE /\ store' = << >> /\ fp' = TRUE /\ pending' = 0
        /\ UNCHANGED <<sderror, data, broken>> /\ stale' \subseteq Blocks
    BY <1>1, <1>2, AbandonsTypes DEF init_software_disk
  <2>2. << >> \in Seq(Data) /\ Len(<< >>) + 0 <= NumBlocks
    BY DiskAssumption
  <2>3. TypeOK'
    BY <1>1, <2>1, <2>2 DEF TypeOK
  <2>4. OpenIsWhole'
    BY <2>1 DEF OpenIsWhole
  <2> QED BY <2>3, <2>4 DEF DiskInv
<1>3. CASE InitBlock
  <2>1. /\ formatting = TRUE /\ fp = TRUE /\ exists = TRUE /\ Len(Whole) < NumBlocks
        /\ UNCHANGED <<exists, fp, stale, formatting, sderror, data, broken>>
    <3>1. exists \in BOOLEAN /\ fp \in BOOLEAN /\ formatting \in BOOLEAN
      BY <1>1 DEF TypeOK
    <3> QED BY <1>1, <1>3, <3>1, Zenon DEF InitBlock, OpenIsWhole
  <2>2. \A i \in 1 .. Len(store) : store[i] = Zero
    BY <1>1, <2>1 DEF OpenIsWhole
  <2>3. \A i \in 1 .. Len(Whole) : Whole[i] = Zero
    <3>1. store \in Seq(Data) /\ pending \in Nat
      BY <1>1, FileTypes
    <3>2. /\ Len(Whole) = Len(store) + pending
          /\ \A i \in 1 .. Len(store) + pending :
               /\ i <= Len(store) => Whole[i] = store[i]
               /\ i > Len(store) => Whole[i] = Zero
      BY <3>1, Appended DEF Whole
    <3> HIDE DEF Whole
    <3>3. Len(store) \in Nat
      BY <3>1
    <3>4. ASSUME NEW i \in 1 .. Len(store) + pending PROVE Whole[i] = Zero
      <4>1. CASE i <= Len(store)
        BY <2>2, <3>1, <3>2, <3>3, <4>1
      <4>2. CASE i > Len(store)
        BY <3>2, <4>2
      <4> QED BY <3>1, <3>3, <4>1, <4>2
    <3> QED BY <3>2, <3>4
  <2>4. /\ store' \in Seq(Data) /\ pending' \in Nat /\ Len(store') + pending' <= NumBlocks
        /\ \A i \in 1 .. Len(store') : store'[i] = Zero
    <3>1. CASE pending' = pending + 1 /\ UNCHANGED store
      BY <1>1, <2>1, <2>2, <3>1, FileTypes, WholeSeq
    <3>2. CASE store' = Whole \o Zeros(1) /\ pending' = 0
      <4>1. Whole \in Seq(Data)
        BY <1>1, WholeSeq
      <4>2. /\ store' \in Seq(Data) /\ Len(store') = Len(Whole) + 1
            /\ \A i \in 1 .. Len(Whole) + 1 :
                 /\ i <= Len(Whole) => store'[i] = Whole[i]
                 /\ i > Len(Whole) => store'[i] = Zero
        BY <3>2, <4>1, Appended
      <4> QED BY <1>1, <2>1, <2>3, <3>2, <4>2, WholeSeq, DiskAssumption
    <3>3. CASE store' = Whole /\ pending' = 1
      BY <1>1, <2>1, <2>3, <3>3, WholeSeq, DiskAssumption
    <3> QED BY <1>3, <3>1, <3>2, <3>3 DEF InitBlock
  <2>5. TypeOK'
    BY <1>1, <2>1, <2>4 DEF TypeOK
  <2>6. OpenIsWhole'
    BY <2>1, <2>4 DEF OpenIsWhole
  <2> QED BY <2>5, <2>6 DEF DiskInv
<1>4. CASE InitReturns
  <2>1. /\ formatting' = FALSE /\ sderror' = "SD_NONE" /\ UNCHANGED <<host, fp, data, broken>>
        /\ Len(Whole) = NumBlocks
    BY <1>4 DEF InitReturns
  <2>2. Whole' = Whole
    BY <2>1 DEF host, Whole, Zeros
  <2>3. TypeOK'
    BY <1>1, <2>1 DEF TypeOK, host
  <2>4. fp = TRUE /\ exists = TRUE
    <3>1. exists \in BOOLEAN /\ fp \in BOOLEAN /\ formatting
      BY <1>1, <1>4 DEF TypeOK, InitReturns
    <3> QED BY <1>1, <3>1, Zenon DEF OpenIsWhole
  <2>5. OpenIsWhole'
    BY <2>1, <2>2, <2>4 DEF OpenIsWhole, host
  <2> QED BY <2>3, <2>5 DEF DiskInv
<1> QED BY <1>2, <1>3, <1>4

\* The calls that end without a stream, and the ends of the program.
LEMMA ClosedInv ==
    ASSUME DiskInv, InitOpenFails \/ InitFails \/ Exit \/ Crash
    PROVE  DiskInv'
<1>1. TypeOK /\ OpenIsWhole
  BY DEF DiskInv
<1>2. exists \in BOOLEAN /\ fp \in BOOLEAN /\ formatting \in BOOLEAN
  BY <1>1 DEF TypeOK
<1>3. /\ store \in Seq(Data) /\ Len(store) <= NumBlocks /\ stale \subseteq Blocks
      /\ pending \in Nat /\ NumBlocks \in Nat
  BY <1>1, FileTypes
<1>4. /\ ~ exists => store = << >> /\ pending = 0 /\ stale = {} /\ formatting = FALSE
  <2>1. ~ exists => store = << >> /\ ~ fp /\ stale = {}
    BY <1>1 DEF OpenIsWhole
  <2>2. ~ fp => ~ (pending > 0) /\ ~ formatting
    BY <1>1 DEF OpenIsWhole
  <2> QED BY <1>2, <1>3, <2>1, <2>2
<1>5. CASE InitOpenFails
  <2>1. /\ fp' = FALSE /\ formatting' = FALSE /\ pending' = 0 /\ sderror' = "SD_INTERNAL_ERROR"
        /\ exists' = exists /\ store' = store /\ data' = data /\ broken' = broken /\ Abandons
    BY <1>2, <1>5 DEF InitOpenFails
  <2>2. stale' \subseteq Blocks
    BY <1>1, <2>1, AbandonsTypes
  <2>3. ~ exists => stale' = {}
    BY <1>3, <1>4, <2>1 DEF Abandons
  <2> QED BY <1>3, <1>4, <2>1, <2>2, <2>3, ClosedStep
<1>6. CASE InitFails
  <2>1. /\ fp' = FALSE /\ formatting' = FALSE /\ pending' = 0 /\ sderror' = "SD_INTERNAL_ERROR"
        /\ UNCHANGED <<exists, stale, data, broken>>
    BY <1>6 DEF InitFails
  <2>2. PICK n \in 0 .. pending : store' = store \o Zeros(n)
    BY <1>6 DEF InitFails
  <2>3. store' \in Seq(Data) /\ Len(store') = Len(store) + n
    BY <1>3, <2>2, Appended
  <2>4. Len(store') <= NumBlocks
    BY <1>1, <2>2, <2>3, FileTypes
  <2>5. exists
    BY <1>2, <1>4, <1>6 DEF InitFails
  <2> QED BY <1>3, <2>1, <2>3, <2>4, <2>5, ClosedStep
<1>7. CASE Exit
  <2>1. /\ fp' = FALSE /\ formatting' = FALSE /\ pending' = 0 /\ sderror' = "SD_NONE"
        /\ stale' = {} /\ UNCHANGED <<exists, data, broken>> /\ store' = Flushed(stale)
    BY <1>7 DEF Exit, Restarted
  <2>2. store' \in Seq(Data) /\ Len(store') <= NumBlocks
    BY <1>1, <1>3, <2>1, FlushedSeq, WholeSeq
  <2>3. ~ exists => store' = << >>
    <3>1. ASSUME ~ exists PROVE store' = << >>
      <4>1. store' = Whole
        BY <1>1, <1>4, <2>1, <3>1, FlushedSeq
      <4> QED BY <1>3, <1>4, <3>1, <4>1, NothingBehind DEF Whole
    <3> QED BY <3>1
  <2> QED BY <2>1, <2>2, <2>3, ClosedStep
<1>8. CASE Crash
  <2>1. /\ fp' = FALSE /\ formatting' = FALSE /\ pending' = 0 /\ sderror' = "SD_NONE"
        /\ stale' = {} /\ UNCHANGED <<exists, data, broken>> /\ store' = store
    BY <1>8 DEF Crash, Restarted
  <2> QED BY <1>3, <1>4, <2>1, ClosedStep
<1> QED BY <1>5, <1>6, <1>7, <1>8

LEMMA BlockWritten ==
    ASSUME DiskInv, Opens, NEW b \in Blocks, NEW d \in Data
    PROVE  /\ [Whole EXCEPT ![b + 1] = d] \in Seq(Data)
           /\ Len([Whole EXCEPT ![b + 1] = d]) = NumBlocks
           /\ \A c \in Blocks : [Whole EXCEPT ![b + 1] = d][c + 1] =
                                  IF c = b THEN d ELSE Whole[c + 1]
<1>1. Len(Whole) = NumBlocks /\ Whole \in Seq(Data)
  BY OpensWhole
<1>2. \A c \in Blocks : c \in Int /\ c + 1 \in 1 .. Len(Whole)
  BY <1>1, DiskAssumption DEF Blocks
<1> QED BY <1>1, <1>2

LEMMA AccessInv ==
    ASSUME DiskInv,
           \/ OpenFails \/ NotInit \/ IllegalBlock \/ ReadFails \/ FlushFails
           \/ \E b \in Blocks : read_sd_block(b) \/ \E d \in Data : write_sd_block(b, d)
    PROVE  DiskInv'
<1>1. TypeOK /\ OpenIsWhole /\ data \in Data /\ broken \in BOOLEAN
  BY DEF DiskInv, TypeOK
<1>2. CASE OpenFails \/ NotInit
  <2>1. UNCHANGED <<host, fp, formatting, data, broken>>
        /\ sderror' \in {"SD_INTERNAL_ERROR", "SD_NOT_INIT"}
    BY <1>2 DEF OpenFails, NotInit
  <2>2. TypeOK'
    BY <1>1, <2>1 DEF TypeOK, host
  <2>3. OpenIsWhole'
    BY <1>1, <2>1 DEF OpenIsWhole, Whole, Zeros, host
  <2> QED BY <2>2, <2>3 DEF DiskInv
<1>3. CASE IllegalBlock
  BY <1>1, <1>3, OpenStep DEF IllegalBlock, host
<1>4. CASE FlushFails
  BY <1>1, <1>4, OpenStep DEF FlushFails, host
<1>5. CASE ReadFails
  BY <1>1, <1>5, OpenStep, OpensWhole DEF ReadFails, Seeks
<1>6. ASSUME NEW b \in Blocks, read_sd_block(b) PROVE DiskInv'
  <2>1. Opens /\ Seeks /\ store' = Whole /\ sderror' = "SD_NONE" /\ data' = Whole[b + 1]
        /\ UNCHANGED broken
    BY <1>6 DEF read_sd_block
  <2>2. Len(Whole) = NumBlocks /\ Whole \in Seq(Data)
    BY <2>1, OpensWhole
  <2>3. data' \in Data
    BY <2>1, <2>2, DiskAssumption DEF Blocks
  <2> QED BY <1>1, <2>1, <2>2, <2>3, OpenStep DEF Seeks
<1>7. ASSUME NEW b \in Blocks, NEW d \in Data, write_sd_block(b, d) PROVE DiskInv'
  <2>1. Opens /\ Seeks /\ store' = [Whole EXCEPT ![b + 1] = d] /\ sderror' = "SD_NONE"
        /\ UNCHANGED <<data, broken>>
    BY <1>7 DEF write_sd_block
  <2>2. store' \in Seq(Data) /\ Len(store') = NumBlocks
    BY <2>1, BlockWritten
  <2> QED BY <1>1, <2>1, <2>2, OpenStep DEF Seeks
<1> QED BY <1>2, <1>3, <1>4, <1>5, <1>6, <1>7

LEMMA NextInv == DiskInv /\ [Next]_vars => DiskInv'
<1> SUFFICES ASSUME DiskInv, [Next]_vars PROVE DiskInv'
  OBVIOUS
<1>1. CASE UNCHANGED vars
  BY <1>1 DEF vars, host, DiskInv, TypeOK, OpenIsWhole, Whole, Zeros
<1> QED BY <1>1, FormatInv, ClosedInv, AccessInv DEF Next

\* An open disk is all there, whatever failed or crashed while it was formatted.
THEOREM DiskInvHolds == Spec => []DiskInv
BY InitInv, NextInv, PTL DEF Spec

-----------------------------------------------------------------------------
(* The refinement *)

Fresh == ~ formatting /\ pending > 0

\* What the device is after a step that leaves nothing in a buffer.
LEMMA DiskAfter ==
    ASSUME store' \in Seq(Data), pending' = 0, formatting' = FALSE
    PROVE  /\ Disk' = IF Len(store') = NumBlocks THEN [b \in Blocks |-> store'[b + 1]] ELSE NoDisk
           /\ ~ Fresh'
<1>1. Whole' = store'
  BY NothingBehind DEF Whole, Zeros
<1> QED BY <1>1 DEF Disk, Fresh, Blocks

LEMMA AccessMaps ==
    ASSUME DiskInv, NEW b \in Blocks
    PROVE  /\ read_sd_block(b) => Device!Get(b)
           /\ \A d \in Data : write_sd_block(b, d) => Device!Put(b, d)
<1>1. b \in Device!Blocks
  BY DEF Blocks, Device!Blocks
<1>2. ASSUME read_sd_block(b) PROVE Device!Get(b)
  <2>1. Opens /\ Seeks /\ store' = Whole /\ sderror' = "SD_NONE" /\ data' = Whole[b + 1]
    BY <1>2 DEF read_sd_block
  <2>2. /\ Len(Whole) = NumBlocks /\ Whole \in Seq(Data) /\ formatting = FALSE
        /\ Disk = [c \in Blocks |-> Whole[c + 1]] /\ Disk # NoDisk
    BY <2>1, OpensWhole
  <2>3. formatting' = FALSE /\ pending' = 0
    BY <2>1, <2>2 DEF Seeks
  <2>4. Disk' = Disk /\ ~ Fresh'
    BY <2>1, <2>2, <2>3, DiskAfter
  <2>5. data' = Disk[b]
    BY <2>1, <2>2
  <2> QED BY <1>1, <2>1, <2>2, <2>3, <2>4, <2>5 DEF Device!Get, Fresh
<1>3. ASSUME NEW d \in Data, write_sd_block(b, d) PROVE Device!Put(b, d)
  <2>1. Opens /\ Seeks /\ store' = [Whole EXCEPT ![b + 1] = d] /\ sderror' = "SD_NONE"
        /\ UNCHANGED data
    BY <1>3 DEF write_sd_block
  <2>2. /\ formatting = FALSE /\ Disk = [c \in Blocks |-> Whole[c + 1]] /\ Disk # NoDisk
    BY <2>1, OpensWhole
  <2>3. formatting' = FALSE /\ pending' = 0
    BY <2>1, <2>2 DEF Seeks
  <2>4. /\ store' \in Seq(Data) /\ Len(store') = NumBlocks
        /\ \A c \in Blocks : store'[c + 1] = IF c = b THEN d ELSE Whole[c + 1]
    BY <2>1, BlockWritten
  <2>5. Disk' = [c \in Blocks |-> store'[c + 1]] /\ ~ Fresh'
    BY <2>3, <2>4, DiskAfter
  <2>6. Disk' = [Disk EXCEPT ![b] = d]
    BY <2>2, <2>4, <2>5
  <2> QED BY <1>1, <2>1, <2>2, <2>3, <2>5, <2>6 DEF Device!Put, Fresh
<1> QED BY <1>2, <1>3

\* Calls that are refused.
LEMMA RefusedMaps ==
    ASSUME DiskInv, OpenFails \/ NotInit \/ IllegalBlock \/ ReadFails
    PROVE  Device!Refused
<1>1. TypeOK /\ OpenIsWhole
  BY DEF DiskInv
<1>2. CASE OpenFails \/ NotInit
  <2>1. /\ formatting = FALSE /\ fp = FALSE
        /\ formatting' = formatting /\ store' = store /\ pending' = pending /\ data' = data
    <3>1. formatting \in BOOLEAN /\ fp \in BOOLEAN
      BY <1>1 DEF TypeOK
    <3> QED BY <1>2, <3>1, Zenon DEF OpenFails, NotInit, host
  <2>2. Disk' = Disk /\ Fresh' = Fresh
    BY <2>1 DEF Disk, Fresh, Whole, Zeros
  <2>3. pending = 0
    BY <1>1, <2>1, FileTypes DEF OpenIsWhole
  <2>4. NotInit => Disk = NoDisk
    BY <1>1, <2>3, FileTypes, NothingBehind DEF NotInit, Disk, Whole
  <2>5. \/ sderror' = "SD_INTERNAL_ERROR"
        \/ Disk = NoDisk /\ sderror' = "SD_NOT_INIT"
    BY <1>2, <2>4 DEF OpenFails, NotInit
  <2> QED BY <2>1, <2>2, <2>5 DEF Device!Refused, Fresh
<1>3. CASE IllegalBlock
  <2>1. /\ Opens /\ sderror' = "SD_ILLEGAL_BLOCK_NUMBER"
        /\ formatting' = formatting /\ store' = store /\ pending' = pending /\ data' = data
    BY <1>3 DEF IllegalBlock, host
  <2>2. Disk' = Disk /\ Fresh' = Fresh
    BY <2>1 DEF Disk, Fresh, Whole, Zeros
  <2>3. Disk # NoDisk /\ formatting = FALSE
    BY <2>1, OpensWhole
  <2> QED BY <2>1, <2>2, <2>3 DEF Device!Refused, Fresh
<1>4. CASE ReadFails
  <2>1. Opens /\ Seeks /\ store' = Whole /\ sderror' = "SD_INTERNAL_ERROR" /\ UNCHANGED data
    BY <1>4 DEF ReadFails
  <2>2. /\ Len(Whole) = NumBlocks /\ Whole \in Seq(Data) /\ formatting = FALSE
        /\ Disk = [c \in Blocks |-> Whole[c + 1]]
    BY <2>1, OpensWhole
  <2>3. formatting' = FALSE /\ pending' = 0
    BY <2>1, <2>2 DEF Seeks
  <2>4. Disk' = Disk /\ ~ Fresh'
    BY <2>1, <2>2, <2>3, DiskAfter
  <2> QED BY <2>1, <2>2, <2>3, <2>4 DEF Device!Refused, Fresh
<1> QED BY <1>2, <1>3, <1>4

LEMMA FormatMaps ==
    ASSUME DiskInv, init_software_disk \/ InitOpenFails \/ InitBlock \/ InitFails \/ InitReturns
    PROVE  Device!BeginFormat \/ Device!Format \/ Device!FormatFails
<1>1. TypeOK /\ OpenIsWhole /\ store \in Seq(Data) /\ pending \in Nat /\ NumBlocks \in Nat
      /\ Len(store) \in Nat /\ Len(store) + pending <= NumBlocks
      /\ formatting \in BOOLEAN
  BY FileTypes DEF DiskInv, TypeOK
<1>2. CASE init_software_disk \/ InitBlock
  <2>1. formatting' = TRUE /\ UNCHANGED <<sderror, data>>
    BY <1>1, <1>2, Zenon DEF init_software_disk, InitBlock
  <2>2. Disk' = NoDisk /\ ~ Fresh'
    BY <2>1 DEF Disk, Fresh
  <2> QED BY <2>1, <2>2 DEF Device!BeginFormat, Fresh
<1>3. CASE InitOpenFails
  <2>1. /\ formatting = FALSE /\ formatting' = FALSE /\ sderror' = "SD_INTERNAL_ERROR"
        /\ store' = store /\ pending' = 0 /\ data' = data
    BY <1>1, <1>3, Zenon DEF InitOpenFails
  <2>2. Disk' = (IF Len(store) = NumBlocks THEN [b \in Blocks |-> store[b + 1]] ELSE NoDisk)
        /\ ~ Fresh'
    BY <1>1, <2>1, DiskAfter
  <2>3. Disk' = NoDisk \/ Disk' = Disk
    <3>1. CASE Len(store) = NumBlocks
      <4>1. pending = 0
        BY <1>1, <3>1
      <4>2. Whole = store
        BY <1>1, <4>1, NothingBehind DEF Whole
      <4> QED BY <2>1, <2>2, <3>1, <4>2 DEF Disk
    <3>2. CASE Len(store) # NumBlocks
      BY <2>2, <3>2
    <3> QED BY <3>1, <3>2
  <2> QED BY <2>1, <2>2, <2>3 DEF Device!FormatFails, Fresh
<1>4. CASE InitFails
  <2>1. formatting' = FALSE /\ sderror' = "SD_INTERNAL_ERROR" /\ pending' = 0 /\ data' = data
        /\ Len(Whole) < NumBlocks
    BY <1>4 DEF InitFails
  <2>2. PICK n \in 0 .. pending : store' = store \o Zeros(n)
    BY <1>4 DEF InitFails
  <2>3. store' \in Seq(Data) /\ Len(store') = Len(store) + n
    BY <1>1, <2>2, Appended
  <2>4. Len(store') # NumBlocks
    BY <1>1, <2>1, <2>2, <2>3, WholeSeq
  <2>5. Disk' = NoDisk /\ ~ Fresh'
    BY <2>1, <2>3, <2>4, DiskAfter
  <2> QED BY <2>1, <2>5 DEF Device!FormatFails, Fresh
<1>5. CASE InitReturns
  <2>1. /\ formatting = TRUE /\ formatting' = FALSE /\ sderror' = "SD_NONE" /\ data' = data
        /\ Len(Whole) = NumBlocks /\ store' = store /\ pending' = pending
    BY <1>1, <1>5, Zenon DEF InitReturns, host
  <2>2. Whole' = Whole
    BY <2>1 DEF Whole, Zeros
  <2>3. Disk' = [b \in Blocks |-> Whole[b + 1]]
    BY <2>1, <2>2 DEF Disk, Blocks
  <2>4. \A b \in Blocks : Whole[b + 1] = Zero
    <3>1. \A i \in 1 .. Len(store) : store[i] = Zero
      BY <1>1, <2>1 DEF OpenIsWhole
    <3>2. Len(Whole) = Len(store) + pending
      BY <1>1, WholeSeq
    <3>3. \A i \in 1 .. Len(store) + pending :
            /\ i <= Len(store) => Whole[i] = store[i]
            /\ i > Len(store) => Whole[i] = Zero
      BY <1>1, Appended DEF Whole
    <3> HIDE DEF Whole
    <3>4. ASSUME NEW b \in Blocks PROVE Whole[b + 1] = Zero
      <4>1. b + 1 \in 1 .. Len(store) + pending
        BY <1>1, <2>1, <3>2 DEF Blocks
      <4>2. CASE b + 1 <= Len(store)
        BY <1>1, <3>1, <3>3, <4>1, <4>2
      <4>3. CASE b + 1 > Len(store)
        BY <3>3, <4>1, <4>3
      <4> QED BY <1>1, <4>1, <4>2, <4>3
    <3> QED BY <3>4
  <2>5. Disk' = [b \in Device!Blocks |-> Zero]
    BY <2>3, <2>4 DEF Blocks, Device!Blocks
  <2> QED BY <2>1, <2>5 DEF Device!Format
<1> QED BY <1>2, <1>3, <1>4, <1>5

\* The program ends: by exit, with no abandoned stream, or by a crash.
LEMMA EndMaps ==
    ASSUME DiskInv, (Exit /\ stale = {}) \/ Crash
    PROVE  Device!Restart
<1>1. TypeOK /\ OpenIsWhole /\ store \in Seq(Data) /\ pending \in Nat /\ NumBlocks \in Nat
      /\ Len(store) \in Nat /\ Len(store) + pending <= NumBlocks
      /\ formatting \in BOOLEAN
  BY FileTypes DEF DiskInv, TypeOK
<1>2. formatting' = FALSE /\ pending' = 0 /\ sderror' = "SD_NONE" /\ data' = data
  BY DEF Exit, Crash, Restarted
<1>3. CASE Exit /\ stale = {}
  <2>1. formatting = FALSE /\ store' = Whole
    BY <1>1, <1>3, FlushedSeq DEF Exit
  <2>2. Whole \in Seq(Data)
    BY <1>1, WholeSeq
  <2>3. Disk' = Disk /\ ~ Fresh'
    BY <1>2, <2>1, <2>2, DiskAfter DEF Disk
  <2> QED BY <1>2, <2>3 DEF Device!Restart, Fresh
<1>4. CASE Crash
  <2>1. store' = store
    BY <1>4 DEF Crash
  <2>2. Disk' = (IF Len(store) = NumBlocks THEN [b \in Blocks |-> store[b + 1]] ELSE NoDisk)
        /\ ~ Fresh'
    BY <1>1, <1>2, <2>1, DiskAfter
  <2>3. CASE formatting = TRUE
    <3>1. Disk = NoDisk
      BY <2>3 DEF Disk
    <3>2. CASE Len(store) = NumBlocks
      <4>1. \A i \in 1 .. Len(store) : store[i] = Zero
        BY <1>1, <2>3 DEF OpenIsWhole
      <4>2. \A b \in Blocks : store[b + 1] = Zero
        BY <1>1, <3>2, <4>1 DEF Blocks
      <4>3. Disk' = [b \in Device!Blocks |-> Zero]
        BY <2>2, <3>2, <4>2 DEF Blocks, Device!Blocks
      <4> QED BY <1>2, <2>2, <2>3, <4>3 DEF Device!Restart, Fresh
    <3>3. CASE Len(store) # NumBlocks
      BY <1>2, <2>2, <3>1, <3>3 DEF Device!Restart, Fresh
    <3> QED BY <3>2, <3>3
  <2>4. CASE formatting = FALSE /\ pending = 0
    <3>1. Whole = store
      BY <1>1, <2>4, NothingBehind DEF Whole
    <3>2. Disk' = Disk
      BY <2>2, <2>4, <3>1 DEF Disk
    <3> QED BY <1>2, <2>2, <3>2 DEF Device!Restart, Fresh
  <2>5. CASE formatting = FALSE /\ pending > 0
    <3>1. Disk' = NoDisk
      BY <1>1, <2>2, <2>5
    <3>2. ~ formatting /\ pending > 0 /\ ~ formatting'
      BY <1>2, <2>5
    <3> QED BY <1>2, <2>2, <3>1, <3>2, Zenon DEF Device!Restart, Fresh
  <2>6. formatting = TRUE \/ formatting = FALSE
    BY <1>1, Zenon
  <2>7. pending = 0 \/ pending > 0
    BY <1>1
  <2> QED BY <2>3, <2>4, <2>5, <2>6, <2>7
<1> QED BY <1>3, <1>4

LEMMA NextMaps ==
    ASSUME DiskInv, [Next]_vars
    PROVE  broken' \/ (Exit /\ stale # {}) \/ ActsAsDevice
<1>1. \A b \in Blocks : /\ read_sd_block(b) => Device!Get(b)
                        /\ \A d \in Data : write_sd_block(b, d) => Device!Put(b, d)
  BY AccessMaps
<1>2. CASE UNCHANGED vars
  <2>1. UNCHANGED Device!vars
    BY <1>2 DEF vars, host, Device!vars, Disk, Whole, Zeros
  <2> QED BY <1>1, <2>1 DEF ActsAsDevice
<1>3. CASE init_software_disk \/ InitOpenFails \/ InitBlock \/ InitFails \/ InitReturns
  <2>1. Device!Next
    BY <1>3, FormatMaps DEF Device!Next
  <2> QED BY <1>1, <2>1 DEF ActsAsDevice
<1>4. CASE OpenFails \/ NotInit \/ IllegalBlock \/ ReadFails
  <2>1. Device!Next
    BY <1>4, RefusedMaps DEF Device!Next
  <2> QED BY <1>1, <2>1 DEF ActsAsDevice
<1>5. CASE \E b \in Blocks : read_sd_block(b) \/ \E d \in Data : write_sd_block(b, d)
  <2>1. Device!Next
    BY <1>1, <1>5 DEF Device!Next, Device!Blocks, Blocks
  <2> QED BY <1>1, <2>1 DEF ActsAsDevice
<1>6. CASE FlushFails
  BY <1>6 DEF FlushFails
<1>7. CASE Exit \/ Crash
  <2>1. (Exit /\ stale # {}) \/ Device!Next
    BY <1>7, EndMaps DEF Device!Next
  <2> QED BY <1>1, <2>1 DEF ActsAsDevice
<1> QED BY <1>2, <1>3, <1>4, <1>5, <1>6, <1>7 DEF Next

LEMMA InitMaps == Init => Device!Init
<1> SUFFICES ASSUME Init PROVE Device!Init
  OBVIOUS
<1>1. DiskInv
  BY InitInv
<1>2. formatting = FALSE /\ pending = 0 /\ sderror = "SD_NONE" /\ data = Zero
  BY DEF Init
<1>3. store \in Seq(Data) /\ Whole = store
  BY <1>1, <1>2, FileTypes, NothingBehind DEF DiskInv, Whole
<1>4. Disk = NoDisk \/ Disk \in [Blocks -> Data]
  BY <1>2, <1>3, DiskAssumption DEF Disk, Blocks
<1> QED BY <1>2, <1>4 DEF Device!Init, Device!Blocks, Blocks

\* Until a flush fails, and but for the exit of a program that abandoned a stream,
\* the software disk is a block device: what is written is read, by this program
\* and by the next.
THEOREM DeviceImplemented == Spec => Device!Init /\ ImplementsDevice
<1> DEFINE A == broken' \/ (Exit /\ stale # {}) \/ ActsAsDevice
<1>1. DiskInv /\ [Next]_vars => [A]_vars
  BY NextMaps
<1> HIDE DEF A
<1>2. Spec => [][A]_vars
  BY <1>1, DiskInvHolds, PTL DEF Spec
<1>3. Spec => Device!Init
  BY InitMaps DEF Spec
<1> QED BY <1>2, <1>3 DEF ImplementsDevice, A

=============================================================================
