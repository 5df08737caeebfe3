--------------------------- MODULE MzGuardProofs ---------------------------
(***************************************************************************)
(* What fileio.c promises of the first two bytes of a file, for files and  *)
(* writes of every size at every position, as long as no write stores      *)
(* outside mem.                                                            *)
(***************************************************************************)
EXTENDS MzGuard, TLAPS

\* A store replaces the bytes it covers; a gap it leaves reads as zero.
LEMMA StoredBytes ==
    ASSUME NEW bytes \in Seq(Bytes), NEW p \in Nat, NEW data \in Seq(Bytes)
    PROVE  /\ Stored(bytes, p, data) \in Seq(Bytes)
           /\ \A i \in 1 .. 2 : Byte(Stored(bytes, p, data), i) =
                 IF i \in p + 1 .. p + Len(data) THEN data[i - p] ELSE Byte(bytes, i)
<1>1. CASE data = <<>>
  <2>1. Stored(bytes, p, data) = bytes
    BY <1>1 DEF Stored
  <2>2. Len(data) = 0
    BY <1>1
  <2> QED BY <2>1, <2>2
<1>2. CASE data # <<>>
  <2> DEFINE n == IF p + Len(data) > Len(bytes) THEN p + Len(data) ELSE Len(bytes)
             F(i) == IF i \in p + 1 .. p + Len(data) THEN data[i - p] ELSE Byte(bytes, i)
  <2>1. /\ n \in Nat /\ Len(data) \in Nat /\ Len(bytes) \in Nat
        /\ p + Len(data) <= n /\ Len(bytes) <= n
    OBVIOUS
  <2>2. \A i \in Nat \ {0} : Byte(bytes, i) \in Bytes
    BY BytesAssumption DEF Byte
  <2>3. \A i \in Nat \ {0} : F(i) \in Bytes
    <3> SUFFICES ASSUME NEW i \in Nat \ {0}, i \in p + 1 .. p + Len(data)
                 PROVE  data[i - p] \in Bytes
      BY <2>2
    <3>1. i - p \in 1 .. Len(data)
      BY <2>1
    <3> QED BY <3>1
  <2>4. Stored(bytes, p, data) = [i \in 1 .. n |-> F(i)]
    BY <1>2 DEF Stored
  <2>5. \A i \in 1 .. n : i \in Nat \ {0}
    BY <2>1
  <2>6. [i \in 1 .. n |-> F(i)] \in [1 .. n -> Bytes]
    BY <2>3, <2>5
  <2> HIDE DEF n, F
  <2>7. Stored(bytes, p, data) \in Seq(Bytes)
    <3>1. \A S, T : \A m \in Nat : T \in [1 .. m -> S] => T \in Seq(S)
      OBVIOUS
    <3> QED BY <2>1, <2>4, <2>6, <3>1
  <2>8. Len(Stored(bytes, p, data)) = n
    BY <2>1, <2>4
  <2>9. ASSUME NEW i \in 1 .. 2 PROVE Byte(Stored(bytes, p, data), i) = F(i)
    <3>1. CASE i <= n
      <4>1. i \in 1 .. n
        BY <2>1, <3>1
      <4> QED BY <2>4, <2>8, <3>1, <4>1 DEF Byte
    <3>2. CASE i > n
      BY <2>1, <2>8, <3>2 DEF Byte, F
    <3> QED BY <2>1, <3>1, <3>2
  <2> QED BY <2>7, <2>9 DEF F
<1> QED BY <1>1, <1>2

\* So does mem.
LEMMA MemBytes ==
    ASSUME TypeOK, Opened, NEW p \in Nat, NEW data \in Seq(Bytes)
    PROVE  /\ MemWith(p, data) \in [1 .. 2 -> Bytes]
           /\ \A i \in 1 .. 2 : MemWith(p, data)[i] =
                 IF i \in p + 1 .. p + Len(data) THEN data[i - p] ELSE file.mem[i]
<1>1. \A i \in 1 .. 2 : i \in p + 1 .. p + Len(data) => data[i - p] \in Bytes
  <2> SUFFICES ASSUME NEW i \in 1 .. 2, i \in p + 1 .. p + Len(data) PROVE data[i - p] \in Bytes
    OBVIOUS
  <2>1. i - p \in 1 .. Len(data)
    OBVIOUS
  <2> QED BY <2>1
<1>2. file.mem \in [1 .. 2 -> Bytes]
  BY DEF TypeOK, Opened, File
<1> QED BY <1>1, <1>2 DEF MemWith

\* Where a seek that works leads to.
LEMMA SoughtIn ==
    ASSUME NEW start, NEW offset, SeekWorks(start, offset)
    PROVE  Opened /\ Sought(start, offset) \in Nat
BY BytesAssumption DEF SeekWorks

LEMMA DecidesIn ==
    ASSUME NEW start, NEW offset, NEW data, Decides(data, start, offset)
    PROVE  Opened /\ Sought(start, offset) \in Nat
BY SoughtIn DEF Decides

-----------------------------------------------------------------------------
(* The invariant *)

LEMMA GuardInvInit == Init => GuardInv
<1> SUFFICES ASSUME Init PROVE GuardInv
  OBVIOUS
<1>1. content \in Seq(Bytes) /\ ~ Opened /\ ~ clean /\ ~ refused
  BY DEF Init, Opened
<1> QED BY <1>1 DEF Init, GuardInv, TypeOK, MemKnows

LEMMA GuardInvOpen ==
    ASSUME GuardInv, open_file
    PROVE  GuardInv'
<1>1. content' \in Seq(Bytes)
  BY DEF GuardInv, TypeOK, open_file
<1>2. file' = [mem |-> <<0, 0>>, position |-> 0, ferror |-> FALSE]
  BY DEF open_file
<1>3. <<0, 0>> \in [1 .. 2 -> Bytes]
  BY BytesAssumption
<1>4. file' \in File
  BY <1>2, <1>3 DEF File
<1>5. file' # Closed
  BY <1>4, BytesAssumption
<1>6. TypeOK'
  BY <1>1, <1>4, <1>5 DEF open_file, GuardInv, TypeOK, Opened
<1>7. \A i \in 1 .. 2 : file'.mem[i] # MZ[i]
  BY <1>2 DEF MZ
<1>8. MemKnows'
  BY <1>7 DEF open_file, MemKnows
<1> QED BY <1>6, <1>8 DEF GuardInv

LEMMA GuardInvRefused ==
    ASSUME GuardInv, NEW data \in Data, NEW start, NEW offset,
           WriteRefused(data, start, offset)
    PROVE  GuardInv'
<1> DEFINE p == Sought(start, offset)
<1>1. /\ Opened /\ p \in Nat /\ data \in Seq(Bytes)
      /\ file' = [file EXCEPT !.mem = MZ, !.position = p] /\ content' = content
      /\ exists' = exists /\ clean' = clean /\ fserror' = "ILLEGAL_MZ" /\ refused'
      /\ defined' = defined
  BY DecidesIn, BytesAssumption DEF WriteRefused
<1>2. file \in File
  BY <1>1 DEF GuardInv, TypeOK, Opened
<1>3. MZ \in [1 .. 2 -> Bytes]
  BY BytesAssumption DEF MZ
<1>4. file' \in File /\ file'.mem = MZ
  BY <1>1, <1>2, <1>3 DEF File
<1>5. file' # Closed
  BY <1>4, BytesAssumption
<1>6. TypeOK'
  BY <1>1, <1>4, <1>5 DEF GuardInv, TypeOK, Opened
<1>7. MemKnows'
  BY <1>1, <1>4 DEF MemKnows
<1> QED BY <1>6, <1>7 DEF GuardInv

LEMMA GuardInvAccepted ==
    ASSUME GuardInv, NEW data \in Data, NEW start, NEW offset, NEW n \in 0 .. Len(data),
           WriteAccepted(n, data, start, offset)
    PROVE  GuardInv'
<1> DEFINE p == Sought(start, offset)
           part == SubSeq(data, 1, n)
<1>1. Opened /\ p \in Nat /\ data \in Seq(Bytes) /\ Len(data) \in Nat /\ n \in Nat
  BY DecidesIn, BytesAssumption DEF WriteAccepted
<1>2. part \in Seq(Bytes)
  BY <1>1
<1>3. /\ content' = Stored(content, p, part)
      /\ file' = [mem |-> MemWith(p, data), position |-> p + n,
                  ferror |-> file.ferror \/ n < Len(data)]
      /\ fserror' = IF n < Len(data) THEN "WRITE_FAILED" ELSE "NONE"
      /\ clean' = (clean /\ n = Len(data))
      /\ refused' = (refused /\ ~ (p = 0 /\ Len(data) >= 2)) /\ exists' = exists /\ defined' = defined
      /\ MemWith(p, data) # MZ
  BY DEF WriteAccepted, Refuses
<1>4. content \in Seq(Bytes) /\ file \in File
  BY <1>1 DEF GuardInv, TypeOK, Opened
<1>5. /\ MemWith(p, data) \in [1 .. 2 -> Bytes]
      /\ \A i \in 1 .. 2 : MemWith(p, data)[i] =
            IF i \in p + 1 .. p + Len(data) THEN data[i - p] ELSE file.mem[i]
  BY <1>1, MemBytes DEF GuardInv
<1> HIDE DEF p, part
<1>6. TypeOK'
  <2>1. content' \in Seq(Bytes)
    BY <1>1, <1>2, <1>3, <1>4, StoredBytes
  <2>2. file' \in File
    BY <1>1, <1>3, <1>4, <1>5 DEF File
  <2>3. file' # Closed
    BY <2>2, BytesAssumption
  <2>4. exists' /\ defined' \in BOOLEAN
    BY <1>1, <1>3 DEF GuardInv, TypeOK
  <2> QED BY <2>1, <2>2, <2>3, <2>4, <1>3 DEF TypeOK, Opened
<1>7. MemKnows'
  <2> SUFFICES ASSUME clean', NEW i \in 1 .. 2
               PROVE  /\ Byte(content', i) = MZ[i] => file'.mem[i] = MZ[i]
                      /\ ~ refused' /\ file'.mem[i] = MZ[i] => Byte(content', i) = MZ[i]
    BY DEF MemKnows
  <2>1. clean /\ n = Len(data)
    BY <1>3
  <2>2. part = data
    BY <1>1, <2>1 DEF part
  <2>3. Byte(content', i) = IF i \in p + 1 .. p + Len(data) THEN data[i - p] ELSE Byte(content, i)
    <3>1. content' = Stored(content, p, data)
      BY <1>3, <2>2
    <3>2. \A k \in 1 .. 2 : Byte(Stored(content, p, data), k) =
             IF k \in p + 1 .. p + Len(data) THEN data[k - p] ELSE Byte(content, k)
      BY <1>1, <1>4, StoredBytes
    <3> QED BY <3>1, <3>2
  <2>4. file'.mem[i] = IF i \in p + 1 .. p + Len(data) THEN data[i - p] ELSE file.mem[i]
    BY <1>3, <1>5
  <2>5. CASE i \in p + 1 .. p + Len(data)
    BY <2>3, <2>4, <2>5
  <2>6. CASE i \notin p + 1 .. p + Len(data)
    <3>1. ~ (p = 0 /\ Len(data) >= 2)
      BY <1>1, <2>6
    <3>2. ~ refused' => ~ refused
      BY <1>3, <3>1
    <3>3. Byte(content', i) = Byte(content, i) /\ file'.mem[i] = file.mem[i]
      BY <2>3, <2>4, <2>6
    <3> QED BY <2>1, <3>2, <3>3 DEF GuardInv, MemKnows
  <2> QED BY <2>5, <2>6
<1> QED BY <1>6, <1>7 DEF GuardInv

LEMMA GuardInvNext ==
    ASSUME GuardInv, [Next]_vars
    PROVE  GuardInv'
<1>1. CASE open_file
  BY <1>1, GuardInvOpen
<1>2. CASE open_file_fails
  BY <1>2 DEF open_file_fails, GuardInv, TypeOK, MemKnows, Opened
<1>3. CASE close_file
  BY <1>3 DEF close_file, GuardInv, TypeOK, MemKnows, Opened
<1>4. ASSUME NEW start, NEW offset, NEW error \in {"READ_FAILED", "WRITE_FAILED"},
             SeekFails(start, offset, error)
      PROVE  GuardInv'
  BY <1>4 DEF SeekFails, GuardInv, TypeOK, MemKnows, Opened
<1>5. ASSUME NEW start, NEW offset, NEW n \in Counts, read_file_from(n, start, offset)
      PROVE  GuardInv'
  <2> DEFINE p == Sought(start, offset)
  <2>1. Opened /\ p \in Nat
    BY <1>5, SoughtIn DEF read_file_from
  <2>2. file \in File /\ content \in Seq(Bytes) /\ n \in Nat
    BY <2>1, BytesAssumption DEF GuardInv, TypeOK, Opened
  <2>3. PICK fails \in BOOLEAN :
          file' = [file EXCEPT !.position = p + (IF fails THEN 0 ELSE Len(Delivered(p, n))),
                               !.ferror = file.ferror \/ fails]
    BY <1>5 DEF read_file_from
  <2> HIDE DEF p
  <2>4. Len(Delivered(p, n)) \in Nat
    <3>1. Delivered(p, n) \in Seq(Bytes)
      BY <2>1, <2>2 DEF Delivered
    <3> QED BY <3>1
  <2>5. file' \in File /\ file'.mem = file.mem
    <3>1. p + (IF fails THEN 0 ELSE Len(Delivered(p, n))) \in Nat
      BY <2>1, <2>4
    <3>2. (file.ferror \/ fails) \in BOOLEAN
      OBVIOUS
    <3> QED BY <2>2, <2>3, <3>1, <3>2 DEF File
  <2>6. file' # Closed
    BY <2>5, BytesAssumption
  <2>7. /\ exists' = exists /\ content' = content /\ clean' = clean /\ refused' = refused
        /\ defined' = defined
        /\ fserror' \in {"NONE", "READ_FAILED"}
    BY <1>5 DEF read_file_from
  <2> QED BY <2>1, <2>5, <2>6, <2>7 DEF GuardInv, TypeOK, MemKnows, Opened
<1>6. ASSUME NEW start, NEW offset, NEW data \in Data, write_file_at(data, start, offset)
      PROVE  GuardInv'
  <2>1. CASE WriteOutside(data, start, offset)
    BY <2>1 DEF WriteOutside, GuardInv, TypeOK, MemKnows, Opened
  <2> QED BY <1>4, <1>6, <2>1, GuardInvRefused, GuardInvAccepted DEF write_file_at
<1>7. CASE UNCHANGED vars
  BY <1>7 DEF vars, GuardInv, TypeOK, MemKnows, Opened
<1> QED BY <1>1, <1>2, <1>3, <1>4, <1>5, <1>6, <1>7 DEF Next

\* mem has a copy of every letter of MZ that is at its place in the file, and no other
\* but those of a refused write.
THEOREM GuardInvHolds == Spec => []GuardInv
<1>1. GuardInv /\ [Next]_vars => GuardInv'
  BY GuardInvNext
<1> QED BY GuardInvInit, <1>1, PTL DEF Spec

-----------------------------------------------------------------------------
(* What follows from it *)

\* Where the file begins with MZ, so does mem.
LEMMA MemIsMZ == GuardInv /\ clean /\ StartsMZ(content) => file.mem = MZ
<1> SUFFICES ASSUME GuardInv, clean, StartsMZ(content) PROVE file.mem = MZ
  OBVIOUS
<1>1. file.mem \in [1 .. 2 -> Bytes]
  BY DEF GuardInv, TypeOK, Opened, File
<1>2. \A i \in 1 .. 2 : file.mem[i] = MZ[i]
  BY DEF GuardInv, MemKnows, StartsMZ
<1> QED BY <1>1, <1>2 DEF MZ

\* A file never begins with MZ: a write after which it did would have left MZ in mem,
\* and such a write is refused.  Of a write that stores outside mem, at a position that
\* is no int, nothing is said (clean ends there).
THEOREM NeverMZHolds == Spec => []NeverMZ
<1>1. Init => NeverMZ
  BY DEF Init, NeverMZ
<1>2. (GuardInv /\ clean /\ StartsMZ(content) => file.mem = MZ)'
  BY MemIsMZ, PTL
<1>3. GuardInv /\ GuardInv' /\ NeverMZ /\ [Next]_vars => NeverMZ'
  <2> SUFFICES ASSUME GuardInv, GuardInv', NeverMZ, [Next]_vars, clean', StartsMZ(content')
               PROVE  FALSE
    BY DEF NeverMZ, StartsMZ
  <2>1. CASE open_file
    <3>1. \A i \in 1 .. 2 : Byte(content', i) # MZ[i]
      BY <2>1, Zenon DEF open_file
    <3>2. Byte(content', 1) # MZ[1]
      BY <3>1
    <3> QED BY <3>2 DEF StartsMZ
  <2>2. CASE clean /\ content' = content
    BY <2>2 DEF NeverMZ, StartsMZ
  <2>3. ASSUME NEW start, NEW offset, NEW data \in Data, NEW n \in 0 .. Len(data),
               WriteAccepted(n, data, start, offset)
        PROVE  FALSE
    BY <1>2, <2>3 DEF WriteAccepted, Refuses
  <2>4. ~ close_file
    BY DEF close_file
  <2>5. ~ open_file_fails
    BY <2>2 DEF open_file_fails
  <2>6. \A start, offset, error : ~ SeekFails(start, offset, error)
    BY <2>2 DEF SeekFails
  <2>7. \A start, offset, n : ~ read_file_from(n, start, offset)
    BY <2>2 DEF read_file_from
  <2>8. \A start, offset, data : ~ WriteRefused(data, start, offset)
    BY <2>2 DEF WriteRefused
  <2>9. \A start, offset, data : ~ WriteOutside(data, start, offset)
    BY DEF WriteOutside
  <2>10. UNCHANGED vars => clean /\ content' = content
    BY DEF vars
  <2> QED BY <2>1, <2>2, <2>3, <2>4, <2>5, <2>6, <2>7, <2>8, <2>9, <2>10 DEF Next, write_file_at
<1> QED BY <1>1, <1>3, GuardInvHolds, PTL DEF Spec

\* A write that comes to its decision is refused exactly when it would make the file
\* begin with MZ.
THEOREM RefusedRightlyHolds == Spec => []RefusedRightly
<1>1. ASSUME GuardInv PROVE RefusedRightly
  <2> SUFFICES ASSUME clean, ~ refused, NEW data \in Data, NEW start \in Anchors,
                      NEW offset \in Offsets, Decides(data, start, offset)
               PROVE  Refuses(data, start, offset)
                         <=> StartsMZ(Stored(content, Sought(start, offset), data))
    BY DEF RefusedRightly
  <2> DEFINE p == Sought(start, offset)
             now == MemWith(p, data)
  <2>1. Opened /\ p \in Nat /\ data \in Seq(Bytes) /\ content \in Seq(Bytes)
    BY <1>1, DecidesIn, BytesAssumption DEF GuardInv, TypeOK
  <2>2. now \in [1 .. 2 -> Bytes]
    BY <1>1, <2>1, MemBytes DEF GuardInv
  <2>3. \A i \in 1 .. 2 : now[i] = IF i \in p + 1 .. p + Len(data) THEN data[i - p] ELSE file.mem[i]
    BY <1>1, <2>1, MemBytes DEF GuardInv
  <2>4. \A i \in 1 .. 2 : Byte(Stored(content, p, data), i)
            = IF i \in p + 1 .. p + Len(data) THEN data[i - p] ELSE Byte(content, i)
    BY <2>1, StoredBytes
  <2>5. \A i \in 1 .. 2 : Byte(content, i) = MZ[i] <=> file.mem[i] = MZ[i]
    BY <1>1 DEF GuardInv, MemKnows
  <2>6. Refuses(data, start, offset) <=> now = MZ
    BY DEF Refuses
  <2> HIDE DEF now, p
  <2>7. now = MZ <=> \A i \in 1 .. 2 : now[i] = MZ[i]
    BY <2>2 DEF MZ
  <2>8. \A i \in 1 .. 2 : now[i] = MZ[i] <=> Byte(Stored(content, p, data), i) = MZ[i]
    BY <2>3, <2>4, <2>5
  <2> QED BY <2>6, <2>7, <2>8 DEF StartsMZ, p
<1> QED BY GuardInvHolds, <1>1, PTL

=============================================================================
