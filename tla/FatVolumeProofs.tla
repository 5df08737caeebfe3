-------------------------- MODULE FatVolumeProofs --------------------------
(***************************************************************************)
(* Proofs about FatVolume.  First its types and the directory, up to the   *)
(* refinement of Directory.  Then the FAT and the bitmap: VolumeInv, which *)
(* speaks of single entries, is kept by every step; a walk over a well     *)
(* linked FAT ends, two of them never meet, and a chain is the least set   *)
(* of blocks closed under its entries, which gives how each step changes   *)
(* the chain of one file and leaves the others alone.  GrowInv and         *)
(* SpaceInv follow, and with them the invariant of FatVolumeInv and the    *)
(* properties.                                                             *)
(***************************************************************************)
EXTENDS FatVolumeInv, FiniteSetTheorems, WellFoundedInduction, TLAPS

\* A nonempty set of numbers has a least member, so First finds one.
LEMMA FirstInSet ==
    ASSUME NEW S \in SUBSET Nat, S # {}
    PROVE  First(S) \in S /\ \A c \in S : First(S) <= c
<1>1. PICK x \in S : \A y \in S : ~ (<<y, x>> \in OpToRel(<, Nat))
  BY NatLessThanWellFounded, WFMin
<1>2. \A y \in S : x <= y
  <2>1. TAKE y \in S
  <2>2. <<y, x>> \in Nat \X Nat OBVIOUS
  <2>3. <<y, x>> \in OpToRel(<, Nat) <=> y < x
    BY <2>2 DEF OpToRel
  <2>4. ~ (y < x)
    BY <1>1, <2>3, Zenon
  <2> QED BY <2>4
<1> QED BY <1>2 DEF First

-----------------------------------------------------------------------------
(* What the helpers return *)

LEMMA FindFirstUnusedFree ==
    ASSUME bitmap \subseteq Blocks
    PROVE  /\ FindFirstUnused \in Blocks
           /\ ~ Full => FindFirstUnused \notin bitmap
<1>1. CASE Full
  BY <1>1, DiskAssumption DEF FindFirstUnused, Blocks
<1>2. CASE ~ Full
  <2>1. Blocks \ bitmap \in SUBSET Nat
    BY DEF Blocks
  <2>2. Blocks \ bitmap # {}
    BY <1>2 DEF Full
  <2>3. First(Blocks \ bitmap) \in Blocks \ bitmap
    BY <2>1, <2>2, FirstInSet
  <2> QED BY <1>2, <2>3 DEF FindFirstUnused
<1> QED BY <1>1, <1>2

LEMMA FirstSlot ==
    ASSUME NEW S \in SUBSET SlotIds, S # {}
    PROVE  First(S) \in S
<1>1. S \in SUBSET Nat
  BY DEF SlotIds
<1> QED BY <1>1, FirstInSet

LEMMA NumberOfBlocksNat ==
    ASSUME NEW f, NEW s
    PROVE  NumberOfBlocks(f, s) \in Nat
<1>1. IsFiniteSet(Blocks)
  BY FS_Interval, DiskAssumption DEF Blocks
<1>2. Chain(f, s) \in SUBSET Blocks
  BY DEF Chain
<1> QED BY <1>1, <1>2, FS_Subset, FS_CardinalityType DEF NumberOfBlocks

\* The FAT's last disk block holds the entry of the last block.
LEMMA SectorOfBlock ==
    ASSUME NEW b \in Blocks
    PROVE  b \div EntriesPerSector \in Sectors
<1> DEFINE E == EntriesPerSector
           q == b \div E
           m == (NumBlocks - 1) \div E
<1>1. E \in Nat /\ E > 0 /\ b \in Nat /\ b <= NumBlocks - 1 /\ NumBlocks - 1 \in Nat
  BY DiskAssumption DEF Blocks
<1>2. q \in Int /\ m \in Int /\ 0 <= q
  BY <1>1
<1>3. q <= m
  BY <1>1, <1>2
<1> QED BY <1>2, <1>3 DEF Sectors

-----------------------------------------------------------------------------
(* Types *)

LEMMA FirstValues ==
    /\ 0 \in Blocks /\ 1 \in Blocks /\ 1 \in SlotIds
    /\ 0 \in 0 .. MaxSeekBlocks /\ 0 \in Sectors
<1>1. 0 \in Blocks /\ 1 \in Blocks /\ 1 \in SlotIds /\ 0 \in 0 .. MaxSeekBlocks
  BY DiskAssumption DEF Blocks, SlotIds
<1>2. 0 \div EntriesPerSector = 0
  BY DiskAssumption
<1> QED BY <1>1, <1>2, SectorOfBlock

LEMMA InitTypeOK == Init => TypeOK
<1>1. MetaData \subseteq Blocks
  BY DiskAssumption DEF MetaData, Blocks
<1> QED BY <1>1, FirstValues, NamesAssumption
   DEF Init, TypeOK, FileBlock, EmptySlot, Errors, FreeEntry

LEMMA ReturnTypes ==
    ASSUME NEW err \in Errors, Return(err)
    PROVE  /\ pc' = "idle" /\ name' \in Names /\ block' \in Blocks /\ slot' \in SlotIds
           /\ todo' \in 0 .. MaxSeekBlocks /\ sector' \in Sectors /\ fserror' \in Errors
BY FirstValues, NamesAssumption DEF Return

LEMMA RefuseTypeOK ==
    ASSUME TypeOK, NEW err \in Errors, Refuse(err)
    PROVE  TypeOK'
BY ReturnTypes DEF TypeOK, Refuse, disk

LEMMA FlushTypes ==
    ASSUME TypeOK, fat' = WriteSector(sector)
    PROVE  fat' \in [Blocks -> Blocks]
BY DEF TypeOK, WriteSector

LEMMA NextTypeOK == TypeOK /\ [Next]_vars => TypeOK'
<1> SUFFICES ASSUME TypeOK, [Next]_vars PROVE TypeOK'
  OBVIOUS
<1>0. \A n \in Names : Matching(n) # {} => First(Matching(n)) \in SlotIds
  <2> SUFFICES ASSUME NEW n \in Names, Matching(n) # {} PROVE First(Matching(n)) \in SlotIds
    OBVIOUS
  <2>1. Matching(n) \in SUBSET SlotIds
    BY DEF Matching
  <2> QED BY <2>1, FirstSlot
<1> USE DEF TypeOK
<1>1. ASSUME NEW n \in Names, CreateRefused(n) \/ OpenRefused(n) \/ DeleteRefused(n) \/ FileExists(n)
      PROVE  TypeOK'
  <2>1. PICK err \in Errors : Refuse(err)
    BY <1>1 DEF CreateRefused, OpenRefused, DeleteRefused, FileExists, Errors
  <2> QED BY <2>1, RefuseTypeOK
<1>2. ASSUME NEW n \in Names, CreateFile(n)
      PROVE  TypeOK'
  BY <1>2, FindFirstUnusedFree DEF CreateFile, SetNextBit, Steps, Faults, Structural
<1>3. ASSUME NEW n \in Names, DeleteFile(n)
      PROVE  TypeOK'
  BY <1>3, <1>0 DEF DeleteFile, FreeBlock, ClearBit, Steps, Faults, Structural, FileBlock
<1>4. ASSUME NEW n \in Names, NEW h \in Handles, OpenFile(n, h)
      PROVE  TypeOK'
  <2>1. Return("FS_NONE") /\ "FS_NONE" \in Errors
    BY <1>4 DEF OpenFile, Errors
  <2> QED BY <1>4, <2>1, <1>0, ReturnTypes DEF OpenFile, FileBlock
<1>5. ASSUME NEW h \in Handles, CloseRefused(h)
      PROVE  TypeOK'
  BY <1>5, RefuseTypeOK DEF CloseRefused, Errors
<1>6. ASSUME NEW h \in Handles, CloseFile(h)
      PROVE  TypeOK'
  <2>1. Return("FS_NONE") /\ "FS_NONE" \in Errors
    BY <1>6 DEF CloseFile, Errors
  <2>2. files[h] \in [name : Names, start : Blocks]
    BY <1>6 DEF CloseFile
  <2>3. slots' \in [SlotIds -> FileBlock]
    BY <1>6, <2>2 DEF CloseFile, FileBlock
  <2>4. files' \in [Handles -> [name : Names, start : Blocks] \cup {NoFile}]
    BY <1>6 DEF CloseFile
  <2> QED BY <1>6, <2>1, <2>3, <2>4, ReturnTypes DEF CloseFile, Faults, Structural
<1>7. ASSUME NEW h \in Handles, SeekHangs(h)
      PROVE  TypeOK'
  BY <1>7 DEF SeekHangs, disk, local
<1>8. ASSUME NEW h \in Handles, NEW k \in 1 .. MaxSeekBlocks, SeekRefused(h, k)
      PROVE  TypeOK'
  BY <1>8, RefuseTypeOK DEF SeekRefused, Errors
<1>9. ASSUME NEW h \in Handles, NEW k \in 1 .. MaxSeekBlocks, SeekFile(h, k)
      PROVE  TypeOK'
  <2> DEFINE current == NumberOfBlocks(buf, files[h].start)
  <2>1. current \in Nat
    BY NumberOfBlocksNat
  <2> HIDE DEF current
  <2>2. CASE k <= current
    BY <1>9, <2>1, <2>2, RefuseTypeOK DEF SeekFile, current, Errors
  <2>3. CASE k > current
    <3>1. /\ todo' = k - current /\ block' = files[h].start /\ pc' = "grow"
          /\ UNCHANGED <<disk, files, name, slot, buf, sector, fserror, fault>>
      BY <1>9, <2>1, <2>3 DEF SeekFile, current
    <3>2. files[h] \in [name : Names, start : Blocks]
      BY <1>9 DEF SeekFile
    <3>3. todo' \in 0 .. MaxSeekBlocks
      BY <3>1, <2>1, <2>3, DiskAssumption
    <3> QED BY <3>1, <3>2, <3>3 DEF disk, Steps
  <2> QED BY <2>1, <2>2, <2>3
<1>10. ASSUME CreateFat PROVE TypeOK'
  <2>1. fat' \in [Blocks -> Blocks] /\ buf' = fat'
    BY <1>10, FirstValues DEF CreateFat, LastBlock
  <2> QED BY <1>10, <2>1 DEF CreateFat, local, Steps
<1>11. ASSUME CreateFails PROVE TypeOK'
  <2>1. Return("FS_EXCEEDS_MAX_FILE_SIZE") /\ "FS_EXCEEDS_MAX_FILE_SIZE" \in Errors
    BY <1>11 DEF CreateFails, Errors
  <2> QED BY <1>11, <2>1, ReturnTypes DEF CreateFails, disk, Faults
<1>12. ASSUME AddBlock PROVE TypeOK'
  <2>1. FindFirstUnused \in Blocks /\ LastBlock \in Blocks /\ 0 \in Sectors
    BY FindFirstUnusedFree, FirstValues DEF LastBlock
  <2>2. buf' \in [Blocks -> Blocks]
    BY <1>12, <2>1 DEF AddBlock, SetNextBit, Link
  <2>3. todo' \in 0 .. MaxSeekBlocks
    BY <1>12, DiskAssumption DEF AddBlock, SetNextBit
  <2> QED BY <1>12, <2>1, <2>2, <2>3 DEF AddBlock, SetNextBit, Steps, Faults, Structural
<1>13. ASSUME GrowFlush PROVE TypeOK'
  <2>1. "FS_NONE" \in Errors
    BY DEF Errors
  <2>2. sector + 1 \in Sectors => sector' = sector + 1 /\ UNCHANGED <<pc, name, block, slot, todo, fserror>>
    BY <1>13 DEF GrowFlush, FlushFat
  <2>3. sector + 1 \notin Sectors => Return("FS_NONE")
    BY <1>13 DEF GrowFlush, FlushFat
  <2>4. fat' = WriteSector(sector) /\ UNCHANGED <<bitmap, slots, files, buf, fault>>
    BY <1>13 DEF GrowFlush, FlushFat
  <2>5. fat' \in [Blocks -> Blocks]
    BY <2>4, FlushTypes
  <2>6. CASE sector + 1 \in Sectors
    BY <2>2, <2>4, <2>5, <2>6
  <2>7. CASE sector + 1 \notin Sectors
    BY <2>1, <2>3, <2>4, <2>5, <2>7, ReturnTypes
  <2> QED BY <2>6, <2>7
<1>14. ASSUME DeleteNext PROVE TypeOK'
  <2>1. FreeBlock(buf[block]) /\ buf' = [buf EXCEPT ![block] = FreeEntry]
    BY <1>14 DEF DeleteNext
  <2>2. buf' \in [Blocks -> Blocks] /\ buf[block] \in Blocks
    BY <2>1, FirstValues DEF FreeEntry
  <2> QED BY <1>14, <2>1, <2>2
          DEF DeleteNext, FreeBlock, ClearBit, Steps, Faults, Structural
<1>15. ASSUME DeleteLast PROVE TypeOK'
  BY <1>15, FirstValues DEF DeleteLast, disk, Steps, FreeEntry
<1>16. ASSUME DeleteFlush PROVE TypeOK'
  BY <1>16, FlushTypes, FirstValues DEF DeleteFlush, FlushFat, Steps
<1>17. ASSUME DeleteSlot PROVE TypeOK'
  <2>1. Return("FS_NONE") /\ "FS_NONE" \in Errors
    BY <1>17 DEF DeleteSlot, Errors
  <2>2. EmptySlot \in FileBlock
    BY FirstValues, NamesAssumption DEF EmptySlot, FileBlock
  <2>3. slots' \in [SlotIds -> FileBlock]
    BY <1>17, <2>2 DEF DeleteSlot
  <2> QED BY <1>17, <2>1, <2>3, ReturnTypes DEF DeleteSlot
<1>18. ASSUME NEW h \in Handles, CreateSlot(h) PROVE TypeOK'
  <2>1. Return("FS_NONE") /\ "FS_NONE" \in Errors
    BY <1>18 DEF CreateSlot, Errors
  <2>2. First(FreeSlots) \in SlotIds
    <3>1. FreeSlots # {} /\ FreeSlots \in SUBSET SlotIds
      BY <1>18 DEF CreateSlot, FreeSlots
    <3> QED BY <3>1, FirstSlot
  <2> QED BY <1>18, <2>1, <2>2, ReturnTypes DEF CreateSlot, FileBlock
<1>19. ASSUME Crash PROVE TypeOK'
  <2>1. Return("FS_NONE") /\ "FS_NONE" \in Errors
    BY <1>19 DEF Crash, Errors
  <2> QED BY <1>19, <2>1, ReturnTypes DEF Crash, CrashFaults, disk, Faults, Structural
<1>20. CASE UNCHANGED vars
  BY <1>20 DEF vars
<1> QED
  BY <1>1, <1>2, <1>3, <1>4, <1>5, <1>6, <1>7, <1>8, <1>9, <1>10, <1>11, <1>12, <1>13,
     <1>14, <1>15, <1>16, <1>17, <1>18, <1>19, <1>20
     DEF Next, Call, Continue

\* Every variable keeps its type.
THEOREM TypeCorrect == Spec => []TypeOK
BY InitTypeOK, NextTypeOK, PTL DEF Spec

-----------------------------------------------------------------------------
(* The directory *)

LEMMA FirstMatch ==
    ASSUME TypeOK, NEW n \in Names, Matching(n) # {}
    PROVE  First(Matching(n)) \in SlotIds
BY FirstSlot DEF Matching

LEMMA InitDirectory == Init => DirectoryInv
BY DEF Init, DirectoryInv, Victim, NewName, NamesUnique, HandlesBacked, Deleting, EmptySlot

\* Steps that change neither descriptors nor File objects.
LEMMA DirectoryFrame ==
    ASSUME DirectoryInv, UNCHANGED <<slots, files>>, fault \subseteq fault',
           pc' \in {"create_fat", "create_slot"} =>
               pc \in {"create_fat", "create_slot"} /\ name' = name,
           Deleting' => Deleting /\ slot' = slot
    PROVE  DirectoryInv'
BY DEF DirectoryInv, Victim, NewName, NamesUnique, HandlesBacked

LEMMA RefuseDirectory ==
    ASSUME DirectoryInv, NEW err, Refuse(err)
    PROVE  DirectoryInv'
BY DirectoryFrame DEF Refuse, Return, disk, Deleting

LEMMA OpenDirectory ==
    ASSUME TypeOK, DirectoryInv, NEW n \in Names, NEW h \in Handles, OpenFile(n, h)
    PROVE  DirectoryInv'
<1> DEFINE i == First(Matching(n))
<1>1. /\ i \in SlotIds /\ slots[i].status = "FILE_CLOSED"
      /\ slots' = [slots EXCEPT ![i].status = "FILE_OPENED"]
      /\ files' = [files EXCEPT ![h] = [name |-> slots[i].name, start |-> slots[i].start]]
      /\ pc' = "idle" /\ fault' = fault
  BY FirstMatch DEF OpenFile, Return
<1>2. slots \in [SlotIds -> FileBlock] /\ files \in [Handles -> [name : Names, start : Blocks] \cup {NoFile}]
  BY DEF TypeOK
<1> HIDE DEF i
<1>3. \A j \in SlotIds : slots'[j].name = slots[j].name /\ (j # i => slots'[j] = slots[j])
  BY <1>1, <1>2 DEF FileBlock
<1>4. slots'[i] = [name |-> slots[i].name, status |-> "FILE_OPENED", start |-> slots[i].start]
  BY <1>1, <1>2 DEF FileBlock
<1>5. files'[h] = [name |-> slots[i].name, start |-> slots[i].start]
      /\ \A g \in Handles : g # h => files'[g] = files[g]
  BY <1>1, <1>2
<1>6. Victim'
  BY <1>1 DEF Victim, Deleting
<1>7. ASSUME "alias" \notin fault' PROVE (NewName /\ NamesUnique /\ HandlesBacked)'
  <2>1. NewName /\ NamesUnique /\ HandlesBacked
    BY <1>1, <1>7 DEF DirectoryInv
  <2>2. NewName' /\ NamesUnique'
    BY <2>1, <1>1, <1>3, <1>7 DEF NewName, NamesUnique
  <2>3. ASSUME NEW g \in Handles, g # h, files[g] # NoFile, files[g].name # Empty
        PROVE  \E j \in SlotIds : /\ j # i
                                  /\ slots[j] = [name |-> files[g].name, status |-> "FILE_OPENED",
                                                 start |-> files[g].start]
    <3>1. PICK j \in SlotIds : slots[j] = [name |-> files[g].name, status |-> "FILE_OPENED",
                                           start |-> files[g].start]
      BY <2>1, <2>3, <1>1, <1>7 DEF HandlesBacked
    <3>2. slots[j].status = "FILE_OPENED"
      BY <3>1
    <3> QED BY <3>1, <3>2, <1>1
  <2>4. ASSUME NEW g \in Handles, g # h, files[g] # NoFile, files[g].name # Empty
        PROVE  files[g].name # slots[i].name
    <3>1. PICK j \in SlotIds : /\ j # i
                               /\ slots[j] = [name |-> files[g].name, status |-> "FILE_OPENED",
                                              start |-> files[g].start]
      BY <2>3, <2>4
    <3>2. slots[j].name = files[g].name
      BY <3>1
    <3> QED BY <3>1, <3>2, <2>1, <2>4, <1>1, <1>7 DEF NamesUnique
  <2>5. ASSUME NEW g \in Handles, files'[g] # NoFile, files'[g].name # Empty
        PROVE  /\ \E j \in SlotIds :
                    slots'[j] = [name |-> files'[g].name, status |-> "FILE_OPENED",
                                 start |-> files'[g].start]
               /\ \A k \in Handles \ {g} : files'[k] # NoFile => files'[k].name # files'[g].name
    <3>1. CASE g = h
      <4>1. slots'[i] = [name |-> files'[g].name, status |-> "FILE_OPENED", start |-> files'[g].start]
        BY <3>1, <1>4, <1>5
      <4>2. ASSUME NEW k \in Handles \ {g}, files'[k] # NoFile
            PROVE  files'[k].name # files'[g].name
        BY <4>2, <2>4, <2>5, <3>1, <1>5
      <4> QED BY <4>1, <4>2, <1>1
    <3>2. CASE g # h
      <4>1. files[g] # NoFile /\ files[g].name # Empty /\ files'[g] = files[g]
        BY <3>2, <2>5, <1>5
      <4>2. \E j \in SlotIds : slots'[j] = [name |-> files'[g].name, status |-> "FILE_OPENED",
                                            start |-> files'[g].start]
        BY <4>1, <2>3, <3>2, <1>3
      <4>3. ASSUME NEW k \in Handles \ {g}, files'[k] # NoFile
            PROVE  files'[k].name # files'[g].name
        <5>1. CASE k = h
          BY <5>1, <4>1, <2>4, <3>2, <1>5
        <5>2. CASE k # h
          <6>1. \A x \in Handles \ {g} : files[x] # NoFile => files[x].name # files[g].name
            BY <4>1, <2>1, <1>1, <1>7 DEF HandlesBacked
          <6>2. k \in Handles \ {g} /\ files'[k] = files[k] /\ files[k] # NoFile
            BY <5>2, <4>3, <1>5
          <6> QED BY <6>1, <6>2, <4>1
        <5> QED BY <5>1, <5>2
      <4> QED BY <4>2, <4>3
    <3> QED BY <3>1, <3>2
  <2> QED BY <2>2, <2>5 DEF HandlesBacked
<1> QED BY <1>6, <1>7 DEF DirectoryInv

LEMMA CloseDirectory ==
    ASSUME TypeOK, DirectoryInv, NEW h \in Handles, CloseFile(h)
    PROVE  DirectoryInv'
<1> DEFINE i == First(Matching(files[h].name))
<1>1. files[h] # NoFile /\ files[h] \in [name : Names, start : Blocks]
  BY DEF CloseFile, TypeOK
<1>2. /\ i \in SlotIds
      /\ slots' = [slots EXCEPT ![i] = [name |-> files[h].name, status |-> "FILE_CLOSED",
                                        start |-> files[h].start]]
      /\ files' = [files EXCEPT ![h] = NoFile]
      /\ fault' = IF slots[i].name # files[h].name THEN fault \cup {"alias"} ELSE fault
      /\ pc' = "idle"
  BY <1>1, FirstMatch DEF CloseFile, Return
<1>3. slots \in [SlotIds -> FileBlock] /\ files \in [Handles -> [name : Names, start : Blocks] \cup {NoFile}]
  BY DEF TypeOK
<1> HIDE DEF i
<1>4. Victim'
  BY <1>2 DEF Victim, Deleting
<1>5. ASSUME "alias" \notin fault' PROVE (NewName /\ NamesUnique /\ HandlesBacked)'
  <2>1. NewName /\ NamesUnique /\ HandlesBacked /\ "alias" \notin fault /\ slots[i].name = files[h].name
    BY <1>2, <1>5 DEF DirectoryInv
  <2>2. \A j \in SlotIds : slots'[j].name = slots[j].name /\ (j # i => slots'[j] = slots[j])
    BY <1>2, <1>3, <2>1
  <2>3. NewName' /\ NamesUnique'
    BY <2>1, <2>2, <1>2 DEF NewName, NamesUnique
  <2>4. ASSUME NEW g \in Handles, files'[g] # NoFile, files'[g].name # Empty
        PROVE  /\ \E j \in SlotIds :
                    slots'[j] = [name |-> files'[g].name, status |-> "FILE_OPENED",
                                 start |-> files'[g].start]
               /\ \A k \in Handles \ {g} : files'[k] # NoFile => files'[k].name # files'[g].name
    <3>1. g # h /\ files'[g] = files[g]
      BY <2>4, <1>2, <1>3
    <3>2. PICK j \in SlotIds : slots[j] = [name |-> files[g].name, status |-> "FILE_OPENED",
                                           start |-> files[g].start]
      BY <2>1, <2>4, <3>1 DEF HandlesBacked
    <3>3. files[g].name # files[h].name
      BY <2>1, <2>4, <3>1, <1>1 DEF HandlesBacked
    <3>4. j # i
      BY <3>2, <3>3, <2>1
    <3>5. slots'[j] = [name |-> files'[g].name, status |-> "FILE_OPENED", start |-> files'[g].start]
      BY <3>1, <3>2, <3>4, <2>2
    <3>6. \A k \in Handles : k # h => files'[k] = files[k]
      BY <1>2, <1>3
    <3>7. files'[h] = NoFile
      BY <1>2, <1>3
    <3>8. ASSUME NEW k \in Handles \ {g}, files'[k] # NoFile
          PROVE  files'[k].name # files'[g].name
      BY <3>8, <3>6, <3>7, <3>1, <2>1, <2>4 DEF HandlesBacked
    <3> QED BY <3>5, <3>8
  <2> QED BY <2>3, <2>4 DEF HandlesBacked
<1> QED BY <1>4, <1>5 DEF DirectoryInv

LEMMA CreateSlotDirectory ==
    ASSUME TypeOK, DirectoryInv, NEW h \in Handles, CreateSlot(h)
    PROVE  DirectoryInv'
<1> DEFINE i == First(FreeSlots)
<1>1. i \in FreeSlots
  BY FirstSlot DEF CreateSlot, FreeSlots
<1>2. /\ i \in SlotIds /\ slots[i].name = Empty
      /\ slots' = [slots EXCEPT ![i] = [name |-> name, status |-> "FILE_OPENED", start |-> block]]
      /\ files' = [files EXCEPT ![h] = [name |-> name, start |-> block]]
      /\ pc = "create_slot" /\ pc' = "idle" /\ fault' = fault
  BY <1>1 DEF CreateSlot, FreeSlots, Return
<1>3. slots \in [SlotIds -> FileBlock] /\ files \in [Handles -> [name : Names, start : Blocks] \cup {NoFile}]
  BY DEF TypeOK
<1> HIDE DEF i
<1>4. Victim'
  BY <1>2 DEF Victim, Deleting
<1>5. ASSUME "alias" \notin fault' PROVE (NewName /\ NamesUnique /\ HandlesBacked)'
  <2>1. NewName /\ NamesUnique /\ HandlesBacked /\ "alias" \notin fault
    BY <1>2, <1>5 DEF DirectoryInv
  <2>2. name # Empty /\ \A j \in SlotIds : slots[j].name # name
    BY <2>1, <1>2 DEF NewName
  <2>3. /\ slots'[i] = [name |-> name, status |-> "FILE_OPENED", start |-> block]
        /\ \A j \in SlotIds : j # i => slots'[j] = slots[j]
        /\ files'[h] = [name |-> name, start |-> block]
        /\ \A g \in Handles : g # h => files'[g] = files[g]
    BY <1>2, <1>3
  <2>4. NewName'
    BY <1>2 DEF NewName
  <2>5. NamesUnique'
    BY <2>1, <2>2, <2>3, <1>2 DEF NamesUnique
  <2>6. ASSUME NEW g \in Handles, g # h, files[g] # NoFile, files[g].name # Empty
        PROVE  /\ \E j \in SlotIds : slots'[j] = [name |-> files[g].name, status |-> "FILE_OPENED",
                                                   start |-> files[g].start]
               /\ files[g].name # name
    <3>1. PICK j \in SlotIds : slots[j] = [name |-> files[g].name, status |-> "FILE_OPENED",
                                           start |-> files[g].start]
      BY <2>1, <2>6 DEF HandlesBacked
    <3>2. slots[j].name = files[g].name
      BY <3>1
    <3> QED BY <3>1, <3>2, <2>2, <2>3, <2>6, <1>2
  <2>7. ASSUME NEW g \in Handles, files'[g] # NoFile, files'[g].name # Empty
        PROVE  /\ \E j \in SlotIds :
                    slots'[j] = [name |-> files'[g].name, status |-> "FILE_OPENED",
                                 start |-> files'[g].start]
               /\ \A k \in Handles \ {g} : files'[k] # NoFile => files'[k].name # files'[g].name
    <3>1. CASE g = h
      <4>1. files'[g].name = name /\ files'[g].start = block
        BY <3>1, <2>3
      <4>2. slots'[i] = [name |-> files'[g].name, status |-> "FILE_OPENED", start |-> files'[g].start]
        BY <4>1, <2>3
      <4>3. \A k \in Handles \ {g} : files'[k] # NoFile => files'[k].name # files'[g].name
        BY <4>1, <3>1, <2>2, <2>3, <2>6
      <4> QED BY <4>2, <4>3, <1>2
    <3>2. CASE g # h
      <4>1. files'[g] = files[g]
        BY <3>2, <2>3
      <4>2. \E j \in SlotIds : slots'[j] = [name |-> files'[g].name, status |-> "FILE_OPENED",
                                            start |-> files'[g].start]
        BY <4>1, <3>2, <2>6, <2>7
      <4>3. ASSUME NEW k \in Handles \ {g}, files'[k] # NoFile
            PROVE  files'[k].name # files'[g].name
        <5>1. CASE k = h
          <6>1. files'[k].name = name
            BY <5>1, <2>3
          <6>2. files[g].name # name
            BY <4>1, <3>2, <2>6, <2>7
          <6> QED BY <6>1, <6>2, <4>1
        <5>2. CASE k # h
          <6>1. files'[k] = files[k]
            BY <5>2, <2>3
          <6>2. files[g] # NoFile /\ files[k] # NoFile
            BY <6>1, <4>1, <4>3, <2>7
          <6>3. files[k].name # files[g].name
            BY <6>2, <4>1, <2>1, <2>7 DEF HandlesBacked
          <6> QED BY <6>1, <6>3, <4>1
        <5> QED BY <5>1, <5>2
      <4> QED BY <4>2, <4>3
    <3> QED BY <3>1, <3>2
  <2> QED BY <2>4, <2>5, <2>7 DEF HandlesBacked
<1> QED BY <1>4, <1>5 DEF DirectoryInv

LEMMA DeleteSlotDirectory ==
    ASSUME TypeOK, DirectoryInv, DeleteSlot
    PROVE  DirectoryInv'
<1>1. /\ slots' = [slots EXCEPT ![slot] = EmptySlot] /\ files' = files /\ fault' = fault
      /\ pc = "delete_slot" /\ pc' = "idle" /\ slot \in SlotIds
      /\ slots \in [SlotIds -> FileBlock] /\ slots[slot].status = "FILE_CLOSED"
  BY DEF DeleteSlot, Return, TypeOK, DirectoryInv, Victim, Deleting
<1>2. Victim' /\ NewName'
  BY <1>1 DEF Victim, Deleting, NewName
<1>3. ASSUME "alias" \notin fault' PROVE NamesUnique'
  BY <1>1, <1>3 DEF NamesUnique, DirectoryInv, EmptySlot
<1>4. ASSUME "alias" \notin fault' PROVE HandlesBacked'
  <2>1. HandlesBacked /\ "alias" \notin fault
    BY <1>1, <1>4 DEF DirectoryInv
  <2>2. ASSUME NEW g \in Handles, files[g] # NoFile, files[g].name # Empty
        PROVE  \E j \in SlotIds : slots'[j] = [name |-> files[g].name, status |-> "FILE_OPENED",
                                              start |-> files[g].start]
    <3>1. PICK j \in SlotIds : slots[j] = [name |-> files[g].name, status |-> "FILE_OPENED",
                                           start |-> files[g].start]
      BY <2>1, <2>2 DEF HandlesBacked
    <3>2. j # slot
      BY <1>1, <3>1
    <3> QED BY <1>1, <3>1, <3>2
  <2> QED BY <1>1, <2>1, <2>2 DEF HandlesBacked
<1> QED BY <1>2, <1>3, <1>4 DEF DirectoryInv

LEMMA CrashDirectory ==
    ASSUME DirectoryInv, Crash
    PROVE  DirectoryInv'
BY DEF Crash, Return, disk, DirectoryInv, Victim, Deleting, NewName, NamesUnique, HandlesBacked

LEMMA NextDirectory == TypeOK /\ DirectoryInv /\ [Next]_vars => DirectoryInv'
<1> SUFFICES ASSUME TypeOK, DirectoryInv, [Next]_vars PROVE DirectoryInv'
  OBVIOUS
<1>1. ASSUME NEW n \in Names, CreateRefused(n) \/ OpenRefused(n) \/ DeleteRefused(n) \/ FileExists(n)
      PROVE  DirectoryInv'
  BY <1>1, RefuseDirectory DEF CreateRefused, OpenRefused, DeleteRefused, FileExists
<1>2. ASSUME NEW n \in Names, CreateFile(n)
      PROVE  DirectoryInv'
  <2>1. /\ pc' = "create_fat" /\ name' = n /\ n # Empty /\ Matching(n) = {}
        /\ UNCHANGED <<slots, files>> /\ fault \subseteq fault'
    BY <1>2 DEF CreateFile
  <2>2. \A i \in SlotIds : slots[i].name # n
    BY <2>1, NamesAssumption DEF Matching
  <2>3. NewName' /\ Victim'
    BY <2>1, <2>2 DEF NewName, Victim, Deleting
  <2> QED BY <2>1, <2>3 DEF DirectoryInv, NamesUnique, HandlesBacked
<1>3. ASSUME NEW n \in Names, DeleteFile(n)
      PROVE  DirectoryInv'
  <2>1. /\ pc' \in {"delete_walk", "clobbered"} /\ slots[slot'].status = "FILE_CLOSED"
        /\ UNCHANGED <<slots, files>> /\ fault \subseteq fault'
    BY <1>3 DEF DeleteFile, FreeBlock
  <2>2. NewName' /\ Victim'
    BY <2>1 DEF NewName, Victim
  <2> QED BY <2>1, <2>2 DEF DirectoryInv, NamesUnique, HandlesBacked
<1>4. ASSUME NEW n \in Names, NEW h \in Handles, OpenFile(n, h)
      PROVE  DirectoryInv'
  BY <1>4, OpenDirectory
<1>5. ASSUME NEW h \in Handles, CloseRefused(h)
      PROVE  DirectoryInv'
  BY <1>5, RefuseDirectory DEF CloseRefused
<1>6. ASSUME NEW h \in Handles, CloseFile(h)
      PROVE  DirectoryInv'
  BY <1>6, CloseDirectory
<1>7. ASSUME NEW h \in Handles, SeekHangs(h)
      PROVE  DirectoryInv'
  BY <1>7, DirectoryFrame DEF SeekHangs, disk, local, Deleting
<1>8. ASSUME NEW h \in Handles, NEW k \in 1 .. MaxSeekBlocks, SeekRefused(h, k)
      PROVE  DirectoryInv'
  BY <1>8, RefuseDirectory DEF SeekRefused
<1>9. ASSUME NEW h \in Handles, NEW k \in 1 .. MaxSeekBlocks, SeekFile(h, k)
      PROVE  DirectoryInv'
  <2>1. CASE Refuse("FS_NONE")
    BY <2>1, RefuseDirectory
  <2>2. CASE pc' = "grow" /\ UNCHANGED <<disk, files, fault>>
    BY <2>2, DirectoryFrame DEF disk, Deleting
  <2> QED BY <1>9, <2>1, <2>2 DEF SeekFile
<1>10. CASE CreateFat
  BY <1>10, DirectoryFrame DEF CreateFat, local, Deleting
<1>11. CASE CreateFails
  BY <1>11, DirectoryFrame DEF CreateFails, Return, disk, Deleting
<1>12. CASE AddBlock
  BY <1>12, DirectoryFrame DEF AddBlock, Deleting
<1>13. CASE GrowFlush
  BY <1>13, DirectoryFrame DEF GrowFlush, FlushFat, Return, Deleting
<1>14. CASE DeleteNext
  BY <1>14, DirectoryFrame DEF DeleteNext, FreeBlock, Deleting
<1>15. CASE DeleteLast
  BY <1>15, DirectoryFrame DEF DeleteLast, disk, Deleting
<1>16. CASE DeleteFlush
  BY <1>16, DirectoryFrame DEF DeleteFlush, FlushFat, Deleting
<1>17. CASE DeleteSlot
  BY <1>17, DeleteSlotDirectory
<1>18. ASSUME NEW h \in Handles, CreateSlot(h) PROVE DirectoryInv'
  BY <1>18, CreateSlotDirectory
<1>19. CASE Crash
  BY <1>19, CrashDirectory
<1>20. CASE UNCHANGED vars
  BY <1>20, DirectoryFrame DEF vars, Deleting
<1> QED
  BY <1>1, <1>2, <1>3, <1>4, <1>5, <1>6, <1>7, <1>8, <1>9, <1>10, <1>11, <1>12, <1>13,
     <1>14, <1>15, <1>16, <1>17, <1>18, <1>19, <1>20
     DEF Next, Call, Continue

LEMMA DirectoryCorrect == Spec => []DirectoryInv
BY InitDirectory, NextDirectory, TypeCorrect, PTL DEF Spec

\* An open File object stands for an open descriptor of its own, in every volume
\* on which close_file has written no descriptor but its own.
THEOREM FilesStayBacked == Spec => []HandlesBacked
<1>1. DirectoryInv => HandlesBacked
  BY DEF DirectoryInv, HandlesBacked
<1> QED BY <1>1, DirectoryCorrect, PTL

\* Under the same condition no two descriptors have the same name.
THEOREM NamesStayUnique == Spec => []NamesUnique
<1>1. DirectoryInv => NamesUnique
  BY DEF DirectoryInv, NamesUnique
<1> QED BY <1>1, DirectoryCorrect, PTL

-----------------------------------------------------------------------------
(* FatVolume implements Directory.  Only the four steps that write a        *)
(* descriptor change it, and each changes the status of one name: the       *)
(* names are unique, and an open File object has its descriptor.            *)

FileNames == Names \ {Empty}

\* Only descriptor i changes; m is the name it had, or gets.
LEMMA StatusChange ==
    ASSUME NEW i \in SlotIds, NEW m \in FileNames,
           \A j \in SlotIds \ {i} : slots'[j] = slots[j] /\ slots[j].name # m,
           slots[i].name \in {m, Empty}, slots'[i].name \in {m, Empty},
           slots'[i].status \in {"FILE_CLOSED", "FILE_OPENED"}
    PROVE  FileStatus' = [FileStatus EXCEPT ![m] =
               IF slots'[i].name = Empty THEN "absent"
               ELSE IF slots'[i].status = "FILE_OPENED" THEN "open" ELSE "closed"]
<1> DEFINE new == IF slots'[i].name = Empty THEN "absent"
                  ELSE IF slots'[i].status = "FILE_OPENED" THEN "open" ELSE "closed"
<1>1. m # Empty
  BY DEF FileNames
<1>2. ASSUME NEW n \in FileNames, n # m PROVE FileStatus'[n] = FileStatus[n]
  <2>1. slots[i].name # n /\ slots'[i].name # n
    BY <1>2 DEF FileNames
  <2>2. \A j \in SlotIds : slots'[j].name = n <=> slots[j].name = n
    BY <2>1
  <2>3. \A j \in SlotIds : slots[j].name = n => slots'[j] = slots[j]
    BY <2>1
  <2> QED BY <2>2, <2>3 DEF FileStatus, FileNames
<1>3. FileStatus'[m] = new
  <2>1. \A j \in SlotIds : slots'[j].name = m => j = i
    OBVIOUS
  <2>2. CASE slots'[i].name = Empty
    <3>1. \A j \in SlotIds : slots'[j].name # m
      BY <2>1, <2>2, <1>1
    <3> QED BY <3>1, <2>2 DEF FileStatus, FileNames
  <2>3. CASE slots'[i].name = m
    <3>1. (\E j \in SlotIds : slots'[j].name = m /\ slots'[j].status = "FILE_OPENED")
             <=> slots'[i].status = "FILE_OPENED"
      BY <2>1, <2>3
    <3> QED BY <3>1, <2>3, <1>1 DEF FileStatus, FileNames
  <2> QED BY <2>2, <2>3
<1>4. /\ FileStatus = [n \in FileNames |-> FileStatus[n]]
      /\ FileStatus' = [n \in FileNames |-> FileStatus'[n]]
  BY DEF FileStatus, FileNames
<1> HIDE DEF new
<1>5. FileStatus' = [FileStatus EXCEPT ![m] = new]
  BY <1>2, <1>3, <1>4
<1> QED BY <1>5 DEF new

\* The status of a name that a descriptor has.
LEMMA StatusOf ==
    ASSUME NEW i \in SlotIds, slots[i].name \in FileNames,
           \A j \in SlotIds \ {i} : slots[j].name # slots[i].name
    PROVE  FileStatus[slots[i].name] =
               IF slots[i].status = "FILE_OPENED" THEN "open" ELSE "closed"
BY DEF FileStatus, FileNames

\* Steps that write no descriptor change no status.
LEMMA StatusFrame == UNCHANGED slots => UNCHANGED FileStatus
BY DEF FileStatus

LEMMA HeldFrame == UNCHANGED files => UNCHANGED Held
BY DEF Held

\* A File object comes, or goes.
LEMMA HeldAdd ==
    ASSUME TypeOK, NEW h \in Handles, NEW f, f # NoFile, f.name # Empty,
           files[h] = NoFile, files' = [files EXCEPT ![h] = f]
    PROVE  Held' = Held \cup {f.name}
<1>1. files'[h] = f /\ \A g \in Handles : g # h => files'[g] = files[g]
  BY DEF TypeOK
<1>2. Held' \subseteq Held \cup {f.name}
  BY <1>1 DEF Held
<1>3. Held \subseteq Held'
  <2>1. ASSUME NEW n \in Held PROVE n \in Held'
    <3>1. PICK g \in Handles : files[g] # NoFile /\ n = files[g].name
      BY DEF Held
    <3>2. files'[g] = files[g]
      BY <3>1, <1>1
    <3>3. n # Empty
      BY DEF Held
    <3> QED BY <3>1, <3>2, <3>3 DEF Held
  <2> QED BY <2>1
<1>4. f.name \in Held'
  BY <1>1 DEF Held
<1> QED BY <1>2, <1>3, <1>4

LEMMA HeldRemove ==
    ASSUME TypeOK, NEW h \in Handles, files[h] # NoFile,
           files' = [files EXCEPT ![h] = NoFile],
           \A g \in Handles \ {h} : files[g] # NoFile => files[g].name # files[h].name
    PROVE  Held' = Held \ {files[h].name}
<1>1. files'[h] = NoFile /\ \A g \in Handles : g # h => files'[g] = files[g]
  BY DEF TypeOK
<1>2. Held' \subseteq Held \ {files[h].name}
  BY <1>1 DEF Held
<1>3. ASSUME NEW n \in Held \ {files[h].name} PROVE n \in Held'
  <2>1. PICK g \in Handles : files[g] # NoFile /\ n = files[g].name
    BY DEF Held
  <2>2. g # h /\ n # Empty
    BY <2>1 DEF Held
  <2> QED BY <1>1, <2>1, <2>2 DEF Held
<1> QED BY <1>2, <1>3

-----------------------------------------------------------------------------
(* The four steps that write a descriptor *)

\* The assumption of every step: the directory is in order, and stays so.
InOrder ==
    "alias" \notin fault /\ "alias" \notin fault' /\ NewName /\ NamesUnique /\ HandlesBacked

LEMMA CreateStep ==
    ASSUME TypeOK, InOrder, NEW h \in Handles, CreateSlot(h)
    PROVE  Dir!Create(name)
<1> DEFINE i == First(FreeSlots)
<1>1. i \in SlotIds /\ slots[i].name = Empty
  BY FirstSlot DEF CreateSlot, FreeSlots
<1>2. name \in FileNames /\ \A j \in SlotIds : slots[j].name # name
  BY DEF InOrder, NewName, CreateSlot, TypeOK, FileNames
<1>3. /\ slots' = [slots EXCEPT ![i] = [name |-> name, status |-> "FILE_OPENED", start |-> block]]
      /\ files' = [files EXCEPT ![h] = [name |-> name, start |-> block]]
      /\ files[h] = NoFile
  BY DEF CreateSlot
<1> HIDE DEF i
<1>4. /\ slots'[i] = [name |-> name, status |-> "FILE_OPENED", start |-> block]
      /\ \A j \in SlotIds \ {i} : slots'[j] = slots[j]
  BY <1>1, <1>3 DEF TypeOK
<1>5. FileStatus' = [FileStatus EXCEPT ![name] = "open"]
  <2>1. slots'[i].name = name /\ slots'[i].status = "FILE_OPENED" /\ name # Empty
    BY <1>2, <1>4 DEF FileNames
  <2> QED BY <2>1, <1>1, <1>2, <1>4, StatusChange
<1>6. FileStatus[name] = "absent"
  BY <1>2 DEF FileStatus, FileNames
<1>7. Held' = Held \cup {name}
  <2>1. [name |-> name, start |-> block] # NoFile
    BY NoFileAssumption DEF TypeOK
  <2>2. [name |-> name, start |-> block].name = name /\ name # Empty
    BY <1>2 DEF FileNames
  <2> QED BY <2>1, <2>2, <1>3, HeldAdd
<1> QED BY <1>5, <1>6, <1>7 DEF Dir!Create

LEMMA OpenStep ==
    ASSUME TypeOK, InOrder, NEW n \in Names, NEW h \in Handles, OpenFile(n, h)
    PROVE  (\E m \in FileNames : Dir!Open(m)) \/ UNCHANGED Dir!vars
<1> DEFINE i == First(Matching(n))
           m == slots[i].name
           f == [name |-> slots[i].name, start |-> slots[i].start]
<1>1. i \in SlotIds /\ slots[i] \in FileBlock
  BY FirstMatch DEF OpenFile, TypeOK
<1>2. /\ slots[i].status = "FILE_CLOSED" /\ files[h] = NoFile
      /\ slots' = [slots EXCEPT ![i].status = "FILE_OPENED"]
      /\ files' = [files EXCEPT ![h] = f]
  BY DEF OpenFile
<1>3. f # NoFile /\ f.name = m /\ m \in Names
  BY <1>1, NoFileAssumption DEF FileBlock
<1> HIDE DEF i
<1>4. /\ slots'[i].name = m /\ slots'[i].status = "FILE_OPENED"
      /\ \A j \in SlotIds \ {i} : slots'[j] = slots[j]
  BY <1>1, <1>2 DEF TypeOK, FileBlock
<1>5. CASE m # Empty
  <2>1. m \in FileNames
    BY <1>3, <1>5 DEF FileNames
  <2>2. \A j \in SlotIds \ {i} : slots[j].name # m
    BY <1>1, <1>5 DEF InOrder, NamesUnique, TypeOK, FileNames
  <2>3. FileStatus[m] = "closed"
    BY <2>1, <2>2, <1>1, <1>2, StatusOf
  <2> HIDE DEF m
  <2>4. FileStatus' = [FileStatus EXCEPT ![m] = "open"]
    BY <2>1, <2>2, <1>1, <1>4, <1>5, StatusChange DEF m
  <2>5. Held' = Held \cup {m}
    BY <1>2, <1>3, <1>5, HeldAdd
  <2> QED BY <2>1, <2>3, <2>4, <2>5 DEF Dir!Open
<1>6. CASE m = Empty
  <2>1. \A j \in SlotIds : slots'[j].name = slots[j].name
    BY <1>4
  <2>2. \A j \in SlotIds : slots[j].name # Empty => slots'[j] = slots[j]
    BY <1>4, <1>6
  <2>3. UNCHANGED FileStatus
    BY <2>1, <2>2 DEF FileStatus
  <2>4. UNCHANGED Held
    <3>1. files'[h] = f /\ \A g \in Handles : g # h => files'[g] = files[g]
      BY <1>2 DEF TypeOK
    <3> HIDE DEF f
    <3>2. \A x : x \in Held' <=> x \in Held
      BY <3>1, <1>2, <1>3, <1>6 DEF Held
    <3> QED BY <3>2
  <2> QED BY <2>3, <2>4 DEF Dir!vars
<1> QED BY <1>5, <1>6

LEMMA CloseStep ==
    ASSUME TypeOK, InOrder, NEW h \in Handles, CloseFile(h)
    PROVE  (\E m \in FileNames : Dir!Close(m)) \/ UNCHANGED Dir!vars
<1> DEFINE i == First(Matching(files[h].name))
           m == files[h].name
<1>1. files[h] # NoFile /\ files[h] \in [name : Names, start : Blocks]
  BY DEF CloseFile, TypeOK
<1>2. /\ i \in SlotIds /\ slots[i].status = "FILE_OPENED" /\ slots[i].name = m
      /\ slots' = [slots EXCEPT ![i] = [name |-> files[h].name, status |-> "FILE_CLOSED",
                                        start |-> files[h].start]]
      /\ files' = [files EXCEPT ![h] = NoFile]
  BY <1>1, FirstMatch DEF CloseFile, InOrder
<1> HIDE DEF i
<1>3. /\ slots'[i].name = m /\ slots'[i].status = "FILE_CLOSED"
      /\ \A j \in SlotIds \ {i} : slots'[j] = slots[j]
  BY <1>2 DEF TypeOK
<1>4. CASE m # Empty
  <2>1. m \in FileNames /\ m \in Held
    BY <1>1, <1>4 DEF FileNames, Held
  <2>2. \A j \in SlotIds \ {i} : slots[j].name # m
    BY <1>2, <1>4 DEF InOrder, NamesUnique
  <2>3. FileStatus[m] = "open"
    BY <2>1, <2>2, <1>2, StatusOf
  <2>4. \A g \in Handles \ {h} : files[g] # NoFile => files[g].name # m
    BY <1>1, <1>4 DEF InOrder, HandlesBacked
  <2>5. Held' = Held \ {m}
    BY <2>4, <1>1, <1>2, HeldRemove
  <2> HIDE DEF m
  <2>6. FileStatus' = [FileStatus EXCEPT ![m] = "closed"]
    BY <2>1, <2>2, <1>2, <1>3, <1>4, StatusChange
  <2> QED BY <2>1, <2>3, <2>5, <2>6 DEF Dir!Close
<1>5. CASE m = Empty
  <2>1. /\ \A j \in SlotIds : slots'[j].name = slots[j].name
        /\ \A j \in SlotIds : slots[j].name # Empty => slots'[j] = slots[j]
    BY <1>2, <1>3, <1>5
  <2>2. UNCHANGED FileStatus
    BY <2>1 DEF FileStatus
  <2>3. UNCHANGED Held
    <3>1. files'[h] = NoFile /\ \A g \in Handles : g # h => files'[g] = files[g]
      BY <1>2 DEF TypeOK
    <3>2. \A x : x \in Held' <=> x \in Held
      BY <3>1, <1>1, <1>5 DEF Held
    <3> QED BY <3>2
  <2> QED BY <2>2, <2>3 DEF Dir!vars
<1> QED BY <1>4, <1>5

LEMMA DeleteStep ==
    ASSUME TypeOK, InOrder, Victim, DeleteSlot
    PROVE  (\E m \in FileNames : Dir!Delete(m)) \/ UNCHANGED Dir!vars
<1> DEFINE m == slots[slot].name
<1>1. /\ slot \in SlotIds /\ slots[slot] \in FileBlock /\ slots[slot].status = "FILE_CLOSED"
      /\ slots' = [slots EXCEPT ![slot] = EmptySlot] /\ files' = files
  BY DEF DeleteSlot, TypeOK, Victim, Deleting
<1>2. /\ slots'[slot].name = Empty /\ slots'[slot].status = "FILE_CLOSED"
      /\ \A j \in SlotIds \ {slot} : slots'[j] = slots[j]
  BY <1>1 DEF TypeOK, EmptySlot
<1>3. UNCHANGED Held
  BY <1>1, HeldFrame
<1>4. CASE m # Empty
  <2>1. m \in FileNames
    BY <1>1, <1>4 DEF FileBlock, FileNames
  <2>2. \A j \in SlotIds \ {slot} : slots[j].name # m
    BY <1>1, <1>4 DEF InOrder, NamesUnique
  <2>3. FileStatus[m] = "closed"
    BY <2>1, <2>2, <1>1, StatusOf
  <2>4. FileStatus' = [FileStatus EXCEPT ![m] = "absent"]
    BY <2>1, <2>2, <1>1, <1>2, StatusChange
  <2> QED BY <2>1, <2>3, <2>4, <1>3 DEF Dir!Delete
<1>5. CASE m = Empty
  <2>1. /\ \A j \in SlotIds : slots'[j].name = slots[j].name
        /\ \A j \in SlotIds : slots[j].name # Empty => slots'[j] = slots[j]
    BY <1>1, <1>2, <1>5
  <2>2. UNCHANGED FileStatus
    BY <2>1 DEF FileStatus
  <2> QED BY <2>2, <1>3 DEF Dir!vars
<1> QED BY <1>4, <1>5

LEMMA CrashStep == Crash => Dir!Crash
<1>1. Crash => UNCHANGED slots /\ files' = [h \in Handles |-> NoFile]
  BY DEF Crash, disk
<1>2. files' = [h \in Handles |-> NoFile] => Held' = {}
  BY DEF Held
<1> QED BY <1>1, <1>2, StatusFrame DEF Dir!Crash

-----------------------------------------------------------------------------
(* The refinement *)

\* No step takes a fault back.
LEMMA FaultsStay == [Next]_vars => fault \subseteq fault'
BY DEF Next, Call, Continue, vars, CreateRefused, CreateFile, OpenRefused, DeleteRefused,
   DeleteFile, FreeBlock, FileExists, OpenFile, CloseRefused, CloseFile, SeekHangs, SeekRefused,
   SeekFile, CreateFat, CreateFails, AddBlock, GrowFlush, DeleteNext, DeleteLast, DeleteFlush,
   FlushFat, DeleteSlot, CreateSlot, Crash, Refuse

LEMMA DirectoryUntouched == UNCHANGED <<slots, files>> => UNCHANGED Dir!vars
BY StatusFrame, HeldFrame DEF Dir!vars

LEMMA InitMaps == Init => Dir!Init
<1> SUFFICES ASSUME Init PROVE FileStatus = [n \in FileNames |-> "absent"] /\ Held = {}
  BY DEF Dir!Init, FileNames
<1>1. \A i \in SlotIds : slots[i].name = Empty
  BY DEF Init, EmptySlot
<1>2. \A h \in Handles : files[h] = NoFile
  BY DEF Init
<1> QED BY <1>1, <1>2 DEF FileStatus, Held, FileNames

LEMMA NextMaps ==
    ASSUME TypeOK, DirectoryInv, [Next]_vars, "alias" \notin fault'
    PROVE  Dir!Next \/ UNCHANGED Dir!vars
<1>1. InOrder /\ Victim
  BY FaultsStay DEF InOrder, DirectoryInv
<1>2. ASSUME NEW h \in Handles, CreateSlot(h) PROVE Dir!Next
  <2>1. name \in Names \ {Empty}
    BY <1>1, <1>2 DEF InOrder, NewName, CreateSlot, TypeOK
  <2> QED BY <1>1, <1>2, <2>1, CreateStep DEF Dir!Next
<1>3. ASSUME NEW n \in Names, NEW h \in Handles, OpenFile(n, h)
      PROVE  Dir!Next \/ UNCHANGED Dir!vars
  BY <1>1, <1>3, OpenStep DEF Dir!Next, FileNames
<1>4. ASSUME NEW h \in Handles, CloseFile(h) PROVE Dir!Next \/ UNCHANGED Dir!vars
  BY <1>1, <1>4, CloseStep DEF Dir!Next, FileNames
<1>5. CASE DeleteSlot
  BY <1>1, <1>5, DeleteStep DEF Dir!Next, FileNames
<1>6. CASE Crash
  BY <1>6, CrashStep DEF Dir!Next
<1>7. ASSUME NEW n \in Names,
             CreateRefused(n) \/ CreateFile(n) \/ OpenRefused(n) \/ DeleteRefused(n)
               \/ DeleteFile(n) \/ FileExists(n)
      PROVE  UNCHANGED <<slots, files>>
  BY <1>7 DEF CreateRefused, CreateFile, OpenRefused, DeleteRefused, DeleteFile, FileExists,
              Refuse, disk
<1>8. ASSUME NEW h \in Handles, CloseRefused(h) \/ SeekHangs(h)
      PROVE  UNCHANGED <<slots, files>>
  BY <1>8 DEF CloseRefused, SeekHangs, Refuse, disk
<1>9. ASSUME NEW h \in Handles, NEW k \in 1 .. MaxSeekBlocks, SeekRefused(h, k) \/ SeekFile(h, k)
      PROVE  UNCHANGED <<slots, files>>
  BY <1>9 DEF SeekRefused, SeekFile, Refuse, disk
<1>10. ASSUME CreateFat \/ CreateFails \/ AddBlock \/ GrowFlush \/ DeleteNext \/ DeleteLast
                \/ DeleteFlush \/ UNCHANGED vars
       PROVE  UNCHANGED <<slots, files>>
  BY <1>10 DEF CreateFat, CreateFails, AddBlock, GrowFlush, DeleteNext, DeleteLast,
               DeleteFlush, FlushFat, vars, disk
<1> QED
  BY <1>2, <1>3, <1>4, <1>5, <1>6, <1>7, <1>8, <1>9, <1>10, DirectoryUntouched
     DEF Next, Call, Continue

\* The descriptors are a directory, for any number of names, descriptors and File
\* objects, with full disks, freed blocks of other files, crashes and all.
THEOREM DirectoryImplemented == Spec => ImplementsDirectory
<1>1. TypeOK /\ DirectoryInv /\ [Next]_vars
        => ("alias" \notin fault' => Dir!Next \/ UNCHANGED Dir!vars)
  BY NextMaps
<1> DEFINE A == "alias" \notin fault' => Dir!Next \/ UNCHANGED Dir!vars
<1>2. TypeOK /\ DirectoryInv /\ [Next]_vars => [A]_vars
  BY <1>1
<1> HIDE DEF A
<1>3. Spec => [][A]_vars
  BY <1>2, TypeCorrect, DirectoryCorrect, PTL DEF Spec
<1>4. Spec => Dir!Init
  BY InitMaps DEF Spec
<1> QED BY <1>3, <1>4 DEF ImplementsDirectory, A

-----------------------------------------------------------------------------
(* Operators on a FAT *)

LEMMA EntryValues ==
    /\ FreeEntry = 0 /\ LastBlock = 1 /\ 0 \notin DataBlocks /\ 1 \notin DataBlocks
    /\ DataBlocks \subseteq Blocks
    /\ \A b \in Blocks : b \in DataBlocks \/ b \in MetaData
    /\ \A b \in DataBlocks : b # 0 /\ b # 1 /\ b \notin MetaData
BY DiskAssumption DEF FreeEntry, LastBlock, DataBlocks, Blocks, MetaData

\* Nothing leads to a free data block.
LEMMA FreeNotLinked ==
    ASSUME NEW f \in [Blocks -> Blocks], WellLinked(f), NEW b \in DataBlocks, f[b] = FreeEntry
    PROVE  ~ Linked(f, b)
BY DEF WellLinked, Linked

\* Taking a free block as a chain of its own.
LEMMA NewHead ==
    ASSUME NEW f \in [Blocks -> Blocks], WellLinked(f), NEW b \in DataBlocks, f[b] = FreeEntry,
           NEW g, g = [f EXCEPT ![b] = LastBlock]
    PROVE  /\ WellLinked(g)
           /\ \A c \in DataBlocks : Linked(g, c) <=> Linked(f, c)
<1>1. /\ g \in [Blocks -> Blocks] /\ b \in Blocks /\ g[b] = LastBlock
      /\ \A c \in Blocks : c # b => g[c] = f[c]
  BY EntryValues, FirstValues
<1>2. ~ Linked(f, b)
  BY FreeNotLinked
<1>3. \A c \in Blocks : g[c] \in DataBlocks => g[c] = f[c] /\ c # b /\ g[c] # b
  BY <1>1, <1>2, EntryValues DEF Linked
<1>4. WellLinked(g)
  <2>1. \A c \in Blocks : g[c] # FreeEntry => c \in DataBlocks
    BY <1>1 DEF WellLinked
  <2>2. \A c \in Blocks : g[c] \in {FreeEntry, LastBlock} \cup DataBlocks
    BY <1>1 DEF WellLinked
  <2>3. \A c \in Blocks : g[c] \in DataBlocks => g[g[c]] # FreeEntry
    BY <1>1, <1>3, EntryValues DEF WellLinked
  <2>4. \A c, d \in Blocks : g[c] = g[d] /\ g[c] \in DataBlocks => c = d
    BY <1>3 DEF WellLinked
  <2> QED BY <2>1, <2>2, <2>3, <2>4 DEF WellLinked
<1>5. \A c \in DataBlocks : Linked(g, c) <=> Linked(f, c)
  BY <1>1, <1>3, EntryValues DEF Linked
<1> QED BY <1>4, <1>5

\* Hanging a free block after the last block of a chain.
LEMMA LinkWell ==
    ASSUME NEW f \in [Blocks -> Blocks], WellLinked(f), NEW b \in DataBlocks, f[b] = FreeEntry,
           NEW last \in Blocks, f[last] = LastBlock,
           NEW g, g = Link(f, last, b)
    PROVE  /\ WellLinked(g) /\ g \in [Blocks -> Blocks]
           /\ \A c \in DataBlocks : Linked(g, c) => Linked(f, c) \/ c = b
           /\ \A c \in Blocks : g[c] # FreeEntry <=> f[c] # FreeEntry \/ c = b
<1>1. /\ g \in [Blocks -> Blocks] /\ b \in Blocks /\ last # b
      /\ g[b] = LastBlock /\ g[last] = b /\ last \in DataBlocks
      /\ \A c \in Blocks : c # b /\ c # last => g[c] = f[c]
  BY EntryValues, FirstValues DEF Link, WellLinked
<1>2. ~ Linked(f, b)
  BY FreeNotLinked
<1>3. \A c \in Blocks : g[c] \in DataBlocks =>
          c # b /\ (c # last => g[c] = f[c] /\ g[c] # b)
  <2>1. \A c \in Blocks : f[c] # b
    BY <1>2 DEF Linked
  <2> QED BY <1>1, <2>1, EntryValues
<1>4. \A c \in Blocks : g[c] # FreeEntry <=> f[c] # FreeEntry \/ c = b
  BY <1>1, EntryValues
<1>5. WellLinked(g)
  <2>1. \A c \in Blocks : g[c] # FreeEntry => c \in DataBlocks
    BY <1>4 DEF WellLinked
  <2>2. \A c \in Blocks : g[c] \in {FreeEntry, LastBlock} \cup DataBlocks
    BY <1>1 DEF WellLinked
  <2>3. \A c \in Blocks : g[c] \in DataBlocks => g[g[c]] # FreeEntry
    <3>1. ASSUME NEW c \in Blocks, g[c] \in DataBlocks, c # last PROVE g[g[c]] # FreeEntry
      BY <3>1, <1>3, <1>4, EntryValues DEF WellLinked
    <3>2. g[g[last]] # FreeEntry
      BY <1>1, EntryValues
    <3> QED BY <3>1, <3>2
  <2>4. \A c, d \in Blocks : g[c] = g[d] /\ g[c] \in DataBlocks => c = d
    BY <1>1, <1>3 DEF WellLinked
  <2> QED BY <2>1, <2>2, <2>3, <2>4 DEF WellLinked
<1>6. \A c \in DataBlocks : Linked(g, c) => Linked(f, c) \/ c = b
  BY <1>1, <1>3, EntryValues DEF Linked
<1> QED BY <1>1, <1>4, <1>5, <1>6

\* Taking away the first block of a chain.
LEMMA UnlinkWell ==
    ASSUME NEW f \in [Blocks -> Blocks], WellLinked(f), NEW b \in Blocks, ~ Linked(f, b),
           NEW g, g = [f EXCEPT ![b] = FreeEntry]
    PROVE  /\ WellLinked(g)
           /\ \A c \in DataBlocks : Linked(g, c) <=> Linked(f, c) /\ f[b] # c
           /\ \A c \in Blocks : g[c] # FreeEntry <=> f[c] # FreeEntry /\ c # b
<1>1. /\ g \in [Blocks -> Blocks] /\ g[b] = FreeEntry
      /\ \A c \in Blocks : c # b => g[c] = f[c]
  BY EntryValues, FirstValues
<1>2. \A c \in Blocks : g[c] # FreeEntry <=> f[c] # FreeEntry /\ c # b
  BY <1>1
<1>3. \A c \in Blocks : g[c] \in DataBlocks => g[c] = f[c] /\ c # b /\ g[c] # b
  BY <1>1, EntryValues DEF Linked
<1>4. WellLinked(g)
  <2>1. \A c \in Blocks : g[c] # FreeEntry => c \in DataBlocks
    BY <1>2 DEF WellLinked
  <2>2. \A c \in Blocks : g[c] \in {FreeEntry, LastBlock} \cup DataBlocks
    BY <1>1 DEF WellLinked
  <2>3. \A c \in Blocks : g[c] \in DataBlocks => g[g[c]] # FreeEntry
    BY <1>2, <1>3, EntryValues DEF WellLinked
  <2>4. \A c, d \in Blocks : g[c] = g[d] /\ g[c] \in DataBlocks => c = d
    BY <1>3 DEF WellLinked
  <2> QED BY <2>1, <2>2, <2>3, <2>4 DEF WellLinked
<1>5. ASSUME NEW c \in DataBlocks PROVE Linked(g, c) <=> Linked(f, c) /\ f[b] # c
  <2>1. ASSUME Linked(g, c) PROVE Linked(f, c) /\ f[b] # c
    <3>1. PICK d \in Blocks : g[d] = c
      BY <2>1 DEF Linked
    <3>2. f[d] = c /\ d # b
      BY <3>1, <1>3
    <3> QED BY <3>2 DEF Linked, WellLinked
  <2>2. ASSUME Linked(f, c), f[b] # c PROVE Linked(g, c)
    BY <2>2, <1>1 DEF Linked
  <2> QED BY <2>1, <2>2
<1> QED BY <1>2, <1>4, <1>5

-----------------------------------------------------------------------------
(* The steps of the calls.  Faults are never taken back. *)

LEMMA SoundBefore ==
    ASSUME fault \subseteq fault', Sound'
    PROVE  Sound
BY DEF Sound

LEMMA InitVolume == Init => VolumeInv
<1> SUFFICES ASSUME Init PROVE VolumeInv
  OBVIOUS
<1>1. \A b \in Blocks : buf[b] = FreeEntry
  BY DEF Init
<1>2. LiveSlots = {}
  BY DEF Init, LiveSlots, EmptySlot
<1>3. VolumeOK(buf)
  BY <1>1, <1>2, EntryValues DEF VolumeOK, WellLinked, WellHeaded, Marked
<1> QED BY <1>3 DEF VolumeInv, OnDisk, Pending, Init

\* A call that changes no metadata.
LEMMA IdleVolume ==
    ASSUME VolumeInv, pc = "idle", pc' \in {"idle", "hung"},
           UNCHANGED <<bitmap, fat, slots, buf, fault>>
    PROVE  VolumeInv'
<1>1. LiveSlots' = LiveSlots
  BY DEF LiveSlots, Deleting
<1> QED BY <1>1 DEF VolumeInv, Sound, VolumeOK, WellLinked, WellHeaded, Linked, Marked, OnDisk, Pending

LEMMA RefuseVolume ==
    ASSUME VolumeInv, pc = "idle", NEW err, Refuse(err)
    PROVE  VolumeInv'
BY IdleVolume DEF Refuse, Return, disk

\* The block find_first_unused_bit_bitmap returns is in no file.
LEMMA FreshBlock ==
    ASSUME TypeOK, VolumeInv, Sound, ~ Full, pc # "delete_walk"
    PROVE  FindFirstUnused \in DataBlocks /\ buf[FindFirstUnused] = FreeEntry
                /\ (VolumeOK(fat) => fat[FindFirstUnused] = FreeEntry)
<1>1. FindFirstUnused \in Blocks /\ FindFirstUnused \notin bitmap
  BY FindFirstUnusedFree DEF TypeOK
<1> QED BY <1>1, EntryValues DEF VolumeInv, VolumeOK, Marked

LEMMA CreateFileVolume ==
    ASSUME TypeOK, VolumeInv, NEW n \in Names, CreateFile(n)
    PROVE  VolumeInv'
<1> SUFFICES ASSUME Sound' PROVE VolumeInv'
  BY DEF VolumeInv
<1>1. Sound /\ ~ Full
  BY DEF CreateFile, Sound, Structural
<1>2. /\ pc = "idle" /\ pc' = "create_fat" /\ block' = FindFirstUnused
      /\ bitmap' = bitmap \cup {FindFirstUnused} /\ UNCHANGED <<fat, slots, buf>>
  BY DEF CreateFile, SetNextBit
<1>3. FindFirstUnused \in DataBlocks /\ buf[FindFirstUnused] = FreeEntry
  BY <1>1, <1>2, FreshBlock
<1>4. LiveSlots' = LiveSlots
  BY <1>2 DEF LiveSlots, Deleting
<1>5. MetaData \subseteq bitmap /\ VolumeOK(buf) /\ fat = buf
  BY <1>1, <1>2 DEF VolumeInv, OnDisk
<1>6. VolumeOK(buf)'
  BY <1>2, <1>4, <1>5 DEF VolumeOK, WellLinked, WellHeaded, Linked, Marked
<1> QED BY <1>2, <1>3, <1>5, <1>6 DEF VolumeInv, OnDisk, Pending

LEMMA CreateFatVolume ==
    ASSUME TypeOK, VolumeInv, CreateFat
    PROVE  VolumeInv'
<1> SUFFICES ASSUME Sound' PROVE VolumeInv'
  BY DEF VolumeInv
<1>1. Sound
  BY DEF CreateFat, Sound
<1>2. /\ pc = "create_fat" /\ pc' = "create_slot" /\ UNCHANGED <<bitmap, slots, block>>
      /\ fat' = [fat EXCEPT ![block] = LastBlock] /\ buf' = fat'
  BY DEF CreateFat, local
<1>3. /\ fat = buf /\ block \in DataBlocks /\ block \in bitmap /\ buf[block] = FreeEntry
      /\ MetaData \subseteq bitmap /\ WellLinked(buf) /\ WellHeaded(buf) /\ Marked(buf)
  BY <1>1, <1>2 DEF VolumeInv, OnDisk, Pending, VolumeOK
<1>4. buf \in [Blocks -> Blocks] /\ buf' = [buf EXCEPT ![block] = LastBlock] /\ block \in Blocks
  BY <1>2, <1>3 DEF TypeOK
<1>5. WellLinked(buf') /\ \A c \in DataBlocks : Linked(buf', c) <=> Linked(buf, c)
  BY <1>3, <1>4, NewHead
<1>6. LiveSlots' = LiveSlots
  BY <1>2 DEF LiveSlots, Deleting
<1>7. \A i \in LiveSlots : /\ slots[i].start \in DataBlocks /\ slots[i].start # block
                            /\ buf[slots[i].start] # FreeEntry /\ ~ Linked(buf, slots[i].start)
  <2>1. \A i \in LiveSlots : slots[i].start \in Blocks
    BY DEF LiveSlots, TypeOK, FileBlock
  <2> QED BY <2>1, <1>3 DEF WellHeaded, WellLinked
<1>8. \A c \in Blocks : c # block => buf'[c] = buf[c]
  BY <1>4
<1>9. WellHeaded(buf)'
  BY <1>2, <1>3, <1>5, <1>6, <1>7, <1>8, EntryValues DEF WellHeaded, Linked
<1>10. Marked(buf)'
  BY <1>2, <1>3, <1>8 DEF Marked
<1>11. ~ Linked(buf', block) /\ buf'[block] = LastBlock
  BY <1>3, <1>4, <1>5, FreeNotLinked
<1>12. Pending'
  BY <1>2, <1>6, <1>7, <1>11 DEF Pending, Linked
<1> QED BY <1>2, <1>3, <1>5, <1>9, <1>10, <1>12 DEF VolumeInv, VolumeOK, WellLinked, OnDisk

LEMMA CreateSlotVolume ==
    ASSUME TypeOK, DirectoryInv, VolumeInv, NEW h \in Handles, CreateSlot(h)
    PROVE  VolumeInv'
<1> SUFFICES ASSUME Sound' PROVE VolumeInv'
  BY DEF VolumeInv
<1> DEFINE i == First(FreeSlots)
<1>1. Sound /\ name # Empty
  BY DEF CreateSlot, Sound, DirectoryInv, NewName, Structural
<1>2. i \in FreeSlots
  BY FirstSlot DEF CreateSlot, FreeSlots
<1>3. /\ pc = "create_slot" /\ pc' = "idle" /\ UNCHANGED <<bitmap, fat, buf>>
      /\ slots' = [slots EXCEPT ![i] = [name |-> name, status |-> "FILE_OPENED", start |-> block]]
      /\ i \in SlotIds /\ slots \in [SlotIds -> FileBlock]
  BY <1>2 DEF CreateSlot, Return, FreeSlots, TypeOK
<1> HIDE DEF i
<1>4. slots'[i].name = name /\ slots'[i].start = block /\ \A j \in SlotIds : j # i => slots'[j] = slots[j]
  BY <1>3
<1>5. LiveSlots' = LiveSlots \cup {i} /\ i \notin LiveSlots
  BY <1>1, <1>2, <1>3, <1>4 DEF LiveSlots, Deleting, FreeSlots
<1>6. /\ MetaData \subseteq bitmap /\ WellLinked(buf) /\ WellHeaded(buf) /\ Marked(buf) /\ fat = buf
      /\ buf[block] # FreeEntry /\ ~ Linked(buf, block) /\ \A j \in LiveSlots : slots[j].start # block
  BY <1>1, <1>3, EntryValues DEF VolumeInv, OnDisk, Pending, VolumeOK
<1>7. \A j \in LiveSlots : j \in SlotIds /\ slots'[j] = slots[j]
  BY <1>4, <1>5 DEF LiveSlots
<1>8. WellHeaded(buf)'
  <2>1. \A j \in LiveSlots' : buf'[slots'[j].start] # FreeEntry /\ ~ Linked(buf', slots'[j].start)
    BY <1>3, <1>4, <1>5, <1>6, <1>7 DEF WellHeaded
  <2>2. \A j, k \in LiveSlots' : slots'[j].start = slots'[k].start => j = k
    BY <1>4, <1>5, <1>6, <1>7 DEF WellHeaded
  <2> QED BY <2>1, <2>2 DEF WellHeaded, Linked
<1>9. Marked(buf)'
  BY <1>3, <1>6 DEF Marked
<1> QED BY <1>3, <1>6, <1>8, <1>9 DEF VolumeInv, VolumeOK, WellLinked, OnDisk, Pending

\* A call that changes descriptors but neither their names nor their first blocks.
LEMMA RenameNoneVolume ==
    ASSUME VolumeInv, pc = "idle", pc' = "idle", UNCHANGED <<bitmap, fat, buf>>,
           Sound, Sound',
           \A i \in SlotIds : slots'[i].name = slots[i].name /\ (i \in LiveSlots => slots'[i].start = slots[i].start)
    PROVE  VolumeInv'
<1>1. LiveSlots' = LiveSlots /\ \A i \in LiveSlots : i \in SlotIds
  BY DEF LiveSlots, Deleting
<1>2. /\ MetaData \subseteq bitmap /\ WellLinked(buf) /\ WellHeaded(buf) /\ Marked(buf) /\ fat = buf
  BY DEF VolumeInv, OnDisk, VolumeOK
<1>3. WellHeaded(buf)'
  BY <1>1, <1>2 DEF WellHeaded, Linked
<1> QED BY <1>2, <1>3 DEF VolumeInv, VolumeOK, WellLinked, Marked, OnDisk, Pending

LEMMA OpenVolume ==
    ASSUME TypeOK, VolumeInv, NEW n \in Names, NEW h \in Handles, OpenFile(n, h)
    PROVE  VolumeInv'
<1> SUFFICES ASSUME Sound' PROVE VolumeInv'
  BY DEF VolumeInv
<1>1. Sound /\ pc = "idle" /\ pc' = "idle" /\ UNCHANGED <<bitmap, fat, buf>>
  BY DEF OpenFile, Sound, Return
<1>2. \A i \in SlotIds : slots'[i].name = slots[i].name /\ slots'[i].start = slots[i].start
  BY FirstMatch DEF OpenFile, TypeOK, FileBlock
<1> QED BY <1>1, <1>2, RenameNoneVolume

\* close_file finds the descriptor it copied, or one without a name.
LEMMA CloseStarts ==
    ASSUME TypeOK, DirectoryInv, Sound', NEW h \in Handles, CloseFile(h)
    PROVE  /\ Sound /\ pc = "idle" /\ pc' = "idle" /\ UNCHANGED <<bitmap, fat, buf>>
           /\ \A j \in SlotIds : /\ slots'[j].name = slots[j].name
                                 /\ j \in LiveSlots => slots'[j].start = slots[j].start
<1> DEFINE i == First(Matching(files[h].name))
<1>1. Sound /\ pc = "idle" /\ pc' = "idle" /\ UNCHANGED <<bitmap, fat, buf>>
  BY DEF CloseFile, Sound, Return
<1>2. files[h] # NoFile /\ files[h] \in [name : Names, start : Blocks]
  BY DEF CloseFile, TypeOK
<1>3. /\ i \in SlotIds /\ slots[i].name = files[h].name
      /\ slots' = [slots EXCEPT ![i] = [name |-> files[h].name, status |-> "FILE_CLOSED",
                                        start |-> files[h].start]]
  BY <1>2, FirstMatch DEF CloseFile, Sound, Structural
<1> HIDE DEF i
<1>4. HandlesBacked /\ NamesUnique /\ "alias" \notin fault
  BY <1>1 DEF DirectoryInv, Sound, Structural
<1>5. files[h].name # Empty => slots[i].start = files[h].start
  <2>1. SUFFICES ASSUME files[h].name # Empty PROVE slots[i].start = files[h].start
    OBVIOUS
  <2>2. PICK j \in SlotIds : slots[j] = [name |-> files[h].name, status |-> "FILE_OPENED",
                                         start |-> files[h].start]
    BY <2>1, <1>2, <1>4 DEF HandlesBacked
  <2>3. j = i
    BY <2>1, <2>2, <1>3, <1>4 DEF NamesUnique
  <2> QED BY <2>2, <2>3
<1>6. slots \in [SlotIds -> FileBlock]
  BY DEF TypeOK
<1>7. ASSUME NEW j \in SlotIds
      PROVE  /\ slots'[j].name = slots[j].name
             /\ j \in LiveSlots => slots'[j].start = slots[j].start
  BY <1>3, <1>5, <1>6 DEF LiveSlots
<1> QED BY <1>1, <1>7

LEMMA CloseVolume ==
    ASSUME TypeOK, DirectoryInv, VolumeInv, NEW h \in Handles, CloseFile(h)
    PROVE  VolumeInv'
<1> SUFFICES ASSUME Sound' PROVE VolumeInv'
  BY DEF VolumeInv
<1> QED BY CloseStarts, RenameNoneVolume

LEMMA SeekVolume ==
    ASSUME VolumeInv, NEW h \in Handles, NEW k \in 1 .. MaxSeekBlocks, SeekFile(h, k)
    PROVE  VolumeInv'
<1>1. pc = "idle"
  BY DEF SeekFile
<1>2. CASE Refuse("FS_NONE")
  BY <1>1, <1>2, RefuseVolume
<1>3. CASE pc' = "grow" /\ UNCHANGED <<disk, buf, fault>>
  <2>1. LiveSlots' = LiveSlots
    BY <1>1, <1>3 DEF LiveSlots, Deleting, disk
  <2> QED BY <1>1, <1>3, <2>1
          DEF VolumeInv, Sound, VolumeOK, WellLinked, WellHeaded, Linked, Marked, OnDisk, Pending, disk
<1> QED BY <1>2, <1>3 DEF SeekFile

LEMMA AddBlockVolume ==
    ASSUME TypeOK, VolumeInv, AddBlock
    PROVE  VolumeInv'
<1> SUFFICES ASSUME Sound' PROVE VolumeInv'
  BY DEF VolumeInv
<1> DEFINE b == FindFirstUnused
<1>1. Sound /\ ~ Full
  BY DEF AddBlock, Sound, Structural
<1>2. PICK last \in Blocks : buf[last] = LastBlock /\ buf' = Link(buf, last, b)
  BY DEF AddBlock
<1>3. /\ pc = "grow" /\ pc' \in {"grow", "grow_flush"} /\ sector' = 0
      /\ bitmap' = bitmap \cup {b} /\ UNCHANGED <<fat, slots, block>>
  BY DEF AddBlock, SetNextBit
<1>4. /\ MetaData \subseteq bitmap /\ VolumeOK(buf) /\ VolumeOK(fat)
  BY <1>1, <1>3 DEF VolumeInv, OnDisk
<1>5. b \in DataBlocks /\ buf[b] = FreeEntry /\ fat[b] = FreeEntry
  BY <1>1, <1>3, <1>4, FreshBlock
<1> HIDE DEF b
<1>6. LiveSlots' = LiveSlots /\ \A i \in LiveSlots : slots[i].start \in Blocks
  BY <1>3 DEF LiveSlots, Deleting, TypeOK, FileBlock
<1>7. /\ WellLinked(buf')
      /\ \A c \in DataBlocks : Linked(buf', c) => Linked(buf, c) \/ c = b
      /\ \A c \in Blocks : buf'[c] # FreeEntry <=> buf[c] # FreeEntry \/ c = b
  BY <1>2, <1>4, <1>5, LinkWell DEF TypeOK, VolumeOK
<1>8. \A i \in LiveSlots : /\ slots[i].start \in DataBlocks /\ slots[i].start # b
                            /\ buf[slots[i].start] # FreeEntry /\ ~ Linked(buf, slots[i].start)
  BY <1>4, <1>5, <1>6 DEF VolumeOK, WellHeaded, WellLinked
<1>9. WellHeaded(buf)'
  <2>1. \A i \in LiveSlots : buf'[slots[i].start] # FreeEntry /\ ~ Linked(buf', slots[i].start)
    BY <1>6, <1>7, <1>8
  <2>2. \A i, j \in LiveSlots : slots[i].start = slots[j].start => i = j
    BY <1>4 DEF VolumeOK, WellHeaded
  <2> QED BY <2>1, <2>2, <1>3, <1>6 DEF WellHeaded, Linked
<1>10. Marked(buf)'
  BY <1>3, <1>4, <1>7 DEF VolumeOK, Marked
<1>11. VolumeOK(fat)'
  BY <1>3, <1>4, <1>6 DEF VolumeOK, WellLinked, WellHeaded, Linked, Marked
<1>12. OnDisk'
  BY <1>3, <1>11, SectorOfBlock DEF OnDisk, Sectors
<1> QED BY <1>3, <1>4, <1>7, <1>9, <1>10, <1>12 DEF VolumeInv, VolumeOK, WellLinked, Pending

\* Writing one more block of the FAT makes it equal the copy up to there.
LEMMA SectorWritten ==
    ASSUME TypeOK, fat' = WriteSector(sector),
           \A b \in Blocks : b \div EntriesPerSector < sector => fat[b] = buf[b]
    PROVE  /\ \A b \in Blocks : b \div EntriesPerSector < sector + 1 => fat'[b] = buf[b]
           /\ sector + 1 \notin Sectors => fat' = buf
<1>1. sector \in Nat
  BY DEF TypeOK, Sectors
<1>2. ASSUME NEW b \in Blocks, b \div EntriesPerSector < sector + 1
      PROVE  fat'[b] = buf[b]
  <2>1. fat'[b] = IF b \div EntriesPerSector = sector THEN buf[b] ELSE fat[b]
    BY DEF WriteSector
  <2>2. b \div EntriesPerSector \in Int
    BY SectorOfBlock DEF Sectors
  <2>3. b \div EntriesPerSector = sector \/ b \div EntriesPerSector < sector
    BY <2>2, <1>1, <1>2
  <2> QED BY <2>1, <2>3
<1>3. ASSUME sector + 1 \notin Sectors PROVE fat' = buf
  <2>1. \A b \in Blocks : b \div EntriesPerSector \in Sectors
    BY SectorOfBlock
  <2>2. \A x \in Sectors : x < sector + 1
    BY <1>3, DiskAssumption DEF TypeOK, Sectors
  <2>3. \A b \in Blocks : fat'[b] = buf[b]
    BY <2>1, <2>2, <1>2
  <2>4. fat' = [b \in Blocks |-> fat'[b]] /\ buf = [b \in Blocks |-> buf[b]]
    BY DEF WriteSector, TypeOK
  <2> QED BY <2>3, <2>4
<1> QED BY <1>2, <1>3

LEMMA GrowFlushVolume ==
    ASSUME TypeOK, VolumeInv, GrowFlush
    PROVE  VolumeInv'
<1> SUFFICES ASSUME Sound' PROVE VolumeInv'
  BY DEF VolumeInv
<1>1. /\ Sound /\ pc = "grow_flush" /\ fat' = WriteSector(sector)
      /\ UNCHANGED <<bitmap, slots, buf>>
  BY DEF GrowFlush, FlushFat, Sound
<1>2. /\ MetaData \subseteq bitmap /\ WellLinked(buf) /\ WellHeaded(buf) /\ Marked(buf)
      /\ \A b \in Blocks : b \div EntriesPerSector < sector => fat[b] = buf[b]
  BY <1>1 DEF VolumeInv, OnDisk, VolumeOK
<1>3. CASE sector + 1 \in Sectors
  <2>1. pc' = pc /\ sector' = sector + 1 /\ sector + 1 # 0 /\ UNCHANGED <<slot, block>>
    BY <1>3, DiskAssumption DEF GrowFlush, FlushFat, TypeOK, Sectors
  <2>2. LiveSlots' = LiveSlots
    BY <1>1, <2>1 DEF LiveSlots, Deleting
  <2>3. OnDisk'
    BY <1>1, <1>2, <2>1, SectorWritten DEF OnDisk
  <2> QED BY <1>1, <1>2, <2>1, <2>2, <2>3
          DEF VolumeInv, VolumeOK, WellLinked, WellHeaded, Linked, Marked, Pending
<1>4. CASE sector + 1 \notin Sectors
  <2>1. pc' = "idle"
    BY <1>4 DEF GrowFlush, FlushFat, Return
  <2>2. LiveSlots' = LiveSlots
    BY <1>1, <2>1 DEF LiveSlots, Deleting
  <2>3. OnDisk'
    BY <1>1, <1>2, <1>4, <2>1, SectorWritten DEF OnDisk
  <2> QED BY <1>1, <1>2, <2>1, <2>2, <2>3
          DEF VolumeInv, VolumeOK, WellLinked, WellHeaded, Linked, Marked, Pending
<1> QED BY <1>3, <1>4

LEMMA DeleteFlushVolume ==
    ASSUME TypeOK, VolumeInv, DeleteFlush
    PROVE  VolumeInv'
<1> SUFFICES ASSUME Sound' PROVE VolumeInv'
  BY DEF VolumeInv
<1>1. /\ Sound /\ pc = "delete_flush" /\ fat' = WriteSector(sector)
      /\ UNCHANGED <<bitmap, slots, buf, slot, block>>
  BY DEF DeleteFlush, FlushFat, Sound
<1>2. /\ MetaData \subseteq bitmap /\ WellLinked(buf) /\ WellHeaded(buf) /\ Marked(buf)
      /\ \A b \in Blocks : b \div EntriesPerSector < sector => fat[b] = buf[b]
  BY <1>1 DEF VolumeInv, OnDisk, VolumeOK
<1>3. pc' \in {"delete_flush", "delete_slot"}
  BY <1>1 DEF DeleteFlush, FlushFat
<1>4. LiveSlots' = LiveSlots
  BY <1>1, <1>3 DEF LiveSlots, Deleting
<1>5. OnDisk'
  <2>1. CASE sector + 1 \in Sectors
    <3>1. pc' = "delete_flush" /\ sector' = sector + 1
      BY <1>1, <2>1 DEF DeleteFlush, FlushFat
    <3> QED BY <1>1, <1>2, <3>1, SectorWritten DEF OnDisk
  <2>2. CASE sector + 1 \notin Sectors
    <3>1. pc' = "delete_slot"
      BY <2>2 DEF DeleteFlush, FlushFat
    <3> QED BY <1>1, <1>2, <2>2, <3>1, SectorWritten DEF OnDisk
  <2> QED BY <2>1, <2>2
<1> QED BY <1>1, <1>2, <1>3, <1>4, <1>5
        DEF VolumeInv, VolumeOK, WellLinked, WellHeaded, Linked, Marked, Pending

LEMMA DeleteFileVolume ==
    ASSUME TypeOK, VolumeInv, NEW n \in Names, DeleteFile(n)
    PROVE  VolumeInv'
<1> SUFFICES ASSUME Sound' PROVE VolumeInv'
  BY DEF VolumeInv
<1> DEFINE i == First(Matching(n))
           b == slots[i].start
<1>1. /\ pc = "idle" /\ i \in SlotIds /\ slot' = i /\ FreeBlock(b) /\ UNCHANGED <<fat, slots, buf>>
      /\ n # Empty /\ i \in Matching(n)
  BY FirstMatch, FirstSlot DEF DeleteFile, Matching
<1>2. Sound /\ ClearedBit(b) = b
  BY <1>1 DEF FreeBlock, Sound, Structural
<1>3. slots[i].name # Empty
  BY <1>1, NamesAssumption DEF Matching
<1>4. i \in LiveSlots
  BY <1>1, <1>3 DEF LiveSlots, Deleting
<1> HIDE DEF i
<1>5. /\ MetaData \subseteq bitmap /\ WellLinked(buf) /\ WellHeaded(buf) /\ Marked(buf)
  BY <1>1, <1>2 DEF VolumeInv, VolumeOK
<1>6. b \in Blocks
  BY <1>1 DEF TypeOK, FileBlock
<1>7. b \in DataBlocks /\ buf[b] # FreeEntry /\ ~ Linked(buf, b)
  BY <1>4, <1>5, <1>6 DEF WellLinked, WellHeaded
<1>8. bitmap' = bitmap \ {b} /\ block' = b /\ pc' = "delete_walk"
  BY <1>1, <1>2, <1>7, EntryValues DEF FreeBlock, ClearBit
<1>9. LiveSlots' = LiveSlots \ {i}
  BY <1>1, <1>8 DEF LiveSlots, Deleting
<1>10. \A j \in LiveSlots' : slots[j].start # b
  BY <1>4, <1>5, <1>9 DEF WellHeaded
<1>11. WellHeaded(buf)'
  BY <1>1, <1>5, <1>9 DEF WellHeaded, Linked
<1>12. Marked(buf)' /\ MetaData \subseteq bitmap'
  BY <1>1, <1>5, <1>7, <1>8, EntryValues DEF Marked
<1>13. Pending'
  BY <1>1, <1>7, <1>8, <1>10 DEF Pending, Linked
<1> QED BY <1>1, <1>5, <1>8, <1>11, <1>12, <1>13 DEF VolumeInv, VolumeOK, WellLinked, OnDisk

LEMMA DeleteNextVolume ==
    ASSUME TypeOK, VolumeInv, DeleteNext
    PROVE  VolumeInv'
<1> SUFFICES ASSUME Sound' PROVE VolumeInv'
  BY DEF VolumeInv
<1> DEFINE b == buf[block]
<1>1. /\ pc = "delete_walk" /\ b # LastBlock /\ FreeBlock(b)
      /\ buf' = [buf EXCEPT ![block] = FreeEntry] /\ UNCHANGED <<fat, slots, slot>>
  BY DEF DeleteNext
<1>2. Sound /\ ClearedBit(b) = b
  BY <1>1 DEF FreeBlock, Sound, Structural
<1>3. /\ MetaData \subseteq bitmap /\ WellLinked(buf) /\ WellHeaded(buf) /\ Marked(buf)
      /\ buf[block] # FreeEntry /\ ~ Linked(buf, block) /\ \A i \in LiveSlots : slots[i].start # block
  BY <1>1, <1>2 DEF VolumeInv, VolumeOK, Pending
<1>4. buf \in [Blocks -> Blocks] /\ block \in Blocks
  BY DEF TypeOK
<1>5. b \in DataBlocks /\ b \in Blocks /\ buf[b] # FreeEntry
  BY <1>1, <1>3, <1>4, EntryValues DEF WellLinked
<1>6. b # block
  BY <1>3, <1>4 DEF Linked
<1>7. bitmap' = bitmap \ {b} /\ block' = b /\ pc' = "delete_walk"
  BY <1>1, <1>2, <1>5, EntryValues DEF FreeBlock, ClearBit
<1>8. LiveSlots' = LiveSlots /\ \A i \in LiveSlots : slots[i].start \in Blocks
  BY <1>1, <1>7 DEF LiveSlots, Deleting, TypeOK, FileBlock
<1>9. /\ WellLinked(buf')
      /\ \A c \in DataBlocks : Linked(buf', c) <=> Linked(buf, c) /\ b # c
      /\ \A c \in Blocks : buf'[c] # FreeEntry <=> buf[c] # FreeEntry /\ c # block
  BY <1>1, <1>3, <1>4, UnlinkWell
<1>10. Linked(buf, b)
  BY <1>4 DEF Linked
<1> HIDE DEF b
<1>11. \A i \in LiveSlots : /\ slots[i].start \in DataBlocks /\ slots[i].start # b
                             /\ buf'[slots[i].start] # FreeEntry /\ ~ Linked(buf', slots[i].start)
  BY <1>3, <1>8, <1>9, <1>10 DEF WellHeaded, WellLinked
<1>12. WellHeaded(buf)'
  BY <1>1, <1>3, <1>8, <1>11 DEF WellHeaded, Linked
<1>13. Marked(buf)' /\ MetaData \subseteq bitmap'
  BY <1>1, <1>3, <1>5, <1>7, <1>9, EntryValues DEF Marked
<1>14. ~ Linked(buf', b) /\ buf'[b] # FreeEntry
  BY <1>5, <1>6, <1>9
<1>15. Pending'
  BY <1>1, <1>7, <1>8, <1>11, <1>14 DEF Pending, Linked
<1>16. OnDisk'
  BY <1>7 DEF OnDisk
<1> QED BY <1>7, <1>9, <1>12, <1>13, <1>15, <1>16 DEF VolumeInv, VolumeOK, WellLinked

LEMMA DeleteLastVolume ==
    ASSUME TypeOK, VolumeInv, DeleteLast
    PROVE  VolumeInv'
<1> SUFFICES ASSUME Sound' PROVE VolumeInv'
  BY DEF VolumeInv
<1>1. /\ Sound /\ pc = "delete_walk" /\ pc' = "delete_flush" /\ sector' = 0
      /\ buf[block] = LastBlock /\ buf' = [buf EXCEPT ![block] = FreeEntry]
      /\ UNCHANGED <<bitmap, fat, slots, slot, block>>
  BY DEF DeleteLast, disk, Sound
<1>2. /\ MetaData \subseteq bitmap /\ WellLinked(buf) /\ WellHeaded(buf) /\ Marked(buf)
      /\ ~ Linked(buf, block) /\ \A i \in LiveSlots : slots[i].start # block
  BY <1>1 DEF VolumeInv, VolumeOK, Pending
<1>3. buf \in [Blocks -> Blocks] /\ block \in Blocks
  BY DEF TypeOK
<1>4. LiveSlots' = LiveSlots /\ \A i \in LiveSlots : slots[i].start \in Blocks
  BY <1>1 DEF LiveSlots, Deleting, TypeOK, FileBlock
<1>5. /\ WellLinked(buf')
      /\ \A c \in DataBlocks : Linked(buf', c) <=> Linked(buf, c) /\ buf[block] # c
      /\ \A c \in Blocks : buf'[c] # FreeEntry <=> buf[c] # FreeEntry /\ c # block
  BY <1>1, <1>2, <1>3, UnlinkWell
<1>6. \A i \in LiveSlots : buf'[slots[i].start] # FreeEntry /\ ~ Linked(buf', slots[i].start)
  BY <1>2, <1>4, <1>5 DEF WellHeaded, WellLinked
<1>7. WellHeaded(buf)'
  BY <1>1, <1>2, <1>4, <1>6 DEF WellHeaded, Linked
<1>8. Marked(buf)'
  BY <1>1, <1>2, <1>5 DEF Marked
<1>9. OnDisk'
  BY <1>1, SectorOfBlock DEF OnDisk, Sectors
<1> QED BY <1>1, <1>2, <1>5, <1>7, <1>8, <1>9 DEF VolumeInv, VolumeOK, WellLinked, Pending

LEMMA DeleteSlotVolume ==
    ASSUME TypeOK, VolumeInv, DeleteSlot
    PROVE  VolumeInv'
<1> SUFFICES ASSUME Sound' PROVE VolumeInv'
  BY DEF VolumeInv
<1>1. /\ Sound /\ pc = "delete_slot" /\ pc' = "idle" /\ UNCHANGED <<bitmap, fat, buf>>
      /\ slots' = [slots EXCEPT ![slot] = EmptySlot] /\ slot \in SlotIds
      /\ slots \in [SlotIds -> FileBlock]
  BY DEF DeleteSlot, Return, Sound, TypeOK
<1>2. /\ MetaData \subseteq bitmap /\ WellLinked(buf) /\ WellHeaded(buf) /\ Marked(buf) /\ fat = buf
  BY <1>1 DEF VolumeInv, VolumeOK, OnDisk
<1>3. /\ slots'[slot].name = Empty
      /\ \A i \in SlotIds : i # slot => slots'[i] = slots[i]
  BY <1>1 DEF EmptySlot
<1>4. LiveSlots' = LiveSlots /\ \A i \in LiveSlots : i \in SlotIds /\ i # slot
  BY <1>1, <1>3 DEF LiveSlots, Deleting
<1>5. WellHeaded(buf)'
  BY <1>1, <1>2, <1>3, <1>4 DEF WellHeaded, Linked
<1>6. Marked(buf)'
  BY <1>1, <1>2 DEF Marked
<1> QED BY <1>1, <1>2, <1>5, <1>6 DEF VolumeInv, VolumeOK, WellLinked, OnDisk, Pending

LEMMA CrashVolume ==
    ASSUME TypeOK, VolumeInv, Crash
    PROVE  VolumeInv'
<1> SUFFICES ASSUME Sound' PROVE VolumeInv'
  BY DEF VolumeInv
<1>1. /\ Sound /\ "torn" \notin CrashFaults /\ pc' = "idle" /\ buf' = fat
      /\ UNCHANGED <<bitmap, fat, slots>> /\ pc # "clobbered"
  BY DEF Crash, Return, disk, Sound, Structural
<1>2. \/ pc \in {"idle", "hung", "create_fat", "create_slot"}
      \/ pc = "grow"
      \/ pc = "grow_flush" /\ sector = 0
  BY <1>1 DEF CrashFaults, TypeOK, Steps, Sectors
<1>3. VolumeOK(fat) /\ MetaData \subseteq bitmap
  BY <1>1, <1>2 DEF VolumeInv, OnDisk
<1>4. LiveSlots' = LiveSlots
  BY <1>1, <1>2 DEF LiveSlots, Deleting
<1>5. VolumeOK(buf)'
  BY <1>1, <1>2, <1>3, <1>4 DEF VolumeOK, WellLinked, WellHeaded, Linked, Marked
<1> QED BY <1>1, <1>3, <1>5 DEF VolumeInv, OnDisk, Pending

LEMMA NextVolume == TypeOK /\ DirectoryInv /\ VolumeInv /\ [Next]_vars => VolumeInv'
<1> SUFFICES ASSUME TypeOK, DirectoryInv, VolumeInv, [Next]_vars PROVE VolumeInv'
  OBVIOUS
<1>1. ASSUME NEW n \in Names, CreateRefused(n) \/ OpenRefused(n) \/ DeleteRefused(n) \/ FileExists(n)
      PROVE  VolumeInv'
  BY <1>1, RefuseVolume DEF CreateRefused, OpenRefused, DeleteRefused, FileExists
<1>2. ASSUME NEW n \in Names, CreateFile(n) \/ DeleteFile(n)
      PROVE  VolumeInv'
  BY <1>2, CreateFileVolume, DeleteFileVolume
<1>3. ASSUME NEW n \in Names, NEW h \in Handles, OpenFile(n, h)
      PROVE  VolumeInv'
  BY <1>3, OpenVolume
<1>4. ASSUME NEW h \in Handles, CloseRefused(h) \/ CloseFile(h)
      PROVE  VolumeInv'
  BY <1>4, RefuseVolume, CloseVolume DEF CloseRefused
<1>5. ASSUME NEW h \in Handles, SeekHangs(h)
      PROVE  VolumeInv'
  BY <1>5, IdleVolume DEF SeekHangs, disk
<1>6. ASSUME NEW h \in Handles, NEW k \in 1 .. MaxSeekBlocks, SeekRefused(h, k) \/ SeekFile(h, k)
      PROVE  VolumeInv'
  BY <1>6, RefuseVolume, SeekVolume DEF SeekRefused
<1>7. CASE CreateFat
  BY <1>7, CreateFatVolume
<1>8. CASE CreateFails
  <2>1. /\ pc = "create_slot" /\ pc' = "idle" /\ UNCHANGED <<bitmap, fat, slots, buf>>
        /\ fault \subseteq fault'
    BY <1>8 DEF CreateFails, Return, disk
  <2>2. LiveSlots' = LiveSlots
    BY <2>1 DEF LiveSlots, Deleting
  <2> QED BY <2>1, <2>2, SoundBefore
          DEF VolumeInv, VolumeOK, WellLinked, WellHeaded, Linked, Marked, OnDisk, Pending
<1>9. ASSUME NEW h \in Handles, CreateSlot(h) PROVE VolumeInv'
  BY <1>9, CreateSlotVolume
<1>10. CASE AddBlock \/ GrowFlush
  BY <1>10, AddBlockVolume, GrowFlushVolume
<1>11. CASE DeleteNext \/ DeleteLast \/ DeleteFlush \/ DeleteSlot
  BY <1>11, DeleteNextVolume, DeleteLastVolume, DeleteFlushVolume, DeleteSlotVolume
<1>12. CASE Crash
  BY <1>12, CrashVolume
<1>13. CASE UNCHANGED vars
  <2>1. LiveSlots' = LiveSlots
    BY <1>13 DEF vars, LiveSlots, Deleting
  <2> QED BY <1>13, <2>1
          DEF vars, VolumeInv, Sound, VolumeOK, WellLinked, WellHeaded, Linked, Marked, OnDisk, Pending
<1> QED BY <1>1, <1>2, <1>3, <1>4, <1>5, <1>6, <1>7, <1>8, <1>9, <1>10, <1>11, <1>12, <1>13
        DEF Next, Call, Continue

-----------------------------------------------------------------------------
(* From single FAT entries to whole chains: the properties of FatVolume     *)
(* that speak of chains.  Arguments along a chain are by induction on the   *)
(* steps of a walk, stated for a set of numbers.                            *)

\* Induction up to N: the least number missing from K cannot exist.
LEMMA UpTo ==
    ASSUME NEW N \in Nat, NEW K, 0 \in K, \A n \in 0 .. N : n > 0 /\ n - 1 \in K => n \in K
    PROVE  \A n \in 0 .. N : n \in K
<1> DEFINE missing == (0 .. N) \ K
<1>1. SUFFICES ASSUME missing # {} PROVE FALSE
  OBVIOUS
<1>2. missing \in SUBSET Nat
  OBVIOUS
<1>3. First(missing) \in missing /\ \A c \in missing : First(missing) <= c
  BY <1>1, <1>2, FirstInSet
<1> DEFINE m == First(missing)
<1>4. m \in 0 .. N /\ m \notin K
  BY <1>3
<1>5. m > 0 /\ m - 1 \in 0 .. N
  BY <1>4
<1>6. m - 1 \notin missing
  BY <1>3, <1>5
<1> QED BY <1>4, <1>5, <1>6

(* Walks *)

\* The next block of a walk.
Follow(f, b) == IF f[b] = LastBlock THEN b ELSE f[b]

LEMMA WalkExists ==
    ASSUME NEW f \in [Blocks -> Blocks], NEW s \in Blocks
    PROVE  \E g \in [0 .. NumBlocks -> Blocks] :
               g[0] = s /\ \A n \in 1 .. NumBlocks : g[n] = Follow(f, g[n - 1])
<1> DEFINE K == {k \in 0 .. NumBlocks : \E g \in [0 .. k -> Blocks] :
                    g[0] = s /\ \A n \in 1 .. k : g[n] = Follow(f, g[n - 1])}
<1>1. NumBlocks \in Nat
  BY DiskAssumption
<1>2. 0 \in K
  <2>1. [n \in 0 .. 0 |-> s] \in [0 .. 0 -> Blocks] /\ [n \in 0 .. 0 |-> s][0] = s
    OBVIOUS
  <2>2. 0 \in 0 .. NumBlocks /\ 1 .. 0 = {}
    BY <1>1
  <2> QED BY <2>1, <2>2
<1>3. ASSUME NEW k \in 0 .. NumBlocks, k > 0, k - 1 \in K
      PROVE  k \in K
  <2>1. PICK g \in [0 .. k - 1 -> Blocks] :
            g[0] = s /\ \A n \in 1 .. k - 1 : g[n] = Follow(f, g[n - 1])
    BY <1>3
  <2> DEFINE h == [n \in 0 .. k |-> IF n < k THEN g[n] ELSE Follow(f, g[k - 1])]
  <2>2. k - 1 \in 0 .. k - 1 /\ 0 \in 0 .. k - 1
    BY <1>3
  <2>3. Follow(f, g[k - 1]) \in Blocks
    BY <2>2 DEF Follow
  <2>4. h \in [0 .. k -> Blocks]
    BY <2>3
  <2>5. h[0] = s
    BY <2>1, <2>2
  <2>6. \A n \in 1 .. k : h[n] = Follow(f, h[n - 1])
    <3>1. TAKE n \in 1 .. k
    <3>2. h[n - 1] = g[n - 1]
      OBVIOUS
    <3>3. CASE n < k
      BY <3>2, <3>3, <2>1
    <3>4. CASE n = k
      BY <3>2, <3>4
    <3> QED BY <3>3, <3>4
  <2> HIDE DEF h
  <2> QED BY <2>4, <2>5, <2>6, <1>3
<1> HIDE DEF K
<1>4. NumBlocks \in K
  BY <1>1, <1>2, <1>3, UpTo
<1> QED BY <1>4 DEF K

LEMMA WalkSteps ==
    ASSUME NEW f \in [Blocks -> Blocks], NEW s \in Blocks
    PROVE  /\ Walk(f, s) \in [0 .. NumBlocks -> Blocks]
           /\ Walk(f, s)[0] = s
           /\ \A n \in 1 .. NumBlocks : Walk(f, s)[n] = Follow(f, Walk(f, s)[n - 1])
<1> DEFINE W == Walk(f, s)
           Body(g) == [n \in 0 .. NumBlocks |->
                          IF n = 0 THEN s
                          ELSE LET b == g[n - 1] IN IF f[b] = LastBlock THEN b ELSE f[b]]
<1>1. PICK g \in [0 .. NumBlocks -> Blocks] :
          g[0] = s /\ \A n \in 1 .. NumBlocks : g[n] = Follow(f, g[n - 1])
  BY WalkExists
<1>2. g = Body(g)
  <2>1. ASSUME NEW n \in 0 .. NumBlocks PROVE g[n] = Body(g)[n]
    BY <1>1 DEF Follow
  <2> QED BY <2>1
<1>3. W = Body(W)
  BY <1>2, Zenon DEF Walk
<1>4. NumBlocks \in Nat
  BY DiskAssumption
<1> HIDE DEF W
<1>5. W[0] = s /\ \A n \in 1 .. NumBlocks : W[n] = Follow(f, W[n - 1])
  <2>1. W[0] = s
    BY <1>3, <1>4
  <2>2. ASSUME NEW n \in 1 .. NumBlocks PROVE W[n] = Follow(f, W[n - 1])
    BY <1>3, <1>4 DEF Follow
  <2> QED BY <2>1, <2>2
<1>6. W \in [0 .. NumBlocks -> Blocks]
  <2> DEFINE K == {n \in 0 .. NumBlocks : W[n] \in Blocks}
  <2>1. 0 \in K
    BY <1>4, <1>5
  <2>2. ASSUME NEW n \in 0 .. NumBlocks, n > 0, n - 1 \in K PROVE n \in K
    BY <2>2, <1>5 DEF Follow
  <2>3. \A n \in 0 .. NumBlocks : n \in K
    BY <1>4, <2>1, <2>2, UpTo
  <2>4. W = [n \in 0 .. NumBlocks |-> W[n]]
    BY <1>3
  <2> QED BY <2>3, <2>4
<1> QED BY <1>5, <1>6 DEF W

\* A walk over a well linked FAT stays among entries in use, and reaches a block
\* only from its start or from another block of the walk.
LEMMA WalkUsed ==
    ASSUME NEW f \in [Blocks -> Blocks], WellLinked(f), NEW s \in Blocks, f[s] # FreeEntry
    PROVE  \A n \in 0 .. NumBlocks :
              LET b == Walk(f, s)[n]
              IN  /\ b \in DataBlocks /\ f[b] # FreeEntry
                  /\ b = s \/ \E k \in 0 .. NumBlocks : f[Walk(f, s)[k]] = b
<1> DEFINE W == Walk(f, s)
           K == {n \in 0 .. NumBlocks : /\ W[n] \in DataBlocks /\ f[W[n]] # FreeEntry
                                        /\ W[n] = s \/ \E k \in 0 .. NumBlocks : f[W[k]] = W[n]}
<1>1. NumBlocks \in Nat
  BY DiskAssumption
<1>2. /\ W \in [0 .. NumBlocks -> Blocks] /\ W[0] = s
      /\ \A n \in 1 .. NumBlocks : W[n] = Follow(f, W[n - 1])
  BY WalkSteps
<1> HIDE DEF W
<1>3. 0 \in K
  BY <1>1, <1>2 DEF WellLinked
<1>4. ASSUME NEW n \in 0 .. NumBlocks, n > 0, n - 1 \in K PROVE n \in K
  <2>1. n - 1 \in 0 .. NumBlocks /\ n \in 1 .. NumBlocks
    BY <1>4, <1>1
  <2>2. CASE f[W[n - 1]] = LastBlock
    BY <2>1, <2>2, <1>2, <1>4 DEF Follow
  <2>3. CASE f[W[n - 1]] # LastBlock
    <3>1. W[n] = f[W[n - 1]] /\ W[n - 1] \in Blocks /\ f[W[n - 1]] # FreeEntry
      BY <2>1, <2>3, <1>2, <1>4 DEF Follow
    <3>2. W[n] \in DataBlocks /\ f[W[n]] # FreeEntry
      BY <3>1, <2>3 DEF WellLinked
    <3> QED BY <3>1, <3>2, <2>1
  <2> QED BY <2>2, <2>3
<1>5. \A n \in 0 .. NumBlocks : n \in K
  <2> HIDE DEF K
  <2> QED BY <1>1, <1>3, <1>4, UpTo
<1> QED BY <1>5 DEF W


\* Two walks from starts nothing leads to never meet.
LEMMA WalksDisjoint ==
    ASSUME NEW f \in [Blocks -> Blocks], WellLinked(f),
           NEW s \in Blocks, f[s] # FreeEntry, ~ Linked(f, s),
           NEW t \in Blocks, f[t] # FreeEntry, ~ Linked(f, t), s # t
    PROVE  \A m, n \in 0 .. NumBlocks : Walk(f, s)[m] # Walk(f, t)[n]
<1> DEFINE W == Walk(f, s)
           V == Walk(f, t)
           K == {m \in 0 .. NumBlocks : \A n \in 0 .. NumBlocks : W[m] # V[n]}
<1>1. NumBlocks \in Nat
  BY DiskAssumption
<1>2. /\ W \in [0 .. NumBlocks -> Blocks] /\ W[0] = s
      /\ \A n \in 1 .. NumBlocks : W[n] = Follow(f, W[n - 1])
      /\ V \in [0 .. NumBlocks -> Blocks]
  BY WalkSteps
<1>3. \A n \in 0 .. NumBlocks :
          /\ V[n] \in DataBlocks /\ f[V[n]] # FreeEntry
          /\ V[n] = t \/ \E k \in 0 .. NumBlocks : f[V[k]] = V[n]
  BY WalkUsed
<1> HIDE DEF W, V
<1>4. 0 \in K
  <2>1. ASSUME NEW n \in 0 .. NumBlocks PROVE W[0] # V[n]
    <3>1. CASE V[n] = t
      BY <3>1, <1>2
    <3>2. CASE \E k \in 0 .. NumBlocks : f[V[k]] = V[n]
      BY <3>2, <1>2 DEF Linked
    <3> QED BY <3>1, <3>2, <1>3
  <2> QED BY <2>1, <1>1
<1>5. ASSUME NEW m \in 0 .. NumBlocks, m > 0, m - 1 \in K PROVE m \in K
  <2>1. ASSUME NEW n \in 0 .. NumBlocks, W[m] = V[n] PROVE FALSE
    <3>1. W[m] = Follow(f, W[m - 1]) /\ W[m - 1] \in Blocks
      BY <1>2, <1>5
    <3>2. W[m] # W[m - 1]
      BY <1>5, <2>1
    <3>3. W[m] = f[W[m - 1]]
      BY <3>1, <3>2 DEF Follow
    <3>4. PICK k \in 0 .. NumBlocks : f[V[k]] = V[n]
      BY <1>3, <2>1, <3>1, <3>3 DEF Linked
    <3>5. V[k] = W[m - 1]
      <4>1. V[k] \in Blocks /\ V[n] \in DataBlocks
        BY <1>2, <1>3, <2>1
      <4>2. f[V[k]] = f[W[m - 1]] /\ f[V[k]] \in DataBlocks
        BY <2>1, <3>3, <3>4, <4>1
      <4> QED BY <3>1, <4>1, <4>2 DEF WellLinked
    <3> QED BY <3>5, <1>5
  <2> QED BY <2>1
<1>6. \A m \in 0 .. NumBlocks : m \in K
  <2> HIDE DEF K
  <2> QED BY <1>1, <1>4, <1>5, UpTo
<1> QED BY <1>6 DEF W, V

\* A walk from a start nothing leads to ends: it would otherwise visit more blocks
\* than there are.
LEMMA WalkEnds ==
    ASSUME NEW f \in [Blocks -> Blocks], WellLinked(f),
           NEW s \in Blocks, f[s] # FreeEntry, ~ Linked(f, s)
    PROVE  Ends(f, s)
<1> DEFINE W == Walk(f, s)
<1>1. NumBlocks \in Nat
  BY DiskAssumption
<1>2. /\ W \in [0 .. NumBlocks -> Blocks] /\ W[0] = s
      /\ \A n \in 1 .. NumBlocks : W[n] = Follow(f, W[n - 1])
  BY WalkSteps
<1>3. \A n \in 0 .. NumBlocks : W[n] \in DataBlocks /\ f[W[n]] # FreeEntry
  BY WalkUsed
<1>4. SUFFICES ASSUME f[W[NumBlocks]] # LastBlock PROVE FALSE
  BY DEF Ends, EndOf
<1> HIDE DEF W
<1>5. \A n \in 0 .. NumBlocks : f[W[n]] # LastBlock
  \* Counted back from the last step of the walk.
  <2> DEFINE K == {d \in 0 .. NumBlocks : f[W[NumBlocks - d]] # LastBlock}
  <2>1. 0 \in K
    BY <1>1, <1>4
  <2>2. ASSUME NEW d \in 0 .. NumBlocks, d > 0, d - 1 \in K PROVE d \in K
    <3>1. NumBlocks - (d - 1) \in 1 .. NumBlocks /\ (NumBlocks - (d - 1)) - 1 = NumBlocks - d
      BY <1>1, <2>2
    <3>2. W[NumBlocks - (d - 1)] = Follow(f, W[NumBlocks - d])
      BY <1>2, <3>1
    <3> QED BY <2>2, <3>2 DEF Follow
  <2>3. \A d \in 0 .. NumBlocks : d \in K
    <3> HIDE DEF K
    <3> QED BY <1>1, <2>1, <2>2, UpTo
  <2>4. ASSUME NEW n \in 0 .. NumBlocks PROVE f[W[n]] # LastBlock
    <3>1. NumBlocks - n \in 0 .. NumBlocks /\ NumBlocks - (NumBlocks - n) = n
      BY <1>1
    <3> QED BY <2>3, <3>1
  <2> QED BY <2>4
<1>6. \A n \in 1 .. NumBlocks : W[n] = f[W[n - 1]] /\ W[n - 1] \in Blocks
  BY <1>1, <1>2, <1>5 DEF Follow
<1> DEFINE K == {m \in 0 .. NumBlocks : \A n \in 0 .. NumBlocks : n > m => W[m] # W[n]}
<1>7. 0 \in K
  BY <1>1, <1>2, <1>6 DEF Linked
<1>8. ASSUME NEW m \in 0 .. NumBlocks, m > 0, m - 1 \in K PROVE m \in K
  <2>1. ASSUME NEW n \in 0 .. NumBlocks, n > m, W[m] = W[n] PROVE FALSE
    <3>1. m \in 1 .. NumBlocks /\ n \in 1 .. NumBlocks /\ n - 1 \in 0 .. NumBlocks /\ n - 1 > m - 1
      BY <1>1, <1>8, <2>1
    <3>2. W[m - 1] = W[n - 1]
      BY <1>3, <1>6, <2>1, <3>1 DEF WellLinked
    <3> QED BY <1>8, <3>1, <3>2
  <2> QED BY <2>1
<1>9. \A m \in 0 .. NumBlocks : m \in K
  <2> HIDE DEF K
  <2> QED BY <1>1, <1>7, <1>8, UpTo
<1>10. \A m, n \in 0 .. NumBlocks : m # n => W[m] # W[n]
  <2>1. \A m, n \in 0 .. NumBlocks : m < n => W[m] # W[n]
    BY <1>9
  <2>2. \A m, n \in 0 .. NumBlocks : m # n => m < n \/ n < m
    BY <1>1
  <2> QED BY <2>1, <2>2
<1>11. /\ IsFiniteSet(0 .. NumBlocks) /\ Cardinality(0 .. NumBlocks) = NumBlocks + 1
       /\ IsFiniteSet(Blocks) /\ Cardinality(Blocks) = NumBlocks
  <2>1. 0 \in Int /\ NumBlocks \in Int /\ NumBlocks - 1 \in Int /\ NumBlocks > 0
    BY DiskAssumption
  <2>2. /\ IsFiniteSet(0 .. NumBlocks)
        /\ Cardinality(0 .. NumBlocks) = IF 0 > NumBlocks THEN 0 ELSE NumBlocks - 0 + 1
    BY <2>1, FS_Interval
  <2>3. /\ IsFiniteSet(0 .. NumBlocks - 1)
        /\ Cardinality(0 .. NumBlocks - 1) =
              IF 0 > NumBlocks - 1 THEN 0 ELSE (NumBlocks - 1) - 0 + 1
    BY <2>1, FS_Interval
  <2> QED BY <2>1, <2>2, <2>3 DEF Blocks
<1>12. Cardinality(Blocks) < Cardinality(0 .. NumBlocks)
  BY <1>1, <1>11
<1>13. \E m, n \in 0 .. NumBlocks : m # n /\ W[m] = W[n]
  <2>1. IsFiniteSet(0 .. NumBlocks) /\ IsFiniteSet(Blocks) /\ W \in [0 .. NumBlocks -> Blocks]
    BY <1>2, <1>11
  <2> QED BY <2>1, <1>12, FS_PigeonHole, Zenon
<1> QED BY <1>10, <1>13

-----------------------------------------------------------------------------
(* Chains as sets.  A chain is the least set of blocks that has its first one *)
(* and, with a block, the one its entry leads to.                             *)

Closed(f, S) == \A b \in S : f[b] \in DataBlocks => f[b] \in S

\* A chain of the FAT f begins at s.
Begins(f, s) ==
    /\ f \in [Blocks -> Blocks] /\ WellLinked(f)
    /\ s \in Blocks /\ f[s] # FreeEntry /\ ~ Linked(f, s)

LEMMA ChainLeast ==
    ASSUME NEW f, NEW s, Begins(f, s), NEW S, s \in S, Closed(f, S)
    PROVE  Chain(f, s) \subseteq S
<1> DEFINE W == Walk(f, s)
           K == {n \in 0 .. NumBlocks : W[n] \in S}
<1>1. NumBlocks \in Nat /\ LastBlock \notin DataBlocks
  BY DiskAssumption, EntryValues
<1>2. /\ W \in [0 .. NumBlocks -> Blocks] /\ W[0] = s
      /\ \A n \in 1 .. NumBlocks : W[n] = Follow(f, W[n - 1])
  BY WalkSteps DEF Begins
<1>3. \A n \in 0 .. NumBlocks : W[n] \in DataBlocks
  BY WalkUsed DEF Begins
<1> HIDE DEF W
<1>4. 0 \in K
  BY <1>1, <1>2
<1>5. ASSUME NEW n \in 0 .. NumBlocks, n > 0, n - 1 \in K PROVE n \in K
  <2>1. n \in 1 .. NumBlocks /\ W[n - 1] \in S
    BY <1>5
  <2>2. W[n] = W[n - 1] \/ W[n] = f[W[n - 1]]
    BY <2>1, <1>2 DEF Follow
  <2>3. W[n] \in S
    BY <2>1, <2>2, <1>3 DEF Closed
  <2> QED BY <2>3
<1>6. \A n \in 0 .. NumBlocks : n \in K
  <2> HIDE DEF K
  <2> QED BY <1>1, <1>4, <1>5, UpTo
<1> QED BY <1>6 DEF Chain, W

LEMMA ChainClosed ==
    ASSUME NEW f, NEW s, Begins(f, s)
    PROVE  /\ s \in Chain(f, s) /\ EndOf(f, s) \in Chain(f, s) /\ Closed(f, Chain(f, s))
           /\ \A b \in Chain(f, s) : b \in Blocks /\ b \in DataBlocks /\ f[b] # FreeEntry
<1> DEFINE W == Walk(f, s)
<1>1. NumBlocks \in Nat /\ LastBlock \notin DataBlocks /\ DataBlocks \subseteq Blocks
  BY DiskAssumption, EntryValues
<1>2. /\ W \in [0 .. NumBlocks -> Blocks] /\ W[0] = s
      /\ \A n \in 1 .. NumBlocks : W[n] = Follow(f, W[n - 1])
  BY WalkSteps DEF Begins
<1>3. \A n \in 0 .. NumBlocks : W[n] \in DataBlocks /\ f[W[n]] # FreeEntry
  BY WalkUsed DEF Begins
<1>4. f[W[NumBlocks]] = LastBlock
  BY WalkEnds DEF Begins, Ends, EndOf
<1>5. Chain(f, s) = {W[n] : n \in 0 .. NumBlocks}
  <2>1. Chain(f, s) = Blocks \cap {W[n] : n \in 0 .. NumBlocks}
    BY DEF Chain
  <2> HIDE DEF W
  <2> QED BY <2>1, <1>2
<1>6. EndOf(f, s) = W[NumBlocks]
  BY DEF EndOf
<1> HIDE DEF W
<1>7. ASSUME NEW n \in 0 .. NumBlocks, f[W[n]] \in DataBlocks
      PROVE  f[W[n]] \in Chain(f, s)
  <2>1. n # NumBlocks
    BY <1>1, <1>4, <1>7
  <2>2. n + 1 \in 1 .. NumBlocks /\ n + 1 \in 0 .. NumBlocks /\ (n + 1) - 1 = n
    BY <2>1, <1>1
  <2>3. W[n + 1] = Follow(f, W[n])
    BY <2>2, <1>2
  <2>4. W[n + 1] = f[W[n]]
    BY <2>3, <1>1, <1>7 DEF Follow
  <2> QED BY <2>2, <2>4, <1>5
<1>8. Closed(f, Chain(f, s))
  BY <1>5, <1>7 DEF Closed
<1>9. 0 \in 0 .. NumBlocks /\ NumBlocks \in 0 .. NumBlocks
  BY <1>1
<1> QED BY <1>1, <1>2, <1>3, <1>5, <1>6, <1>8, <1>9

LEMMA ChainsApart ==
    ASSUME NEW f, NEW s, NEW t, Begins(f, s), Begins(f, t), s # t
    PROVE  Chain(f, s) \cap Chain(f, t) = {}
<1>1. \A m, n \in 0 .. NumBlocks : Walk(f, s)[m] # Walk(f, t)[n]
  BY WalksDisjoint DEF Begins
<1> QED BY <1>1 DEF Chain

\* A chain of which no entry changes stays.
LEMMA ChainStays ==
    ASSUME NEW f, NEW g, NEW s, Begins(f, s), Begins(g, s),
           \A b \in Chain(f, s) : g[b] = f[b]
    PROVE  Chain(g, s) = Chain(f, s)
<1>1. s \in Chain(f, s) /\ Closed(f, Chain(f, s)) /\ s \in Chain(g, s) /\ Closed(g, Chain(g, s))
  BY ChainClosed
<1>2. Closed(g, Chain(f, s))
  BY <1>1 DEF Closed
<1>3. Chain(g, s) \subseteq Chain(f, s)
  BY <1>1, <1>2, ChainLeast
<1>4. Closed(f, Chain(g, s))
  BY <1>1, <1>3 DEF Closed
<1>5. Chain(f, s) \subseteq Chain(g, s)
  BY <1>1, <1>4, ChainLeast
<1> QED BY <1>3, <1>5

\* A block hung behind the last one of a chain.
LEMMA ChainGrows ==
    ASSUME NEW f, NEW s, Begins(f, s), NEW last \in Chain(f, s), f[last] = LastBlock,
           NEW b \in DataBlocks, f[b] = FreeEntry, Begins(Link(f, last, b), s)
    PROVE  Chain(Link(f, last, b), s) = Chain(f, s) \cup {b}
<1> DEFINE g == Link(f, last, b)
           C == Chain(f, s)
<1>1. /\ f \in [Blocks -> Blocks] /\ WellLinked(f) /\ s \in C /\ Closed(f, C)
      /\ \A c \in C : c \in Blocks /\ f[c] # FreeEntry
  BY ChainClosed DEF Begins
<1>2. /\ s \in Chain(g, s) /\ Closed(g, Chain(g, s)) /\ \A c \in Chain(g, s) : c \in Blocks
  BY ChainClosed
<1> HIDE DEF C
<1>3. b \in Blocks /\ LastBlock \notin DataBlocks /\ b # last /\ b # s /\ last \in Blocks /\ b \notin C
  BY <1>1, EntryValues DEF C, Begins
<1>4. g[b] = LastBlock /\ g[last] = b /\ \A c \in Blocks : c # b /\ c # last => g[c] = f[c]
  BY <1>1, <1>3, EntryValues, FirstValues DEF Link
<1>5. \A c \in Blocks : f[c] # b
  BY <1>1, FreeNotLinked DEF Linked
<1> HIDE DEF g
<1>6. Closed(g, C \cup {b})
  BY <1>1, <1>3, <1>4 DEF Closed
<1>7. Chain(g, s) \subseteq C \cup {b}
  BY <1>1, <1>6, ChainLeast DEF g
<1>8. Closed(f, Chain(g, s) \ {b})
  BY <1>2, <1>3, <1>4, <1>5 DEF Closed
<1>9. C \subseteq Chain(g, s) \ {b}
  BY <1>2, <1>3, <1>8, ChainLeast DEF C
<1>10. b \in Chain(g, s)
  BY <1>2, <1>4, <1>9 DEF Closed, C
<1> QED BY <1>7, <1>9, <1>10 DEF g, C

\* The first block of a chain taken away.
LEMMA ChainShrinks ==
    ASSUME NEW f, NEW s, Begins(f, s), f[s] \in DataBlocks,
           NEW g, g = [f EXCEPT ![s] = FreeEntry], Begins(g, f[s])
    PROVE  Chain(g, f[s]) = Chain(f, s) \ {s}
<1> DEFINE C == Chain(f, s)
           D == Chain(g, f[s])
<1>1. /\ f \in [Blocks -> Blocks] /\ s \in C /\ Closed(f, C) /\ \A c \in C : c \in Blocks
      /\ s \in Blocks /\ \A c \in Blocks : f[c] # s
  BY ChainClosed DEF Begins, Linked
<1>2. f[s] \in D /\ Closed(g, D) /\ \A c \in D : c \in Blocks /\ g[c] # FreeEntry
  BY ChainClosed
<1>3. g[s] = FreeEntry /\ \A c \in Blocks : c # s => g[c] = f[c]
  BY <1>1, EntryValues, FirstValues
<1>4. FreeEntry \notin DataBlocks
  BY EntryValues
<1> HIDE DEF C, D
<1>5. f[s] \in C \ {s} /\ Closed(g, C \ {s})
  BY <1>1, <1>3, <1>4 DEF Closed
<1>6. D \subseteq C \ {s}
  BY <1>5, ChainLeast DEF D
<1>7. Closed(f, D \cup {s})
  BY <1>1, <1>2, <1>3 DEF Closed
<1>8. C \subseteq D \cup {s}
  BY <1>7, ChainLeast DEF C
<1>9. s \notin D
  BY <1>2, <1>3
<1> QED BY <1>6, <1>8, <1>9 DEF C, D

\* A chain of one block.
LEMMA ChainOfOne ==
    ASSUME NEW f, NEW s, Begins(f, s), f[s] = LastBlock
    PROVE  Chain(f, s) = {s}
<1>1. Closed(f, {s})
  BY EntryValues DEF Closed
<1>2. Chain(f, s) \subseteq {s} /\ s \in Chain(f, s)
  BY <1>1, ChainLeast, ChainClosed
<1> QED BY <1>2

-----------------------------------------------------------------------------
(* Chains step by step *)

LEMMA HeadBegins ==
    ASSUME TypeOK, VolumeInv, Sound
    PROVE  /\ \A i \in LiveSlots : slots[i].start \in Heads /\ Begins(buf, slots[i].start)
           /\ \A h \in Heads : Begins(buf, h)
<1>1. /\ buf \in [Blocks -> Blocks] /\ block \in Blocks
      /\ \A i \in LiveSlots : slots[i].start \in Blocks
  BY DEF TypeOK, FileBlock, LiveSlots
<1>2. WellLinked(buf) /\ WellHeaded(buf) /\ Pending
  BY DEF VolumeInv, VolumeOK
<1>3. \A i \in LiveSlots : Begins(buf, slots[i].start)
  BY <1>1, <1>2 DEF Begins, WellHeaded
<1>4. pc \in {"create_slot", "delete_walk"} => Begins(buf, block)
  BY <1>1, <1>2, EntryValues DEF Begins, Pending
<1> QED BY <1>3, <1>4 DEF Heads

LEMMA HeadBeginsNext ==
    ASSUME TypeOK', VolumeInv', Sound'
    PROVE  /\ \A i \in LiveSlots' : slots'[i].start \in Heads' /\ Begins(buf', slots'[i].start)
           /\ \A h \in Heads' : Begins(buf', h)
<1>1. /\ buf' \in [Blocks -> Blocks] /\ block' \in Blocks
      /\ \A i \in LiveSlots' : slots'[i].start \in Blocks
  BY DEF TypeOK, FileBlock, LiveSlots
<1>2. WellLinked(buf') /\ WellHeaded(buf)' /\ Pending'
  BY DEF VolumeInv, VolumeOK, WellLinked
<1>3. \A i \in LiveSlots' : Begins(buf', slots'[i].start)
  BY <1>1, <1>2 DEF Begins, WellHeaded, Linked
<1>4. pc' \in {"create_slot", "delete_walk"} => Begins(buf', block')
  BY <1>1, <1>2, EntryValues DEF Begins, Pending, Linked
<1> QED BY <1>3, <1>4 DEF Heads

\* What the lemmas below assume of a step.
Settled == TypeOK /\ VolumeInv /\ Sound /\ TypeOK' /\ VolumeInv' /\ Sound'

\* The heads while the descriptors of files stay.
LEMMA HeadsStay ==
    ASSUME UNCHANGED <<slots, slot>> \/ (UNCHANGED slots /\ ~ Deleting), Deleting' <=> Deleting
    PROVE  /\ LiveSlots' = LiveSlots
           /\ Heads' = {slots[i].start : i \in LiveSlots}
                       \cup (IF pc' \in {"create_slot", "delete_walk"} THEN {block'} ELSE {})
<1>1. LiveSlots' = LiveSlots
  BY DEF LiveSlots
<1> QED BY <1>1 DEF Heads

LEMMA CreateFatChains ==
    ASSUME Settled, CreateFat
    PROVE  /\ Heads' = Heads \cup {block} /\ Chain(buf', block) = {block}
           /\ \A h \in Heads : Chain(buf', h) = Chain(buf, h)
           /\ \A b \in Blocks : buf'[b] # FreeEntry => b = block \/ buf[b] # FreeEntry
<1>1. /\ pc = "create_fat" /\ pc' = "create_slot" /\ UNCHANGED <<slots, slot, block>>
      /\ fat' = [fat EXCEPT ![block] = LastBlock] /\ buf' = fat'
  BY DEF CreateFat, local
<1>2. /\ fat = buf /\ block \in Blocks /\ buf[block] = FreeEntry /\ buf \in [Blocks -> Blocks]
  BY <1>1 DEF Settled, VolumeInv, OnDisk, Pending, TypeOK
<1>3. buf'[block] = LastBlock /\ \A b \in Blocks : b # block => buf'[b] = buf[b]
  BY <1>1, <1>2, EntryValues, FirstValues
<1>4. Heads' = Heads \cup {block}
  BY <1>1, HeadsStay DEF Deleting, Heads
<1>5. Begins(buf', block)
  BY <1>4, HeadBeginsNext DEF Settled
<1>6. Chain(buf', block) = {block}
  BY <1>3, <1>5, ChainOfOne
<1>7. ASSUME NEW h \in Heads PROVE Chain(buf', h) = Chain(buf, h)
  <2>1. Begins(buf, h) /\ Begins(buf', h)
    BY <1>4, HeadBegins, HeadBeginsNext DEF Settled
  <2>2. \A b \in Chain(buf, h) : b \in Blocks /\ buf[b] # FreeEntry
    BY <2>1, ChainClosed
  <2>3. \A b \in Chain(buf, h) : buf'[b] = buf[b]
    BY <2>2, <1>2, <1>3
  <2> QED BY <2>1, <2>3, ChainStays
<1> QED BY <1>3, <1>4, <1>6, <1>7

\* add_blocks_to_file works on the chain of one file.
LEMMA AddBlockChains ==
    ASSUME Settled, GrowInv, AddBlock
    PROVE  /\ Heads' = Heads /\ block \in Heads
           /\ FindFirstUnused \in Blocks
           /\ Chain(buf', block) = Chain(buf, block) \cup {FindFirstUnused}
           /\ \A h \in Heads : h # block => Chain(buf', h) = Chain(buf, h)
           /\ \A b \in Blocks : buf'[b] # buf[b] => b \in Chain(buf', block)
           /\ \A b \in Blocks : buf'[b] # FreeEntry => b = FindFirstUnused \/ buf[b] # FreeEntry
<1> DEFINE new == FindFirstUnused
           last == EndOf(buf, block)
<1>1. /\ pc = "grow" /\ pc' \in {"grow", "grow_flush"} /\ UNCHANGED <<slots, slot, block>>
      /\ last \in Blocks /\ buf[last] = LastBlock /\ buf' = Link(buf, last, new)
  BY DEF AddBlock
<1>2. ~ Full
  BY DEF Settled, AddBlock, Sound, Structural
<1>3. new \in DataBlocks /\ buf[new] = FreeEntry
  BY <1>1, <1>2, FreshBlock DEF Settled
<1>4. Heads' = Heads
  BY <1>1, HeadsStay DEF Deleting, Heads
<1>5. block \in Heads
  BY <1>1 DEF Settled, GrowInv, Growing, Heads
<1>6. Begins(buf, block) /\ Begins(buf', block)
  BY <1>4, <1>5, HeadBegins, HeadBeginsNext DEF Settled
<1>7. last \in Chain(buf, block)
  BY <1>6, ChainClosed
<1> HIDE DEF new, last
<1>8. Chain(buf', block) = Chain(buf, block) \cup {new}
  BY <1>1, <1>3, <1>6, <1>7, ChainGrows
<1>9. /\ buf \in [Blocks -> Blocks] /\ new \in Blocks
      /\ \A b \in Blocks : b # last /\ b # new => buf'[b] = buf[b]
  BY <1>1, <1>3, EntryValues, FirstValues DEF Settled, TypeOK, Link
<1>10. ASSUME NEW h \in Heads, h # block PROVE Chain(buf', h) = Chain(buf, h)
  <2>1. Begins(buf, h) /\ Begins(buf', h)
    BY <1>4, HeadBegins, HeadBeginsNext DEF Settled
  <2>2. \A b \in Chain(buf, h) : b \in Blocks /\ buf[b] # FreeEntry /\ b # last
    BY <2>1, <1>6, <1>7, <1>10, ChainClosed, ChainsApart
  <2>3. \A b \in Chain(buf, h) : buf'[b] = buf[b]
    BY <2>2, <1>3, <1>9
  <2> QED BY <2>1, <2>3, ChainStays
<1>11. \A b \in Blocks : buf'[b] # buf[b] => b \in Chain(buf', block)
  BY <1>7, <1>8, <1>9
<1>12. buf[last] # FreeEntry
  BY <1>1, EntryValues
<1>13. \A b \in Blocks : buf'[b] # FreeEntry => b = new \/ buf[b] # FreeEntry
  BY <1>9, <1>12
<1> QED BY <1>4, <1>5, <1>8, <1>9, <1>10, <1>11, <1>13 DEF new

\* delete_file takes its chain away from the front.
LEMMA DeleteNextChains ==
    ASSUME Settled, DeleteNext
    PROVE  /\ block \in Heads /\ Heads' = (Heads \ {block}) \cup {buf[block]}
           /\ Chain(buf', buf[block]) = Chain(buf, block) \ {block}
           /\ \A h \in Heads : h # block => Chain(buf', h) = Chain(buf, h)
           /\ \A b \in Blocks : buf'[b] # FreeEntry => b # block /\ buf[b] # FreeEntry
<1>1. /\ pc = "delete_walk" /\ buf[block] # LastBlock /\ FreeBlock(buf[block])
      /\ buf' = [buf EXCEPT ![block] = FreeEntry] /\ UNCHANGED <<slots, slot>>
  BY DEF DeleteNext
<1>2. /\ buf \in [Blocks -> Blocks] /\ block \in Blocks /\ buf[block] # FreeEntry
      /\ \A i \in LiveSlots : slots[i].start # block
  BY <1>1 DEF Settled, TypeOK, VolumeInv, Pending
<1>3. block \in Heads
  BY <1>1 DEF Heads
<1>4. pc' = "delete_walk" /\ block' = buf[block]
  BY <1>1 DEF FreeBlock, Settled, VolumeInv
<1>5. Heads' = (Heads \ {block}) \cup {buf[block]}
  BY <1>1, <1>2, <1>4, HeadsStay DEF Deleting, Heads
<1>6. Begins(buf, block) /\ Begins(buf', buf[block])
  BY <1>3, <1>5, HeadBegins, HeadBeginsNext DEF Settled
<1>7. buf[block] \in DataBlocks
  BY <1>1, <1>2, <1>6 DEF Begins, WellLinked
<1>8. Chain(buf', buf[block]) = Chain(buf, block) \ {block}
  BY <1>1, <1>6, <1>7, ChainShrinks
<1>9. buf'[block] = FreeEntry /\ \A b \in Blocks : b # block => buf'[b] = buf[b]
  BY <1>1, <1>2, EntryValues, FirstValues
<1>10. ASSUME NEW h \in Heads, h # block PROVE Chain(buf', h) = Chain(buf, h)
  <2>1. Begins(buf, h) /\ Begins(buf', h)
    BY <1>5, <1>10, HeadBegins, HeadBeginsNext DEF Settled
  <2>2. \A b \in Chain(buf, h) : b \in Blocks /\ b # block
    BY <2>1, <1>6, <1>10, ChainClosed, ChainsApart
  <2> QED BY <2>1, <2>2, <1>9, ChainStays
<1> QED BY <1>3, <1>5, <1>8, <1>9, <1>10

LEMMA DeleteLastChains ==
    ASSUME Settled, DeleteLast
    PROVE  /\ block \in Heads /\ Heads' = Heads \ {block} /\ Chain(buf, block) = {block}
           /\ \A h \in Heads : h # block => Chain(buf', h) = Chain(buf, h)
           /\ \A b \in Blocks : buf'[b] # FreeEntry => b # block /\ buf[b] # FreeEntry
<1>1. /\ pc = "delete_walk" /\ pc' = "delete_flush" /\ buf[block] = LastBlock
      /\ buf' = [buf EXCEPT ![block] = FreeEntry] /\ UNCHANGED <<slots, slot, block>>
  BY DEF DeleteLast, disk
<1>2. /\ buf \in [Blocks -> Blocks] /\ block \in Blocks
      /\ \A i \in LiveSlots : slots[i].start # block
  BY <1>1 DEF Settled, TypeOK, VolumeInv, Pending
<1>3. block \in Heads
  BY <1>1 DEF Heads
<1>4. Heads' = Heads \ {block}
  BY <1>1, <1>2, HeadsStay DEF Deleting, Heads
<1>5. Begins(buf, block)
  BY <1>3, HeadBegins DEF Settled
<1>6. Chain(buf, block) = {block}
  BY <1>1, <1>5, ChainOfOne
<1>7. buf'[block] = FreeEntry /\ \A b \in Blocks : b # block => buf'[b] = buf[b]
  BY <1>1, <1>2, EntryValues, FirstValues
<1>8. ASSUME NEW h \in Heads, h # block PROVE Chain(buf', h) = Chain(buf, h)
  <2>1. Begins(buf, h) /\ Begins(buf', h)
    BY <1>4, <1>8, HeadBegins, HeadBeginsNext DEF Settled
  <2>2. \A b \in Chain(buf, h) : b \in Blocks /\ b # block
    BY <2>1, <1>5, <1>6, <1>8, ChainClosed, ChainsApart
  <2> QED BY <2>1, <2>2, <1>7, ChainStays
<1> QED BY <1>3, <1>4, <1>6, <1>7, <1>8

-----------------------------------------------------------------------------
(* The growing file *)

LEMMA NothingPending ==
    ASSUME pc' \notin {"grow", "grow_flush"}
    PROVE  GrowInv'
BY DEF GrowInv, Growing

LEMMA SeekGrows ==
    ASSUME Settled, DirectoryInv, NEW h \in Handles, NEW k \in 1 .. MaxSeekBlocks, SeekFile(h, k)
    PROVE  GrowInv'
<1>1. CASE Refuse("FS_NONE")
  BY <1>1, NothingPending DEF Refuse, Return
<1>2. CASE ~ Refuse("FS_NONE")
  <2>1. /\ pc = "idle" /\ pc' = "grow" /\ UNCHANGED <<fat, slots, buf>>
        /\ files[h] # NoFile /\ files[h].name # Empty /\ block' = files[h].start
    BY <1>2 DEF SeekFile, disk
  <2>2. fat' = buf'
    BY <2>1 DEF Settled, VolumeInv, OnDisk
  <2>3. HandlesBacked /\ "alias" \notin fault
    BY DEF Settled, DirectoryInv, Sound, Structural
  <2>4. PICK i \in SlotIds : slots[i] = [name |-> files[h].name, status |-> "FILE_OPENED",
                                         start |-> files[h].start]
    BY <2>1, <2>3 DEF HandlesBacked
  <2>5. i \in LiveSlots' /\ slots'[i].start = block'
    BY <2>1, <2>4 DEF LiveSlots, Deleting
  <2> QED BY <2>2, <2>5 DEF GrowInv
<1> QED BY <1>1, <1>2

LEMMA AddBlockGrows ==
    ASSUME Settled, GrowInv, AddBlock
    PROVE  GrowInv'
<1>1. pc = "grow" /\ pc' \in {"grow", "grow_flush"} /\ UNCHANGED <<fat, slots, block>>
  BY DEF AddBlock
<1>2. LiveSlots' = LiveSlots
  BY <1>1 DEF LiveSlots, Deleting
<1>3. /\ \E i \in LiveSlots : slots[i].start = block
      /\ \A b \in Blocks : fat[b] # buf[b] => b \in Chain(buf, block)
  BY <1>1 DEF GrowInv, Growing, Settled
<1>4. /\ Chain(buf, block) \subseteq Chain(buf', block)
      /\ \A b \in Blocks : buf'[b] # buf[b] => b \in Chain(buf', block)
  BY AddBlockChains
<1>5. \A b \in Blocks : fat[b] # buf'[b] => b \in Chain(buf', block)
  BY <1>3, <1>4
<1> QED BY <1>1, <1>2, <1>3, <1>5 DEF GrowInv

LEMMA GrowFlushGrows ==
    ASSUME Settled, GrowInv, GrowFlush
    PROVE  GrowInv'
<1>1. CASE sector + 1 \in Sectors
  <2>1. /\ pc = "grow_flush" /\ UNCHANGED <<slots, slot, block, pc>>
        /\ sector' = sector + 1 /\ sector + 1 # 0
    BY <1>1 DEF GrowFlush, FlushFat, Settled, TypeOK, Sectors
  <2>2. LiveSlots' = LiveSlots
    BY <2>1 DEF LiveSlots, Deleting
  <2> QED BY <2>1, <2>2 DEF GrowInv, Growing, Settled
<1>2. CASE sector + 1 \notin Sectors
  BY <1>2, NothingPending DEF GrowFlush, FlushFat, Return
<1> QED BY <1>1, <1>2

LEMMA NextGrows ==
    ASSUME Settled, DirectoryInv, GrowInv, [Next]_vars
    PROVE  GrowInv'
<1>1. ASSUME NEW n \in Names, CreateRefused(n) \/ OpenRefused(n) \/ DeleteRefused(n) \/ FileExists(n)
      PROVE  GrowInv'
  BY <1>1, NothingPending DEF CreateRefused, OpenRefused, DeleteRefused, FileExists, Refuse, Return
<1>2. ASSUME NEW n \in Names, CreateFile(n) \/ DeleteFile(n)
      PROVE  GrowInv'
  BY <1>2, NothingPending DEF CreateFile, DeleteFile, FreeBlock
<1>3. ASSUME NEW n \in Names, NEW h \in Handles, OpenFile(n, h)
      PROVE  GrowInv'
  BY <1>3, NothingPending DEF OpenFile, Return
<1>4. ASSUME NEW h \in Handles, CloseRefused(h) \/ CloseFile(h) \/ SeekHangs(h)
      PROVE  GrowInv'
  BY <1>4, NothingPending DEF CloseRefused, CloseFile, SeekHangs, Refuse, Return
<1>5. ASSUME NEW h \in Handles, NEW k \in 1 .. MaxSeekBlocks, SeekRefused(h, k)
      PROVE  GrowInv'
  BY <1>5, NothingPending DEF SeekRefused, Refuse, Return
<1>6. ASSUME NEW h \in Handles, NEW k \in 1 .. MaxSeekBlocks, SeekFile(h, k)
      PROVE  GrowInv'
  BY <1>6, SeekGrows
<1>7. CASE CreateFat \/ CreateFails \/ \E h \in Handles : CreateSlot(h)
  BY <1>7, NothingPending DEF CreateFat, CreateFails, CreateSlot, Return
<1>8. CASE AddBlock \/ GrowFlush
  BY <1>8, AddBlockGrows, GrowFlushGrows
<1>9. CASE DeleteNext \/ DeleteLast \/ DeleteSlot
  BY <1>9, NothingPending DEF DeleteNext, DeleteLast, DeleteSlot, FreeBlock, Return
<1>10. CASE DeleteFlush
  BY <1>10, NothingPending DEF DeleteFlush, FlushFat
<1>11. CASE Crash
  BY <1>11, NothingPending DEF Crash, Return
<1>12. CASE UNCHANGED vars
  <2>1. UNCHANGED <<fat, slots, buf, pc, slot, block, sector>>
    BY <1>12 DEF vars
  <2>2. LiveSlots' = LiveSlots
    BY <2>1 DEF LiveSlots, Deleting
  <2> QED BY <2>1, <2>2 DEF GrowInv, Growing, Settled
<1> QED BY <1>1, <1>2, <1>3, <1>4, <1>5, <1>6, <1>7, <1>8, <1>9, <1>10, <1>11, <1>12
        DEF Next, Call, Continue

-----------------------------------------------------------------------------
(* No space is lost *)

\* A step that leaves the FAT and the heads alone and sets no bit.
LEMMA SpaceStays ==
    ASSUME SpaceInv, Settled, "leak" \notin fault, UNCHANGED buf, Heads' = Heads,
           bitmap' \subseteq bitmap, pc # "create_fat",
           pc' = "delete_walk" => block' \notin bitmap'
    PROVE  SpaceInv'
BY DEF SpaceInv, Settled

LEMMA CreateFileSpace ==
    ASSUME Settled, SpaceInv, "leak" \notin fault, NEW n \in Names, CreateFile(n)
    PROVE  SpaceInv'
<1>1. /\ pc = "idle" /\ pc' = "create_fat" /\ block' = FindFirstUnused
      /\ bitmap' = bitmap \cup {FindFirstUnused} /\ UNCHANGED <<slots, buf>>
  BY DEF CreateFile, SetNextBit
<1>2. Heads' = Heads
  BY <1>1, HeadsStay DEF Deleting, Heads
<1> QED BY <1>1, <1>2 DEF SpaceInv, Settled

LEMMA CreateFatSpace ==
    ASSUME Settled, SpaceInv, "leak" \notin fault, CreateFat
    PROVE  SpaceInv'
<1>1. /\ pc = "create_fat" /\ pc' = "create_slot" /\ UNCHANGED bitmap /\ block \in Blocks
      /\ buf' = [buf EXCEPT ![block] = LastBlock] /\ buf \in [Blocks -> Blocks]
  BY DEF CreateFat, Settled, VolumeInv, OnDisk, TypeOK
<1>2. buf'[block] # FreeEntry /\ \A b \in Blocks : buf[b] # FreeEntry => buf'[b] # FreeEntry
  BY <1>1, EntryValues, FirstValues
<1>3. \A b \in bitmap : b \in Blocks
  BY DEF Settled, TypeOK
<1>4. \A b \in bitmap : b \in MetaData \/ buf'[b] # FreeEntry
  BY <1>2, <1>3 DEF SpaceInv, Settled
<1>5. ASSUME NEW b \in Blocks, buf'[b] # FreeEntry
      PROVE  \E h \in Heads' : b \in Chain(buf', h)
  <2>1. CASE b = block
    BY <2>1, CreateFatChains
  <2>2. CASE buf[b] # FreeEntry
    <3>1. PICK h \in Heads : b \in Chain(buf, h)
      BY <2>2 DEF SpaceInv, Settled
    <3> QED BY <3>1, CreateFatChains
  <2> QED BY <1>5, <2>1, <2>2, CreateFatChains
<1> QED BY <1>1, <1>4, <1>5 DEF SpaceInv

LEMMA CreateSlotSpace ==
    ASSUME Settled, DirectoryInv, SpaceInv, "leak" \notin fault, NEW h \in Handles, CreateSlot(h)
    PROVE  SpaceInv'
<1> DEFINE i == First(FreeSlots)
<1>1. name # Empty
  BY DEF CreateSlot, Settled, Sound, DirectoryInv, NewName, Structural
<1>2. i \in FreeSlots
  BY FirstSlot DEF CreateSlot, FreeSlots
<1>3. /\ pc = "create_slot" /\ pc' = "idle" /\ UNCHANGED <<bitmap, buf>>
      /\ slots' = [slots EXCEPT ![i] = [name |-> name, status |-> "FILE_OPENED", start |-> block]]
      /\ i \in SlotIds /\ slots[i].name = Empty /\ slots \in [SlotIds -> FileBlock]
  BY <1>2 DEF CreateSlot, Return, FreeSlots, Settled, TypeOK
<1> HIDE DEF i
<1>4. slots'[i].name = name /\ slots'[i].start = block /\ \A j \in SlotIds : j # i => slots'[j] = slots[j]
  BY <1>3
<1>5. LiveSlots' = LiveSlots \cup {i} /\ i \notin LiveSlots
  BY <1>1, <1>3, <1>4 DEF LiveSlots, Deleting
<1>6. \A j \in LiveSlots : slots'[j].start = slots[j].start
  BY <1>4, <1>5 DEF LiveSlots
<1>7. Heads' = Heads
  BY <1>3, <1>4, <1>5, <1>6 DEF Heads
<1> QED BY <1>3, <1>7, SpaceStays

\* The descriptors keep their names and first blocks.
LEMMA RenameNoneSpace ==
    ASSUME Settled, SpaceInv, "leak" \notin fault, pc = "idle", pc' = "idle", UNCHANGED <<bitmap, buf>>,
           \A i \in SlotIds : slots'[i].name = slots[i].name /\ (i \in LiveSlots => slots'[i].start = slots[i].start)
    PROVE  SpaceInv'
<1>1. LiveSlots' = LiveSlots /\ \A i \in LiveSlots : slots'[i].start = slots[i].start
  BY DEF LiveSlots, Deleting
<1>2. Heads' = Heads
  BY <1>1 DEF Heads
<1> QED BY <1>2, SpaceStays

LEMMA AddBlockSpace ==
    ASSUME Settled, GrowInv, SpaceInv, "leak" \notin fault, AddBlock
    PROVE  SpaceInv'
<1> DEFINE new == FindFirstUnused
<1>1. /\ pc = "grow" /\ pc' \in {"grow", "grow_flush"} /\ bitmap' = bitmap \cup {new}
  BY DEF AddBlock, SetNextBit
<1>2. /\ Heads' = Heads /\ block \in Heads /\ new \in Blocks
      /\ Chain(buf', block) = Chain(buf, block) \cup {new}
      /\ \A h \in Heads : h # block => Chain(buf', h) = Chain(buf, h)
      /\ \A b \in Blocks : buf'[b] # FreeEntry => b = new \/ buf[b] # FreeEntry
  BY AddBlockChains
<1> HIDE DEF new
<1>3. \A b \in Chain(buf', block) : buf'[b] # FreeEntry
  BY <1>2, HeadBeginsNext, ChainClosed DEF Settled
<1>4. ASSUME NEW b \in Blocks, buf'[b] # FreeEntry
      PROVE  \E h \in Heads' : b \in Chain(buf', h)
  <2>1. CASE b = new
    BY <2>1, <1>2
  <2>2. CASE buf[b] # FreeEntry
    <3>1. PICK h \in Heads : b \in Chain(buf, h)
      BY <2>2 DEF SpaceInv, Settled
    <3> QED BY <3>1, <1>2
  <2> QED BY <1>2, <1>4, <2>1, <2>2
<1>5. ASSUME NEW b \in bitmap', b \notin MetaData PROVE buf'[b] # FreeEntry
  <2>1. CASE b = new
    BY <2>1, <1>2, <1>3
  <2>2. CASE b # new
    <3>1. b \in bitmap /\ buf[b] # FreeEntry /\ b \in Blocks
      BY <2>2, <1>1, <1>5 DEF SpaceInv, Settled, TypeOK
    <3>2. PICK h \in Heads : b \in Chain(buf, h)
      BY <3>1 DEF SpaceInv, Settled
    <3>3. b \in Chain(buf', h) /\ Begins(buf', h)
      BY <3>2, <1>2, HeadBeginsNext DEF Settled
    <3> QED BY <3>3, ChainClosed
  <2> QED BY <2>1, <2>2
<1> QED BY <1>1, <1>4, <1>5 DEF SpaceInv

LEMMA DeleteFileSpace ==
    ASSUME Settled, SpaceInv, "leak" \notin fault, NEW n \in Names, DeleteFile(n)
    PROVE  SpaceInv'
<1> DEFINE i == First(Matching(n))
           b == slots[i].start
<1>1. /\ pc = "idle" /\ i \in SlotIds /\ slot' = i /\ FreeBlock(b) /\ UNCHANGED <<fat, slots, buf>>
      /\ n # Empty /\ i \in Matching(n)
  BY FirstMatch, FirstSlot DEF DeleteFile, Matching
<1>2. slots[i].name # Empty
  BY <1>1, NamesAssumption DEF Matching
<1>3. i \in LiveSlots
  BY <1>1, <1>2 DEF LiveSlots, Deleting
<1> HIDE DEF i
<1>4. pc' = "delete_walk" /\ block' = b /\ bitmap' = bitmap \ {b}
  <2>1. ClearedBit(b) = b
    BY <1>1 DEF FreeBlock, Settled, Sound, Structural
  <2> QED BY <1>1, <2>1 DEF FreeBlock, ClearBit, Settled, VolumeInv
<1>5. LiveSlots' = LiveSlots \ {i}
  BY <1>1, <1>4 DEF LiveSlots, Deleting
<1>6. Heads' = Heads
  BY <1>1, <1>3, <1>4, <1>5 DEF Heads
<1> QED BY <1>1, <1>4, <1>6, SpaceStays

LEMMA DeleteNextSpace ==
    ASSUME Settled, SpaceInv, "leak" \notin fault, DeleteNext
    PROVE  SpaceInv'
<1>1. /\ pc = "delete_walk" /\ FreeBlock(buf[block]) /\ buf' = [buf EXCEPT ![block] = FreeEntry]
      /\ buf \in [Blocks -> Blocks] /\ block \in Blocks
  BY DEF DeleteNext, Settled, TypeOK
<1>2. pc' = "delete_walk" /\ block' = buf[block] /\ bitmap' = bitmap \ {buf[block]}
  <2>1. ClearedBit(buf[block]) = buf[block]
    BY <1>1 DEF FreeBlock, Settled, Sound, Structural
  <2> QED BY <1>1, <2>1 DEF FreeBlock, ClearBit, Settled, VolumeInv
<1>3. /\ block \in Heads /\ Heads' = (Heads \ {block}) \cup {buf[block]}
      /\ Chain(buf', buf[block]) = Chain(buf, block) \ {block}
      /\ \A h \in Heads : h # block => Chain(buf', h) = Chain(buf, h)
      /\ \A b \in Blocks : buf'[b] # FreeEntry => b # block /\ buf[b] # FreeEntry
  BY DeleteNextChains
<1>4. ASSUME NEW b \in Blocks, buf'[b] # FreeEntry
      PROVE  \E h \in Heads' : b \in Chain(buf', h)
  <2>1. PICK h \in Heads : b \in Chain(buf, h)
    BY <1>3, <1>4 DEF SpaceInv, Settled
  <2> QED BY <2>1, <1>3, <1>4
<1>5. ASSUME NEW b \in bitmap', b \notin MetaData PROVE buf'[b] # FreeEntry
  <2>1. b \in bitmap /\ b \in Blocks /\ b # block
    BY <1>1, <1>2, <1>5 DEF SpaceInv, Settled, TypeOK
  <2>2. buf[b] # FreeEntry
    BY <2>1, <1>1, <1>5 DEF SpaceInv, Settled
  <2> QED BY <2>1, <2>2, <1>1
<1> QED BY <1>2, <1>4, <1>5 DEF SpaceInv

LEMMA DeleteLastSpace ==
    ASSUME Settled, SpaceInv, "leak" \notin fault, DeleteLast
    PROVE  SpaceInv'
<1>1. /\ pc = "delete_walk" /\ pc' = "delete_flush" /\ buf' = [buf EXCEPT ![block] = FreeEntry]
      /\ UNCHANGED bitmap /\ buf \in [Blocks -> Blocks] /\ block \in Blocks
  BY DEF DeleteLast, disk, Settled, TypeOK
<1>2. /\ block \in Heads /\ Heads' = Heads \ {block} /\ Chain(buf, block) = {block}
      /\ \A h \in Heads : h # block => Chain(buf', h) = Chain(buf, h)
      /\ \A b \in Blocks : buf'[b] # FreeEntry => b # block /\ buf[b] # FreeEntry
  BY DeleteLastChains
<1>3. ASSUME NEW b \in Blocks, buf'[b] # FreeEntry
      PROVE  \E h \in Heads' : b \in Chain(buf', h)
  <2>1. PICK h \in Heads : b \in Chain(buf, h)
    BY <1>2, <1>3 DEF SpaceInv, Settled
  <2> QED BY <2>1, <1>2, <1>3
<1>4. ASSUME NEW b \in bitmap', b \notin MetaData PROVE buf'[b] # FreeEntry
  <2>1. b \in bitmap /\ b \in Blocks /\ b # block
    BY <1>1, <1>4 DEF SpaceInv, Settled, TypeOK
  <2>2. buf[b] # FreeEntry
    BY <2>1, <1>1, <1>4 DEF SpaceInv, Settled
  <2> QED BY <2>1, <2>2, <1>1
<1> QED BY <1>1, <1>3, <1>4 DEF SpaceInv

LEMMA DeleteSlotSpace ==
    ASSUME Settled, SpaceInv, "leak" \notin fault, DeleteSlot
    PROVE  SpaceInv'
<1>1. /\ pc = "delete_slot" /\ pc' = "idle" /\ UNCHANGED <<bitmap, buf>> /\ slot \in SlotIds
      /\ slots' = [slots EXCEPT ![slot] = EmptySlot] /\ slots \in [SlotIds -> FileBlock]
  BY DEF DeleteSlot, Return, Settled, TypeOK
<1>2. slots'[slot].name = Empty /\ \A i \in SlotIds : i # slot => slots'[i] = slots[i]
  BY <1>1 DEF EmptySlot
<1>3. LiveSlots' = LiveSlots /\ \A i \in LiveSlots : slots'[i] = slots[i]
  BY <1>1, <1>2 DEF LiveSlots, Deleting
<1>4. Heads' = Heads
  BY <1>1, <1>3 DEF Heads
<1> QED BY <1>1, <1>4, SpaceStays

LEMMA CrashSpace ==
    ASSUME Settled, SpaceInv, "leak" \notin fault, "leak" \notin fault', Crash
    PROVE  SpaceInv'
<1>1. /\ "torn" \notin CrashFaults /\ "leak" \notin CrashFaults /\ pc' = "idle" /\ buf' = fat
      /\ UNCHANGED <<bitmap, slots>> /\ pc # "clobbered"
  BY DEF Crash, Return, disk, Settled, Sound, Structural
<1>2. pc \in {"idle", "hung"}
  BY <1>1 DEF CrashFaults, Settled, TypeOK, Steps
<1>3. buf' = buf
  BY <1>1, <1>2 DEF Settled, VolumeInv, OnDisk
<1>4. Heads' = Heads
  BY <1>1, <1>2, HeadsStay DEF Deleting, Heads
<1> QED BY <1>1, <1>2, <1>3, <1>4, SpaceStays

LEMMA NextSpace ==
    ASSUME Settled, DirectoryInv, GrowInv, SpaceInv, [Next]_vars
    PROVE  SpaceInv'
<1> SUFFICES ASSUME "leak" \notin fault' PROVE SpaceInv'
  BY DEF SpaceInv
<1>0. "leak" \notin fault
  BY FaultsStay
<1>1. ASSUME pc = "idle", NEW err, Refuse(err)
      PROVE  SpaceInv'
  BY <1>0, <1>1, RenameNoneSpace DEF Refuse, Return, disk
<1>2. ASSUME NEW n \in Names, CreateRefused(n) \/ OpenRefused(n) \/ DeleteRefused(n) \/ FileExists(n)
      PROVE  SpaceInv'
  BY <1>1, <1>2 DEF CreateRefused, OpenRefused, DeleteRefused, FileExists
<1>3. ASSUME NEW n \in Names, CreateFile(n) \/ DeleteFile(n)
      PROVE  SpaceInv'
  BY <1>0, <1>3, CreateFileSpace, DeleteFileSpace
<1>4. ASSUME NEW n \in Names, NEW h \in Handles, OpenFile(n, h)
      PROVE  SpaceInv'
  <2>1. pc = "idle" /\ pc' = "idle" /\ UNCHANGED <<bitmap, buf>>
    BY <1>4 DEF OpenFile, Return
  <2>2. \A i \in SlotIds : slots'[i].name = slots[i].name /\ slots'[i].start = slots[i].start
    BY <1>4, FirstMatch DEF OpenFile, Settled, TypeOK, FileBlock
  <2> QED BY <1>0, <2>1, <2>2, RenameNoneSpace
<1>5. ASSUME NEW h \in Handles, CloseRefused(h)
      PROVE  SpaceInv'
  BY <1>1, <1>5 DEF CloseRefused
<1>6. ASSUME NEW h \in Handles, CloseFile(h)
      PROVE  SpaceInv'
  BY <1>0, <1>6, CloseStarts, RenameNoneSpace DEF Settled
<1>7. ASSUME NEW h \in Handles, SeekHangs(h)
      PROVE  SpaceInv'
  <2>1. pc = "idle" /\ pc' = "hung" /\ UNCHANGED <<bitmap, slots, buf>>
    BY <1>7 DEF SeekHangs, disk
  <2>2. Heads' = Heads
    BY <2>1, HeadsStay DEF Deleting, Heads
  <2> QED BY <1>0, <2>1, <2>2, SpaceStays
<1>8. ASSUME NEW h \in Handles, NEW k \in 1 .. MaxSeekBlocks, SeekRefused(h, k)
      PROVE  SpaceInv'
  BY <1>1, <1>8 DEF SeekRefused
<1>9. ASSUME NEW h \in Handles, NEW k \in 1 .. MaxSeekBlocks, SeekFile(h, k)
      PROVE  SpaceInv'
  <2>1. CASE Refuse("FS_NONE")
    BY <1>1, <1>9, <2>1 DEF SeekFile
  <2>2. CASE ~ Refuse("FS_NONE")
    <3>1. pc = "idle" /\ pc' = "grow" /\ UNCHANGED <<bitmap, slots, buf>>
      BY <1>9, <2>2 DEF SeekFile, disk
    <3>2. Heads' = Heads
      BY <3>1, HeadsStay DEF Deleting, Heads
    <3> QED BY <1>0, <3>1, <3>2, SpaceStays
  <2> QED BY <2>1, <2>2
<1>10. CASE CreateFat \/ CreateFails \/ \E h \in Handles : CreateSlot(h)
  BY <1>0, <1>10, CreateFatSpace, CreateSlotSpace DEF CreateFails
<1>11. CASE AddBlock
  BY <1>0, <1>11, AddBlockSpace
<1>12. CASE GrowFlush
  <2>1. pc = "grow_flush" /\ pc' \in {"grow_flush", "idle"} /\ UNCHANGED <<bitmap, slots, buf>>
    BY <1>12 DEF GrowFlush, FlushFat, Return
  <2>2. Heads' = Heads
    BY <2>1, HeadsStay DEF Deleting, Heads
  <2> QED BY <1>0, <2>1, <2>2, SpaceStays
<1>13. CASE DeleteFlush
  <2>1. /\ pc = "delete_flush" /\ pc' \in {"delete_flush", "delete_slot"}
        /\ UNCHANGED <<bitmap, slots, slot, buf>>
    BY <1>13 DEF DeleteFlush, FlushFat
  <2>2. Heads' = Heads
    BY <2>1, HeadsStay DEF Deleting, Heads
  <2> QED BY <1>0, <2>1, <2>2, SpaceStays
<1>14. CASE DeleteNext \/ DeleteLast \/ DeleteSlot
  BY <1>0, <1>14, DeleteNextSpace, DeleteLastSpace, DeleteSlotSpace
<1>15. CASE Crash
  BY <1>0, <1>15, CrashSpace
<1>16. CASE UNCHANGED vars
  <2>1. UNCHANGED <<bitmap, slots, slot, buf, pc, block, fault>>
    BY <1>16 DEF vars
  <2>2. Heads' = Heads
    BY <2>1, HeadsStay DEF Deleting, Heads
  <2> QED BY <2>1, <2>2 DEF SpaceInv, Settled
<1> QED BY <1>2, <1>3, <1>4, <1>5, <1>6, <1>7, <1>8, <1>9, <1>10, <1>11, <1>12, <1>13, <1>14, <1>15, <1>16
        DEF Next, Call, Continue

LEMMA InitChains == Init => GrowInv /\ SpaceInv
<1> SUFFICES ASSUME Init PROVE GrowInv /\ SpaceInv
  OBVIOUS
<1>1. GrowInv
  BY DEF Init, GrowInv, Growing
<1>2. pc = "idle" /\ \A b \in Blocks : buf[b] = FreeEntry
  BY DEF Init
<1>3. SpaceInv
  BY <1>2 DEF Init, SpaceInv
<1> QED BY <1>1, <1>3

LEMMA NextIInv == IInv /\ [Next]_vars => IInv'
<1> SUFFICES ASSUME IInv, [Next]_vars PROVE IInv'
  OBVIOUS
<1>1. TypeOK' /\ DirectoryInv' /\ VolumeInv' /\ TypeOK /\ DirectoryInv /\ VolumeInv
  BY NextTypeOK, NextDirectory, NextVolume DEF IInv
<1>2. CASE ~ Sound'
  BY <1>1, <1>2 DEF IInv, GrowInv, SpaceInv
<1>3. CASE Sound'
  <2>1. Settled
    BY <1>1, <1>3, FaultsStay, SoundBefore DEF Settled
  <2> QED BY <1>1, <2>1, NextGrows, NextSpace DEF IInv
<1> QED BY <1>2, <1>3

\* The invariant of FatVolumeInv: as long as no fault has broken the volume, every
\* entry of the FAT, every descriptor and every bit is in order, in the middle of a
\* call and after a crash too.
THEOREM InvariantHolds == Spec => []IInv
<1>1. Init => IInv
  BY InitTypeOK, InitDirectory, InitVolume, InitChains DEF IInv
<1> QED BY <1>1, NextIInv, PTL DEF Spec

\* NoSpaceLost: between calls the bitmap marks the metadata and the blocks of files,
\* and nothing else has an entry in the FAT.
THEOREM NoSpaceIsLost == Spec => []NoSpaceLost
<1>1. IInv => NoSpaceLost
  <2> DEFINE used == UNION {FileChain(i) : i \in LiveSlots}
  <2> SUFFICES ASSUME IInv, Sound, "leak" \notin fault, pc = "idle"
               PROVE  bitmap = MetaData \cup used /\ {b \in Blocks : fat[b] # FreeEntry} = used
    BY DEF NoSpaceLost
  <2>1. /\ MetaData \subseteq bitmap /\ Marked(buf) /\ fat = buf /\ bitmap \subseteq Blocks
    BY DEF IInv, VolumeInv, VolumeOK, OnDisk, TypeOK
  <2>2. /\ \A b \in Blocks : buf[b] # FreeEntry => \E h \in Heads : b \in Chain(buf, h)
        /\ \A b \in bitmap : b \in MetaData \/ buf[b] # FreeEntry
    BY DEF IInv, SpaceInv
  <2>3. Heads = {slots[i].start : i \in LiveSlots}
    BY DEF Heads
  <2>4. ASSUME NEW b \in Blocks, buf[b] # FreeEntry PROVE b \in used
    BY <2>2, <2>3, <2>4 DEF FileChain
  <2>5. ASSUME NEW i \in LiveSlots, NEW b \in FileChain(i) PROVE b \in Blocks /\ buf[b] # FreeEntry
    BY <2>5, HeadBegins, ChainClosed DEF IInv, FileChain
  <2>6. {b \in Blocks : buf[b] # FreeEntry} = used
    BY <2>4, <2>5
  <2> HIDE DEF used
  <2>7. bitmap = MetaData \cup used
    BY <2>1, <2>2, <2>6 DEF Marked
  <2> QED BY <2>1, <2>6, <2>7
<1> QED BY <1>1, InvariantHolds, PTL

\* OtherFilesKept: a step of a call on one file leaves the chains of the others alone,
\* and the file a call grows keeps its blocks.
THEOREM OtherFilesAlwaysKept == Spec => OtherFilesKept
<1> DEFINE Kept(i) == \/ FileChain(i)' = FileChain(i)
                      \/ /\ Growing /\ slots[i].start = block
                         /\ \/ FileChain(i) \subseteq FileChain(i)'
                            \/ pc' = "idle"
<1>1. ASSUME IInv, IInv', [Next]_vars, Sound', NEW i \in LiveSlots, i \in LiveSlots',
             slots'[i].start = slots[i].start
      PROVE  Kept(i)
  <2>1. Settled /\ GrowInv
    BY <1>1, FaultsStay, SoundBefore DEF Settled, IInv
  <2> DEFINE h == slots[i].start
  <2>2. /\ h \in Heads /\ Begins(buf, h) /\ Begins(buf', h)
        /\ FileChain(i) = Chain(buf, h) /\ FileChain(i)' = Chain(buf', h)
    BY <2>1, <1>1, HeadBegins, HeadBeginsNext DEF Settled, FileChain
  <2>3. CASE UNCHANGED buf
    BY <2>2, <2>3
  <2>4. CASE CreateFat
    BY <2>1, <2>2, <2>4, CreateFatChains
  <2>5. CASE AddBlock
    <3>1. CASE h = block
      <4>1. FileChain(i) \subseteq FileChain(i)'
        BY <2>1, <2>2, <2>5, <3>1, AddBlockChains
      <4> QED BY <3>1, <4>1, <2>5 DEF AddBlock, Growing
    <3>2. CASE h # block
      BY <2>1, <2>2, <2>5, <3>2, AddBlockChains
    <3> QED BY <3>1, <3>2
  <2>6. CASE DeleteNext \/ DeleteLast
    <3>1. h # block
      BY <2>1, <2>6 DEF DeleteNext, DeleteLast, Settled, VolumeInv, Pending
    <3> QED BY <2>1, <2>2, <2>6, <3>1, DeleteNextChains, DeleteLastChains
  <2>7. CASE Crash
    <3>1. "torn" \notin CrashFaults /\ pc' = "idle" /\ buf' = fat /\ pc # "clobbered"
      BY <2>1, <2>7 DEF Crash, Return, Settled, Sound, Structural
    <3>2. CASE pc \in {"idle", "hung", "create_fat", "create_slot"}
      BY <3>1, <3>2, <2>1, <2>3 DEF Settled, VolumeInv, OnDisk
    <3>3. CASE pc \in {"grow", "grow_flush"}
      <4>1. Growing /\ (pc = "grow" \/ sector = 0)
        BY <3>1, <3>3, <2>1 DEF CrashFaults, Growing, Settled, TypeOK, Sectors
      <4>2. block \in Heads /\ \A b \in Blocks : buf'[b] # buf[b] => b \in Chain(buf, block)
        BY <4>1, <3>1, <2>1 DEF GrowInv, Heads, Settled
      <4>3. CASE h = block
        BY <4>1, <4>3, <3>1
      <4>4. CASE h # block
        <5>1. Begins(buf, block)
          BY <4>2, <2>1, HeadBegins DEF Settled
        <5>2. \A b \in Chain(buf, h) : b \in Blocks /\ b \notin Chain(buf, block)
          BY <5>1, <4>4, <2>2, ChainClosed, ChainsApart
        <5> QED BY <5>2, <4>2, <2>2, ChainStays
      <4> QED BY <4>3, <4>4
    <3> QED BY <3>1, <3>2, <3>3, <2>1 DEF CrashFaults, Settled, TypeOK, Steps
  <2>8. UNCHANGED buf \/ CreateFat \/ AddBlock \/ DeleteNext \/ DeleteLast \/ Crash
    BY <1>1 DEF Next, Call, Continue, vars, CreateRefused, OpenRefused, DeleteRefused, FileExists,
                CloseRefused, SeekRefused, Refuse, CreateFile, DeleteFile, OpenFile, CloseFile,
                SeekHangs, SeekFile, CreateFails, CreateSlot, GrowFlush, DeleteFlush, FlushFat,
                DeleteSlot
  <2> QED BY <2>3, <2>4, <2>5, <2>6, <2>7, <2>8
<1>2. IInv /\ IInv' /\ [Next]_vars =>
        [Sound' => \A i \in LiveSlots :
          i \in LiveSlots' /\ slots'[i].start = slots[i].start => Kept(i)]_vars
  BY <1>1
<1> QED BY <1>2, InvariantHolds, PTL DEF Spec, OtherFilesKept

-----------------------------------------------------------------------------
(* The properties of FatVolume *)

LEMMA LiveStart ==
    ASSUME TypeOK, VolumeInv, Sound, NEW i \in LiveSlots
    PROVE  /\ buf \in [Blocks -> Blocks] /\ WellLinked(buf) /\ slots[i].start \in Blocks
           /\ buf[slots[i].start] # FreeEntry /\ ~ Linked(buf, slots[i].start)
BY DEF TypeOK, FileBlock, LiveSlots, VolumeInv, VolumeOK, WellHeaded

\* The loops that follow the chain of a file end.
THEOREM ChainsAlwaysEnd == Spec => []ChainsEnd
<1>1. IInv => ChainsEnd
  BY LiveStart, WalkEnds DEF IInv, ChainsEnd
<1> QED BY <1>1, InvariantHolds, PTL

\* No block belongs to two files.
THEOREM ChainsStayDisjoint == Spec => []ChainsDisjoint
<1>1. IInv => ChainsDisjoint
  <2> SUFFICES ASSUME IInv, Sound, NEW i \in LiveSlots, NEW j \in LiveSlots, i # j
               PROVE  FileChain(i) \cap FileChain(j) = {}
    BY DEF ChainsDisjoint
  <2>1. slots[i].start # slots[j].start
    BY DEF IInv, VolumeInv, VolumeOK, WellHeaded
  <2>2. \A m, n \in 0 .. NumBlocks : Walk(buf, slots[i].start)[m] # Walk(buf, slots[j].start)[n]
    BY <2>1, LiveStart, WalksDisjoint DEF IInv
  <2> QED BY <2>2 DEF FileChain, Chain
<1> QED BY <1>1, InvariantHolds, PTL

\* The blocks of files are data blocks and their bits are set, and so are the bits
\* of the metadata: none of them is handed out again.
THEOREM UsedBlocksStayMarked == Spec => []UsedBlocksMarked
<1>1. IInv => UsedBlocksMarked
  <2> SUFFICES ASSUME IInv, Sound
               PROVE  /\ MetaData \subseteq bitmap
                      /\ \A i \in LiveSlots : FileChain(i) \subseteq bitmap \cap DataBlocks
    BY DEF UsedBlocksMarked
  <2>1. MetaData \subseteq bitmap /\ Marked(buf) /\ Pending
    BY DEF IInv, VolumeInv, VolumeOK
  <2>2. ASSUME NEW i \in LiveSlots, NEW n \in 0 .. NumBlocks
        PROVE  Walk(buf, slots[i].start)[n] \in bitmap \cap DataBlocks
    <3> DEFINE W == Walk(buf, slots[i].start)
    <3>1. /\ W[n] \in DataBlocks /\ buf[W[n]] # FreeEntry
          /\ W[n] = slots[i].start \/ \E k \in 0 .. NumBlocks : buf[W[k]] = W[n]
      BY LiveStart, WalkUsed DEF IInv
    <3>2. \A k \in 0 .. NumBlocks : W[k] \in Blocks
      BY LiveStart, WalkSteps DEF IInv
    <3> HIDE DEF W
    <3>3. pc = "delete_walk" => W[n] # block
      BY <2>1, <3>1, <3>2 DEF Pending, Linked
    <3>4. W[n] \in bitmap
      BY <2>1, <3>1, <3>2, <3>3 DEF Marked
    <3> QED BY <3>1, <3>4 DEF W
  <2> QED BY <2>1, <2>2 DEF FileChain, Chain
<1> QED BY <1>1, InvariantHolds, PTL

=============================================================================
