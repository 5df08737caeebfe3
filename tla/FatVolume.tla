----------------------------- MODULE FatVolume -----------------------------
(***************************************************************************)
(* The metadata of a volume of the FAT file system of                      *)
(* Programming-Assignment#3/filesystem.c: the free-block bitmap, the FAT,  *)
(* the file descriptors, and the calls of the API that change them.        *)
(*                                                                         *)
(* A call writes the disk several times (the bitmap, then the FAT block by *)
(* block, then the descriptors).  softwaredisk.c flushes every block it    *)
(* writes, so a process that dies loses its memory and nothing it wrote:   *)
(* there is one step between two writes that matter, and Crash may happen  *)
(* between any two.  At most one call is in progress (the library is       *)
(* single-threaded); pc says which, and after which write.                 *)
(*                                                                         *)
(* File contents, positions and sizes are the subject of FileIO.           *)
(***************************************************************************)
EXTENDS Integers, FiniteSets

CONSTANTS
    NumBlocks,         \* blocks of the software disk (NUM_BLOCKS, 5000)
    MetaBlocks,        \* blocks of bitmap, descriptors and FAT (50)
    ByteSize,          \* bits of a byte of the bitmap (BYTE_SIZE, 8)
    EntriesPerSector,  \* FAT entries in a disk block (512 / 4 = 128)
    MaxFiles,          \* MAX_FILES (64)
    DiskBlockBuffer,   \* DISK_BLOCK_BUFFER (5)
    UIntModulus,       \* 2^32, the modulus of an unsigned int
    MaxSeekBlocks,     \* bound: the blocks a seek may ask for
    Names,             \* file names a caller passes, the empty one included
    Empty,             \* the name that begins with a null character
    PrefixOf,          \* pairs <<n, m>> such that n is a prefix of m
    Handles,           \* bound: the FileInternals a program may hold
    NoFile             \* NULL

ASSUME DiskAssumption ==
    /\ NumBlocks \in Nat /\ MetaBlocks \in Nat /\ ByteSize \in Nat \ {0}
    /\ 2 <= MetaBlocks /\ MetaBlocks < NumBlocks
    /\ NumBlocks % ByteSize = 0
    /\ EntriesPerSector \in Nat \ {0}
    /\ DiskBlockBuffer \in 0 .. NumBlocks
    /\ MaxFiles \in Nat \ {0} /\ MaxSeekBlocks \in Nat
    /\ UIntModulus \in Nat /\ 2 * NumBlocks + MaxSeekBlocks < UIntModulus

ASSUME NamesAssumption ==
    /\ Empty \in Names
    /\ PrefixOf \subseteq Names \X Names
    /\ \A n \in Names : <<n, n>> \in PrefixOf /\ <<Empty, n>> \in PrefixOf
    /\ \A n \in Names : <<n, Empty>> \in PrefixOf => n = Empty

Blocks     == 0 .. NumBlocks - 1
MetaData   == 0 .. MetaBlocks - 1
DataBlocks == MetaBlocks .. NumBlocks - 1
SlotIds    == 1 .. MaxFiles
Sectors    == 0 .. (NumBlocks - 1) \div EntriesPerSector

LastBlock == 1         \* FAT entry of the last block of a file
FreeEntry == 0         \* FAT entry of a block no file uses

Errors == {"FS_NONE", "FS_OUT_OF_SPACE", "FS_FILE_NOT_OPEN", "FS_FILE_OPEN",
           "FS_FILE_NOT_FOUND", "FS_FILE_ALREADY_EXISTS",
           "FS_EXCEEDS_MAX_FILE_SIZE", "FS_ILLEGAL_FILENAME"}

\* A file descriptor (struct FileBlock without the size).
FileBlock == [name : Names, status : {"FILE_CLOSED", "FILE_OPENED"}, start : Blocks]
EmptySlot == [name |-> Empty, status |-> "FILE_CLOSED", start |-> 0]

ASSUME NoFileAssumption == NoFile \notin [name : Names, start : Blocks]

VARIABLES
    bitmap,    \* the blocks whose bit is set on disk
    fat,       \* the FAT on disk
    slots,     \* the file descriptors on disk
    files,     \* the File objects the program holds
    pc,        \* what the call in progress does next, "idle" between calls
    name,      \* its name argument
    block,     \* the block it works on
    slot,      \* the descriptor it works on
    todo,      \* the blocks it still has to add
    buf,       \* its copy of the FAT; the FAT itself when no call holds one
    sector,    \* the next block of that copy to write back
    fserror,   \* the error of the last call that returned
    fault      \* history: what went wrong so far (see Faults)

disk  == <<bitmap, fat, slots>>
local == <<name, block, slot, todo, sector>>
vars  == <<bitmap, fat, slots, files, pc, name, block, slot, todo, buf, sector,
           fserror, fault>>

(***************************************************************************)
(* The events after which the code does not keep the volume in order.      *)
(*   misfree: clear_bit_bitmap cleared the bit of another block            *)
(*   full:    a block was taken from a bitmap with no free bit             *)
(*   alias:   close_file wrote the descriptor of another file              *)
(*   torn:    a crash in a delete, or in the middle of writing the FAT     *)
(*   leak:    a block was marked and is in no file                         *)
(*   orphan:  a crash while a file was open                                *)
(* The first four may make two files share a block.                        *)
(***************************************************************************)
Structural == {"misfree", "full", "alias", "torn"}
Faults     == Structural \cup {"leak", "orphan"}
Sound      == fault \cap Structural = {}

Steps == {"create_fat", "create_slot", "grow", "grow_flush",
          "delete_walk", "delete_flush", "delete_slot"}

TypeOK ==
    /\ bitmap \subseteq Blocks
    /\ fat \in [Blocks -> Blocks] /\ buf \in [Blocks -> Blocks]
    /\ slots \in [SlotIds -> FileBlock]
    /\ files \in [Handles -> [name : Names, start : Blocks] \cup {NoFile}]
    /\ pc \in Steps \cup {"idle", "hung", "clobbered"}
    /\ name \in Names /\ block \in Blocks /\ slot \in SlotIds
    /\ todo \in 0 .. MaxSeekBlocks
    /\ sector \in Sectors
    /\ fserror \in Errors
    /\ fault \subseteq Faults

-----------------------------------------------------------------------------
(* The bitmap *)

RoundUpDivision(number, divisor) ==
    number \div divisor + (IF number % divisor # 0 THEN 1 ELSE 0)

\* The bit clear_bit_bitmap clears for a bit number: the byte is the rounded-up
\* quotient less one, the bit within it the remainder.
ClearedBit(bit) ==
    LET byte == IF bit = 0 THEN 0 ELSE RoundUpDivision(bit, ByteSize) - 1
    IN  (byte * ByteSize) + (bit % ByteSize)

\* Mutant: the next bit is cleared.
ClearBitOffByOne(bit) == bitmap \ {bit + 1}

ClearBit(bit) == bitmap \ {ClearedBit(bit)}

Full == bitmap = Blocks

\* Where a loop that counts up finds the first member of S.
First(S) == CHOOSE b \in S : \A c \in S : b <= c

\* Mutant: the scan that finds no clear bit returns the number after the last.
FindFirstUnusedPastEnd == IF Full THEN NumBlocks ELSE First(Blocks \ bitmap)

\* 0, FIND_FIRST_UNUSED_BIT_BITMAP_FAIL, when no bit is clear.
FindFirstUnused ==
    IF Full THEN 0 ELSE First(Blocks \ bitmap)

\* set_next_bits_of_bitmap(1)
SetNextBit == bitmap \cup {FindFirstUnused}

(* Chains of the FAT *)

\* The blocks a walk that starts at s visits, step by step; it stays on a last
\* block.  NumBlocks steps reach the last block of every chain that has one.
Walk(f, s) ==
    LET w[n \in 0 .. NumBlocks] ==
            IF n = 0 THEN s
            ELSE LET b == w[n - 1] IN IF f[b] = LastBlock THEN b ELSE f[b]
    IN  w

Chain(f, s)  == LET w == Walk(f, s) IN Blocks \cap {w[n] : n \in 0 .. NumBlocks}
\* Mutant: a last block found in the table, not along the file's chain.
EndOfAnyFile(f, s) == CHOOSE b \in Blocks : f[b] = LastBlock

EndOf(f, s)  == Walk(f, s)[NumBlocks]
Ends(f, s)   == f[EndOf(f, s)] = LastBlock
NumberOfBlocks(f, s) == Cardinality(Chain(f, s))

\* Mutant: the new block is not made the last one.
LinkOpenEnd(f, last, b) == [f EXCEPT ![last] = b]

\* add_blocks_to_file hangs block b after the last block of a file.
Link(f, last, b) == [[f EXCEPT ![last] = b] EXCEPT ![b] = LastBlock]

\* Mutant: the last entry of the table is not written.
WriteSectorShort(sec) ==
    [b \in Blocks |-> IF b \div EntriesPerSector = sec /\ b # NumBlocks - 1
                      THEN buf[b] ELSE fat[b]]

\* Disk block `sec` of the FAT is written from the call's copy.
WriteSector(sec) ==
    [b \in Blocks |-> IF b \div EntriesPerSector = sec THEN buf[b] ELSE fat[b]]

(* File descriptors *)

\* memcmp over the bytes of n only: a descriptor whose name n is a prefix of.
Matching(n) == {i \in SlotIds : <<n, slots[i].name>> \in PrefixOf}
FreeSlots   == {i \in SlotIds : slots[i].name = Empty}

\* The call in progress is over and its locals with it.
Return(err) ==
    /\ pc' = "idle" /\ fserror' = err
    /\ name' = Empty /\ block' = 0 /\ slot' = 1 /\ todo' = 0 /\ sector' = 0

\* A call that returns at once and changes nothing but fserror.
Refuse(err) == Return(err) /\ UNCHANGED <<disk, files, buf, fault>>

-----------------------------------------------------------------------------
Init ==
    /\ bitmap = MetaData
    /\ fat = [b \in Blocks |-> FreeEntry]
    /\ slots = [i \in SlotIds |-> EmptySlot]
    /\ files = [h \in Handles |-> NoFile]
    /\ pc = "idle" /\ name = Empty /\ block = 0 /\ slot = 1 /\ todo = 0
    /\ buf = fat /\ sector = 0
    /\ fserror = "FS_NONE" /\ fault = {}

(***************************************************************************)
(* create_file: the name is looked up, then a bit is set, a FAT entry and  *)
(* a descriptor written.  That the table of descriptors is full is noticed *)
(* last, that the disk is full is not noticed.                             *)
(***************************************************************************)
CreateRefused(n) ==
    /\ pc = "idle"
    /\ \/ n = Empty /\ Refuse("FS_ILLEGAL_FILENAME")
       \/ n # Empty /\ Matching(n) # {} /\ Refuse("FS_FILE_ALREADY_EXISTS")

\* Mutant: it is not checked whether the name exists.
CreateFileUnchecked(n) ==
    /\ pc = "idle" /\ n # Empty
    /\ \E h \in Handles : files[h] = NoFile
    /\ block' = FindFirstUnused
    /\ bitmap' = SetNextBit
    /\ fault' = IF Full THEN fault \cup {"full"} ELSE fault
    /\ name' = n /\ pc' = "create_fat"
    /\ UNCHANGED <<fat, slots, files, slot, todo, buf, sector, fserror>>

CreateFile(n) ==
    /\ pc = "idle" /\ n # Empty /\ Matching(n) = {}
    /\ \E h \in Handles : files[h] = NoFile
    /\ block' = FindFirstUnused
    /\ bitmap' = SetNextBit
    /\ fault' = IF Full THEN fault \cup {"full"} ELSE fault
    /\ name' = n /\ pc' = "create_fat"
    /\ UNCHANGED <<fat, slots, files, slot, todo, buf, sector, fserror>>

CreateFat ==
    /\ pc = "create_fat"
    /\ fat' = [fat EXCEPT ![block] = LastBlock] /\ buf' = fat'
    /\ pc' = "create_slot"
    /\ UNCHANGED <<bitmap, slots, files, local, fserror, fault>>

CreateSlot(h) ==
    /\ pc = "create_slot" /\ files[h] = NoFile
    /\ FreeSlots # {}
    /\ slots' = [slots EXCEPT ![First(FreeSlots)] =
                    [name |-> name, status |-> "FILE_OPENED", start |-> block]]
    /\ files' = [files EXCEPT ![h] = [name |-> name, start |-> block]]
    /\ Return("FS_NONE")
    /\ UNCHANGED <<bitmap, fat, buf, fault>>

CreateFails ==
    /\ pc = "create_slot" /\ FreeSlots = {}
    /\ Return("FS_EXCEEDS_MAX_FILE_SIZE")
    /\ fault' = fault \cup {"leak"}
    /\ UNCHANGED <<disk, files, buf>>

(* open_file: no name is illegal, and the empty one matches any descriptor. *)
OpenRefused(n) ==
    /\ pc = "idle"
    /\ \/ Matching(n) = {} /\ Refuse("FS_FILE_NOT_FOUND")
       \/ /\ Matching(n) # {}
          /\ slots[First(Matching(n))].status = "FILE_OPENED"
          /\ Refuse("FS_FILE_OPEN")

\* Mutant: a file is opened that is open already.
OpenFileAgain(n, h) ==
    /\ pc = "idle" /\ files[h] = NoFile /\ Matching(n) # {}
    /\ LET i == First(Matching(n)) IN
       /\ slots' = [slots EXCEPT ![i].status = "FILE_OPENED"]
       /\ files' = [files EXCEPT ![h] = [name |-> slots[i].name, start |-> slots[i].start]]
    /\ Return("FS_NONE")
    /\ UNCHANGED <<bitmap, fat, buf, fault>>

OpenFile(n, h) ==
    /\ pc = "idle" /\ files[h] = NoFile /\ Matching(n) # {}
    /\ LET i == First(Matching(n)) IN
       /\ slots[i].status = "FILE_CLOSED"
       /\ slots' = [slots EXCEPT ![i].status = "FILE_OPENED"]
       /\ files' = [files EXCEPT ![h] = [name |-> slots[i].name, start |-> slots[i].start]]
    /\ Return("FS_NONE")
    /\ UNCHANGED <<bitmap, fat, buf, fault>>

(* close_file: the handle's copy of the descriptor goes to the first match. *)
CloseRefused(h) ==
    /\ pc = "idle"
    /\ \/ files[h] = NoFile /\ Refuse("FS_FILE_NOT_OPEN")
       \/ /\ files[h] # NoFile /\ Matching(files[h].name) = {}
          /\ Refuse("FS_FILE_NOT_FOUND")
       \/ /\ files[h] # NoFile /\ Matching(files[h].name) # {}
          /\ slots[First(Matching(files[h].name))].status = "FILE_CLOSED"
          /\ Refuse("FS_FILE_NOT_OPEN")

CloseFile(h) ==
    /\ pc = "idle" /\ files[h] # NoFile /\ Matching(files[h].name) # {}
    /\ LET i == First(Matching(files[h].name)) IN
       /\ slots[i].status = "FILE_OPENED"
       /\ slots' = [slots EXCEPT ![i] = [name |-> files[h].name, status |-> "FILE_CLOSED",
                                         start |-> files[h].start]]
       /\ fault' = IF slots[i].name # files[h].name THEN fault \cup {"alias"} ELSE fault
    /\ files' = [files EXCEPT ![h] = NoFile]
    /\ Return("FS_NONE")
    /\ UNCHANGED <<bitmap, fat, buf>>

(***************************************************************************)
(* seek_file to a byte of block number `needed` (write_file calls it for   *)
(* every byte it writes).  The test for space is unsigned arithmetic on    *)
(* the number of the first free block.                                     *)
(***************************************************************************)
SpaceTest(needed, current) ==
    (needed - current + FindFirstUnused + 1) % UIntModulus <= NumBlocks - DiskBlockBuffer

SeekRefused(h, needed) ==
    /\ pc = "idle" /\ files[h] # NoFile
    /\ \/ files[h].name = Empty /\ Refuse("FS_ILLEGAL_FILENAME")
       \/ /\ files[h].name # Empty /\ Ends(buf, files[h].start)
          /\ ~ SpaceTest(needed, NumberOfBlocks(buf, files[h].start))
          /\ Refuse("FS_OUT_OF_SPACE")

\* The walk over the file's chain runs into an entry that leads nowhere.
SeekHangs(h) ==
    /\ pc = "idle" /\ files[h] # NoFile /\ files[h].name # Empty
    /\ ~ Ends(buf, files[h].start)
    /\ pc' = "hung"
    /\ UNCHANGED <<disk, files, local, buf, fserror, fault>>

SeekFile(h, needed) ==
    /\ pc = "idle" /\ files[h] # NoFile /\ files[h].name # Empty
    /\ Ends(buf, files[h].start)
    /\ LET current == NumberOfBlocks(buf, files[h].start) IN
       /\ SpaceTest(needed, current)
       /\ \/ needed <= current /\ Refuse("FS_NONE")
          \/ /\ needed > current
             /\ todo' = needed - current /\ block' = files[h].start
             /\ pc' = "grow"
             /\ UNCHANGED <<disk, files, name, slot, buf, sector, fserror, fault>>

\* Mutant: the bit is set before the free block is looked for.
AddBlockBitFirst ==
    /\ pc = "grow" /\ todo > 0
    /\ bitmap' = SetNextBit /\ bitmap' # Blocks
    /\ \E last \in Blocks :
         /\ last = EndOf(buf, block) /\ buf[last] = LastBlock
         /\ buf' = Link(buf, last, First(Blocks \ bitmap'))
    /\ todo' = todo - 1
    /\ pc' = IF todo = 1 THEN "grow_flush" ELSE "grow"
    /\ sector' = 0
    /\ UNCHANGED <<fat, slots, files, name, block, slot, fserror, fault>>

\* One turn of the loop of add_blocks_to_file: the bit is set on disk, the link
\* made in the copy of the FAT.
AddBlock ==
    /\ pc = "grow" /\ todo > 0
    /\ bitmap' = SetNextBit
    /\ \E last \in Blocks :
         /\ last = EndOf(buf, block) /\ buf[last] = LastBlock
         /\ buf' = Link(buf, last, FindFirstUnused)
    /\ fault' = IF Full THEN fault \cup {"full"} ELSE fault
    /\ todo' = todo - 1
    /\ pc' = IF todo = 1 THEN "grow_flush" ELSE "grow"
    /\ sector' = 0
    /\ UNCHANGED <<fat, slots, files, name, block, slot, fserror>>

\* The blocks of the FAT are written in order; `next` follows the last one.
FlushFat(from, next) ==
    /\ pc = from
    /\ fat' = WriteSector(sector)
    /\ IF sector + 1 \in Sectors
       THEN sector' = sector + 1 /\ UNCHANGED <<pc, name, block, slot, todo, fserror>>
       ELSE next
    /\ UNCHANGED <<bitmap, slots, files, buf, fault>>

GrowFlush == FlushFat("grow_flush", Return("FS_NONE"))

(***************************************************************************)
(* delete_file: the data and the bit of each block are cleared on disk     *)
(* while the FAT is cleared in a copy; then the FAT, then the descriptor   *)
(* are written.  A block it clears may be a block of metadata, when an     *)
(* earlier fault put one into a file: what the call does to the volume     *)
(* from then on is not modelled ("clobbered").                             *)
(***************************************************************************)
DeleteRefused(n) ==
    /\ pc = "idle"
    /\ \/ n = Empty /\ Refuse("FS_ILLEGAL_FILENAME")
       \/ n # Empty /\ Matching(n) = {} /\ Refuse("FS_FILE_NOT_FOUND")
       \/ /\ n # Empty /\ Matching(n) # {}
          /\ slots[First(Matching(n))].status = "FILE_OPENED"
          /\ Refuse("FS_FILE_OPEN")

FreeBlock(b) ==
    /\ bitmap' = ClearBit(b)
    /\ block' = b
    /\ pc' = IF b \in MetaData THEN "clobbered" ELSE "delete_walk"
    /\ fault' = IF ClearedBit(b) # b THEN fault \cup {"misfree"} ELSE fault

\* Mutant: an open file is deleted too.
DeleteFileOpen(n) ==
    /\ pc = "idle" /\ n # Empty /\ Matching(n) # {}
    /\ slot' = First(Matching(n))
    /\ FreeBlock(slots[First(Matching(n))].start)
    /\ name' = n
    /\ UNCHANGED <<fat, slots, files, todo, buf, sector, fserror>>

DeleteFile(n) ==
    /\ pc = "idle" /\ n # Empty /\ Matching(n) # {}
    /\ LET i == First(Matching(n)) IN
       /\ slots[i].status = "FILE_CLOSED"
       /\ slot' = i
       /\ FreeBlock(slots[i].start)
    /\ name' = n
    /\ UNCHANGED <<fat, slots, files, todo, buf, sector, fserror>>

DeleteNext ==
    /\ pc = "delete_walk" /\ buf[block] # LastBlock
    /\ FreeBlock(buf[block])
    /\ buf' = [buf EXCEPT ![block] = FreeEntry]
    /\ UNCHANGED <<fat, slots, files, name, slot, todo, sector, fserror>>

\* Mutant: the entry of the last block stays.
DeleteLastKeepsEntry ==
    /\ pc = "delete_walk" /\ buf[block] = LastBlock
    /\ pc' = "delete_flush" /\ sector' = 0
    /\ UNCHANGED <<disk, files, name, block, slot, todo, buf, fserror, fault>>

DeleteLast ==
    /\ pc = "delete_walk" /\ buf[block] = LastBlock
    /\ buf' = [buf EXCEPT ![block] = FreeEntry]
    /\ pc' = "delete_flush" /\ sector' = 0
    /\ UNCHANGED <<disk, files, name, block, slot, todo, fserror, fault>>

DeleteFlush ==
    FlushFat("delete_flush",
             /\ pc' = "delete_slot" /\ sector' = 0
             /\ UNCHANGED <<name, block, slot, todo, fserror>>)

DeleteSlot ==
    /\ pc = "delete_slot"
    /\ slots' = [slots EXCEPT ![slot] = EmptySlot]
    /\ Return("FS_NONE")
    /\ UNCHANGED <<bitmap, fat, files, buf, fault>>

(* file_exists *)
FileExists(n) ==
    /\ pc = "idle"
    /\ Refuse(IF n = Empty THEN "FS_ILLEGAL_FILENAME" ELSE "FS_NONE")

(***************************************************************************)
(* The process exits or dies, and another one uses the volume.             *)
(***************************************************************************)
CrashFaults ==
    (IF pc \in {"delete_walk", "delete_flush", "delete_slot"}
        \/ (pc = "grow_flush" /\ sector > 0) THEN {"torn"} ELSE {})
    \cup (IF pc \in {"create_fat", "create_slot", "grow", "grow_flush"} THEN {"leak"} ELSE {})
    \cup (IF \E h \in Handles : files[h] # NoFile THEN {"orphan"} ELSE {})

Crash ==
    /\ pc # "clobbered"
    /\ files' = [h \in Handles |-> NoFile]
    /\ Return("FS_NONE") /\ buf' = fat
    /\ fault' = fault \cup CrashFaults
    /\ UNCHANGED disk

-----------------------------------------------------------------------------
Call ==
    \/ \E n \in Names : \/ CreateRefused(n) \/ CreateFile(n)
                        \/ OpenRefused(n) \/ DeleteRefused(n) \/ DeleteFile(n)
                        \/ FileExists(n)
    \/ \E n \in Names, h \in Handles : OpenFile(n, h)
    \/ \E h \in Handles : CloseRefused(h) \/ CloseFile(h) \/ SeekHangs(h)
    \/ \E h \in Handles, k \in 1 .. MaxSeekBlocks : SeekRefused(h, k) \/ SeekFile(h, k)

Continue ==
    \/ CreateFat \/ CreateFails \/ AddBlock \/ GrowFlush
    \/ DeleteNext \/ DeleteLast \/ DeleteFlush \/ DeleteSlot
    \/ \E h \in Handles : CreateSlot(h)

Next == Call \/ Continue \/ Crash

Spec == Init /\ [][Next]_vars

\* A call that has begun runs on: the program does nothing else meanwhile.
FairSpec == Spec /\ WF_vars(Continue)

-----------------------------------------------------------------------------
(* Properties *)

Deleting  == pc \in {"delete_walk", "delete_flush", "delete_slot"}
Growing   == pc \in {"grow", "grow_flush"}

\* The descriptors of the files: those in use, less the one being deleted.
LiveSlots == {i \in SlotIds : slots[i].name # Empty /\ ~ (Deleting /\ i = slot)}

FileChain(i) == Chain(buf, slots[i].start)

\* The chain of every file leads to a last block, so that the loops that follow
\* chains (number_of_blocks_of_file, add_blocks_to_file, delete_file) end.
ChainsEnd == Sound => \A i \in LiveSlots : Ends(buf, slots[i].start)

\* No block belongs to two files, whatever creates, seeks, deletes and crashes
\* came before: two files never overwrite each other's data.
ChainsDisjoint ==
    Sound => \A i, j \in LiveSlots : i # j => FileChain(i) \cap FileChain(j) = {}

\* find_first_unused_bit_bitmap can only return a block that no file uses and
\* that holds no metadata.
UsedBlocksMarked ==
    Sound => /\ MetaData \subseteq bitmap
             /\ \A i \in LiveSlots : FileChain(i) \subseteq bitmap \cap DataBlocks

\* Between calls the bitmap marks the metadata and the blocks of files, and the
\* FAT links these and nothing else: no space is lost.
NoSpaceLost ==
    Sound /\ "leak" \notin fault /\ pc = "idle" =>
        LET used == UNION {FileChain(i) : i \in LiveSlots}
        IN  /\ bitmap = MetaData \cup used
            /\ {b \in Blocks : fat[b] # FreeEntry} = used

\* A File object stands for a descriptor that is marked open, has its name and
\* its first block, and stands for no other: the program does not read and
\* write through a deleted or replaced file.  Only close_file can break this.
HandlesBacked ==
    "alias" \notin fault => \A h \in Handles :
        files[h] # NoFile /\ files[h].name # Empty =>
            /\ \E i \in SlotIds :
                 slots[i] = [name |-> files[h].name, status |-> "FILE_OPENED",
                             start |-> files[h].start]
            /\ \A g \in Handles \ {h} : files[g] # NoFile => files[g].name # files[h].name

\* No two descriptors have the same name: which file a name means does not depend
\* on the order of the table.
NamesUnique ==
    "alias" \notin fault => \A i, j \in SlotIds :
        i # j /\ slots[i].name = slots[j].name => slots[i].name = Empty

\* A step of a call on one file leaves the blocks of every other file alone, and
\* the file a call grows keeps the blocks it had (a crash may take back the
\* blocks that were being added).
OtherFilesKept ==
    [][Sound' => \A i \in LiveSlots :
          i \in LiveSlots' /\ slots'[i].start = slots[i].start =>
              \/ FileChain(i)' = FileChain(i)
              \/ /\ Growing /\ slots[i].start = block
                 /\ \/ FileChain(i) \subseteq FileChain(i)'
                    \/ pc' = "idle"]_vars

\* Every call returns: no loop over a chain of the FAT goes on for ever.
CallsReturn == pc # "idle" ~> (pc = "idle" \/ ~ Sound)

(***************************************************************************)
(* The directory a program sees (module Directory).                        *)
(***************************************************************************)
FileStatus ==
    [n \in Names \ {Empty} |->
        IF \A i \in SlotIds : slots[i].name # n THEN "absent"
        ELSE IF \E i \in SlotIds : slots[i].name = n /\ slots[i].status = "FILE_OPENED"
        THEN "open" ELSE "closed"]

Held == {files[h].name : h \in {h \in Handles : files[h] # NoFile}} \ {Empty}

Dir == INSTANCE Directory
           WITH FileNames <- Names \ {Empty}, status <- FileStatus, held <- Held

\* Each call changes the directory in one step, by what its name says, or not at
\* all, wherever it stops and whatever crash or full table gets in its way: a file
\* is created or opened only with a File object, closed only with its own, deleted
\* only when closed, and one that was open at a crash stays open for good.
ImplementsDirectory ==
    Dir!Init /\ [][ "alias" \notin fault' => Dir!Next \/ UNCHANGED Dir!vars ]_vars

(***************************************************************************)
(* What the comments of the code say and the code does not do.             *)
(***************************************************************************)

\* clear_bit_bitmap "clears the bit specified starting at 0 from bitmap".
FreedBitCleared == pc = "delete_walk" => block \notin bitmap

=============================================================================
