---------------------------- MODULE FatVolumeInv ----------------------------
(***************************************************************************)
(* The inductive invariant of FatVolume.  The properties of FatVolume      *)
(* speak of whole chains; a step changes one entry of the FAT.  The        *)
(* invariant therefore speaks of single entries: what every entry may hold *)
(* and which entries may lead to a block.  FatVolumeProofs derives the     *)
(* properties of chains from it.                                           *)
(***************************************************************************)
EXTENDS FatVolume

\* Some entry of the FAT f leads to block b.
Linked(f, b) == \E c \in Blocks : f[c] = b

\* Only data blocks have entries in use; an entry in use ends a chain or leads to
\* another one in use; no two entries lead to the same block.
WellLinked(f) ==
    /\ \A b \in Blocks : f[b] # FreeEntry => b \in DataBlocks
    /\ \A b \in Blocks : f[b] \in {FreeEntry, LastBlock} \cup DataBlocks
    /\ \A b \in Blocks : f[b] \in DataBlocks => f[f[b]] # FreeEntry
    /\ \A b, c \in Blocks : f[b] = f[c] /\ f[b] \in DataBlocks => b = c

\* A file starts at an entry in use to which nothing leads, and which no other
\* file starts at.
WellHeaded(f) ==
    /\ \A i \in LiveSlots : f[slots[i].start] # FreeEntry /\ ~ Linked(f, slots[i].start)
    /\ \A i, j \in LiveSlots : slots[i].start = slots[j].start => i = j

\* The bits of the blocks in use are set; delete_file clears a bit before the entry.
Marked(f) ==
    \A b \in Blocks : f[b] # FreeEntry =>
        b \in bitmap \/ (pc = "delete_walk" /\ b = block)

VolumeOK(f) == WellLinked(f) /\ WellHeaded(f) /\ Marked(f)

\* What is on disk, next to the copy of the FAT the call in progress holds.
OnDisk ==
    /\ pc \in {"idle", "hung", "create_fat", "create_slot", "delete_slot"} => fat = buf
    /\ pc = "grow" \/ (pc = "grow_flush" /\ sector = 0) => VolumeOK(fat)
    /\ pc \in {"grow_flush", "delete_flush"} =>
           \A b \in Blocks : b \div EntriesPerSector < sector => fat[b] = buf[b]

\* The block the call in progress is about to add to the files, or to remove.
Pending ==
    /\ pc = "create_fat" => block \in bitmap \cap DataBlocks /\ buf[block] = FreeEntry
    /\ pc = "create_slot" => buf[block] = LastBlock
    /\ pc = "delete_walk" => buf[block] # FreeEntry
    /\ pc \in {"create_slot", "delete_walk"} =>
           ~ Linked(buf, block) /\ \A i \in LiveSlots : slots[i].start # block

VolumeInv ==
    Sound => /\ pc # "clobbered" /\ MetaData \subseteq bitmap
             /\ VolumeOK(buf) /\ OnDisk /\ Pending

\* The directory: what close_file does not break by itself.
NewName == pc \in {"create_fat", "create_slot"} =>
               name # Empty /\ \A i \in SlotIds : slots[i].name # name
Victim  == Deleting => slots[slot].status = "FILE_CLOSED"

DirectoryInv == Victim /\ ("alias" \notin fault => NewName /\ NamesUnique /\ HandlesBacked)

-----------------------------------------------------------------------------
(* Chains while a call is at work *)

\* The file that grows is one; on disk only entries of its chain may differ from the
\* copy, until the copy is written.
GrowInv ==
    Sound /\ Growing =>
        /\ \E i \in LiveSlots : slots[i].start = block
        /\ pc = "grow" \/ sector = 0 =>
               \A b \in Blocks : fat[b] # buf[b] => b \in Chain(buf, block)

\* The first blocks of chains: of the files and of what the call in progress adds or
\* removes.
Heads == {slots[i].start : i \in LiveSlots}
         \cup (IF pc \in {"create_slot", "delete_walk"} THEN {block} ELSE {})

\* Every entry in use is in a chain, every bit that is set is of a block in use, and that
\* of the block a delete is at is clear.
SpaceInv ==
    Sound /\ "leak" \notin fault =>
        /\ pc = "delete_walk" => block \notin bitmap
        /\ \A b \in Blocks : buf[b] # FreeEntry => \E h \in Heads : b \in Chain(buf, h)
        /\ \A b \in bitmap :
               b \in MetaData \/ buf[b] # FreeEntry \/ (pc = "create_fat" /\ b = block)

-----------------------------------------------------------------------------
IInv == TypeOK /\ DirectoryInv /\ VolumeInv /\ GrowInv /\ SpaceInv

=============================================================================
