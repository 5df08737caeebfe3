---------------------------- MODULE SoftwareDisk ----------------------------
(***************************************************************************)
(* Programming-Assignment#3/softwaredisk.c: a disk of NUM_BLOCKS blocks in *)
(* a file of the host, opened by the first call that needs it.             *)
(*                                                                         *)
(* stdio is external.  It keeps the last blocks that were written and not  *)
(* flushed in a buffer: write_sd_block flushes, init_software_disk does    *)
(* not.  A stream that init_software_disk abandons is flushed when the     *)
(* program exits.  Host calls may fail; what a stream does whose flush     *)
(* failed is not modelled (broken).  One process runs at a time.           *)
(***************************************************************************)
EXTENDS Integers, Sequences

CONSTANTS
    NumBlocks,   \* NUM_BLOCKS
    Data,        \* what a block may hold
    Zero,        \* a block of zeros
    Buffered,    \* how many blocks a stream's buffer has room for
    NoDisk

ASSUME DiskAssumption ==
    /\ NumBlocks \in Nat \ {0} /\ Buffered \in Nat
    /\ Zero \in Data /\ NoDisk \notin [0 .. NumBlocks - 1 -> Data]

VARIABLES
    exists, store,   \* the file of the host and the blocks it has
    fp,              \* is sd.fp a stream?
    pending,         \* how many blocks of zeros, behind those of the file, are in its buffer
    stale,           \* the blocks in the buffers of abandoned streams
    formatting,      \* is init_software_disk at work?
    sderror,
    data,            \* what a read delivered last
    broken

host == <<exists, store, pending, stale>>
vars == <<exists, store, fp, pending, stale, formatting, sderror, data, broken>>

Blocks == 0 .. NumBlocks - 1

Zeros(n) == [i \in 1 .. n |-> Zero]

\* The file with what is in the buffer of sd.fp.
Whole == store \o Zeros(pending)

Init ==
    /\ exists \in BOOLEAN
    /\ \E n \in 0 .. NumBlocks : store \in [1 .. n -> Data]
    /\ ~ exists => store = <<>>
    /\ fp = FALSE /\ pending = 0 /\ stale = {} /\ formatting = FALSE
    /\ sderror = "SD_NONE" /\ data = Zero /\ broken = FALSE

-----------------------------------------------------------------------------
(* init_software_disk *)

\* A stream that is open already is not closed; the zeros in its buffer belong to the
\* end of the disk.
Abandons == stale' = stale \cup (NumBlocks - pending .. NumBlocks - 1)

init_software_disk ==
    /\ ~ formatting /\ formatting' = TRUE /\ fp' = TRUE
    /\ exists' = TRUE /\ store' = <<>> /\ pending' = 0 /\ Abandons
    /\ UNCHANGED <<sderror, data, broken>>

InitOpenFails ==
    /\ ~ formatting /\ fp' = FALSE /\ sderror' = "SD_INTERNAL_ERROR"
    /\ pending' = 0 /\ Abandons
    /\ UNCHANGED <<exists, store, formatting, data, broken>>

\* fwrite of a block of zeros; the buffer is written to the file when it has no room.
InitBlock ==
    /\ formatting /\ Len(Whole) < NumBlocks
    /\ \/ pending < Buffered /\ pending' = pending + 1 /\ UNCHANGED store
       \/ pending >= Buffered /\ store' = Whole \o Zeros(1) /\ pending' = 0
       \/ pending >= Buffered /\ Buffered > 0 /\ store' = Whole /\ pending' = 1
    /\ UNCHANGED <<exists, fp, stale, formatting, sderror, data, broken>>

\* The stream is closed, with some of the buffer written.
InitFails ==
    /\ formatting /\ Len(Whole) < NumBlocks
    /\ formatting' = FALSE /\ fp' = FALSE /\ sderror' = "SD_INTERNAL_ERROR"
    /\ \E n \in 0 .. pending : store' = store \o Zeros(n)
    /\ pending' = 0
    /\ UNCHANGED <<exists, stale, data, broken>>

InitReturns ==
    /\ formatting /\ Len(Whole) = NumBlocks
    /\ formatting' = FALSE /\ sderror' = "SD_NONE"
    /\ UNCHANGED <<host, fp, data, broken>>

-----------------------------------------------------------------------------
(* read_sd_block and write_sd_block *)

OpenFails ==
    /\ ~ formatting /\ ~ fp /\ sderror' = "SD_INTERNAL_ERROR"
    /\ UNCHANGED <<host, fp, formatting, data, broken>>

\* The file is there, but it has not the size of the disk.
NotInit ==
    /\ ~ formatting /\ ~ fp /\ exists /\ Len(store) # NumBlocks /\ sderror' = "SD_NOT_INIT"
    /\ UNCHANGED <<host, fp, formatting, data, broken>>

\* Mutant: the size of the file is not looked at.
OpensAny == ~ formatting /\ (fp \/ exists) /\ fp' = TRUE

\* sd.fp is open, now if not before.
Opens == ~ formatting /\ (fp \/ (exists /\ Len(store) = NumBlocks)) /\ fp' = TRUE

IllegalBlock ==
    /\ Opens /\ sderror' = "SD_ILLEGAL_BLOCK_NUMBER"
    /\ UNCHANGED <<host, formatting, data, broken>>

\* fseek writes what is in the buffer to the file.
Seeks == pending' = 0 /\ UNCHANGED <<exists, stale, formatting>>

write_sd_block(b, d) ==
    /\ Opens /\ Seeks
    /\ store' = [Whole EXCEPT ![b + 1] = d]
    /\ sderror' = "SD_NONE"
    /\ UNCHANGED <<data, broken>>

\* Mutant: blocks are counted from 1.
read_next_block(b) ==
    /\ Opens /\ Seeks
    /\ store' = Whole /\ sderror' = "SD_NONE"
    /\ data' = Whole[IF b + 2 <= NumBlocks THEN b + 2 ELSE 1]
    /\ UNCHANGED broken

read_sd_block(b) ==
    /\ Opens /\ Seeks
    /\ store' = Whole /\ sderror' = "SD_NONE" /\ data' = Whole[b + 1]
    /\ UNCHANGED broken

ReadFails ==
    /\ Opens /\ Seeks /\ store' = Whole
    /\ sderror' = "SD_INTERNAL_ERROR" /\ UNCHANGED <<data, broken>>

\* The host does not take the block, or the blocks in the buffer.  What fflush and
\* fseek return is ignored, so that the write may be reported as a success.
FlushFails ==
    /\ Opens /\ broken' = TRUE
    /\ sderror' \in {"SD_NONE", "SD_INTERNAL_ERROR"}
    /\ UNCHANGED <<host, formatting, data>>

-----------------------------------------------------------------------------
(* The process *)

\* The streams that are open are flushed.
Flushed(blocks) ==
    LET n == CHOOSE n \in Len(Whole) .. NumBlocks :
                /\ \A b \in blocks : b < n
                /\ n > Len(Whole) => n - 1 \in blocks
    IN  [i \in 1 .. n |-> IF i - 1 \in blocks \/ i > Len(Whole) THEN Zero ELSE Whole[i]]

Restarted ==
    /\ fp' = FALSE /\ pending' = 0 /\ stale' = {} /\ formatting' = FALSE /\ sderror' = "SD_NONE"
    /\ UNCHANGED <<exists, data, broken>>

Exit == ~ formatting /\ store' = Flushed(stale) /\ Restarted

\* What is in the buffers is lost.
Crash == UNCHANGED store /\ Restarted

Next ==
    /\ ~ broken
    /\ \/ init_software_disk \/ InitOpenFails \/ InitBlock \/ InitFails \/ InitReturns
       \/ OpenFails \/ NotInit \/ IllegalBlock \/ ReadFails \/ FlushFails
       \/ \E b \in Blocks : read_sd_block(b) \/ \E d \in Data : write_sd_block(b, d)
       \/ Exit \/ Crash

Spec == Init /\ [][Next]_vars

-----------------------------------------------------------------------------
(* Properties *)

TypeOK ==
    /\ exists \in BOOLEAN /\ store \in Seq(Data) /\ Len(store) + pending <= NumBlocks
    /\ fp \in BOOLEAN /\ pending \in Nat /\ stale \subseteq Blocks /\ formatting \in BOOLEAN
    /\ sderror \in {"SD_NONE", "SD_NOT_INIT", "SD_ILLEGAL_BLOCK_NUMBER", "SD_INTERNAL_ERROR"}
    /\ data \in Data /\ broken \in BOOLEAN

\* Between calls a stream means that the disk is there, all of it: a file that was
\* cut short, by a failed or interrupted init_software_disk, is never used.
OpenIsWhole ==
    /\ fp /\ ~ formatting => Len(Whole) = NumBlocks
    /\ ~ exists => store = <<>>
    /\ fp => exists
    /\ pending > 0 \/ formatting => fp
    /\ stale # {} => exists
    /\ formatting => \A i \in 1 .. Len(store) : store[i] = Zero

DiskInv == TypeOK /\ OpenIsWhole

\* Refinement: the disk a caller sees.
Disk ==
    IF ~ formatting /\ Len(Whole) = NumBlocks THEN [b \in Blocks |-> Whole[b + 1]] ELSE NoDisk

Device == INSTANCE BlockDevice WITH disk <- Disk, fresh <- (~ formatting /\ pending > 0)

\* Each call does to the device what its name says, with the block it is given.
ActsAsDevice ==
    /\ Device!Next \/ UNCHANGED Device!vars
    /\ \A b \in Blocks : /\ read_sd_block(b) => Device!Get(b)
                        /\ \A d \in Data : write_sd_block(b, d) => Device!Put(b, d)

\* A block that was written is what every later read of it delivers, in this process and
\* the next ones, whether the program exits or is killed: only init_software_disk
\* destroys data, and a crash only a disk that was never used.  It does not hold of
\* a program that exits after it formatted twice with nothing in between.
ImplementsDevice == [][ broken' \/ (Exit /\ stale # {}) \/ ActsAsDevice ]_vars

=============================================================================
