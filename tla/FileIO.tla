------------------------------- MODULE FileIO -------------------------------
(***************************************************************************)
(* The contents, positions and lengths of files in                         *)
(* Programming-Assignment#3/filesystem.c: read_file, write_file and        *)
(* seek_file, byte by byte, and what the other calls do to them.           *)
(*                                                                         *)
(* The blocks of a file are a sequence here, and the marked ones are those *)
(* of files.  How the bitmap and the FAT represent them, and how far they  *)
(* do, is the subject of FatVolume: where the code clears a wrong bit or   *)
(* takes a block from a full disk, a behaviour of this model ends.  No     *)
(* name is a prefix of another.  The process stays alive: a file that was  *)
(* open at a crash stays marked open, and nothing reads it again.  Calls    *)
(* that are refused and change nothing but fserror are there as well.      *)
(***************************************************************************)
EXTENDS Integers, Sequences, FiniteSets

CONSTANTS
    Files,             \* names
    NumBlocks,         \* NUM_BLOCKS
    MetaBlocks,        \* the blocks of the bitmap, the descriptors and the FAT
    BlockSize,         \* SOFTWARE_DISK_BLOCK_SIZE
    ByteSize,          \* BYTE_SIZE
    DiskBlockBuffer,   \* DISK_BLOCK_BUFFER
    MaxLength,         \* the share of the disk that a file may have
    UIntModulus,       \* bound: 2^32
    Bytes,
    Data,              \* bound: what callers write, sequences of bytes
    Counts,            \* bound: how much they read at a time
    Positions,         \* bound: where they seek to
    Closed,            \* no File object
    Hole,              \* a byte that no call stored
    Lost               \* a byte that a failing call may have stored

ASSUME GeometryAssumption ==
    /\ NumBlocks \in Nat /\ MetaBlocks \in 1 .. NumBlocks /\ BlockSize \in Nat \ {0}
    /\ ByteSize \in Nat \ {0} /\ DiskBlockBuffer \in Nat /\ MaxLength \in Nat \ {0}
    /\ UIntModulus \in Nat \ {0}

ASSUME DataAssumption ==
    /\ 0 \in Bytes /\ Data \subseteq Seq(Bytes)
    /\ Counts \subseteq Nat /\ Positions \subseteq Nat
    /\ Hole \notin Bytes /\ Lost \notin Bytes \cup {Hole}

Blocks == MetaBlocks .. NumBlocks - 1

Offsets == 0 .. BlockSize - 1

\* The positions that a disk of this size has room for.
Reach == 0 .. NumBlocks * BlockSize - 1

File == [mode : {"READ_ONLY", "READ_WRITE"}, fp : Nat, file_size : Nat]

ASSUME ClosedAssumption == Closed \notin File

VARIABLES
    chain,      \* the blocks of each file, <<>> if there is no such file
    length,     \* of each file, in its descriptor
    content,    \* of each block
    file,       \* the File object of each file
    call,       \* read_file or write_file at work, with its locals
    fserror,
    written,    \* history: what was last stored at each position of each file
    failed,     \* history: the files of which a write failed
    reached     \* history: the furthest position that a call moved to in each file

vars == <<chain, length, content, file, call, fserror, written, failed, reached>>

NoCall    == [op |-> "none"]
Clobbered == [op |-> "clobbered"]

ZeroBlock == [o \in Offsets |-> 0]
ZeroDisk  == [b \in Blocks |-> ZeroBlock]
Untouched == [p \in Reach |-> Hole]

\* A call at work: how many of its bytes are done, and the block in its buffer.
ReadCall  == [op : {"read"}, on : Files, data : Counts, done : Nat,
              block : Blocks, buffer : [Offsets -> Bytes]]
WriteCall == [op : {"write"}, on : Files, data : Data, done : Nat,
              block : Blocks, buffer : [Offsets -> Bytes]]

TypeOK ==
    /\ chain \in [Files -> Seq(Blocks)]
    /\ length \in [Files -> Nat]
    /\ content \in [Blocks -> [Offsets -> Bytes]]
    /\ file \in [Files -> File \cup {Closed}]
    /\ \/ call \in {NoCall, Clobbered}
       \/ call.op = "read" /\ call \in ReadCall
       \/ call.op = "write" /\ call \in WriteCall
    /\ fserror \in {"FS_NONE", "FS_OUT_OF_SPACE", "FS_FILE_READ_ONLY"}
    /\ written \in [Files -> [Reach -> Bytes \cup {Hole, Lost}]] /\ failed \subseteq Files
    /\ reached \in [Files -> Nat]

-----------------------------------------------------------------------------
(* Blocks and positions *)

Elements(seq) == {seq[i] : i \in 1 .. Len(seq)}

Free == Blocks \ UNION {Elements(chain[f]) : f \in Files}

\* find_first_unused_bit_bitmap; 0 if there is none.
FirstFree == IF Free = {} THEN 0 ELSE CHOOSE b \in Free : \A c \in Free : b <= c

\* The blocks that n calls of it find in turn.
FirstsFree(n) == [i \in 1 .. n |-> CHOOSE b \in Free : Cardinality({c \in Free : c < b}) = i - 1]

\* read_sd_block and write_sd_block of a block that the disk has.
ReadBlock(disk, b)    == disk[b]
WriteBlock(b, buffer) == content' = [content EXCEPT ![b] = buffer]

\* get_block_of_byte_file
BlockOf(blocks, p) == blocks[p \div BlockSize + 1]

\* The blocks of a file that has a position p.
Needed(p) == p \div BlockSize + 1

OutOfSpace(f, p) ==
    (Needed(p) - Len(chain[f]) + FirstFree + 1) % UIntModulus > NumBlocks - DiskBlockBuffer

Missing(f, p) == IF Needed(p) > Len(chain[f]) THEN Needed(p) - Len(chain[f]) ELSE 0

\* The test for space passed and yet there are not enough blocks.
RunsFull(f, p) == ~ OutOfSpace(f, p) /\ Missing(f, p) > Cardinality(Free)

\* What seek_file does to the blocks of a file if it does not fail.
Extend(f, p) ==
    /\ ~ OutOfSpace(f, p) /\ ~ RunsFull(f, p)
    /\ chain' = [chain EXCEPT ![f] = @ \o FirstsFree(Missing(f, p))]

Opened(f) == file[f] # Closed

\* Of a file that is open.
file_length(f) == file[f].file_size

Idle == call = NoCall

-----------------------------------------------------------------------------
Init ==
    /\ chain = [f \in Files |-> <<>>] /\ length = [f \in Files |-> 0]
    /\ content = ZeroDisk
    /\ file = [f \in Files |-> Closed] /\ call = NoCall /\ fserror = "FS_NONE"
    /\ written = [f \in Files |-> Untouched] /\ failed = {}
    /\ reached = [f \in Files |-> 0]

create_file(f) ==
    /\ Idle /\ chain[f] = <<>> /\ Free # {}
    /\ chain' = [chain EXCEPT ![f] = <<FirstFree>>]
    /\ file' = [file EXCEPT ![f] = [mode |-> "READ_WRITE", fp |-> 0, file_size |-> 0]]
    /\ fserror' = "FS_NONE"
    /\ UNCHANGED <<length, content, call, written, failed, reached>>

open_file(f, mode) ==
    /\ Idle /\ chain[f] # <<>> /\ ~ Opened(f)
    /\ file' = [file EXCEPT ![f] = [mode |-> mode, fp |-> 0, file_size |-> length[f]]]
    /\ fserror' = "FS_NONE"
    /\ UNCHANGED <<chain, length, content, call, written, failed, reached>>

\* Mutant: the size of an empty file goes below 0.
close_file_less(f) ==
    /\ Idle /\ Opened(f)
    /\ length' = [length EXCEPT ![f] = file[f].file_size - 1]
    /\ file' = [file EXCEPT ![f] = Closed]
    /\ fserror' = "FS_NONE"
    /\ UNCHANGED <<chain, content, call, written, failed, reached>>

close_file(f) ==
    /\ Idle /\ Opened(f)
    /\ length' = [length EXCEPT ![f] = file[f].file_size]
    /\ file' = [file EXCEPT ![f] = Closed]
    /\ fserror' = "FS_NONE"
    /\ UNCHANGED <<chain, content, call, written, failed, reached>>

\* A bit whose number is a multiple of BYTE_SIZE is not the one that is cleared.
FreedRight(f) == \A b \in Elements(chain[f]) : b % ByteSize # 0

\* Mutant: the blocks are freed and not cleared.
delete_file_dirty(f) ==
    /\ Idle /\ chain[f] # <<>> /\ ~ Opened(f) /\ FreedRight(f)
    /\ chain' = [chain EXCEPT ![f] = <<>>]
    /\ length' = [length EXCEPT ![f] = 0]
    /\ fserror' = "FS_NONE"
    /\ written' = [written EXCEPT ![f] = Untouched] /\ failed' = failed \ {f}
    /\ reached' = [reached EXCEPT ![f] = 0]
    /\ UNCHANGED <<content, file, call>>

delete_file(f) ==
    /\ Idle /\ chain[f] # <<>> /\ ~ Opened(f) /\ FreedRight(f)
    /\ content' = [b \in Blocks |-> IF b \in Elements(chain[f]) THEN ZeroBlock ELSE content[b]]
    /\ chain' = [chain EXCEPT ![f] = <<>>]
    /\ length' = [length EXCEPT ![f] = 0]
    /\ fserror' = "FS_NONE"
    /\ written' = [written EXCEPT ![f] = Untouched] /\ failed' = failed \ {f}
    /\ reached' = [reached EXCEPT ![f] = 0]
    /\ UNCHANGED <<file, call>>

\* Mutant: a seek adds no blocks and leaves it to the write.
seek_file_lazy(f, p) ==
    /\ Idle /\ Opened(f)
    /\ file' = [file EXCEPT ![f].fp = p] /\ fserror' = "FS_NONE"
    /\ UNCHANGED <<chain, length, content, call, written, failed, reached>>

Reaches(f, p) == reached' = [reached EXCEPT ![f] = IF p > @ THEN p ELSE @]

\* A seek past the end does not change file_size.
seek_file(f, p) ==
    /\ Idle /\ Opened(f)
    /\ \/ /\ OutOfSpace(f, p) /\ fserror' = "FS_OUT_OF_SPACE"
          /\ UNCHANGED <<chain, file, reached>>
       \/ /\ Extend(f, p) /\ fserror' = "FS_NONE"
          /\ file' = [file EXCEPT ![f].fp = p] /\ Reaches(f, p)
    /\ UNCHANGED <<length, content, call, written, failed>>

-----------------------------------------------------------------------------
(* write_file *)

\* The block of the current position is read into the buffer.
Begun(op, f, data) ==
    LET b == BlockOf(chain[f], file[f].fp)
    IN  [op |-> op, on |-> f, data |-> data, done |-> 0, block |-> b, buffer |-> ReadBlock(content, b)]

write_file_refused(f) ==
    /\ Idle /\ Opened(f) /\ file[f].mode = "READ_ONLY"
    /\ fserror' = "FS_FILE_READ_ONLY"
    /\ UNCHANGED <<chain, length, content, file, call, written, failed, reached>>

\* Mutant: the length grows by what is written, wherever it is written.
write_file_appends(f, data) ==
    /\ Idle /\ Opened(f) /\ file[f].mode = "READ_WRITE" /\ data # <<>>
    /\ file' = [file EXCEPT ![f].file_size = @ + Len(data)]
    /\ call' = Begun("write", f, data)
    /\ UNCHANGED <<chain, length, content, fserror, written, failed, reached>>

\* The length is that after the write, before it was done.
write_file(f, data) ==
    /\ Idle /\ Opened(f) /\ file[f].mode = "READ_WRITE"
    /\ file' = [file EXCEPT ![f].file_size =
                   IF file[f].fp + Len(data) > @ THEN file[f].fp + Len(data) ELSE @]
    /\ \/ data # <<>> /\ call' = Begun("write", f, data) /\ UNCHANGED fserror
       \/ data = <<>> /\ UNCHANGED call /\ fserror' = "FS_NONE"
    /\ UNCHANGED <<chain, length, content, written, failed, reached>>

\* What a failing write stored in the buffer and did not write to the disk.
Dropped(f) ==
    LET first == file[f].fp - call.done IN
    {p \in first .. file[f].fp - 1 : p \div BlockSize = file[f].fp \div BlockSize}

WriteFails(f, fp, size) ==
    /\ file' = [file EXCEPT ![f].fp = fp, ![f].file_size = size]
    /\ written' = [written EXCEPT ![f] = [p \in Reach |-> IF p \in Dropped(f) THEN Lost ELSE @[p]]]
    /\ failed' = failed \cup {f}
    /\ call' = NoCall
    /\ UNCHANGED <<chain, length, content, reached>>

\* The file is longer than it may be; fserror is not set.
WriteTooLong ==
    /\ call.op = "write"
    /\ LET f == call.on IN
       /\ file[f].fp > MaxLength
       /\ WriteFails(f, MaxLength - 1, MaxLength)
    /\ UNCHANGED fserror

WriteOutOfSpace ==
    /\ call.op = "write"
    /\ LET f == call.on IN
       /\ file[f].fp <= MaxLength
       /\ OutOfSpace(f, file[f].fp + 1)
       /\ WriteFails(f, file[f].fp, file[f].fp)
    /\ fserror' = "FS_OUT_OF_SPACE"

\* Buffer and block after the position has become fp: at the end of the block or of
\* the data the buffer is written, and the block of fp is read.
AtBlockEnd(fp, count) == fp % BlockSize = 0 \/ call.done + 1 = count

\* Mutant: the buffer is written to the block of the new position.
TurnBlockLate(f, fp, buffer, count) ==
    IF AtBlockEnd(fp, count)
    THEN LET b == BlockOf(chain'[f], fp) IN
         /\ WriteBlock(b, buffer)
         /\ call' = IF call.done + 1 = count THEN NoCall
                    ELSE [call EXCEPT !.done = @ + 1, !.block = b, !.buffer = ReadBlock(content', b)]
    ELSE /\ call' = [call EXCEPT !.done = @ + 1, !.buffer = buffer]
         /\ UNCHANGED content

\* Mutant: after a block is written the next one is not read.
TurnBlockUnread(f, fp, buffer, count) ==
    IF AtBlockEnd(fp, count)
    THEN /\ WriteBlock(call.block, buffer)
         /\ call' = IF call.done + 1 = count THEN NoCall
                    ELSE [call EXCEPT !.done = @ + 1, !.block = BlockOf(chain'[f], fp),
                                      !.buffer = buffer]
    ELSE /\ call' = [call EXCEPT !.done = @ + 1, !.buffer = buffer]
         /\ UNCHANGED content

TurnBlock(f, fp, buffer, count) ==
    IF AtBlockEnd(fp, count)
    THEN LET b == BlockOf(chain'[f], fp) IN
         /\ WriteBlock(call.block, buffer)
         /\ call' = IF call.done + 1 = count THEN NoCall
                    ELSE [call EXCEPT !.done = @ + 1, !.block = b, !.buffer = ReadBlock(content', b)]
    ELSE /\ call' = [call EXCEPT !.done = @ + 1, !.buffer = buffer]
         /\ UNCHANGED content

WriteByte ==
    /\ call.op = "write"
    /\ LET f    == call.on
           fp   == file[f].fp
           byte == call.data[call.done + 1] IN
       /\ fp <= MaxLength
       /\ Extend(f, fp + 1)
       /\ file' = [file EXCEPT ![f].fp = fp + 1]
       /\ TurnBlock(f, fp + 1, [call.buffer EXCEPT ![fp % BlockSize] = byte], Len(call.data))
       /\ written' = [written EXCEPT ![f][fp] = byte] /\ Reaches(f, fp + 1)
    /\ fserror' = "FS_NONE"
    /\ UNCHANGED <<length, failed>>

-----------------------------------------------------------------------------
(* read_file; the data of the call is the number of bytes asked for *)

\* An empty file is not read, and nothing changes.
read_file(f, count) ==
    /\ Idle /\ Opened(f) /\ file[f].file_size # 0
    /\ \/ count # 0 /\ call' = Begun("read", f, count) /\ UNCHANGED fserror
       \/ count = 0 /\ UNCHANGED call /\ fserror' = "FS_NONE"
    /\ UNCHANGED <<chain, length, content, file, written, failed, reached>>

\* At the end of the file; fserror is not set.
ReadEnd ==
    /\ call.op = "read" /\ file[call.on].fp >= file[call.on].file_size
    /\ call' = NoCall
    /\ UNCHANGED <<chain, length, content, file, fserror, written, failed, reached>>

\* At the end of a block the buffer is written back.
ReadByte ==
    /\ call.op = "read" /\ file[call.on].fp < file[call.on].file_size
    /\ LET f == call.on IN
       /\ chain' = chain
       /\ file' = [file EXCEPT ![f].fp = @ + 1]
       /\ TurnBlock(f, file[f].fp + 1, call.buffer, call.data)
    /\ fserror' = IF call'.op = "none" THEN "FS_NONE" ELSE fserror
    /\ UNCHANGED <<length, written, failed, reached>>

-----------------------------------------------------------------------------
\* create_file takes a block from a full disk, or seek_file for its caller or for
\* write_file; or delete_file clears the wrong bit.
GoesWrong(f) ==
    \/ Idle /\ chain[f] = <<>> /\ Free = {}
    \/ Idle /\ chain[f] # <<>> /\ ~ Opened(f) /\ ~ FreedRight(f)
    \/ Idle /\ Opened(f) /\ \E p \in Positions : RunsFull(f, p)
    \/ call.op = "write" /\ call.on = f /\ RunsFull(f, file[f].fp + 1)

Clobber(f) ==
    /\ GoesWrong(f)
    /\ call' = Clobbered
    /\ UNCHANGED <<chain, length, content, file, fserror, written, failed, reached>>

Next ==
    \/ \E f \in Files :
         \/ create_file(f) \/ close_file(f) \/ delete_file(f) \/ Clobber(f)
         \/ \E mode \in {"READ_ONLY", "READ_WRITE"} : open_file(f, mode)
         \/ \E p \in Positions : seek_file(f, p)
         \/ write_file_refused(f) \/ \E data \in Data : write_file(f, data)
         \/ \E count \in Counts : read_file(f, count)
    \/ WriteTooLong \/ WriteOutOfSpace \/ WriteByte
    \/ ReadEnd \/ ReadByte

Spec == Init /\ [][Next]_vars

-----------------------------------------------------------------------------
(* Properties *)

\* "block has to be created already" (get_block_of_byte_file): the current position
\* and the end of a file lie in its blocks, so that no call follows a chain past its
\* last block, into the bitmap; while a write is at work its length may be ahead.
Covered ==
    call # Clobbered => \A f \in Files : chain[f] # <<>> =>
        LET room == Len(chain[f]) * BlockSize IN
        /\ length[f] < room
        /\ Opened(f) => /\ file[f].fp < room
                        /\ file[f].file_size < room \/ (call.op = "write" /\ call.on = f)

\* The byte that is at a position: in the buffer of the call at work, or on the disk.
ByteAt(f, p) ==
    LET b == BlockOf(chain[f], p) IN
    IF ~ Idle /\ call.block = b THEN call.buffer[p % BlockSize]
    ELSE content[b][p % BlockSize]

\* A read delivers what was stored last at its position, and zero where nothing was,
\* whatever was written, read, sought, deleted and created in between: no byte of a
\* file shows in another one, or in a later one that has its blocks.
ReadsBack ==
    call # Clobbered => \A f \in Files : \A p \in 0 .. Len(chain[f]) * BlockSize - 1 :
        /\ written[f][p] \in Bytes => ByteAt(f, p) = written[f][p]
        /\ written[f][p] = Hole => ByteAt(f, p) = 0

\* The length of a file, in its File object or in its descriptor.
Size(f) == IF Opened(f) THEN file_length(f) ELSE length[f]

\* Between calls the length of a file takes in every byte stored in it, unless a write of
\* it failed, and it is nowhere past the furthest position that a call moved to.  A seek
\* past the end "should extend the file" (filesystem.c:490): whether it does so at once,
\* or, as it is, by a later write of even no byte, is left open.
LengthRight ==
    Idle => \A f \in Files : chain[f] # <<>> =>
        /\ f \notin failed => \A p \in Reach : written[f][p] # Hole => p < Size(f)
        /\ Size(f) <= reached[f]

\* A step changes the contents of the file it works on only; read_file, which writes
\* its buffer back to the disk, changes none.
OthersKept ==
    [][ /\ \A f \in Files : file'[f] = file[f] /\ chain'[f] = chain[f] =>
             \A b \in Elements(chain[f]) : content'[b] = content[b]
        /\ call.op = "read" => content' = content ]_vars

=============================================================================
