# CSC4103: a TLA+ verification project

The repository holds four programming assignments of an operating systems
course. This directory models the ones that keep state worth reasoning about,
model-checks them with TLC on small instances, and proves the central theorems
about the file system, the disk under it, the scheduler, the queue library and the
write guard for every size of disk, number of files, processes and threads, set of
names and length of write.

File and line references are to the repository; `PROJECT.json` maps every
definition to the lines it translates.

## 1. Inventory

### 1.1 FAT file system (`Programming-Assignment#3`)

| Part | State | Operations |
|---|---|---|
| `softwaredisk.c` | 5000 blocks of 512 bytes in a file of the host, opened by the first call that needs it, flushed after every write but not after formatting; `sderror` | `read_sd_block`, `write_sd_block`, `init_software_disk`, `software_disk_size` |
| `formatfs.c` | none | zeroes the disk, sets the bits of the metadata blocks |
| bitmap (blocks 0-1) | one bit per block | `find_first_unused_bit_bitmap`, `set_next_bits_of_bitmap`, `clear_bit_bitmap` |
| descriptors (blocks 2-9) | 64 `struct FileBlock`: name, open mark, first block, size | scanned and rewritten by `open_file`, `create_file`, `close_file`, `delete_file`, `file_exists` |
| FAT (blocks 10-49) | one entry per block: 0 free, 1 last, else the next block | `set_fat_entry`, `number_of_blocks_of_file`, `add_blocks_to_file`, `get_block_of_byte_file` |
| `File` objects (memory) | copy of the descriptor, position, mode | `read_file`, `write_file`, `seek_file`, `file_length` |

The calls share the disk and nothing else; the library is single-threaded. The file
system knows the disk as blocks that keep what is put in them, which section 2.8
justifies, and ignores what its calls return. What
makes it hard:

* one call makes up to about 60 block writes, and the process may die between
  any two: the disk is durable, the memory is not (there is no log and no
  recovery);
* the open mark and the size of a file are on disk, the position and the new
  size in a `File` object until `close_file`;
* files are looked up by prefix, so which descriptor a name means depends on
  the order of the table;
* limits: full disk, full table, the largest file, block numbers that are
  multiples of 8;
* the loops along a chain have no bound.

What makes it correct: chains end, are disjoint and are marked; nothing is
lost; names are unique; a `File` object has its descriptor; a call returns; what
is read is what was written.

### 1.2 MLFQ scheduler (`Programming-Assignment#2`)

`scheduler.c` simulates a multilevel feedback queue: a clock, an arrival queue,
three ready queues with quanta, demotion and promotion counters, an I/O queue
and a removal queue, all of them `Queue`s of `prioque.c`, which copies the
elements it is given. One tick of the clock is one turn of the main loop:
arrivals, one tick of the first process of the highest non-empty queue, I/O.
What makes it hard: promotion, demotion, requeueing and the end of a burst can
fall on the same tick, and the code for each moves the process by adding a copy
and deleting "the current element" of a queue whose current element the
addition has just moved. What makes it correct: a process is in exactly one
queue; every process finishes; CPU time is accounted for; a process runs only
when no higher queue has one.

`prioque.c` is a linked list with a tail pointer and a shared current position,
locked per queue, with a package lock for the three operations on two queues.
A walk over a queue is many calls, each with the lock for itself, on a position that
belongs to the queue. What makes it correct: it behaves as a sequence ordered by
priority and stable among equals; the tail is the last element; operations on two
queues cannot deadlock; a walk that nobody disturbs sees every element.

### 1.3 "No MZ" file library (`Programming-Assignment#1`)

`fileio.c` wraps stdio; `write_file_at` refuses a write after which a file would
begin with "MZ", which it decides on a two-byte copy it keeps per handle.
What makes it hard: the two bytes may come in several writes, in any order and from
three anchors; the copy changes before a write is refused, and says nothing of what
the file had before; writes fail and fall short. What makes it correct: no sequence
of writes leaves "MZ" at the start of a file, and a write is refused only if it
would.

### 1.4 The rest

`Programming-Assignment#0` (exercises without state), the writing assignments
(prose and web pages), the drivers and tests (`testfs*.c`, `test-prioque.c`,
`momo_prog.c`, `readwrite3.c`, ...), `print_fat_table`, `fs_print_error`,
`sd_print_error`, `final_report` (output only) are not modelled.

## 2. Modules

### 2.1 `FatVolume`: the metadata of a volume

State: `bitmap`, `fat`, `slots` are the three structures on disk; `files` the
`File` objects of the program; `pc` and `name`, `block`, `slot`, `todo`, `buf`,
`sector` the call in progress with its locals (`buf` is its copy of the FAT, and
the FAT itself when no call holds a copy).

A call is an action that begins it and one action per write that a crash must be
able to separate:

| Call | Actions |
|---|---|
| `create_file` | `CreateRefused`; `CreateFile` (bit), `CreateFat` (FAT entry), `CreateSlot` (descriptor) or `CreateFails` (table full) |
| `open_file` | `OpenRefused`; `OpenFile` |
| `close_file` | `CloseRefused`; `CloseFile` |
| `seek_file` | `SeekRefused`, `SeekHangs`; `SeekFile`, `AddBlock` (bit and link, once per block), `GrowFlush` (FAT, block by block) |
| `delete_file` | `DeleteRefused`; `DeleteFile`, `DeleteNext` (bit of each block), `DeleteLast`, `DeleteFlush` (FAT, block by block), `DeleteSlot` (descriptor) |
| `file_exists` | `FileExists` |
| process exit | `Crash` |

The bitmap is two blocks and a call changes one bit of it at a time, so writing
it is one step; so is `set_fat_entry`, which changes one entry, and a write of
the descriptors, of which one changes. `add_blocks_to_file` and `delete_file`
change many entries of the FAT, so its blocks are written one step each.

Modelled by what they do: names are compared by `memcmp` over the length of the
argument, so a name matches every descriptor it is a prefix of (`PrefixOf`), the
empty name all of them; `clear_bit_bitmap` clears bit `ClearedBit(b)`, which is
not `b` for the multiples of 8; the test for space is arithmetic modulo 2^32.

Left out: contents, sizes and positions of files; names longer than a
descriptor's 52 bytes (`memcpy` would overrun it: undefined); failing disk
writes, whose results the code ignores; the checks of the status in a `File`
object, which is `FILE_OPENED` from `create_file` or `open_file` until it is
freed, so they never refuse; using a `File` after it was freed.

Two places end a behaviour. `pc = "hung"`: a loop follows a chain that has no
last block (the process can still be killed: `Crash`). `pc = "clobbered"`:
`delete_file` zeroes a block of metadata, which happens after an earlier fault put
one into a file; what the volume looks like from there is not modelled.

`fault` is a history variable that no action reads: it records the events after
which the code does not keep the volume in order (a wrong bit cleared, a block taken
from a full bitmap, another file's descriptor overwritten by `close_file`, a crash
in the middle of a delete or of writing the FAT). The properties say what
holds as long as none of the first four happened (`Sound`). All four do happen:
`volume_faults` explores what follows them, and section 5 has the first two. A crash
in a create or before the FAT is written is not among the four: it only loses space.

### 2.2 `FatVolumeInv`: its inductive invariant; `Directory`

The properties speak of chains, a step changes one entry. `IInv` speaks of
entries: each one in use is a data block's and leads to one in use (`WellLinked`),
nothing leads to the first block of a file (`WellHeaded`), each is marked
(`Marked`); of the FAT on disk next to the copy in memory, write by write
(`OnDisk`); of the block a call is about to add or remove (`Pending`). Two parts speak
of chains: `GrowInv` says that on disk only entries of the chain of a growing file may
differ from the copy, `SpaceInv` that every entry in use is in a chain that begins at one
of `Heads`, and that every bit that is set is of a block in use.

`Directory` is the abstract specification of the descriptors: which names there are,
which are marked open, which of these the program has a `File` object of. `FatVolume`
implements it (`ImplementsDirectory`, with `FileStatus` and `Held` as the refinement
mapping): a call of many writes takes effect in one of them. It says which file a step
changes, not which one a call should have found: that is decided by prefixes. A file
that is open when the process dies is open for good in it. The one step that is none of
`Directory` is a `close_file` that finds another file's descriptor (`alias`).

### 2.3 `FileIO`: contents, positions and lengths

State: `chain` (the blocks of each file, as a sequence), `length` (in its
descriptor), `content` (of each block), `file` (the `File` object: mode,
position, size), `call` (a `read_file` or `write_file` at work: how far it is, the
block it works on and its buffer).

`write_file` and `read_file` begin (`Begun` reads the block of the position into
the buffer) and then handle one byte per step: `WriteByte` is one turn of the loop
with the `seek_file` in it, `WriteTooLong` and `WriteOutOfSpace` are its early
returns, `ReadByte` and `ReadEnd` those of `read_file`. `TurnBlock` is what both do at
the end of a block: write the buffer, find the block of the new position, read
it. `seek_file` adds blocks and leaves the length alone; `close_file` writes
the length to the descriptor; `delete_file` clears the blocks.

How the bitmap and the FAT represent the chains is left to `FatVolume`. Where the
code takes a block from a full disk or clears a wrong bit, which breaks that
representation, a behaviour ends (`Clobber`). A read or a write of 0 bytes is one step:
the read does nothing, the write may still raise the length (`filesystem.c:450`).
`written`, `failed` and `reached` are history: what was stored last at each position
(`Hole` where nothing was, `Lost` where a failing write dropped its buffer), the files of
which a write failed, and the furthest position that a call moved to in each file.

`FileIOInv` is its inductive invariant, `FileInv`: chains that meet nowhere
(`ChainsApart`), clean free blocks (`FreeClean`), nothing stored behind the last block
(`NothingBehind`), what the buffer of the call at work has to do with the block it
stands for (`BlockAtHand`, `BufferRight`), and what the length has to do with what is
stored while a write is on its way to it (`LengthAhead`, `LengthKept`).

### 2.4 `Scheduler`

One turn of the loop in `main` is a tick: `queue_new_arrivals`, one of `Idle`,
`Promote`, `Demote`, `Requeue`, `Stay` (the branches of
`execute_highest_priority_process`, each with `FinishTick`, the code behind them that
moves a process whose burst is over), then `do_IO` as a walk over `IOQ` (`Advance`,
`Complete`, `EndTick`). The program is deterministic; what varies is the input, which
`Init` chooses from a bounded set.

A `Queue` is the sequence of its elements, which `Prioque` justifies.
`delete_current`, called with a current position set by hand and no predecessor,
takes the first element out; where that is not the process that was meant,
`pc = "mixed_up"` ends the behaviour, because the program then has a process in two
queues, or reads freed memory.

Left out: everything printed, `LastProcess` and the counts of the idle process,
which only the output depends on. Restricted: bursts and repeat counts of at least 1. A process
that arrives at 0 is never due, as the clock is 1 when arrivals are first looked for:
nothing behind it arrives either, and the loop never ends (`ZeroBlocks`). The clock
stops counting at `Horizon`, after the last arrival; nothing else reads it.

### 2.5 `PriorityList`, `Prioque`, `PrioqueLocks`, `QueueWalk`

`Prioque` is the linked list of `prioque.c` pointer by pointer: nodes that `malloc`
gives and `free` takes back, `head`, `tail`, `current`, `previous`, `queuelength`. A
function holds its locks from beginning to end, so that it is one step.
`PriorityList` is the abstract specification: sequences with a current position.
`Prioque` implements it (`ImplementsList`, with `Lists` and `Positions` as the
refinement mapping), as long as no nil tail was followed (`ok`). Which of two priorities
stays ahead is a parameter of `PriorityList` (`Ahead`): `prioque.h:121` says the higher
number, `prioque.c:159` does the lower (`LowerAhead`), and nothing else in the
specification depends on it.

`PrioqueLocks` is the locking discipline of all its functions: one lock for a function
on one queue; `global_lock` and then both locks, in the order of the arguments,
for `copy_queue`, `merge_queues`, `equal_queues`. Each lock and unlock is a step of
the thread. The two queues may be the same one: the thread then waits for a lock it
has, and keeps `global_lock` (`StopsThere`).

`QueueWalk` puts the two together: threads that walk one queue the way
`test-prioque.c` does, a call at a time, while others add and remove. A call does to
the queue what `PriorityList` says and is a step. A behaviour ends where the program
would: following a NULL pointer, in the library's `exit`, or using an element that was
freed (`ended`, which says how and in whose walk). `disturbed` and `unseen` are history.

### 2.6 `MzGuard`

One file of the "no MZ" library and the `File` object that has it open: `content`, the
object's `mem`, position and error mark. An action is a call: `open_file`,
`close_file`, `read_file_from`, and `write_file_at` with its outcomes (`SeekFails`,
`WriteRefused`, `WriteAccepted` with as many bytes as the host takes). stdio is
external, and may fail wherever it is called. `clean` is history: no byte of MZ is at
its place in the file that `mem` does not know of. It begins FALSE for a file that has one
when it is opened, and ends with a short write. `refused` says that `mem` has
bytes of a write that was refused.

The loop that sets `mem` counts in an int that starts as the position, a long
(`fileio.c:137`): where that does not fit, it may begin below 2, and line 139 then stores
far outside `mem`. `AsInt` is the conversion, `WriteOutside` that write: `defined`
becomes FALSE, and the behaviour ends.

### 2.7 Proof modules

`FatVolumeProofs` proves `IInv` preserved as far as types and the directory go,
the refinement of `Directory`, then the rest of `IInv`, and from it the
properties of chains and of space. `FileIOProofs`, `SchedulerProofs`, `QueueWalkProofs`,
`PrioqueProofs`, `PrioqueLocksProofs`, `MzGuardProofs` and `SoftwareDiskProofs` are about
the modules in their names; `SchedulerProofs`, `QueueWalkProofs` and `PrioqueProofs` also
define the inductive invariants `SchedInv`, `DemandInv`, `WalkInv` and `ListInv`. Section 4 gives the arguments.

### 2.8 `SoftwareDisk` and `BlockDevice`

`SoftwareDisk` is `softwaredisk.c` with the file of the host under it: the blocks the
file has (`store`), whether the stream is open (`fp`), the zeros that formatting left in its
buffer (`pending`), and the blocks in the buffers of streams that a second
`init_software_disk` abandoned (`stale`). Formatting is a step per block, between
which it may fail or the process die; a read or a write is one step, as it ends with a
flush. Exit flushes all buffers, a crash none.

`BlockDevice` is the abstract specification: an array of blocks, or no disk. `SoftwareDisk`
implements it (`ImplementsDevice`), each read and write with the block it is given, up to
a flush that fails (its result is ignored, and what the stream does next cannot be said)
and but for the exit of a program that formatted twice in a row, whose abandoned
zeros are written over blocks. It is what `FatVolume` and `FileIO` take the disk to be.

## 3. What TLC checks

Every run has `CHECK_DEADLOCK FALSE` except `volume_safety`, in which nothing stops: the
other systems may really stop (a clobbered disk, a finished simulation, a list that
followed a nil tail, threads that make no more calls or wait for themselves, a walk that
came to a bad end, a store outside `mem`, a disk whose flush failed).

### 3.1 Passing runs

| Run | Instance | Shows |
|---|---|---|
| `volume_safety` | 6 blocks (2 of metadata), FAT in two disk blocks, two descriptors, two `File` objects, files of up to three blocks, the empty name and three others of which one is a prefix of two | chains end, are disjoint and marked, no space is lost without a crash, calls leave other files' blocks alone, `IInv`, and the refinement of `Directory` with two `File` objects; explored as far as `Sound` |
| `volume_faults` | 6 blocks, a byte of 3 bits so that freed bits go wrong, one `File` object | with all faults: types, `File` objects and names, the refinement of `Directory`; every call returns while `Sound` |
| `file_contents` | two files, 4 data blocks of two bytes, largest file 4 bytes, writes of 0, 2 and 3 bytes, reads of 0 and 3, seeks to 0 and 3 | what is read is what was stored last, and zero in gaps and reused blocks; positions stay inside chains; lengths take in what is stored and stop at the furthest position reached; `FileInv`; calls leave other files' contents alone |
| `scheduler_runs` | 3 processes, arrivals at 1 or 3 with eight descriptions, at 0 with two | one queue per process, levels, CPU time as described, quanta, every tick serves all of `IOQ`, the simulation ends unless a process arrives at 0 |
| `prioque_lists` | two queues, four nodes, two values, two priorities, three kinds of queue | well-formed lists, the tail of FIFO queues, refinement of `PriorityList` |
| `locks_threads` | three threads with one call each, three queues, every ordered pair of them, the same one twice included | lock ownership, mutual exclusion, no deadlock and calls that return, but for a call with one queue twice |
| `queue_walks` | two walkers, two takers, three elements of two priorities | a walk comes to a bad end only after another thread took an element or advanced during that very walk; an undisturbed one sees everything; walks end |
| `mz_guard` | a file of up to three bytes, data of none to three, offsets -1 to 2, all anchors, ints below 3 | `mem` knows the letters of MZ, the file never begins with them, exactly the writes that would make it so are refused |
| `software_disk` | 4 blocks, a buffer of one, three contents of a block, any file at the start | an open stream stands for the whole disk; refinement of `BlockDevice` |

### 3.2 Bounds, and why they are enough

* `FatVolume`. In `volume_safety`, four data blocks hold two files of which one has two
  or three blocks: enough for two chains to meet, for growth by two blocks in one
  seek, for a delete with a first, a middle and a last block (files of two blocks are the
  longest in `volume_faults`). A FAT of two disk blocks is the
  smallest that a crash can tear. Two descriptors and three names, with one a prefix
  of the others, let a table be full, and a shorter name be looked up in front of and
  behind a longer; the two longer ones are interchangeable, as are the `File` objects, and
  the symmetry is used. `DiskBlockBuffer` is 0 or 1 instead of 5, so that a small disk
  can fill up; `UIntModulus` is 64, larger than any sum that does not wrap.
  `volume_safety` has a byte of as many bits as the disk has blocks, for which no data block's bit goes
  wrong; wrong bits are the matter of `volume_faults`.
* `FileIO`. Pieces of no, two and three bytes in blocks of two, from positions even
  and odd, begin and end inside a block, at its end and beyond the next one. Files
  reach the largest length, the disk runs full, blocks change files.
* `Scheduler`. The quanta are those of the code scaled down to 2, 3 and 4, the
  limits for demotion and promotion are those of the code. The descriptions have
  bursts that end before, with and after each quantum, and every branch is taken.
  The horizon is after the last arrival.
* `Prioque`. Four nodes make a first, a middle and a last element, two queues with two
  elements each, and a copy or a merge of two elements. The kind "unsorted without
  duplicates" is left out. Which of the free nodes `malloc` gives makes no difference, so the
  run has a `VIEW` in which a node is its place in its queue: two states with the
  same view have the same lists and pointers up to the names of the nodes.
* `PrioqueLocks`. With three threads on three queues a cycle of three is possible.
  One call each is enough for safety, because a thread that has returned is as at
  the beginning; the theorems hold for any `Calls`.

* `QueueWalk`. One walker is disturbed by the other and by two takers; three elements
  let one be added in front of a walk and one behind it, and the first, a middle
  and the last be taken. Each element is added once.
* `MzGuard`. What is decided is in bytes 0 and 1. Files of three bytes and data of up
  to three cover a write that ends before, at and behind each of them, and a gap
  between the end of the file and the write. `IntBound` is 3 instead of 2^31, so that a
  write behind the third byte is at a position that does not fit an int.
* `SoftwareDisk`. The buffer is written several times while four blocks are formatted,
  so that a crash finds some of them in the file and some not. The theorems hold for
  every size of disk and buffer.

`volume_faults` has one `File` object and bits that go wrong, `volume_safety` two objects and
longer files; together they would take longer than either is worth.

History variables (`fault`, `written`, `failed`, `reached`, `served`, `disturbed`, `unseen`,
`clean`, `refused`) are read by no guard.
`CONSTRAINT`s stop exploration behind states that are still checked.

### 3.3 Fairness

* `FatVolume`: weak fairness of `Continue`. A call that began runs on; the
  library is single-threaded and waits for nothing. Nothing makes a caller call, and
  a crash may always happen.
* `Scheduler`: weak fairness of `Next`, the only thread of the program.
* `PrioqueLocks`: weak fairness of each thread's `Step`. A mutex promises nothing about
  which waiting thread gets it, so there is no strong fairness; that every call
  returns (but for one with the same queue twice, and those that then wait behind
  it) holds because each thread makes a bounded number of calls. Were they not bounded, a
  mutex could pass a waiting thread over for ever, and nothing is said of that.
* `QueueWalk`: weak fairness of each walker's loop: a thread that walks goes on. A call is
  one step here, its wait for the mutex included, so this is more than a mutex
  promises when others call for ever; the other threads make finitely many calls that
  are not steps of a walk (each element is added once and taken once), and two walkers that
  keep each other waiting are what the assumption leaves out. Nothing makes a thread begin a
  walk, add or remove.
* `FileIO`, `Prioque`, `MzGuard` and `SoftwareDisk` are checked for safety only.

## 4. What is proved

All theorems hold for every value of the constants that satisfies the
`ASSUME`s of the module.

**The volume.** `DiskAssumption` says that the metadata fits, that the number of
blocks is a multiple of `ByteSize`, as 5000 is of 8, and that sums of block numbers
do not wrap. `TypeCorrect` says in particular that no call computes a block
number outside the disk. The properties of chains are not inductive: a step changes one
entry, a chain is many. `IInv` is about entries: every entry in use is a data
block's, is marked, and leads to one in use; no two lead to the same block; no
entry leads to the first block of a file, and no two files have the same first
block. It has to say the same of the FAT on disk, which during a call is partly
old and partly new (`OnDisk`: the blocks before `sector` are those of the copy, the
rest are not), and of the one block that is in no file while a call holds it
(`Pending`). `FatVolumeProofs` has a lemma for each action and then shows that
walks from different first blocks never meet (by induction on the number of steps: at
the first place where they do, one entry would have two predecessors or a first block
one), and that a walk that does not end would visit more blocks than there are.

`NoSpaceLost` and `OtherFilesKept` compare whole chains before and after a step. A chain is
the least set of blocks that has its first one and is closed under its entries
(`ChainLeast`, `ChainClosed`), and all else follows from that: two chains do not meet
(`ChainsApart`), a chain is unchanged if no entry of it is (`ChainStays`), linking a free block
behind the last one adds it (`ChainGrows`), clearing the first entry takes it out
(`ChainShrinks`). A lemma each for `CreateFat`, `AddBlock`, `DeleteNext` and `DeleteLast`
says what becomes of every chain. `SpaceInv` is then kept because what a step adds to or takes
from the entries in use, it adds to or takes from a chain; that `DeleteNext` does not lose the
rest of the chain needs that the block it is at is among `Heads`. A crash between the
writes of a growing file is the case for which `OtherFilesKept` needs `GrowInv`: the copy is
gone, and the FAT on disk differs from it in the chain of that file only.
`HandlesBacked` and `NamesUnique` need less: only `close_file` can break them.

**The directory.** `DirectoryInv`, a part of `IInv`, gives every descriptor one name and
every `File` object its descriptor. Only four steps change the status of a name
(`CreateSlot`, `OpenFile`, `CloseFile`, `DeleteSlot`): the lemmas at the end of
`FatVolumeProofs` show that each of them changes that of one name, as
`Directory` says, and that no other does, the crashes and wrong bits included
(`DirectoryImplemented`).

**The locks.** `LocksInv` (a mutex belongs to exactly the thread that has taken it
for its call; a thread that waits for its second queue and has it stays there,
`StopsThere`) is inductive. `Exclusive` follows, since a working thread has all its
locks. `NoDeadlock`: in a set of threads that all wait for one another, none of
which was given one queue twice, each is waited for and has a lock, so it waits for
its second or third, and it therefore has `global_lock`; that only one thread can
have, so a thread waits for itself, for a lock it has not taken.

**The write guard.** `GuardInv` relates `mem` to the file byte by byte: while the object
is `clean`, a byte of the file at place 0 or 1 that is the letter of MZ for that place
is in `mem` too, and conversely unless `mem` has it from a write that was
refused (`refused`). This is weaker than `mem` being equal to what the file begins
with, which the code does not ensure, and what `NeverMZ` and `RefusedRightly` need. The proof has
one lemma for the write (what each byte becomes), which holds for data of any
length at any position for which the write comes to its decision (`Decides`). One that
stores outside `mem` ends the behaviour, and of the program after that the theorems
say nothing; of the conversion to int (`AsInt`) they use nothing but that.

**The disk.** `DiskInv` says that a stream that is open between calls belongs to a
file of `NumBlocks` blocks, those in the buffer included (`OpenIsWhole`); while
formatting, blocks in the file and in the buffer together are zeros. The refinement
maps an open disk to its blocks, with the zeros of the buffer behind those of the
file; a crash while formatting must map to a disk of no use whatever the buffer
has already written.

**The contents.** None of `Covered`, `ReadsBack` and `LengthRight` is inductive, since a
byte on its way to the disk is in a buffer, and a length is ahead of what is
stored. `FileInv` says what the buffer may differ in: in a byte of which a write that
stopped here would lose what was stored (`Dropped`), and nothing while reading. What a
block has when a file gets it is the matter of `FreeClean`. Chains grow in three ways
(`create_file`, `seek_file`, and a seek inside a write); all are cases of one
relation on states, for which `ReadsKept` shows that every position reads as before and new ones
as zero. `LengthKept` holds of all files at every step, `LengthRight` only between
calls: while a write is at work, the length may be the end of what it will have stored, which
no call has reached yet. `LengthRight` leaves open what the code and its comments
disagree about, whether a seek past the end extends the file: it says that the length lies
between the end of what was stored and the furthest position reached. It is not equal to
the former, since a write of no bytes after such a seek raises it (`filesystem.c:450`).
`OthersKept` follows from `ChainsApart` alone: a step changes the blocks of one chain or free
ones.

**The scheduler.** That a process is in one queue means that the numbers of its places
in all queues add up to one. How often a process is in `s \o t` is the sum of the two
(`InConcat`); every move of the code is a concatenation, an `Append`, a `Tail` or a
`SubSeq`, so each branch takes one place away and adds one. `LevelKept` needs that the arrivals are
of level 1; `QuantumOfFirst` that a queue with a quantum begun is not empty
(`QuantumHeld`); `NobodySkipped` that the walk over `IOQ` has served the places before
`current` (`WalkRight`); `ZeroBlocks` that a process that arrives at 0 is first
(`ZeroFirst`), as the clock has passed 0. All branches of
`execute_highest_priority_process` have `FinishTick` behind them: what precedes it gives one relation on
queues (`Rearranged`), and `FinishKeeps` treats it once. `PidsAssumption`: the processes are
finitely many.

`GotItsDemand` needs `DemandInv`: the lines a process has left are the last ones of its
description, and the ticks it has run are the demand of the lines before them, plus the
bursts of the first line it has done, plus what it has had of the burst at work
(`Progress`); and its burst is over exactly while it waits in `IOQ` (`BurstsRight`).
The demand of the first lines is a recursive function (`Sums`); that it exists is shown
first (`SumsExist`, by induction on the number of lines), and everything else uses the
equation it satisfies.

**The walks.** `WalkInv` says of a walk that nobody disturbed that what it has still to
see (`ToSee`, for each of its calls) is in the queue, behind the places it has passed
(`Passed`), and that what it has a pointer to is in the queue too. An addition
rewinds the queue and so passes nothing; another walk that begins rewinds it as well. That a sorted
addition finds a place, in whatever order the list is, is an argument of its own
(`PlaceRight`): the least place that is at the end, or before an element of a higher number,
has none of a higher number before it. Elements are found by their values, so `Distinct` (no
value is twice in the queue) is part of the invariant, and gives `TakenOnce`.
The order of priorities is a parameter, of which the proofs use nothing.

**The linked lists.** `ListInv` says that as long as no nil tail was followed (`ok`), the nodes
of each queue (`NodesOf`) are a sequence of different nodes that begins at `head`, follows
`next` and ends at a nil pointer (`IsList`), as long as `queuelength`; that no node is in two
queues, and the nodes in use are those of the queues; that `previous` is nil and `current` is
`head`, or `previous` is in the list and `current` follows it; that the tail of a FIFO queue
that is not empty is its last node, or nil; and that nodes in use have a priority. `NodesOf`
is a recursive function: `NodesOfList` shows once, by induction on how far a node is from the
end, that it is the sequence `IsList` describes, and nothing else opens its definition. A
function then does one of four things to one sequence: it puts a node into it
(`PutInShape`), takes one out (`TakenOutShape`), empties it (`DestroyedShape`) or moves the
position (`MovedShape`); `ShapeOf` says what has to be shown of that queue, and that the others
stay if their nodes do. The walks (`Contains`, `Found`, `Predecessor`) are least
positions (`FirstAt`, `PlaceExists`). `TailIsLast` is part of the invariant; that the tail a
deletion sets is the last node or nil (`NewTail`) is the case the code gets half right.
`copy_queue` and `merge_queues` add in a loop, of which `AllAddedShape` is the invariant: after
`i` additions there are at least the free nodes there were, less `i`, and the list is what
`PriorityList` has after `i` additions. Both loops are recursive functions, whose existence
(`SumExists`, `ListSumExists`) is shown by induction on their length.

`ImplementsList` reads a state through `Records` (the elements at the nodes of a queue) and
`At` (the number of the current one). Each function has a lemma for the pointers
(`*Effect`), and one for what a caller sees of it (`*Seen`), which is an action of `PriorityList`;
`PlaceIs` shows that the node that `nolock_add_to_queue` stops at is where `Place` puts the
element, and `InsertingParts` that linking it there is `Inserted`. `NodesAssumption`: nodes are
finitely many and none is nil; `PrioritiesAssumption`: priorities are integers.

**Only checked by TLC.** Liveness (`CallsReturn`, `Finishes`, `WalkEnds`), which is out of
the prover's reach. Every other property of a passing run is proved.

## 5. Where the code differs from what it says

Runs that TLC finds violated, each with the line it contradicts in
`PROJECT.json`:

| Run | What happens |
|---|---|
| `claim_freed_bit` | the bit of a block whose number is a multiple of 8 stays set when it is freed, and the one eight below is cleared |
| `claim_fifo_add` | after the last of several elements was deleted, the next add to a FIFO queue follows a nil tail |
| `claim_finished_leaves` | a process whose last burst ends with its quantum stays in a ready queue, and another is lost |

Seen in the models, without a run of their own:

* `delete_file("a")` deletes "ab" if it comes first: names are compared over the
  length of the argument (`filesystem.c:556`; the comment at 537 says "the file named
  'name'"). `close_file` and `open_file` look up the same way (368, 261).
* The open mark survives the process; the file can then not be opened or deleted
  (`filesystem.c:269`).
* `read_file` at the end of a file, or of an empty one, and `write_file` at the
  largest size return without setting `fserror` (404, 421, 464), which "always"
  is set (394, 436); the number `read_file` returns there is one less than was
  asked for, whatever was read.
* A seek past the end does not extend the file (518), which the comment at 491
  says it should (also `filesystem.h:133`); a write of 0 bytes after it does (450).
* A write that runs out of space sets the length to its position, below
  what the file had if it was overwriting (475), and drops the bytes that are in its
  buffer.
* `add_to_queue` puts lower numbers first (`prioque.c:159`, against `prioque.h:121`). When
  it refuses a duplicate, the current position stays at the element it found (128), where
  `prioque.h:181` says that the functions of that section rewind it.
* `copy_queue` and `merge_queues` of a queue with itself lock its mutex twice
  (`prioque.c:613`), and keep `global_lock`.
* On a full disk `create_file` succeeds and gives the file block 0, the bitmap
  (`filesystem.c:318`, against the error in `filesystem.h:93`).
* A seek backwards, or one that needs no block, can be answered `FS_OUT_OF_SPACE`,
  as the number of blocks needed wraps (510).
* When a process completes its I/O, the walk begins again and those before it get a second
  tick of I/O (`scheduler.c:181`).
* A program of processes of which one arrives at 0 does not end (`scheduler.c:85`).
* A read of the "no MZ" library that succeeds after one that failed is reported as
  failed, as `ferror` stays set (`fileio.c:107`); after a refused write, writes are
  refused that would not make the file begin with MZ (139); the guard knows nothing of
  what a file had before it was opened. A position of 2^31 and more becomes another number
  in the loop that sets `mem` (137), which may then store outside it; and a write that falls
  short leaves `mem` with bytes that the file has not got (145).
* `softwaredisk.c` ignores what `fflush` and `fseek` return (91), and a second
  `init_software_disk` does not close the stream of the first (35); the file system
  ignores what the disk returns.

## 6. Not modelled

* A failing disk under the file system: `SoftwareDisk` has the failures of the host's
  file, but `filesystem.c` ignores them and `FatVolume` and `FileIO` assume that they do
  not occur.
* What `fwrite` has buffered and a later `fseek` or `fclose` fails to write: in `MzGuard` the
  bytes that were taken are in the file.
* Several `File` objects or processes on one file of the "no MZ" library, for which
  it makes no provision: each object knows only of its own writes.
* Names longer than 52 bytes, elements of another size than a queue was told, use of a
  `File` or an element after it was freed: undefined behaviour of callers.
* Output, drivers, tests, exercises and prose.

## 7. Plan

Done: every component of the inventory that keeps state is modelled, and every
property of a passing run but liveness is proved.

Next, in this order:

1. The walks of `QueueWalk` are over a queue that is a sequence, and the scheduler's
   queues are sequences too. `ImplementsListHolds` justifies both in words; a refinement
   from `QueueWalk` to `PriorityList` would state the first.
2. `Bitmap`: the bytes and bits of `set_next_bits_of_bitmap`, against sets of
   blocks, as an algorithm over bounded inputs.
