---------------------------- MODULE BlockDevice ----------------------------
(***************************************************************************)
(* What the software disk of Programming-Assignment#3 is for the file      *)
(* system: an array of blocks that keeps what is put in it, and that only  *)
(* formatting destroys.  SoftwareDisk implements this.                     *)
(***************************************************************************)
EXTENDS Integers

CONSTANTS NumBlocks, Data, Zero, NoDisk

Blocks == 0 .. NumBlocks - 1

VARIABLES
    disk,         \* the blocks, or NoDisk
    formatting,
    fresh,        \* formatted, and not yet safe from a crash
    sderror,      \* the answer to the last call
    data          \* what a read delivered last

vars == <<disk, formatting, fresh, sderror, data>>

Init ==
    /\ disk = NoDisk \/ disk \in [Blocks -> Data]
    /\ ~ formatting /\ ~ fresh /\ sderror = "SD_NONE" /\ data = Zero

\* "destroying any existing data"
BeginFormat ==
    /\ formatting' /\ disk' = NoDisk /\ ~ fresh'
    /\ UNCHANGED <<sderror, data>>

Format ==
    /\ formatting /\ ~ formatting'
    /\ disk' = [b \in Blocks |-> Zero] /\ fresh' \in BOOLEAN
    /\ sderror' = "SD_NONE" /\ UNCHANGED data

FormatFails ==
    /\ ~ formatting' /\ (disk' = NoDisk \/ UNCHANGED disk) /\ ~ fresh'
    /\ sderror' = "SD_INTERNAL_ERROR" /\ UNCHANGED data

Put(b, d) ==
    /\ ~ formatting /\ disk # NoDisk /\ b \in Blocks
    /\ disk' = [disk EXCEPT ![b] = d] /\ ~ fresh' /\ sderror' = "SD_NONE"
    /\ UNCHANGED <<formatting, data>>

Get(b) ==
    /\ ~ formatting /\ disk # NoDisk /\ b \in Blocks
    /\ data' = disk[b] /\ ~ fresh' /\ sderror' = "SD_NONE"
    /\ UNCHANGED <<formatting, disk>>

\* A call that is refused changes nothing; it is told that there is no disk only if
\* there is none, and that the number of the block is wrong only if there is one.
Refused ==
    /\ ~ formatting
    /\ \/ sderror' = "SD_INTERNAL_ERROR"
       \/ disk = NoDisk /\ sderror' = "SD_NOT_INIT"
       \/ disk # NoDisk /\ sderror' = "SD_ILLEGAL_BLOCK_NUMBER"
    /\ fresh' \in {fresh, FALSE}
    /\ UNCHANGED <<disk, formatting, data>>

\* The process ends, or is killed: a disk that was put to use is as it was, one that
\* was being formatted may be there or not.
Restart ==
    /\ ~ formatting' /\ ~ fresh' /\ sderror' = "SD_NONE" /\ UNCHANGED data
    /\ \/ UNCHANGED disk
       \/ fresh /\ disk' = NoDisk
       \/ formatting /\ disk' = [b \in Blocks |-> Zero]

Next ==
    \/ BeginFormat \/ Format \/ FormatFails
    \/ \E b \in Blocks : Get(b) \/ \E d \in Data : Put(b, d)
    \/ Refused \/ Restart

Spec == Init /\ [][Next]_vars

=============================================================================
