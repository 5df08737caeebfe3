------------------------------ MODULE MzGuard ------------------------------
(***************************************************************************)
(* The file library of Programming-Assignment#1/fileio.c: a File object    *)
(* remembers in mem what was to be written to the first two bytes of its   *)
(* file, and a write after which mem is "MZ" is refused.                   *)
(*                                                                         *)
(* One file, opened by one process, once at a time.  stdio is external: it *)
(* may fail to open, to close, to read, and to write all that it is given. *)
(* What fwrite has taken reaches the file: a later fseek or fclose that    *)
(* cannot write its buffer is not modelled.  A bad anchor and a seek to    *)
(* before the file fail alike.  A behaviour ends with a store outside mem. *)
(***************************************************************************)
EXTENDS Integers, Sequences

CONSTANTS
    Bytes,
    Data,        \* bound: what callers write, sequences of bytes
    Counts,      \* bound: how much they read at a time
    Offsets,     \* bound: where they seek to
    MaxLength,   \* bound: of the file and the positions in it
    IntBound,    \* 2^31, more than the largest int
    Closed       \* no File object

\* The characters M and Z.
MZ == <<77, 90>>

Anchors == {"BEGINNING_OF_FILE", "CURRENT_POSITION", "END_OF_FILE"}

File == [mem : [1 .. 2 -> Bytes], position : Nat, ferror : BOOLEAN]

ASSUME BytesAssumption ==
    /\ {0, MZ[1], MZ[2]} \subseteq Bytes
    /\ Data \subseteq Seq(Bytes)
    /\ Counts \subseteq Nat /\ Offsets \subseteq Int /\ MaxLength \in Nat
    /\ IntBound \in Nat /\ IntBound >= 2
    /\ Closed \notin File

VARIABLES
    exists,    \* is there a file of this name?
    content,   \* its bytes
    file,      \* the File object
    fserror,
    clean,     \* history: the object knows of an M or a Z at the place it has in MZ
    refused,   \* history: mem has bytes of a refused write
    defined    \* no write has stored outside mem

vars == <<exists, content, file, fserror, clean, refused, defined>>

Opened == file # Closed

\* Byte i of some contents; there are zeros beyond its end.
Byte(bytes, i) == IF i <= Len(bytes) THEN bytes[i] ELSE 0

StartsMZ(bytes) == \A i \in 1 .. 2 : Byte(bytes, i) = MZ[i]

Init ==
    /\ exists = FALSE /\ content = <<>>
    /\ file = Closed /\ fserror = "NONE" /\ clean = FALSE /\ refused = FALSE
    /\ defined = TRUE

\* Mutant: mem starts with what a write may not leave in it.
open_file_dirty ==
    /\ ~ Opened
    /\ exists' = TRUE
    /\ content' = IF exists THEN content ELSE <<>>
    /\ file' = [mem |-> <<MZ[1], 0>>, position |-> 0, ferror |-> FALSE]
    /\ fserror' = "NONE"
    /\ clean' = \A i \in 1 .. 2 : Byte(content', i) # MZ[i]
    /\ refused' = FALSE
    /\ UNCHANGED defined

open_file ==
    /\ ~ Opened
    /\ exists' = TRUE
    /\ content' = IF exists THEN content ELSE <<>>
    /\ file' = [mem |-> <<0, 0>>, position |-> 0, ferror |-> FALSE]
    /\ fserror' = "NONE"
    /\ clean' = \A i \in 1 .. 2 : Byte(content', i) # MZ[i]
    /\ refused' = FALSE
    /\ UNCHANGED defined

open_file_fails ==
    /\ ~ Opened
    /\ fserror' = "OPEN_FAILED"
    /\ UNCHANGED <<exists, content, file, clean, refused, defined>>

close_file ==
    /\ Opened
    /\ file' = Closed
    /\ fserror' \in {"NONE", "CLOSE_FAILED"}
    /\ clean' = FALSE /\ refused' = FALSE
    /\ UNCHANGED <<exists, content, defined>>

\* seek_file, when it does not fail: where the file is then.
Sought(start, offset) ==
    CASE start = "BEGINNING_OF_FILE" -> offset
      [] start = "CURRENT_POSITION"  -> file.position + offset
      [] start = "END_OF_FILE"       -> Len(content) + offset

SeekWorks(start, offset) == Opened /\ Sought(start, offset) \in 0 .. MaxLength

SeekFails(start, offset, error) ==
    /\ Opened /\ Sought(start, offset) < 0
    /\ fserror' = error
    /\ UNCHANGED <<exists, content, file, clean, refused, defined>>

-----------------------------------------------------------------------------
\* The bytes from p on that are delivered to a caller who asks for n.
Delivered(p, n) == SubSeq(content, p + 1, IF p + n < Len(content) THEN p + n ELSE Len(content))

\* An error of the stream is reported by every read that follows, as nothing clears
\* it before the file is closed.
read_file_from(n, start, offset) ==
    /\ SeekWorks(start, offset)
    /\ \E fails \in BOOLEAN :
         LET p == Sought(start, offset) IN
         /\ file' = [file EXCEPT !.position = p + (IF fails THEN 0 ELSE Len(Delivered(p, n))),
                                 !.ferror = @ \/ fails]
    /\ fserror' = IF file'.ferror THEN "READ_FAILED" ELSE "NONE"
    /\ UNCHANGED <<exists, content, clean, refused, defined>>

-----------------------------------------------------------------------------
(* write_file_at *)

\* What a sequence of bytes is after data has been stored from position p on.
Stored(bytes, p, data) ==
    IF data = <<>> THEN bytes
    ELSE [i \in 1 .. (IF p + Len(data) > Len(bytes) THEN p + Len(data) ELSE Len(bytes)) |->
            IF i \in p + 1 .. p + Len(data) THEN data[i - p] ELSE Byte(bytes, i)]

\* Mutant: mem forgets what is not written now.
MemOfThisWrite(p, data) ==
    [i \in 1 .. 2 |-> IF i \in p + 1 .. p + Len(data) THEN data[i - p] ELSE 0]

\* A position as an int.
AsInt(p) == ((p + IntBound) % (2 * IntBound)) - IntBound

\* The loop stores from mem[p] on, until the int that starts as p has come to 2: at a
\* large p that becomes a small int the first store is behind mem already.
StoresOutside(p, data) == p >= 2 /\ AsInt(p) < 2 /\ data # <<>>

\* mem as the write sets it, before it decides, if it does not store outside.
MemWith(p, data) ==
    [i \in 1 .. 2 |-> IF i \in p + 1 .. p + Len(data) THEN data[i - p] ELSE file.mem[i]]

\* Mutant: the offset is taken for the position of the write.
RefusesAtOffset(data, start, offset) == MemWith(offset, data) = MZ

Refuses(data, start, offset) == MemWith(Sought(start, offset), data) = MZ

\* The write comes to its decision.
Decides(data, start, offset) ==
    SeekWorks(start, offset) /\ ~ StoresOutside(Sought(start, offset), data)

\* It does not: what the program does from here on is undefined.
WriteOutside(data, start, offset) ==
    /\ SeekWorks(start, offset) /\ StoresOutside(Sought(start, offset), data)
    /\ defined' = FALSE /\ clean' = FALSE
    /\ UNCHANGED <<exists, content, file, fserror, refused>>

\* The file stays as it is; mem does not.
WriteRefused(data, start, offset) ==
    LET p == Sought(start, offset) IN
    /\ Decides(data, start, offset) /\ Refuses(data, start, offset)
    /\ file' = [file EXCEPT !.mem = MZ, !.position = p]
    /\ fserror' = "ILLEGAL_MZ" /\ refused' = TRUE
    /\ UNCHANGED <<exists, content, clean, defined>>

\* n bytes of the data get into the file; with fewer than all of them the stream has
\* an error, and mem is ahead of the file.
WriteAccepted(n, data, start, offset) ==
    LET p == Sought(start, offset) IN
    /\ Decides(data, start, offset) /\ ~ Refuses(data, start, offset)
    /\ p + Len(data) <= MaxLength /\ n <= Len(data)
    /\ content' = Stored(content, p, SubSeq(data, 1, n))
    /\ file' = [mem |-> MemWith(p, data), position |-> p + n,
                ferror |-> file.ferror \/ n < Len(data)]
    /\ fserror' = IF n < Len(data) THEN "WRITE_FAILED" ELSE "NONE"
    /\ clean' = (clean /\ n = Len(data))
    /\ refused' = (refused /\ ~ (p = 0 /\ Len(data) >= 2))
    /\ UNCHANGED <<exists, defined>>

write_file_at(data, start, offset) ==
    \/ SeekFails(start, offset, "WRITE_FAILED")
    \/ WriteOutside(data, start, offset)
    \/ WriteRefused(data, start, offset)
    \/ \E n \in 0 .. Len(data) : WriteAccepted(n, data, start, offset)

Next ==
    /\ defined
    /\ \/ open_file \/ open_file_fails \/ close_file
       \/ \E start \in Anchors, offset \in Offsets :
            \/ SeekFails(start, offset, "READ_FAILED")
            \/ \E n \in Counts : read_file_from(n, start, offset)
            \/ \E data \in Data : write_file_at(data, start, offset)

Spec == Init /\ [][Next]_vars

-----------------------------------------------------------------------------
(* Properties *)

TypeOK ==
    /\ exists \in BOOLEAN /\ content \in Seq(Bytes)
    /\ file \in File \cup {Closed}
    /\ fserror \in {"NONE", "OPEN_FAILED", "CLOSE_FAILED", "READ_FAILED", "WRITE_FAILED",
                    "ILLEGAL_MZ"}
    /\ clean \in BOOLEAN /\ refused \in BOOLEAN /\ defined \in BOOLEAN
    /\ ~ exists => content = <<>> /\ ~ Opened
    /\ clean \/ refused => Opened

\* Of an M or a Z of MZ that is at its place in the file mem has a copy, and it has
\* no other unless a refused write left one.
MemKnows ==
    clean => \A i \in 1 .. 2 :
        /\ Byte(content, i) = MZ[i] => file.mem[i] = MZ[i]
        /\ ~ refused /\ file.mem[i] = MZ[i] => Byte(content, i) = MZ[i]

GuardInv == TypeOK /\ MemKnows

\* "If an attempt is made to modify a file such that "MZ" appears in the first two
\* bytes of the file, the write operation fails": byte by byte, in any order, from any
\* anchor and after refused writes the file never begins with MZ, if it had neither
\* letter there when it was opened, no write was cut short and none stored outside mem.
NeverMZ == clean => ~ StartsMZ(content)

\* A write is refused exactly when it would make the file begin with MZ, unless bytes
\* of an earlier refused write are still in mem.
RefusedRightly ==
    clean /\ ~ refused => \A data \in Data, start \in Anchors, offset \in Offsets :
        Decides(data, start, offset) =>
        (Refuses(data, start, offset) <=> StartsMZ(Stored(content, Sought(start, offset), data)))

=============================================================================
