----------------------------- MODULE FileIOInv -----------------------------
(***************************************************************************)
(* What makes the properties of FileIO hold at every step of a call: its   *)
(* inductive invariant.                                                    *)
(***************************************************************************)
EXTENDS FileIO

\* No block is twice in a file or in two files.
ChainsApart ==
    \A f, g \in Files : \A i \in 1 .. Len(chain[f]), j \in 1 .. Len(chain[g]) :
        chain[f][i] = chain[g][j] => f = g /\ i = j

\* A file that does not exist leaves nothing behind.
NoTrace ==
    \A f \in Files : chain[f] = <<>> =>
        length[f] = 0 /\ ~ Opened(f) /\ written[f] = Untouched /\ reached[f] = 0

\* What a file can get is clean.
FreeClean == \A b \in Free : content[b] = ZeroBlock

\* Nothing was stored behind the last block of a file.
NothingBehind ==
    \A f \in Files : \A p \in Reach : p >= Len(chain[f]) * BlockSize => written[f][p] = Hole

Working == call.op \in {"read", "write"}

\* The call at work has the block of the current position in its buffer.
BlockAtHand ==
    Working =>
        /\ Opened(call.on) /\ chain[call.on] # <<>>
        /\ call.done <= file[call.on].fp
        /\ call.block = BlockOf(chain[call.on], file[call.on].fp)

\* read_file changes nothing; write_file has stored in its buffer what Dropped names.
BufferRight ==
    /\ call.op = "read" => call.buffer = content[call.block]
    /\ call.op = "write" =>
        \A o \in Offsets :
            \/ call.buffer[o] = content[call.block][o]
            \/ \E p \in Dropped(call.on) : p % BlockSize = o

\* The length that write_file gave the file is that at its end, which may lie behind
\* the blocks of the file.
LengthAhead ==
    call.op = "write" =>
        LET size == file[call.on].file_size
            end  == file[call.on].fp - call.done + Len(call.data)
        IN  /\ call.done < Len(call.data)
            /\ size >= end
            /\ size = end \/ size < Len(chain[call.on]) * BlockSize

\* A length is behind all that was stored, unless a write failed, and no further than a
\* position reached or the end of what the call at work will store.
LengthTold(f) ==
    /\ f \notin failed => \A p \in Reach : written[f][p] # Hole => p < Size(f)
    /\ \/ Size(f) <= reached[f]
       \/ /\ call.op = "write" /\ call.on = f
          /\ Size(f) = file[f].fp - call.done + Len(call.data)
    /\ Opened(f) => file[f].fp <= reached[f]

LengthKept == call # Clobbered => \A f \in Files : chain[f] # <<>> => LengthTold(f)

FileInv ==
    /\ TypeOK /\ ChainsApart /\ NoTrace /\ FreeClean /\ NothingBehind
    /\ BlockAtHand /\ BufferRight /\ LengthAhead
    /\ Covered /\ ReadsBack /\ LengthKept

=============================================================================
