----------------------------- MODULE MCMzGuard -----------------------------
(* A small instance of MzGuard for TLC: both letters alone, together, the    *)
(* wrong way round and after another byte, at every distance from the        *)
(* beginning; and nothing.  Position 3 is the first that is too large for    *)
(* an int.                                                                   *)
EXTENDS MzGuard

M == MZ[1]
Z == MZ[2]

MCBytes   == {0, 1, M, Z}
MCData    == {<<>>, <<M>>, <<Z>>, <<1>>, <<M, Z>>, <<Z, M>>, <<1, M, Z>>}
MCOffsets == -1 .. 2

=============================================================================
