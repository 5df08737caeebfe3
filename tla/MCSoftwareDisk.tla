--------------------------- MODULE MCSoftwareDisk ---------------------------
(* A small instance of SoftwareDisk for TLC: the buffer has room for fewer    *)
(* blocks than the disk has.                                                  *)
EXTENDS SoftwareDisk

MCData == {0, 1, 2}

=============================================================================
