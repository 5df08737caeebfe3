------------------------------ MODULE MCFileIO ------------------------------
(* Small instances of FileIO for TLC. *)
EXTENDS FileIOInv, TLC

\* Both bytes, in pieces of a block and of more than one, at any alignment, and none.
MCData == {<<>>, <<1, 0>>, <<0, 1, 1>>}

FileSymmetry == Permutations(Files)

=============================================================================
