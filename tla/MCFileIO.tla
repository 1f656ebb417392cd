------------------------------ MODULE MCFileIO ------------------------------
(* A file of two bytes, one descriptor for each of two tasks.              *)
EXTENDS FileIO, TLC

CONSTANTS t1, t2, x, y, a

Two == {t1, t2}
One == {t1}
TwoBytes == {x, y}
\* x and y are only told apart.
BytesAlike == Permutations(TwoBytes)
MCProgram == <<a, a>>
MCOffsets == {0, 2, -1}
=============================================================================
