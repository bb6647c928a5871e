------------------------------- MODULE MCDialFS -------------------------------
(***************************************************************************)
(* Three interchangeable files on a disk of eight blocks of three bytes.   *)
(* Sizes 0, 1, 4, 6 and 13: no block, part of one, part of the second, a   *)
(* multiple, and so many blocks that a second file passes the end of the   *)
(* disk; the blocks of 30 wrap to none, and 31 reads as an error.  The     *)
(* last WRITE ends past the width of the sum.                              *)
(***************************************************************************)
EXTENDS DialFS, TLC

CONSTANTS f1, f2, f3

NombresMC    == {f1, f2, f3}
TamanosMC    == {0, 1, 4, 6, 13, 30, 31}
EscriturasMC == {<<0, 4>>, <<31, 2>>}
Simetria     == Permutations(NombresMC)
=============================================================================
