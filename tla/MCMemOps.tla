------------------------------ MODULE MCMemOps ------------------------------
(* Instances of MemOps for TLC.                                            *)
EXTENDS MemOps

(* Bytes are zero or one of two others, ints are -4 .. 3.                   *)
Bytes       == {0, 1, 2}

(* 4 is the first length that is negative as an int.                       *)
SomeLengths == {0, 1, 2, 3, 4}

(* 7 is -1 as an int, 5 is -3, and nine 1.                                  *)
SomeGrowths == {1, 3, 5, 7, 9}
=============================================================================
