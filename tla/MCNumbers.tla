----------------------------- MODULE MCNumbers -----------------------------
(* Instances of Numbers for TLC: the bases the kernel asks for.            *)
EXTENDS NumbersInv

AllBases == {2, 8, 10, 16}
=============================================================================
