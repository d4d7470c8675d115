----------------------------- MODULE MCSkipList -----------------------------
(* Instances of SkipList for TLC.                                          *)
EXTENDS SkipListInv, TLC

CONSTANTS b1, b2, b3

(* Two blocks of one size behind a smaller one.                            *)
ThreeBlocks == {b1, b2, b3}
ThreeSizes  == b1 :> 1 @@ b2 :> 2 @@ b3 :> 2

(* One request of either size, and one that nothing fits.                  *)
SomeRequests == {1, 2, 3}
=============================================================================
