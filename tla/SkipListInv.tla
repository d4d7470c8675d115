---------------------------- MODULE SkipListInv -----------------------------
(***************************************************************************)
(* What the skip list of module SkipList promises, and how it implements   *)
(* the set of free blocks of module FreeBlocks.                            *)
(***************************************************************************)
EXTENDS SkipList

(* The node k hops behind the head at level l; NULL stays NULL.            *)
Hop(l) ==
  LET hop[k \in Nat] ==
        IF k = 0 THEN HEAD
        ELSE IF hop[k-1] = NULL THEN NULL ELSE forward[hop[k-1]][l]
  IN  hop

(* The chain of a level: its blocks in order.  One hop more than there are *)
(* blocks must have come to the end.                                       *)
Hops       == 1 .. Cardinality(Block) + 1
OnLevel(l) == { Hop(l)[k] : k \in Hops } \ {NULL}
Listed     == OnLevel(0)

Ends(l) == Hop(l)[Cardinality(Block) + 1] = NULL

(* Where the block is in the chain, to compare the order of two levels.    *)
Before(l, b, c) ==
  \E j, k \in Hops : j < k /\ Hop(l)[j] = b /\ Hop(l)[k] = c

TypeOK ==
  /\ forward \in [Node -> [Levels -> Block \cup {NULL}]]
  /\ level \in Levels /\ lvl \in Levels
  /\ held \subseteq Block
  /\ pc \in {"idle", "find", "insert", "delete", "link", "walk", "unlink", "trim"}
  /\ value \in Block \cup {NULL} /\ want \in Nat
  /\ node \in Node
  /\ i \in -1 .. SKIP_MAX_LEVEL + 1
  /\ update \in [Levels -> Node \cup {NULL}]

----------------------------------------------------------------------------
(* Between two calls the structure is a skip list: every level's chain     *)
(* ends, is sorted by size and is part of the chain below it in the same   *)
(* order; a block is listed exactly while the caller does not hold it; the *)
(* levels above "level" are empty and "level" itself is not, unless it is  *)
(* 0.  In particular delete() has unlinked its block from every level, and *)
(* no chain runs into the stale pointers of a block that has left.         *)
WellFormed ==
  pc = "idle" =>
    /\ \A l \in Levels :
         /\ Ends(l)
         /\ \A b, c \in OnLevel(l) :
              Before(l, b, c) => Size[b] <= Size[c] /\ Before(0, b, c)
         /\ l > 0 => OnLevel(l) \subseteq OnLevel(l - 1)
         /\ l > level => OnLevel(l) = {}
    /\ level > 0 => OnLevel(level) # {}
    /\ Listed = Block \ held

(* "Find the node": delete() is only called with the first block of its    *)
(* size, so its search ends right in front of the block on every level     *)
(* where the block is; the walk along level 0 never moves and never runs   *)
(* off the end of the list.                                                *)
DeleteFindsNode ==
  /\ pc = "walk" => node = value
  /\ pc = "unlink" => \A l \in i .. level :
                        value \in OnLevel(l) => forward[update[l]][l] = value

(* No search stands on a block whose pointer at that level is stale, and   *)
(* every entry of update[] that is used was set in this call.              *)
Used == IF pc = "link" THEN i .. lvl ELSE IF pc = "unlink" THEN i .. level ELSE {}

NeverOnStale ==
  /\ Searching => node = HEAD \/ node \in OnLevel(i)
  /\ \A l \in Used : update[l] = HEAD \/ update[l] \in OnLevel(l)

(* Every call returns: all loops over the pointers end.                    *)
CallsReturn == pc # "idle" ~> pc = "idle"

(* The list is the set of free blocks of module FreeBlocks: insert() takes *)
(* effect when level 0 is linked, delete() when level 0 is unlinked.       *)
FreeSet == INSTANCE FreeBlocks
             WITH AllBlocks <- Block, size <- Size, listed <- Listed

ImplementsFreeBlocks == FreeSet!Spec
=============================================================================
