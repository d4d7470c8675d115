----------------------------- MODULE FreeBlocks -----------------------------
(***************************************************************************)
(* What the list of free big blocks promises to malloc() and free(): it is *)
(* a set of blocks; free() puts a block in, malloc() takes out a smallest  *)
(* block that is large enough, and while a block is listed nobody changes  *)
(* its size.  Module SkipList is the pointer structure that implements it; *)
(* module Malloc is its user.                                              *)
(***************************************************************************)
EXTENDS Integers, BestFit

CONSTANTS
  AllBlocks,  (* every block there can be                                  *)
  Requests    (* the sizes findbest() is asked for                         *)

VARIABLES
  size,       (* the size field of every existing block                    *)
  listed      (* the listed blocks                                         *)

TypeOK ==
  /\ DOMAIN size \subseteq AllBlocks
  /\ listed \subseteq DOMAIN size

Init == listed = {}

(* "Be sure you didn't change the size, or we won't be able to find it":   *)
(* listed blocks keep their size, others may come into being.              *)
SizesKept ==
  /\ DOMAIN size \subseteq DOMAIN size'
  /\ \A b \in listed \cup listed' : b \in DOMAIN size => size'[b] = size[b]

Insert(b) ==
  /\ b \in DOMAIN size' \ listed
  /\ listed' = listed \cup {b}

TakeBest(n) ==
  \E b \in FindBest(listed, size, n) : listed' = listed \ {b}

(* realloc() may take a block out for the copy and list the old one.       *)
Exchange(n, b) ==
  /\ b \notin listed
  /\ b \in DOMAIN size
  /\ \E c \in FindBest(listed, size, n) : listed' = (listed \ {c}) \cup {b}

Next ==
  /\ SizesKept
  /\ \/ \E b \in AllBlocks : Insert(b)
     \/ \E n \in Requests : TakeBest(n)
     \/ \E n \in Requests, b \in AllBlocks : Exchange(n, b)
     \/ listed' = listed

Spec == Init /\ [][Next]_<<size, listed>>
=============================================================================
