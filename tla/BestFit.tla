------------------------------ MODULE BestFit -------------------------------
(***************************************************************************)
(* malloc_skip_list_findbest() as a function of the listed blocks: the     *)
(* blocks that may be returned for a request of n bytes.  Which one among  *)
(* blocks of equal size is left open.                                      *)
(***************************************************************************)
EXTENDS Integers

Fitting(S, size, n) == { b \in S : size[b] >= n }

FindBest(S, size, n) ==
  { b \in Fitting(S, size, n) : \A c \in Fitting(S, size, n) : size[b] <= size[c] }
=============================================================================
