------------------------------ MODULE HeapSpec ------------------------------
(***************************************************************************)
(* What malloc(), free(), realloc(), calloc() and valloc() promise their   *)
(* caller: every live pointer owns the bytes it was asked for, inside the  *)
(* arena, and no two of them share a byte.  Nothing is said of how the     *)
(* allocator finds the memory, nor when it gives up.                       *)
(***************************************************************************)
EXTENDS Integers

CONSTANTS
  Lo, Hi      (* the arena is [Lo, Hi)                                     *)

VARIABLE
  live        (* bytes requested, by live pointer                          *)

(* The n bytes at p lie in the arena and meet none of the live blocks of L *)
Disjoint(p, n, q, m) == p + n <= q \/ q + m <= p

Fits(p, n, L) ==
  /\ Lo < p /\ p + n <= Hi
  /\ \A q \in DOMAIN L : p # q /\ Disjoint(p, n, q, L[q])

Without(L, p) == [q \in DOMAIN L \ {p} |-> L[q]]
With(L, p, n) == [q \in DOMAIN L \cup {p} |-> IF q = p THEN n ELSE L[q]]

Init == live = [p \in {} |-> 0]

Allocate(p, n) == Fits(p, n, live) /\ live' = With(live, p, n)

Release(p) == live' = Without(live, p)

(* The block stays where it is and is granted more (or fewer) bytes.       *)
Resize(p, n) ==
  /\ Fits(p, n, Without(live, p))
  /\ live' = With(live, p, n)

(* The contents move to a block that is disjoint from the old one too: the *)
(* copy is made by memcpy().                                               *)
Move(p, q, n) ==
  /\ Fits(q, n, live)
  /\ live' = With(Without(live, p), q, n)

Next ==
  \/ \E p \in DOMAIN live : Release(p)
  \/ \E q \in DOMAIN live' :
       \/ Allocate(q, live'[q])
       \/ q \in DOMAIN live /\ Resize(q, live'[q])
       \/ \E p \in DOMAIN live : Move(p, q, live'[q])

Spec == Init /\ [][Next]_live

(* No two live blocks share a byte.                                        *)
NoOverlap ==
  \A p, q \in DOMAIN live : p # q => Disjoint(p, live[p], q, live[q])
=============================================================================
