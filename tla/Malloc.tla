------------------------------- MODULE Malloc -------------------------------
(***************************************************************************)
(* The kernel heap: kernel/malloc.c on top of sbrk() of                    *)
(* kernel/util/memory.c.  The heap is one record, so that realloc(), which *)
(* calls malloc() and then free(), is the composition of the two:          *)
(*                                                                         *)
(*   brk    pbreak, the first byte sbrk() has not handed out               *)
(*   size   the size field of every header written so far: the bin number  *)
(*          of a small bin, the payload of a big one.  Its domain is the   *)
(*          set of addresses that hold BIN_MAGIC                           *)
(*   stack  the stack of free cells that starts at each header's head      *)
(*   bins   the page list of each small bin (malloc_bin_head)              *)
(*   skip   the big blocks in the skip list (module SkipList gives the     *)
(*          list itself)                                                   *)
(*   bigs   the big blocks in the order of their prev/next links;          *)
(*          malloc_newest_big is the last one                              *)
(*                                                                         *)
(* Addresses are the numbers the code computes with.  The kernel has one   *)
(* thread of control and no interrupt handler allocates, so each call is   *)
(* one step.                                                               *)
(***************************************************************************)
EXTENDS MallocSizes, Sequences, BestFit

CONSTANTS
  HeapBase,         (* the address the linker gives to global_mem          *)
  MEMORY_CAPACITY,  (* its length                                          *)
  Sizes,            (* the sizes malloc() and realloc() are called with    *)
  VallocSizes,      (* the sizes valloc() is called with                   *)
  CallocArgs        (* the <<nmemb, size>> pairs calloc() is called with   *)

(* Requests are small enough for size_t and for sbrk()'s int argument: the *)
(* wrap-around of larger ones is outside this module.                      *)
INT_MAX == 2147483647
Request == { n \in Nat : n <= INT_MAX - 4 * PAGE_SIZE }

ASSUME ConstantsOK ==
  /\ HeapBase \in Nat \ {0}
  /\ MEMORY_CAPACITY \in Nat
  /\ Sizes \subseteq Request
  /\ VallocSizes \subseteq Request
  /\ \A c \in CallocArgs : c[1] \in Nat /\ c[2] \in Nat /\ c[1] * c[2] \in Request

VARIABLES
  heap,    (* the allocator's memory                                       *)
  live,    (* what the caller holds: bytes requested, by pointer           *)
  status   (* "ok", or what stopped the kernel: "fault" for the write      *)
           (* through sbrk()'s (void* )-1, and the failed assertion:       *)
           (* "misaligned" (line 484), "badmagic" (607), "assert" (others) *)

vars == <<heap, live, status>>

HeapEnd == HeapBase + MEMORY_CAPACITY

Result(st, h, p) == [st |-> st, heap |-> h, ptr |-> p]

(* A failed assert() prints its condition as a string: {s} reads address 0 *)
(* and the kernel goes no further.                                         *)
Checked(assertion, r) == IF assertion THEN r ELSE [r EXCEPT !.st = "assert"]

IsBig(h, b) == h.size[b] > NUM_BINS

Extend(f, x, v) == [y \in DOMAIN f \cup {x} |-> IF y = x THEN v ELSE f[y]]

----------------------------------------------------------------------------
(* sbrk() gives out the next bytes, or (void* )-1, which no caller tests.  *)
SbrkFails(h, increment) == increment >= HeapEnd - h.brk

(* malloc_stack_pop: the assertions, and the heap without the top cell.    *)
PopAsserts(h, b) ==
  /\ h.stack[b] # <<>>
  /\ LET head == Head(h.stack[b])
     IN  /\ head > b
         /\ IF IsBig(h, b) THEN head < b + h.size[b]
            ELSE head < b + PAGE_SIZE /\ head > b + SMALL_HEADER - 1

(* malloc_stack_push likewise.                                             *)
PushAsserts(h, b, p) ==
  /\ p > b
  /\ IF IsBig(h, b) THEN p < b + h.size[b]
     ELSE /\ (p - SMALL_HEADER) % CellSize(h.size[b]) = 0
          /\ p < b + PAGE_SIZE

Push(h, b, p) == [h EXCEPT !.stack[b] = <<p>> \o @]

(* A fresh page for bin k: every cell on the stack, lowest first, the page *)
(* in front of the bin's list.                                             *)
FreshStack(b, k) == [i \in 1 .. Available(k) + 1 |-> Cell(b, k, i - 1)]

GrowSmall(h, k) ==
  [h EXCEPT !.brk   = @ + PAGE_SIZE,
            !.size  = Extend(@, h.brk, k),
            !.stack = Extend(@, h.brk, FreshStack(h.brk, k)),
            !.bins[k] = <<h.brk>> \o @]

(* Pop a cell of the first page of bin k; a page whose stack this empties  *)
(* is taken off the list (malloc_list_decouple drops the first page).      *)
PopCell(h, k) ==
  LET b    == Head(h.bins[k])
      rest == Tail(h.stack[b])
      bins == IF rest = <<>> THEN Tail(h.bins[k]) ELSE h.bins[k]
  IN  Checked(PopAsserts(h, b),
              Result("ok", [h EXCEPT !.stack[b] = rest, !.bins[k] = bins],
                     Head(h.stack[b])))

MallocSmall(h, k) ==
  IF h.bins[k] # <<>> THEN PopCell(h, k)
  ELSE IF SbrkFails(h, PAGE_SIZE) THEN Result("fault", h, NULL)
  ELSE PopCell(GrowSmall(h, k), k)

----------------------------------------------------------------------------
(* Mutants: all blocks of the size are unlinked; the stack is not popped.  *)
TakeBigAndPeers(h, b) ==
  Checked(PopAsserts(h, b),
          Result("ok", [h EXCEPT !.skip = { c \in @ : h.size[c] # h.size[b] },
                                 !.stack[b] = Tail(@)], Head(h.stack[b])))

TakeBigPeek(h, b) ==
  Checked(PopAsserts(h, b),
          Result("ok", [h EXCEPT !.skip = @ \ {b}], Head(h.stack[b])))

(* A free big block is deleted from the skip list and its only cell popped *)
TakeBig(h, b) ==
  Checked(PopAsserts(h, b),
          Result("ok", [h EXCEPT !.skip = @ \ {b}, !.stack[b] = Tail(@)],
                 Head(h.stack[b])))

(* Mutant: linked in front of the oldest block.                            *)
GrowBigInFront(h, n) ==
  [h EXCEPT !.brk   = @ + BigPages(n) * PAGE_SIZE,
            !.size  = Extend(@, h.brk, BigPayload(n)),
            !.stack = Extend(@, h.brk, <<>>),
            !.bigs  = <<h.brk>> \o @]

(* A new big block: linked behind malloc_newest_big, its stack empty.      *)
GrowBig(h, n) ==
  [h EXCEPT !.brk   = @ + BigPages(n) * PAGE_SIZE,
            !.size  = Extend(@, h.brk, BigPayload(n)),
            !.stack = Extend(@, h.brk, <<>>),
            !.bigs  = Append(@, h.brk)]

MallocBig(h, n) ==
  LET best == FindBest(h.skip, h.size, n)
  IN  IF best # {} THEN { TakeBig(h, b) : b \in best }
      ELSE IF SbrkFails(h, BigPages(n) * PAGE_SIZE) THEN { Result("fault", h, NULL) }
      ELSE IF h.brk % PAGE_SIZE # 0 
           THEN { Result("misaligned", [h EXCEPT !.brk = @ + BigPages(n) * PAGE_SIZE], NULL) }
      ELSE { Result("ok", GrowBig(h, n), h.brk + BIG_HEADER) }

(* The possible results of malloc(n) in heap h.                            *)
malloc(h, n) ==
  IF n = 0 THEN { Result("ok", h, NULL) }
  ELSE IF malloc_bin_size(n) < BIG_BIN THEN { MallocSmall(h, malloc_bin_size(n)) }
  ELSE MallocBig(h, n)

----------------------------------------------------------------------------
(* free() of a big block pushes its payload back and lists it.  The last   *)
(* conjuncts are malloc_skip_list_insert's.                                *)
FreeBigAsserts(h, b) ==
  /\ h.stack[b] = <<>>
  /\ (h.size[b] + BIG_HEADER) % PAGE_SIZE = 0
  /\ PushAsserts(h, b, b + BIG_HEADER)
  /\ b % PAGE_SIZE = 0
  /\ h.size[b] # 0

FreeBig(h, b) ==
  Checked(FreeBigAsserts(h, b),
          Result("ok", [Push(h, b, b + BIG_HEADER) EXCEPT !.skip = @ \cup {b}], NULL))

(* Mutants: the cell of a full page is dropped; the page is not listed     *)
(* again; it is listed again every time; the cell is listed for the page.  *)
FreeCellIfListed(h, b, p) ==
  Result("ok", IF h.stack[b] = <<>> THEN h ELSE Push(h, b, p), NULL)

FreeCellUnlisted(h, b, p) == Result("ok", Push(h, b, p), NULL)

FreeCellRelisted(h, b, p) ==
  Result("ok", [Push(h, b, p) EXCEPT !.bins[h.size[b]] = <<b>> \o @], NULL)

FreeCellAsPage(h, b, p) ==
  Result("ok", [Push(h, b, p) EXCEPT !.bins[h.size[b]] = <<p>> \o @], NULL)

(* free() of a cell pushes it back; the page of a stack that was empty     *)
(* returns to the front of its list first.                                 *)
FreeCell(h, b, p) ==
  LET k    == h.size[b]
      bins == IF h.stack[b] = <<>> THEN <<b>> \o h.bins[k] ELSE h.bins[k]
  IN  Checked(PushAsserts(h, b, p),
              Result("ok", [Push(h, b, p) EXCEPT !.bins[k] = bins], NULL))

(* A page without BIN_MAGIC is left alone, silently.                       *)
free(h, p) ==
  LET b == HeaderOf(p)
  IN  IF p = NULL \/ b \notin DOMAIN h.size THEN Result("ok", h, NULL)
      ELSE IF IsBig(h, b) THEN FreeBig(h, b)
      ELSE FreeCell(h, b, p)

----------------------------------------------------------------------------
(* valloc() asks for a page more and returns the page boundary inside.     *)
VallocSize(n) == n + PAGE_SIZE - BIG_HEADER

valloc(h, n) ==
  { IF r.st # "ok" THEN r
    ELSE Checked((r.ptr + PAGE_SIZE - BIG_HEADER) % PAGE_SIZE = 0,
                 [r EXCEPT !.ptr = @ + PAGE_SIZE - BIG_HEADER]) :
    r \in malloc(h, VallocSize(n)) }

(* Mutant: the header is counted in.                                       *)
OldSizeWithHeader(h, b) ==
  IF h.size[b] < BIG_BIN THEN CellSize(h.size[b]) ELSE h.size[b] + BIG_HEADER

(* The bytes realloc() believes the old block to have, and copies.         *)
OldSize(h, b) == IF h.size[b] < BIG_BIN THEN CellSize(h.size[b]) ELSE h.size[b]

(* realloc() finds the header by PageOf, not by free()'s HeaderOf.         *)
realloc(h, p, n) ==
  LET b == PageOf(p)
  IN  IF p = NULL THEN malloc(h, n)
      ELSE IF n = 0 THEN { free(h, p) }
      ELSE IF b \notin DOMAIN h.size THEN { Result("badmagic", h, NULL) }
      ELSE IF OldSize(h, b) >= n THEN { Result("ok", h, p) }
      ELSE { IF r.st # "ok" THEN r
             ELSE [free(r.heap, p) EXCEPT !.ptr = r.ptr] : r \in malloc(h, n) }

----------------------------------------------------------------------------
EmptyHeap ==
  [ brk   |-> HeapBase,
    size  |-> [b \in {} |-> 0],
    stack |-> [b \in {} |-> <<>>],
    bins  |-> [k \in 0 .. BIG_BIN - 1 |-> <<>>],
    skip  |-> {},
    bigs  |-> <<>> ]

Init ==
  /\ heap = EmptyHeap
  /\ live = [p \in {} |-> 0]
  /\ status = "ok"

(* The caller's books: a returned pointer owns what was asked for.         *)
Grant(L, p, n)  == IF p = NULL THEN L ELSE Extend(L, p, n)
Revoke(L, p)    == [q \in DOMAIN L \ {p} |-> L[q]]

(* A call returns r; unless it stopped the kernel the caller's books       *)
(* become L.                                                               *)
Return(r, L) ==
  /\ heap' = r.heap
  /\ status' = r.st
  /\ live' = IF r.st = "ok" THEN L ELSE live

Malloc(n) ==
  /\ status = "ok"
  /\ \E r \in malloc(heap, n) : Return(r, Grant(live, r.ptr, n))

Calloc(c) ==
  /\ status = "ok"
  /\ \E r \in malloc(heap, c[1] * c[2]) : Return(r, Grant(live, r.ptr, c[1] * c[2]))

Valloc(n) ==
  /\ status = "ok"
  /\ \E r \in valloc(heap, n) : Return(r, Grant(live, r.ptr, n))

(* The caller frees and reallocates only what it holds.                    *)
Free(p) ==
  /\ status = "ok"
  /\ LET r == free(heap, p) IN Return(r, Revoke(live, p))

Realloc(p, n) ==
  /\ status = "ok"
  /\ \E r \in realloc(heap, p, n) : Return(r, Grant(Revoke(live, p), r.ptr, n))

Next ==
  \/ \E n \in Sizes : Malloc(n)
  \/ \E c \in CallocArgs : Calloc(c)
  \/ \E n \in VallocSizes : Valloc(n)
  \/ \E p \in DOMAIN live : Free(p)
  \/ \E p \in DOMAIN live \cup {NULL}, n \in Sizes : Realloc(p, n)

Spec == Init /\ [][Next]_vars
=============================================================================
