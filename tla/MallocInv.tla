----------------------------- MODULE MallocInv ------------------------------
(***************************************************************************)
(* What makes the heap of module Malloc correct: the inductive invariant   *)
(* of its data structures, the properties the runs check, and the two      *)
(* abstract specifications it implements.                                  *)
(***************************************************************************)
EXTENDS Malloc

(* Blocks are the addresses of headers; a block is a small bin's page or a *)
(* big block of several pages.                                             *)
Blocks(h) == DOMAIN h.size
Small(h)  == { b \in Blocks(h) : ~IsBig(h, b) }
Big(h)    == { b \in Blocks(h) : IsBig(h, b) }

Extent(h, b) == IF IsBig(h, b) THEN h.size[b] + BIG_HEADER ELSE PAGE_SIZE

CellsOf(h, b) == Cells(b, h.size[b])

Elems(s) == { s[i] : i \in DOMAIN s }

NoRepeats(s) == \A i, j \in DOMAIN s : s[i] = s[j] => i = j

(* The two pointers a big block may be handed out as: by malloc(), and by  *)
(* valloc(), one page above the header.                                    *)
VallocPtr(b) == b + PAGE_SIZE
Handles(b)   == { b + BIG_HEADER, VallocPtr(b) }

(* The bytes between a handle of b and the end of b.                       *)
Usable(h, b, p) == b + Extent(h, b) - p

----------------------------------------------------------------------------
(* The inductive invariant, over a heap value h and the caller's books L.  *)

HeapType(h) ==
  /\ h = [ brk |-> h.brk, size |-> h.size, stack |-> h.stack,
           bins |-> h.bins, skip |-> h.skip, bigs |-> h.bigs ]
  /\ h.brk \in Nat
  /\ h.size \in [Blocks(h) -> Nat]
  /\ h.stack \in [Blocks(h) -> Seq(Nat)]
  /\ h.bins \in [0 .. BIG_BIN - 1 -> Seq(Blocks(h))]
  /\ h.skip \subseteq Blocks(h)
  /\ h.bigs \in Seq(Blocks(h))

(* The arena is cut into blocks that start a whole number of pages above   *)
(* its base, end before the break and do not meet.                         *)
Layout(h) ==
  /\ HeapBase <= h.brk /\ h.brk <= HeapBase + MEMORY_CAPACITY
  /\ (h.brk - HeapBase) % PAGE_SIZE = 0
  /\ \A b \in Blocks(h) :
       /\ b \in Nat /\ HeapBase <= b
       /\ (b - HeapBase) % PAGE_SIZE = 0
       /\ b + Extent(h, b) <= h.brk
  /\ \A b, c \in Blocks(h) : b < c => b + Extent(h, b) <= c

(* A small page's stack holds cells of that page, each at most once, and   *)
(* the page is listed in its bin, once, exactly while the stack is not     *)
(* empty.                                                                  *)
SmallPages(h) ==
  /\ \A b \in Small(h) :
       /\ h.size[b] \in 0 .. BIG_BIN - 1
       /\ Elems(h.stack[b]) \subseteq CellsOf(h, b)
       /\ NoRepeats(h.stack[b])
  /\ \A k \in 0 .. BIG_BIN - 1 :
       /\ Elems(h.bins[k]) = { b \in Small(h) : h.size[b] = k /\ h.stack[b] # <<>> }
       /\ NoRepeats(h.bins[k])

(* A big block is a whole number of pages above a page boundary; it is in  *)
(* the skip list exactly while its payload is on its stack.                *)
BigBlocks(h) ==
  /\ \A b \in Big(h) :
       /\ (h.size[b] + BIG_HEADER) % PAGE_SIZE = 0
       /\ b % PAGE_SIZE = 0
       /\ h.stack[b] \in { <<>>, <<b + BIG_HEADER>> }
  /\ h.skip = { b \in Big(h) : h.stack[b] # <<>> }

(* Every live pointer is a cell that is not on its page's stack, or the    *)
(* handle of a big block that is not free, with room for what was asked.   *)
OwnedCell(h, L, b, p) ==
  /\ ~IsBig(h, b)
  /\ p \in CellsOf(h, b) \ Elems(h.stack[b])
  /\ L[p] <= CellSize(h.size[b])

OwnedHandle(h, L, b, p) ==
  /\ IsBig(h, b) /\ h.stack[b] = <<>>
  /\ p \in Handles(b)
  /\ L[p] <= Usable(h, b, p)

Owned(h, L) ==
  /\ L \in [DOMAIN L -> Nat \ {0}]
  /\ \A p \in DOMAIN L : \E b \in Blocks(h) : OwnedCell(h, L, b, p) \/ OwnedHandle(h, L, b, p)
  /\ \A b \in Big(h) : \A p, q \in DOMAIN L \cap Handles(b) : p = q

HeapInv(h, L) ==
  /\ HeapType(h)
  /\ Layout(h)
  /\ SmallPages(h)
  /\ BigBlocks(h)
  /\ Owned(h, L)

Stops == { "ok", "fault", "misaligned", "badmagic", "assert" }

(* The record written by malloc() and the caller's books are well formed.  *)
TypeOK == HeapType(heap) /\ status \in Stops

(* The allocator's structures are consistent with each other and with what *)
(* the caller holds, as long as the kernel runs.                           *)
Inv == status = "ok" => HeapInv(heap, live)

----------------------------------------------------------------------------
(* No assertion of malloc.c on the stacks and the skip list ever fails:    *)
(* the ones of malloc_stack_pop, malloc_stack_push, malloc_skip_list_insert*)
(* and malloc_skip_list_delete, free()'s on a big block's head, and        *)
(* valloc()'s.                                                             *)
AssertionsHold == status # "assert"

(* A caller who stays inside what it asked for cannot touch the            *)
(* allocator's memory: its bytes meet neither a header nor the link word   *)
(* of a free cell.                                                         *)
Meets(p, n, q, m) == p < q + m /\ q < p + n

HeaderSize(h, b) == IF IsBig(h, b) THEN BIG_HEADER ELSE SMALL_HEADER

MetadataApart ==
  status = "ok" =>
    \A p \in DOMAIN live : \A b \in Blocks(heap) :
      /\ ~Meets(p, live[p], b, HeaderSize(heap, b))
      /\ \A c \in Elems(heap.stack[b]) : ~Meets(p, live[p], c, 8)

(* No byte is lost: a cell the caller does not hold is on the stack of its *)
(* page, and a big block it does not hold is in the skip list.             *)
NothingLost ==
  status = "ok" =>
    /\ \A b \in Small(heap) : CellsOf(heap, b) \subseteq Elems(heap.stack[b]) \cup DOMAIN live
    /\ \A b \in Big(heap) : b \in heap.skip \/ Handles(b) \cap DOMAIN live # {}

(* realloc() copies OldSize bytes: they lie inside the old block and       *)
(* inside the new one, whichever blocks malloc() picks.                    *)
BlockOf(h, p) == CHOOSE b \in Blocks(h) : b < p /\ p <= b + Extent(h, b)

Room(h, p) == LET b == BlockOf(h, p)
              IN  IF IsBig(h, b) THEN Usable(h, b, p) ELSE CellSize(h.size[b])

CopyFits ==
  status = "ok" =>
    \A p \in DOMAIN live : PageOf(p) \in Blocks(heap) =>
      LET old == OldSize(heap, PageOf(p))
      IN  /\ old <= Room(heap, p)
          /\ \A n \in Sizes : n > old =>
               \A r \in malloc(heap, n) : r.st = "ok" => old <= Room(r.heap, r.ptr)

(* The heap grows, or the kernel runs out of it, only when no free memory  *)
(* fits: no unused cell of the bin asked for and no unused big block large *)
(* enough, counted from what the caller holds and not from the lists.      *)
UnusedCells(k) ==
  (UNION { CellsOf(heap, b) : b \in { c \in Small(heap) : heap.size[c] = k } }) \ DOMAIN live

UnusedBig(n) ==
  { b \in Big(heap) : heap.size[b] >= n /\ Handles(b) \cap DOMAIN live = {} }

GrowsOnlyWhenFull ==
  status = "ok" =>
    \A n \in Sizes \ {0} :
      LET k == malloc_bin_size(n)
      IN  (IF k < BIG_BIN THEN UnusedCells(k) # {} ELSE UnusedBig(n) # {})
            => \A r \in malloc(heap, n) : r.st = "ok" /\ r.heap.brk = heap.brk

(* The prev/next links run through the big blocks in the order of their    *)
(* addresses: "Link the block in physical memory".                         *)
PhysicalOrder ==
  status = "ok" =>
    /\ Elems(heap.bigs) = Big(heap)
    /\ \A i, j \in DOMAIN heap.bigs : i < j => heap.bigs[i] < heap.bigs[j]

(* The caller sees an allocator: module HeapSpec.                          *)
Contract == INSTANCE HeapSpec WITH Lo <- HeapBase, Hi <- HeapBase + MEMORY_CAPACITY

ImplementsContract == Contract!Spec

(* The skip list is used as module FreeBlocks says: no block is listed     *)
(* twice, and a listed block keeps its size.                               *)
Addresses == { HeapBase + i * PAGE_SIZE : i \in 0 .. MEMORY_CAPACITY \div PAGE_SIZE }
BigRequests == { n \in Sizes : n > 0 } \cup { c[1] * c[2] : c \in CallocArgs }
                 \cup { VallocSize(n) : n \in VallocSizes }

List == INSTANCE FreeBlocks
          WITH AllBlocks <- Addresses, Requests <- BigRequests,
               size <- heap.size, listed <- heap.skip

UsesListProperly == List!Spec

----------------------------------------------------------------------------
(* What the sources say of the heap and the code does not do.              *)

(* malloc.c:607: assert(0 && "Bad magic on realloc."), for a pointer the   *)
(* caller holds.                                                           *)
ReallocFindsHeader == status # "badmagic"

(* malloc.c:484: assert((size_t)bin_header % PAGE_SIZE == 0).              *)
BlocksAreAligned == status # "misaligned"
=============================================================================
