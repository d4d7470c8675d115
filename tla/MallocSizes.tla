---------------------------- MODULE MallocSizes ----------------------------
(***************************************************************************)
(* The arithmetic of kernel/malloc.c: the constants of its binning         *)
(* strategy for a 64-bit build, the bin a request belongs to, the layout   *)
(* of the cells inside a small bin and the number of pages of a big bin.   *)
(* Everything here is a constant-level operator; module Malloc is built    *)
(* from it.                                                                *)
(***************************************************************************)
EXTENDS Integers

NUM_BINS         == 10
SMALLEST_BIN_LOG == 3
BIG_BIN          == NUM_BINS - 1
PAGE_SIZE        == 4096

(* sizeof(malloc_bin_header) and sizeof(malloc_big_bin_header): four and   *)
(* twelve eight-byte fields.                                               *)
SMALL_HEADER == 32
BIG_HEADER   == 96

(* The width of size_t.                                                    *)
SIZE_BITS == 64

NULL == 0

----------------------------------------------------------------------------
(* sizeof(size) * CHAR_BIT - __builtin_clzl(size): the position of the     *)
(* highest set bit, counted from one.                                      *)
BitLength(n) ==
  CHOOSE k \in 0 .. SIZE_BITS : n < 2^k /\ (k = 0 \/ 2^(k-1) <= n)

malloc_adjust_bin(bin) ==
  IF bin <= SMALLEST_BIN_LOG THEN 0
  ELSE IF bin - (SMALLEST_BIN_LOG + 1) > BIG_BIN THEN BIG_BIN
  ELSE bin - (SMALLEST_BIN_LOG + 1)

(* Mutant: no rounding up to the next power of two.                        *)
bin_size_rounded_down(size) == malloc_adjust_bin(BitLength(size))

(* size & (size - 1) is zero exactly when the highest set bit is the only  *)
(* one.                                                                    *)
malloc_bin_size(size) ==
  LET bits == BitLength(size)
  IN  malloc_adjust_bin(bits + (IF size = 2^(bits-1) THEN 0 ELSE 1))

----------------------------------------------------------------------------
(* Mutant: the header of a big block forgotten.                            *)
BigPagesBare(n) == n \div PAGE_SIZE + 1

(* A cell of bin k takes 2^(3+k) bytes; cell i of the page at b follows    *)
(* the header.  "available" is the index of the last cell.                 *)
CellSize(k)  == 2^(SMALLEST_BIN_LOG + k)
Available(k) == ((PAGE_SIZE - SMALL_HEADER) \div CellSize(k)) - 1
Cell(b, k, i) == b + SMALL_HEADER + i * CellSize(k)
Cells(b, k)   == { Cell(b, k, i) : i \in 0 .. Available(k) }

(* Pages requested for a big block, and the bytes left to its user.        *)
BigPages(n)   == (n + BIG_HEADER) \div PAGE_SIZE + 1
BigPayload(n) == BigPages(n) * PAGE_SIZE - BIG_HEADER

(* ptr & ~PAGE_MASK.                                                       *)
PageOf(a) == a - (a % PAGE_SIZE)

(* free() steps back one byte from a page-aligned pointer (the ones        *)
(* valloc() hands out) before it aligns it.                                *)
HeaderOf(p) == IF p % PAGE_SIZE = 0 THEN PageOf(p - 1) ELSE PageOf(p)

----------------------------------------------------------------------------
(* What the bin of a request should be, without bit tricks: the smallest   *)
(* bin whose cells hold it, or the big bin.                                *)
FittingBins(size) == { k \in 0 .. BIG_BIN - 1 : size <= CellSize(k) }

BinIsBestFit(size) ==
  IF FittingBins(size) = {}
  THEN malloc_bin_size(size) = BIG_BIN
  ELSE /\ malloc_bin_size(size) \in FittingBins(size)
       /\ \A k \in FittingBins(size) : malloc_bin_size(size) <= k
=============================================================================
