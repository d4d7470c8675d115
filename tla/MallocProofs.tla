---------------------------- MODULE MallocProofs ----------------------------
(***************************************************************************)
(* Proofs about the heap of module Malloc, for every arena, every set of   *)
(* request sizes and every order in which the caller uses them.            *)
(*                                                                         *)
(* The argument.  HeapInv(h, L) of module MallocInv relates the heap to    *)
(* the caller's books.  First come facts about the numbers (bins, cells)   *)
(* and about the sequences that stand for stacks and lists.  Then each     *)
(* piece of the code is shown to take a heap in HeapInv to a heap in       *)
(* HeapInv: growing by a page or a block, popping a cell or a block,       *)
(* pushing one back; malloc(), valloc(), free() and realloc() are composed *)
(* of these.  IInv adds the status, each action is shown to keep it and to *)
(* be a step of HeapSpec, and the first theorems follow.                   *)
(*                                                                         *)
(* The second half is about the free memory: that none of it is lost, that *)
(* the heap grows only if none of it fits, what realloc() may copy, the    *)
(* order of the big blocks' links, and the use malloc() and free() make of *)
(* the skip list.                                                          *)
(***************************************************************************)
EXTENDS MallocInv, Induction, TLAPS

(* 2^x for the exponents the bins use.                                     *)
PowerTable(x, y) ==
  /\ (x = 0 => y = 1) /\ (x = 1 => y = 2) /\ (x = 2 => y = 4) /\ (x = 3 => y = 8)
  /\ (x = 4 => y = 16) /\ (x = 5 => y = 32) /\ (x = 6 => y = 64)
  /\ (x = 7 => y = 128) /\ (x = 8 => y = 256) /\ (x = 9 => y = 512)
  /\ (x = 10 => y = 1024) /\ (x = 11 => y = 2048) /\ (x = 12 => y = 4096)

(* The powers of two up to a page.                                         *)
LEMMA Powers == ASSUME NEW x PROVE PowerTable(x, 2^x)
<1>0. x = 0 => 2^x = 1
  BY SMT
<1>1. x = 1 => 2^x = 2
  BY SMT
<1>2. x = 2 => 2^x = 4
  BY SMT
<1>3. x = 3 => 2^x = 8
  BY SMT
<1>4. x = 4 => 2^x = 16
  BY SMT
<1>5. x = 5 => 2^x = 32
  BY SMT
<1>6. x = 6 => 2^x = 64
  BY SMT
<1>7. x = 7 => 2^x = 128
  BY SMT
<1>8. x = 8 => 2^x = 256
  BY SMT
<1>9. x = 9 => 2^x = 512
  BY SMT
<1>10. x = 10 => 2^x = 1024
  BY SMT
<1>11. x = 11 => 2^x = 2048
  BY SMT
<1>12. x = 12 => 2^x = 4096
  BY SMT
<1> QED BY <1>0, <1>1, <1>2, <1>3, <1>4, <1>5, <1>6, <1>7, <1>8, <1>9, <1>10, <1>11, <1>12, SMT DEF PowerTable

(* The cell size of each small bin.                                        *)
LEMMA CellSizes ==
  /\ CellSize(0) = 8 /\ CellSize(1) = 16 /\ CellSize(2) = 32
  /\ CellSize(3) = 64 /\ CellSize(4) = 128 /\ CellSize(5) = 256
  /\ CellSize(6) = 512 /\ CellSize(7) = 1024 /\ CellSize(8) = 2048
  BY SMT DEF CellSize, SMALLEST_BIN_LOG

(* How many cells follow the first one in a page of each bin.              *)
LEMMA Availables ==
  /\ Available(0) = 507 /\ Available(1) = 253 /\ Available(2) = 126
  /\ Available(3) = 62 /\ Available(4) = 30 /\ Available(5) = 14
  /\ Available(6) = 6 /\ Available(7) = 2 /\ Available(8) = 0
  BY CellSizes, SMT DEF Available, PAGE_SIZE, SMALL_HEADER

(* A cell holds a link word, is at most half a page, and the header and    *)
(* all cells of a page fit into it.                                        *)
LEMMA BinBounds ==
  ASSUME NEW k \in 0 .. BIG_BIN - 1
  PROVE  /\ CellSize(k) \in Nat /\ 8 <= CellSize(k) /\ CellSize(k) <= 2048
         /\ Available(k) \in Nat
         /\ SMALL_HEADER + (Available(k) + 1) * CellSize(k) <= PAGE_SIZE
<1>1. k \in {0, 1, 2, 3, 4, 5, 6, 7, 8}
  BY SMT DEF BIG_BIN, NUM_BINS
<1> QED BY <1>1, CellSizes, Availables, SMT DEF PAGE_SIZE, SMALL_HEADER

(* Multiples of s are at least s apart.                                    *)
LEMMA CellsApart ==
  ASSUME NEW s \in Nat, NEW i \in Nat, NEW j \in Nat, i < j
  PROVE  i * s + s <= j * s /\ i * s \in Nat /\ j * s \in Nat
  OBVIOUS

(* Every cell lies between the header and the end of its page.             *)
LEMMA CellInPage ==
  ASSUME NEW k \in 0 .. BIG_BIN - 1, NEW b \in Nat, NEW p \in Cells(b, k)
  PROVE  p \in Nat /\ b + SMALL_HEADER <= p /\ p + CellSize(k) <= b + PAGE_SIZE
<1>1. PICK i \in 0 .. Available(k) : p = b + SMALL_HEADER + i * CellSize(k)
  BY DEF Cells, Cell
<1>2. i \in Nat /\ Available(k) + 1 \in Nat /\ i < Available(k) + 1
  BY BinBounds
<1>3. i * CellSize(k) + CellSize(k) <= (Available(k) + 1) * CellSize(k)
      /\ i * CellSize(k) \in Nat /\ (Available(k) + 1) * CellSize(k) \in Nat
  BY <1>2, BinBounds, CellsApart
<1> QED BY <1>1, <1>3, BinBounds DEF SMALL_HEADER, PAGE_SIZE

(* Two cells of a page do not meet.                                        *)
LEMMA CellsDisjoint ==
  ASSUME NEW k \in 0 .. BIG_BIN - 1, NEW b \in Nat, NEW p \in Cells(b, k), NEW q \in Cells(b, k)
  PROVE  p = q \/ p + CellSize(k) <= q \/ q + CellSize(k) <= p
<1>1. PICK i \in 0 .. Available(k) : p = b + SMALL_HEADER + i * CellSize(k)
  BY DEF Cells, Cell
<1>2. PICK j \in 0 .. Available(k) : q = b + SMALL_HEADER + j * CellSize(k)
  BY DEF Cells, Cell
<1>0. i \in Nat /\ j \in Nat /\ CellSize(k) \in Nat
  BY BinBounds
<1>3. i < j => i * CellSize(k) + CellSize(k) <= j * CellSize(k)
  BY <1>0, CellsApart
<1>4. j < i => j * CellSize(k) + CellSize(k) <= i * CellSize(k)
  BY <1>0, CellsApart
<1>5. i * CellSize(k) \in Nat /\ j * CellSize(k) \in Nat
  BY <1>0, SMT
<1>6. i < j \/ j < i \/ i = j
  BY <1>0
<1> QED BY <1>0, <1>1, <1>2, <1>3, <1>4, <1>5, <1>6 DEF SMALL_HEADER

(* malloc_stack_push's alignment assertion holds of the cells of an        *)
(* aligned page.                                                           *)
LEMMA CellAligned ==
  ASSUME NEW k \in 0 .. BIG_BIN - 1, NEW b \in Nat, b % PAGE_SIZE = 0, NEW p \in Cells(b, k)
  PROVE  (p - SMALL_HEADER) % CellSize(k) = 0
<1>1. PICK i \in 0 .. Available(k) : p = b + SMALL_HEADER + i * CellSize(k)
  BY DEF Cells, Cell
<1>2. k \in {0, 1, 2, 3, 4, 5, 6, 7, 8} /\ i \in Nat
  BY BinBounds, SMT DEF BIG_BIN, NUM_BINS
<1>3. i * CellSize(k) \in Nat
  BY <1>2, BinBounds, SMT
<1>4. p - SMALL_HEADER = b + i * CellSize(k)
  BY <1>1, <1>3, SMT DEF SMALL_HEADER
<1>5. /\ (b + i * 8) % 8 = 0 /\ (b + i * 16) % 16 = 0 /\ (b + i * 32) % 32 = 0
      /\ (b + i * 64) % 64 = 0 /\ (b + i * 128) % 128 = 0 /\ (b + i * 256) % 256 = 0
      /\ (b + i * 512) % 512 = 0 /\ (b + i * 1024) % 1024 = 0
      /\ (b + i * 2048) % 2048 = 0
  BY <1>2, SMT DEF PAGE_SIZE
<1>6. (b + i * CellSize(k)) % CellSize(k) = 0
  BY <1>2, <1>5, CellSizes
<1> QED BY <1>4, <1>6

(* The stack of a fresh page holds each of its cells once.                 *)
LEMMA FreshStackCells ==
  ASSUME NEW k \in 0 .. BIG_BIN - 1, NEW b \in Nat
  PROVE  /\ FreshStack(b, k) \in Seq(Nat)
         /\ FreshStack(b, k) # <<>>
         /\ Elems(FreshStack(b, k)) = Cells(b, k)
         /\ NoRepeats(FreshStack(b, k))
<1> DEFINE s == FreshStack(b, k)
<1>1. Available(k) \in Nat /\ CellSize(k) \in Nat /\ CellSize(k) > 0
  BY BinBounds
<1>2. \A i \in 0 .. Available(k) : Cell(b, k, i) \in Nat
  BY <1>1, SMT DEF Cell, SMALL_HEADER
<1>3. s \in Seq(Nat) /\ Len(s) = Available(k) + 1
  <2> DEFINE m == Available(k) + 1
  <2>1. m \in Nat /\ \A i \in 1 .. m : i - 1 \in 0 .. Available(k)
    BY <1>1
  <2>2. s = [i \in 1 .. m |-> s[i]] /\ \A i \in 1 .. m : s[i] \in Nat
    BY <1>2, <2>1 DEF FreshStack
  <2> HIDE DEF m, s
  <2>3. s \in Seq(Nat) /\ Len(s) = m
    BY <2>1, <2>2
  <2> QED BY <2>3 DEF m
<1>4. DOMAIN s = 1 .. Available(k) + 1 /\ \A i \in 1 .. Available(k) + 1 : s[i] = Cell(b, k, i - 1)
  BY DEF FreshStack
<1> HIDE DEF s
<1>5. Elems(s) = Cells(b, k)
  <2>1. Elems(s) \subseteq Cells(b, k)
    BY <1>1, <1>4 DEF Elems, Cells
  <2>2. \A i \in 0 .. Available(k) : i + 1 \in DOMAIN s /\ s[i + 1] = Cell(b, k, i)
    BY <1>1, <1>4
  <2>3. Cells(b, k) \subseteq Elems(s)
    BY <2>2 DEF Elems, Cells
  <2> QED BY <2>1, <2>3
<1>6. NoRepeats(s)
  <2> SUFFICES ASSUME NEW i \in DOMAIN s, NEW j \in DOMAIN s, i # j PROVE s[i] # s[j]
    BY DEF NoRepeats
  <2>1. i - 1 \in Nat /\ j - 1 \in Nat /\ (i - 1 < j - 1 \/ j - 1 < i - 1)
    BY <1>1, <1>4
  <2>2. (i - 1) * CellSize(k) # (j - 1) * CellSize(k)
        /\ (i - 1) * CellSize(k) \in Nat /\ (j - 1) * CellSize(k) \in Nat
    BY <1>1, <2>1, CellsApart
  <2> QED BY <1>4, <2>2 DEF Cell, SMALL_HEADER
<1>7. s # <<>>
  BY <1>1, <1>3
<1> QED BY <1>3, <1>5, <1>6, <1>7 DEF s

(* A request has a highest set bit.                                        *)
LEMMA HighestBit ==
  ASSUME NEW n \in Nat, n <= INT_MAX
  PROVE  \E k \in 0 .. SIZE_BITS : n < 2^k /\ (k = 0 \/ 2^(k-1) <= n)
<1> DEFINE Q(k) == n < 2^k /\ (k = 0 \/ 2^(k-1) <= n)
<1>1. \E k \in 0 .. 31 : Q(k)
  BY SMTT(60) DEF INT_MAX
<1> HIDE DEF Q
<1>2. \E k \in 0 .. SIZE_BITS : Q(k)
  BY <1>1, SMT DEF SIZE_BITS
<1> QED BY <1>2 DEF Q

(* BitLength(n), which is 64 less the leading zeros, bounds n.             *)
LEMMA BitLengthBounds ==
  ASSUME NEW n \in Nat, n <= INT_MAX
  PROVE  /\ BitLength(n) \in 0 .. SIZE_BITS /\ n < 2^BitLength(n)
         /\ BitLength(n) = 0 \/ 2^(BitLength(n)-1) <= n
<1> DEFINE S == 0 .. SIZE_BITS
<1> DEFINE Q(k) == n < 2^k /\ (k = 0 \/ 2^(k-1) <= n)
<1>1. \E k \in S : Q(k)
  BY HighestBit
<1>2. BitLength(n) = CHOOSE k \in S : Q(k)
  BY DEF BitLength
<1>3. BitLength(n) \in S /\ Q(BitLength(n))
  <2> HIDE DEF S, Q
  <2> QED BY <1>1, <1>2
<1> QED BY <1>3

(* malloc_bin_size() picks a bin whose cells hold the request, or the big  *)
(* bin.                                                                    *)
LEMMA BinFits ==
  ASSUME NEW n \in Nat, n <= INT_MAX
  PROVE  /\ malloc_bin_size(n) \in 0 .. BIG_BIN
         /\ malloc_bin_size(n) < BIG_BIN => n <= CellSize(malloc_bin_size(n))
<1> DEFINE b == BitLength(n)
<1>1. b \in 0 .. 64 /\ n < 2^b
  BY BitLengthBounds DEF SIZE_BITS
<1> HIDE DEF b
<1>2. malloc_bin_size(n) = malloc_adjust_bin(b + (IF n = 2^(b-1) THEN 0 ELSE 1))
  BY DEF malloc_bin_size, b
<1>3. CASE b > 12
  BY <1>1, <1>2, <1>3, SMT DEF malloc_adjust_bin, SMALLEST_BIN_LOG, BIG_BIN, NUM_BINS, CellSize
<1>4. CASE b \in 0 .. 12
  <2> DEFINE u == 2^b
  <2> DEFINE v == 2^(b-1)
  <2>2. PowerTable(b, u) /\ PowerTable(b - 1, v)
    BY Powers
  <2>3. b \in {0, 1, 2, 3, 4, 5, 6, 7, 8, 9, 10, 11, 12} /\ n < u
        /\ malloc_bin_size(n) = malloc_adjust_bin(b + (IF n = v THEN 0 ELSE 1))
    BY <1>1, <1>2, <1>4
  <2> HIDE DEF u, v
  <2> QED BY <2>2, <2>3, CellSizes, SMT
          DEF PowerTable, malloc_adjust_bin, SMALLEST_BIN_LOG, BIG_BIN, NUM_BINS
<1> QED BY <1>1, <1>3, <1>4

(* malloc.c: malloc_bin_size().  The bit tricks, for every size that is    *)
(* asked for: the smallest bin whose cells hold it, and the big bin only   *)
(* for what no cell holds.                                                 *)
THEOREM SmallestBinThatFits == \A n \in 1 .. INT_MAX : BinIsBestFit(n)
<1> SUFFICES ASSUME NEW n \in Nat, n >= 1, n <= INT_MAX PROVE BinIsBestFit(n)
  OBVIOUS
<1> DEFINE b == BitLength(n)
           bin == malloc_bin_size(n)
<1>1. b \in 0 .. 64 /\ n < 2^b /\ (b = 0 \/ 2^(b-1) <= n)
  BY BitLengthBounds DEF SIZE_BITS
<1>2. bin = malloc_adjust_bin(b + (IF n = 2^(b-1) THEN 0 ELSE 1))
  BY DEF malloc_bin_size
<1>3. BIG_BIN = 9 /\ FittingBins(n) = {k \in 0 .. 8 : n <= CellSize(k)}
  BY DEF BIG_BIN, NUM_BINS, FittingBins
<1> HIDE DEF b, bin
<1>4. CASE b > 12
  <2>1. 2^12 = 4096  BY SMT
  <2>2. 2^(b-1) >= 2^12
    <3>1. b - 1 \in Nat /\ 12 \in Nat /\ b - 1 >= 12  BY <1>1, <1>4
    <3> QED  BY <3>1, PowersGrow
  <2>3. 2^(b-1) \in Nat
    <3>1. b - 1 \in Nat  BY <1>1, <1>4
    <3> QED  BY <3>1, TwoPower
  <2>4. n >= 4096  BY <1>1, <1>4, <2>1, <2>2, <2>3
  <2>5. FittingBins(n) = {}  BY <1>3, <2>4, CellSizes
  <2>6. bin = BIG_BIN
    BY <1>1, <1>2, <1>4 DEF malloc_adjust_bin, SMALLEST_BIN_LOG, BIG_BIN, NUM_BINS
  <2> QED  BY <2>5, <2>6 DEF BinIsBestFit, bin
<1>5. CASE b \in 0 .. 12
  <2> DEFINE u == 2^b
             v == 2^(b-1)
  <2>1. PowerTable(b, u) /\ PowerTable(b - 1, v)  BY Powers
  <2>2. /\ b \in {0, 1, 2, 3, 4, 5, 6, 7, 8, 9, 10, 11, 12} /\ n < u /\ (b = 0 \/ v <= n)
        /\ bin = malloc_adjust_bin(b + (IF n = v THEN 0 ELSE 1))
    BY <1>1, <1>2, <1>5
  <2> HIDE DEF u, v
  <2>3. b # 0  BY <2>1, <2>2 DEF PowerTable
  <2>4. bin \in 0 .. 9 /\ \A k \in 0 .. 8 : n <= CellSize(k) <=> bin <= k
    <3>1. ASSUME NEW k \in 0 .. 8  PROVE n <= CellSize(k) <=> bin <= k
      <4>1. k \in {0, 1, 2, 3, 4, 5, 6, 7, 8}  OBVIOUS
      <4> QED  BY <2>1, <2>2, <2>3, <4>1, CellSizes, SMTT(60)
               DEF PowerTable, malloc_adjust_bin, SMALLEST_BIN_LOG, BIG_BIN, NUM_BINS
    <3>2. bin \in 0 .. 9
      BY <2>2, <2>3 DEF malloc_adjust_bin, SMALLEST_BIN_LOG, BIG_BIN, NUM_BINS
    <3> QED  BY <3>1, <3>2
  <2>5. CASE bin = 9
    <3>1. FittingBins(n) = {}  BY <1>3, <2>4, <2>5
    <3> QED  BY <1>3, <2>5, <3>1 DEF BinIsBestFit, bin
  <2>6. CASE bin # 9
    <3>1. bin \in 0 .. 8 /\ bin \in FittingBins(n)  BY <1>3, <2>4, <2>6
    <3>2. \A k \in FittingBins(n) : bin <= k  BY <1>3, <2>4
    <3> QED  BY <3>1, <3>2 DEF BinIsBestFit, bin
  <2> QED  BY <2>5, <2>6
<1> QED  BY <1>1, <1>4, <1>5

(* What pushing an element in front does to a sequence.                    *)
LEMMA Consed ==
  ASSUME NEW S, NEW s \in Seq(S), NEW x \in S
  PROVE  /\ <<x>> \o s \in Seq(S)
         /\ <<x>> \o s # <<>>
         /\ Head(<<x>> \o s) = x /\ Tail(<<x>> \o s) = s
         /\ Elems(<<x>> \o s) = Elems(s) \cup {x}
         /\ NoRepeats(s) /\ x \notin Elems(s) => NoRepeats(<<x>> \o s)
<1> DEFINE t == <<x>> \o s
<1>1. t \in Seq(S) /\ Len(t) = Len(s) + 1 /\ t[1] = x /\ \A i \in 1 .. Len(s) : t[i+1] = s[i]
  OBVIOUS
<1>2. t # <<>> /\ Head(t) = x /\ Tail(t) = s
  OBVIOUS
<1>3. \A i \in DOMAIN t : i = 1 \/ (i - 1 \in DOMAIN s /\ t[i] = s[i-1])
  BY <1>1
<1> HIDE DEF t
<1>4. Elems(t) = Elems(s) \cup {x}
  <2>1. Elems(t) \subseteq Elems(s) \cup {x}
    BY <1>1, <1>3 DEF Elems
  <2>2. x \in Elems(t)
    BY <1>1 DEF Elems
  <2>3. \A i \in DOMAIN s : s[i] = t[i+1] /\ i + 1 \in DOMAIN t
    BY <1>1
  <2>4. Elems(s) \subseteq Elems(t)
    BY <2>3 DEF Elems
  <2> QED BY <2>1, <2>2, <2>4
<1>5. ASSUME NoRepeats(s), x \notin Elems(s) PROVE NoRepeats(t)
  BY <1>1, <1>3, <1>5, SMT DEF NoRepeats, Elems
<1> QED BY <1>1, <1>2, <1>4, <1>5 DEF t

(* What popping the first element does to a sequence.                      *)
LEMMA Popped ==
  ASSUME NEW S, NEW s \in Seq(S), s # <<>>
  PROVE  /\ Head(s) \in S /\ Tail(s) \in Seq(S)
         /\ Elems(s) = Elems(Tail(s)) \cup {Head(s)}
         /\ NoRepeats(s) => NoRepeats(Tail(s)) /\ Head(s) \notin Elems(Tail(s))
<1> DEFINE t == Tail(s)
<1>1. Head(s) \in S /\ t \in Seq(S) /\ Len(s) > 0 /\ Head(s) = s[1]
  OBVIOUS
<1>2. Len(t) = Len(s) - 1 /\ \A i \in DOMAIN t : t[i] = s[i+1] /\ i + 1 \in DOMAIN s
  OBVIOUS
<1>3. \A i \in DOMAIN s : i = 1 \/ (i - 1 \in DOMAIN t /\ s[i] = t[i-1])
  BY <1>1, <1>2
<1>4. 1 \in DOMAIN s
  BY <1>1
<1> HIDE DEF t
<1>5. Elems(s) = Elems(t) \cup {Head(s)}
  <2>1. Elems(s) \subseteq Elems(t) \cup {Head(s)}
    BY <1>1, <1>3 DEF Elems
  <2>2. Elems(t) \subseteq Elems(s)
    BY <1>2 DEF Elems
  <2> QED BY <2>1, <2>2, <1>1, <1>4 DEF Elems
<1>6. ASSUME NoRepeats(s) PROVE NoRepeats(t) /\ Head(s) \notin Elems(t)
  BY <1>1, <1>2, <1>4, <1>6, SMT DEF NoRepeats, Elems
<1> QED BY <1>1, <1>5, <1>6 DEF t

----------------------------------------------------------------------------
(* What HeapInv says of one block, gathered for the lemmas below.          *)
LEMMA BlockFacts ==
  ASSUME NEW h, NEW L, HeapInv(h, L), NEW b \in Blocks(h)
  PROVE  /\ b \in Nat /\ h.size[b] \in Nat /\ h.stack[b] \in Seq(Nat)
         /\ h.brk \in Nat /\ HeapBase <= b
         /\ Extent(h, b) \in Nat /\ Extent(h, b) >= 1 /\ b + Extent(h, b) <= h.brk
         /\ b # h.brk
         /\ ~IsBig(h, b) => h.size[b] \in 0 .. BIG_BIN - 1 /\ Extent(h, b) = PAGE_SIZE
         /\ IsBig(h, b) => /\ Extent(h, b) = h.size[b] + BIG_HEADER
                           /\ h.size[b] >= PAGE_SIZE - BIG_HEADER
                           /\ b % PAGE_SIZE = 0
                           /\ h.stack[b] = <<>> \/ h.stack[b] = <<b + BIG_HEADER>>
<1>1. b \in Nat /\ h.size[b] \in Nat /\ h.stack[b] \in Seq(Nat) /\ h.brk \in Nat
      /\ HeapBase <= b /\ b + Extent(h, b) <= h.brk
  BY DEF HeapInv, HeapType, Layout
<1>2. IsBig(h, b) => /\ (h.size[b] + BIG_HEADER) % PAGE_SIZE = 0
                     /\ b % PAGE_SIZE = 0
                     /\ h.stack[b] = <<>> \/ h.stack[b] = <<b + BIG_HEADER>>
  BY DEF HeapInv, BigBlocks, Big
<1>3. ~IsBig(h, b) => h.size[b] \in 0 .. BIG_BIN - 1
  BY DEF HeapInv, SmallPages, Small
<1>4. IsBig(h, b) => h.size[b] >= PAGE_SIZE - BIG_HEADER
  BY <1>1, <1>2, SMT DEF PAGE_SIZE, BIG_HEADER
<1>5. /\ ~IsBig(h, b) => Extent(h, b) = PAGE_SIZE
      /\ IsBig(h, b) => Extent(h, b) = h.size[b] + BIG_HEADER
  BY DEF Extent
<1>6. Extent(h, b) \in Nat /\ Extent(h, b) >= 1
  BY <1>1, <1>5, SMT DEF PAGE_SIZE, BIG_HEADER
<1>7. b # h.brk
  BY <1>1, <1>6, SMT
<1> QED BY <1>1, <1>2, <1>3, <1>4, <1>5, <1>6, <1>7

(* A fresh page keeps the invariant.                                       *)
LEMMA GrowSmallInv ==
  ASSUME NEW h, NEW L, HeapInv(h, L), NEW k \in 0 .. BIG_BIN - 1,
         ~SbrkFails(h, PAGE_SIZE), h.bins[k] = <<>>
  PROVE  HeapInv(GrowSmall(h, k), L) /\ GrowSmall(h, k).bins[k] # <<>>
<1> DEFINE g == GrowSmall(h, k)
<1> DEFINE b0 == h.brk
<1>1. b0 \in Nat /\ b0 \notin Blocks(h)
  BY BlockFacts DEF HeapInv, HeapType
<1>2. /\ h = [ brk |-> h.brk, size |-> h.size, stack |-> h.stack,
               bins |-> h.bins, skip |-> h.skip, bigs |-> h.bigs ]
      /\ h.size \in [Blocks(h) -> Nat]
      /\ h.stack \in [Blocks(h) -> Seq(Nat)]
      /\ h.bins \in [0 .. BIG_BIN - 1 -> Seq(Blocks(h))]
      /\ h.skip \subseteq Blocks(h) /\ h.bigs \in Seq(Blocks(h))
  BY DEF HeapInv, HeapType
<1>3. /\ g = [ brk |-> g.brk, size |-> g.size, stack |-> g.stack,
               bins |-> g.bins, skip |-> g.skip, bigs |-> g.bigs ]
      /\ g.brk = b0 + PAGE_SIZE
      /\ g.size = Extend(h.size, b0, k)
      /\ g.stack = Extend(h.stack, b0, FreshStack(b0, k))
      /\ g.bins = [h.bins EXCEPT ![k] = <<b0>> \o @]
      /\ g.skip = h.skip /\ g.bigs = h.bigs
  <2> DEFINE s0 == Extend(h.size, b0, k)
  <2> DEFINE t0 == Extend(h.stack, b0, FreshStack(b0, k))
  <2> DEFINE n0 == [h.bins EXCEPT ![k] = <<b0>> \o @]
  <2>1. g = [h EXCEPT !.brk = @ + PAGE_SIZE, !.size = s0, !.stack = t0, !.bins = n0]
    BY <1>2 DEF GrowSmall
  <2> HIDE DEF s0, t0, n0
  <2>2. g = [ brk |-> b0 + PAGE_SIZE, size |-> s0, stack |-> t0,
              bins |-> n0, skip |-> h.skip, bigs |-> h.bigs ]
    BY <1>2, <2>1
  <2> QED BY <2>2 DEF s0, t0, n0
<1> HIDE DEF g
<1>4. /\ Blocks(g) = Blocks(h) \cup {b0}
      /\ g.size[b0] = k /\ g.stack[b0] = FreshStack(b0, k)
      /\ \A b \in Blocks(h) : g.size[b] = h.size[b] /\ g.stack[b] = h.stack[b]
  BY <1>1, <1>2, <1>3 DEF Extend, Blocks
<1>5. ~IsBig(g, b0) /\ \A b \in Blocks(h) : IsBig(g, b) = IsBig(h, b)
  BY <1>4, SMT DEF IsBig, BIG_BIN, NUM_BINS
<1>6. g.bins[k] = <<b0>> /\ \A j \in 0 .. BIG_BIN - 1 : j # k => g.bins[j] = h.bins[j]
  <2>1. <<b0>> \o h.bins[k] = <<b0>>
    BY <1>1
  <2> QED BY <2>1, <1>2, <1>3
<1>7. /\ FreshStack(b0, k) \in Seq(Nat) /\ FreshStack(b0, k) # <<>>
      /\ Elems(FreshStack(b0, k)) = Cells(b0, k) /\ NoRepeats(FreshStack(b0, k))
  BY <1>1, FreshStackCells
<1>8. Extent(g, b0) = PAGE_SIZE /\ \A b \in Blocks(h) : Extent(g, b) = Extent(h, b)
  BY <1>4, <1>5 DEF Extent
<1>9. HeapType(g)
  <2>1. g.size \in [Blocks(g) -> Nat] /\ g.stack \in [Blocks(g) -> Seq(Nat)]
    BY <1>1, <1>2, <1>3, <1>7 DEF Extend, Blocks
  <2>2. g.brk \in Nat
    BY <1>1, <1>3 DEF PAGE_SIZE
  <2>3. g.bins \in [0 .. BIG_BIN - 1 -> Seq(Blocks(g))]
    BY <1>2, <1>3, <1>4, <1>6
  <2>4. g.skip \subseteq Blocks(g) /\ g.bigs \in Seq(Blocks(g))
    BY <1>2, <1>3, <1>4
  <2> QED BY <1>3, <2>1, <2>2, <2>3, <2>4 DEF HeapType
<1>10. Layout(g)
  <2>1. HeapBase <= g.brk /\ g.brk <= HeapBase + MEMORY_CAPACITY
    <3>1. ~(PAGE_SIZE >= HeapBase + MEMORY_CAPACITY - b0) /\ HeapBase <= b0
      BY <1>1, ConstantsOK, SMTT(30) DEF SbrkFails, HeapEnd, PAGE_SIZE, HeapInv, Layout
    <3> QED BY <3>1, <1>1, <1>3, ConstantsOK, SMT DEF PAGE_SIZE
  <2>2. (b0 - HeapBase) % PAGE_SIZE = 0 /\ (g.brk - HeapBase) % PAGE_SIZE = 0
    BY <1>1, <1>3, ConstantsOK, SMT DEF PAGE_SIZE, HeapInv, Layout
  <2>3. \A b \in Blocks(h) : b + Extent(h, b) <= b0 /\ b0 <= g.brk /\ b < b0
    BY <1>1, <1>3, BlockFacts, SMT DEF PAGE_SIZE
  <2>4. \A b \in Blocks(g) :
          /\ b \in Nat /\ HeapBase <= b
          /\ (b - HeapBase) % PAGE_SIZE = 0
          /\ b + Extent(g, b) <= g.brk
    <3>1. CASE TRUE
      <4> TAKE b \in Blocks(g)
      <4>1. CASE b = b0
        BY <4>1, <1>1, <1>3, <1>8, <2>2, ConstantsOK, SMT DEF PAGE_SIZE, HeapInv, Layout
      <4>2. CASE b \in Blocks(h)
        BY <4>2, <1>1, <1>3, <1>8, BlockFacts, SMT DEF PAGE_SIZE, HeapInv, Layout
      <4> QED BY <4>1, <4>2, <1>4
    <3> QED BY <3>1
  <2>5. \A b, c \in Blocks(g) : b < c => b + Extent(g, b) <= c
    BY <1>1, <1>4, <1>8, <2>3, BlockFacts, SMT DEF HeapInv, Layout
  <2> QED BY <2>1, <2>2, <2>4, <2>5 DEF Layout
<1>11. Small(g) = Small(h) \cup {b0} /\ Big(g) = Big(h) /\ b0 \notin Big(h)
  BY <1>1, <1>4, <1>5 DEF Small, Big
<1>12. SmallPages(g)
  <2>1. \A b \in Small(g) :
          /\ g.size[b] \in 0 .. BIG_BIN - 1
          /\ Elems(g.stack[b]) \subseteq CellsOf(g, b)
          /\ NoRepeats(g.stack[b])
    <3> TAKE b \in Small(g)
    <3>1. CASE b = b0
      BY <3>1, <1>4, <1>7 DEF CellsOf
    <3>2. CASE b \in Small(h)
      BY <3>2, <1>4 DEF HeapInv, SmallPages, Small, CellsOf
    <3> QED BY <3>1, <3>2, <1>11
  <2>2. ASSUME NEW j \in 0 .. BIG_BIN - 1
        PROVE  /\ Elems(g.bins[j]) = { b \in Small(g) : g.size[b] = j /\ g.stack[b] # <<>> }
               /\ NoRepeats(g.bins[j])
    <3>1. { b \in Small(g) : g.size[b] = j /\ g.stack[b] # <<>> } =
          { b \in Small(h) : h.size[b] = j /\ h.stack[b] # <<>> } \cup (IF j = k THEN {b0} ELSE {})
      BY <1>4, <1>7, <1>11 DEF Small
    <3>2. Elems(h.bins[j]) = { b \in Small(h) : h.size[b] = j /\ h.stack[b] # <<>> }
          /\ NoRepeats(h.bins[j])
      BY DEF HeapInv, SmallPages
    <3>3. Elems(<<b0>>) = {b0} /\ NoRepeats(<<b0>>) /\ Elems(<<>>) = {}
      BY DEF Elems, NoRepeats
    <3> QED BY <1>6, <3>1, <3>2, <3>3
  <2> QED BY <2>1, <2>2 DEF SmallPages
<1>13. BigBlocks(g)
  BY <1>3, <1>4, <1>11 DEF HeapInv, BigBlocks, Big
<1>14. Owned(g, L)
  <2>1. ASSUME NEW p \in DOMAIN L, NEW b \in Blocks(h)
        PROVE  /\ OwnedCell(h, L, b, p) => OwnedCell(g, L, b, p)
               /\ OwnedHandle(h, L, b, p) => OwnedHandle(g, L, b, p)
    BY <1>4, <1>5, <1>8 DEF OwnedCell, OwnedHandle, CellsOf, Usable
  <2> QED BY <2>1, <1>4, <1>11 DEF HeapInv, Owned
<1>15. g.bins[k] # <<>>
  BY <1>6
<1> QED BY <1>9, <1>10, <1>12, <1>13, <1>14, <1>15 DEF HeapInv, g

(* A pointer strictly inside a block is inside no other one, and is not    *)
(* the end of another one either.                                          *)
LEMMA OneBlock ==
  ASSUME NEW h, NEW L, HeapInv(h, L), NEW b \in Blocks(h), NEW c \in Blocks(h), NEW p \in Nat,
         b < p, p < b + Extent(h, b), c < p, p <= c + Extent(h, c)
  PROVE  b = c
<1>1. b < c => b + Extent(h, b) <= c
  BY DEF HeapInv, Layout
<1>2. c < b => c + Extent(h, c) <= b
  BY DEF HeapInv, Layout
<1>3. b \in Nat /\ c \in Nat /\ Extent(h, b) \in Nat /\ Extent(h, c) \in Nat
  BY BlockFacts
<1> QED BY <1>1, <1>2, <1>3, SMT

(* Where the cells of a small page are, and the two handles of a big one.  *)
LEMMA CellInside ==
  ASSUME NEW h, NEW L, HeapInv(h, L), NEW b \in Small(h), NEW p \in CellsOf(h, b)
  PROVE  /\ p \in Nat /\ b + SMALL_HEADER <= p /\ b < p
         /\ p + CellSize(h.size[b]) <= b + Extent(h, b) /\ p < b + Extent(h, b)
<1>1. b \in Blocks(h) /\ ~IsBig(h, b)
  BY DEF Small
<1>2. b \in Nat /\ h.size[b] \in 0 .. BIG_BIN - 1 /\ Extent(h, b) = PAGE_SIZE
  BY <1>1, BlockFacts
<1>3. p \in Nat /\ b + SMALL_HEADER <= p /\ p + CellSize(h.size[b]) <= b + PAGE_SIZE
  BY <1>2, CellInPage DEF CellsOf
<1>4. CellSize(h.size[b]) \in Nat /\ CellSize(h.size[b]) >= 8
  BY <1>2, BinBounds
<1> QED BY <1>2, <1>3, <1>4, SMT DEF SMALL_HEADER, PAGE_SIZE

(* The two handles of a big block lie behind its header and inside the     *)
(* block, or at its end.                                                   *)
LEMMA HandleInside ==
  ASSUME NEW h, NEW L, HeapInv(h, L), NEW b \in Big(h), NEW p \in Handles(b)
  PROVE  p \in Nat /\ b + BIG_HEADER <= p /\ b < p /\ p <= b + Extent(h, b)
<1>1. b \in Blocks(h) /\ IsBig(h, b)
  BY DEF Big
<1>2. /\ b \in Nat /\ h.size[b] \in Nat /\ Extent(h, b) = h.size[b] + BIG_HEADER
      /\ h.size[b] >= PAGE_SIZE - BIG_HEADER
  BY <1>1, BlockFacts
<1>3. p = b + BIG_HEADER \/ p = b + PAGE_SIZE
  BY DEF Handles, VallocPtr
<1> QED BY <1>2, <1>3, SMT DEF PAGE_SIZE, BIG_HEADER

(* The bytes of a live pointer lie in its block, behind the header.        *)
LEMMA OwnedInside ==
  ASSUME NEW h, NEW L, HeapInv(h, L), NEW b \in Blocks(h), NEW p \in DOMAIN L,
         OwnedCell(h, L, b, p) \/ OwnedHandle(h, L, b, p)
  PROVE  /\ p \in Nat /\ L[p] \in Nat /\ L[p] > 0 /\ b < p
         /\ b + HeaderSize(h, b) <= p
         /\ p + L[p] <= b + Extent(h, b) /\ p < b + Extent(h, b)
<1>1. L[p] \in Nat /\ L[p] > 0
  BY DEF HeapInv, Owned
<1>2. CASE OwnedCell(h, L, b, p)
  <2>1. b \in Small(h) /\ p \in CellsOf(h, b) /\ L[p] <= CellSize(h.size[b])
    BY <1>2 DEF OwnedCell, Small
  <2>2. CellSize(h.size[b]) \in Nat /\ Extent(h, b) \in Nat /\ b \in Nat
    BY <2>1, BinBounds, BlockFacts DEF Small
  <2> QED BY <1>1, <2>1, <2>2, CellInside, SMT DEF HeaderSize, Small
<1>3. CASE OwnedHandle(h, L, b, p)
  <2>1. b \in Big(h) /\ p \in Handles(b) /\ L[p] <= b + Extent(h, b) - p
    BY <1>3 DEF OwnedHandle, Big, Usable
  <2>2. Extent(h, b) \in Nat /\ b \in Nat
    BY BlockFacts
  <2>3. p \in Nat /\ b + BIG_HEADER <= p /\ b < p
    BY <2>1, HandleInside
  <2> QED BY <1>1, <2>1, <2>2, <2>3, SMT DEF HeaderSize, Big
<1> QED BY <1>2, <1>3

(* A pointer strictly inside b that the caller holds is b's.               *)
LEMMA OwnerIs ==
  ASSUME NEW h, NEW L, HeapInv(h, L), NEW b \in Blocks(h), NEW p \in DOMAIN L,
         p \in Nat, b < p, p < b + Extent(h, b)
  PROVE  OwnedCell(h, L, b, p) \/ OwnedHandle(h, L, b, p)
<1>1. PICK c \in Blocks(h) : OwnedCell(h, L, c, p) \/ OwnedHandle(h, L, c, p)
  BY DEF HeapInv, Owned
<1>2. c < p /\ p < c + Extent(h, c)
  BY <1>1, OwnedInside
<1>3. c \in Nat /\ Extent(h, c) \in Nat
  BY BlockFacts
<1>4. b = c
  BY <1>2, <1>3, OneBlock, SMT
<1> QED BY <1>1, <1>4

(* malloc() from a listed page: the assertions of malloc_stack_pop hold,   *)
(* the cell is nobody's, and it becomes the caller's.                      *)
LEMMA PopCellInv ==
  ASSUME NEW h, NEW L, HeapInv(h, L), NEW k \in 0 .. BIG_BIN - 1, h.bins[k] # <<>>,
         NEW n \in Nat \ {0}, n <= CellSize(k)
  PROVE  LET r == PopCell(h, k)
         IN  /\ r.st = "ok" /\ r.ptr \in Nat \ {0} /\ r.ptr \notin DOMAIN L
             /\ HeapInv(r.heap, Extend(L, r.ptr, n))
             /\ r.heap.brk = h.brk
<1> DEFINE b == Head(h.bins[k])
<1> DEFINE p == Head(h.stack[b])
<1> DEFINE rest == Tail(h.stack[b])
<1> DEFINE bins == IF rest = <<>> THEN Tail(h.bins[k]) ELSE h.bins[k]
<1> DEFINE g == [h EXCEPT !.stack[b] = rest, !.bins[k] = bins]
<1> DEFINE M == Extend(L, p, n)
<1>1. /\ h = [ brk |-> h.brk, size |-> h.size, stack |-> h.stack,
               bins |-> h.bins, skip |-> h.skip, bigs |-> h.bigs ]
      /\ h.size \in [Blocks(h) -> Nat]
      /\ h.stack \in [Blocks(h) -> Seq(Nat)]
      /\ h.bins \in [0 .. BIG_BIN - 1 -> Seq(Blocks(h))]
      /\ h.skip \subseteq Blocks(h) /\ h.bigs \in Seq(Blocks(h)) /\ h.brk \in Nat
  BY DEF HeapInv, HeapType
<1>2. /\ b \in Blocks(h) /\ b \in Elems(h.bins[k])
      /\ Tail(h.bins[k]) \in Seq(Blocks(h))
      /\ Elems(h.bins[k]) = Elems(Tail(h.bins[k])) \cup {b}
      /\ b \notin Elems(Tail(h.bins[k])) /\ NoRepeats(Tail(h.bins[k]))
  <2> DEFINE s == h.bins[k]
  <2>1. s \in Seq(Blocks(h)) /\ s # <<>> /\ NoRepeats(s)
    BY <1>1 DEF HeapInv, SmallPages
  <2> HIDE DEF s
  <2>2. /\ Head(s) \in Blocks(h) /\ Tail(s) \in Seq(Blocks(h))
        /\ Elems(s) = Elems(Tail(s)) \cup {Head(s)}
        /\ NoRepeats(Tail(s)) /\ Head(s) \notin Elems(Tail(s))
    BY <2>1, Popped
  <2> QED BY <2>2 DEF s
<1>0. b = Head(h.bins[k])
  OBVIOUS
<1> HIDE DEF b
<1>3. b \in Small(h) /\ h.size[b] = k /\ h.stack[b] # <<>>
  BY <1>2 DEF HeapInv, SmallPages
<1>4. /\ p \in Nat /\ rest \in Seq(Nat)
      /\ Elems(h.stack[b]) = Elems(rest) \cup {p}
      /\ NoRepeats(rest) /\ p \notin Elems(rest)
  <2> DEFINE s == h.stack[b]
  <2>1. s \in Seq(Nat) /\ s # <<>> /\ NoRepeats(s)
    BY <1>1, <1>2, <1>3 DEF HeapInv, SmallPages
  <2> HIDE DEF s
  <2>2. /\ Head(s) \in Nat /\ Tail(s) \in Seq(Nat)
        /\ Elems(s) = Elems(Tail(s)) \cup {Head(s)}
        /\ NoRepeats(Tail(s)) /\ Head(s) \notin Elems(Tail(s))
    BY <2>1, Popped
  <2> QED BY <2>2 DEF s
<1>5. p \in CellsOf(h, b) /\ Elems(rest) \subseteq CellsOf(h, b)
  BY <1>3, <1>4 DEF HeapInv, SmallPages
<1>6. b + SMALL_HEADER <= p /\ b < p /\ p < b + Extent(h, b)
      /\ Extent(h, b) = PAGE_SIZE /\ b \in Nat /\ ~IsBig(h, b)
  BY <1>2, <1>3, <1>5, CellInside, BlockFacts DEF Small
<1>7. PopAsserts(h, b)
  <2>1. p > b /\ p < b + PAGE_SIZE /\ p > b + SMALL_HEADER - 1
    <3> HIDE DEF p
    <3> QED BY <1>4, <1>6, SMT DEF SMALL_HEADER, PAGE_SIZE
  <2> QED BY <2>1, <1>3, <1>6 DEF PopAsserts
<1>8. PopCell(h, k) = Result("ok", g, p)
  BY <1>0, <1>7 DEF PopCell, Checked
<1> HIDE DEF p, rest, bins, g
<1>9. p \notin DOMAIN L
  <2> SUFFICES ASSUME p \in DOMAIN L PROVE FALSE
    OBVIOUS
  <2>1. OwnedCell(h, L, b, p) \/ OwnedHandle(h, L, b, p)
    BY <1>2, <1>4, <1>6, OwnerIs
  <2> QED BY <2>1, <1>4, <1>6 DEF OwnedCell, OwnedHandle
<1>10. /\ g = [ brk |-> g.brk, size |-> g.size, stack |-> g.stack,
                bins |-> g.bins, skip |-> g.skip, bigs |-> g.bigs ]
       /\ g.brk = h.brk /\ g.size = h.size /\ g.skip = h.skip /\ g.bigs = h.bigs
       /\ g.stack = [h.stack EXCEPT ![b] = rest]
       /\ g.bins = [h.bins EXCEPT ![k] = bins]
  <2> DEFINE t == [h.stack EXCEPT ![b] = rest]
  <2> DEFINE l == [h.bins EXCEPT ![k] = bins]
  <2>1. g = [h EXCEPT !.stack = t, !.bins = l]
    BY <1>1 DEF g
  <2> HIDE DEF t, l
  <2>2. g = [ brk |-> h.brk, size |-> h.size, stack |-> t,
              bins |-> l, skip |-> h.skip, bigs |-> h.bigs ]
    BY <1>1, <2>1
  <2> QED BY <2>2 DEF t, l
<1>11. /\ Blocks(g) = Blocks(h) /\ Small(g) = Small(h) /\ Big(g) = Big(h)
       /\ \A c \in Blocks(h) : IsBig(g, c) = IsBig(h, c) /\ Extent(g, c) = Extent(h, c)
                               /\ CellsOf(g, c) = CellsOf(h, c)
  BY <1>10 DEF Blocks, Small, Big, IsBig, Extent, CellsOf
<1>12. g.stack[b] = rest /\ \A c \in Blocks(h) : c # b => g.stack[c] = h.stack[c]
  BY <1>1, <1>2, <1>10
<1>13. bins \in Seq(Blocks(h))
  BY <1>1, <1>2 DEF bins
<1>14. HeapType(g)
  <2>1. g.stack \in [Blocks(g) -> Seq(Nat)]
    BY <1>1, <1>4, <1>10, <1>11
  <2>2. g.bins \in [0 .. BIG_BIN - 1 -> Seq(Blocks(g))]
    BY <1>1, <1>10, <1>11, <1>13
  <2> QED BY <2>1, <2>2, <1>1, <1>10, <1>11 DEF HeapType
<1>15. Layout(g)
  BY <1>10, <1>11 DEF HeapInv, Layout
<1>16. SmallPages(g)
  <2>1. \A c \in Small(g) :
          /\ g.size[c] \in 0 .. BIG_BIN - 1
          /\ Elems(g.stack[c]) \subseteq CellsOf(g, c)
          /\ NoRepeats(g.stack[c])
    <3> TAKE c \in Small(g)
    <3>1. CASE c = b
      BY <3>1, <1>2, <1>3, <1>4, <1>5, <1>10, <1>11, <1>12
    <3>2. CASE c # b
      BY <3>2, <1>10, <1>11, <1>12 DEF HeapInv, SmallPages, Small
    <3> QED BY <3>1, <3>2
  <2>2. ASSUME NEW j \in 0 .. BIG_BIN - 1
        PROVE  /\ Elems(g.bins[j]) = { c \in Small(g) : g.size[c] = j /\ g.stack[c] # <<>> }
               /\ NoRepeats(g.bins[j])
    <3>1. Elems(h.bins[j]) = { c \in Small(h) : h.size[c] = j /\ h.stack[c] # <<>> }
          /\ NoRepeats(h.bins[j])
      BY DEF HeapInv, SmallPages
    <3>2. \A c \in Small(g) : c # b => g.stack[c] = h.stack[c] /\ g.size[c] = h.size[c]
      BY <1>10, <1>11, <1>12 DEF Small
    <3>3. CASE j # k
      <4>1. g.bins[j] = h.bins[j]
        BY <3>3, <1>1, <1>10
      <4>2. \A c \in Small(h) : (g.size[c] = j /\ g.stack[c] # <<>>)
                                <=> (h.size[c] = j /\ h.stack[c] # <<>>)
        BY <3>2, <3>3, <1>3, <1>10, <1>11
      <4> QED BY <3>1, <4>1, <4>2, <1>11
    <3>4. CASE j = k
      <4>1. g.bins[j] = bins
        BY <3>4, <1>1, <1>10
      <4>2. { c \in Small(g) : g.size[c] = j /\ g.stack[c] # <<>> } =
              IF rest = <<>> THEN Elems(h.bins[k]) \ {b} ELSE Elems(h.bins[k])
        BY <3>1, <3>2, <3>4, <1>3, <1>10, <1>11, <1>12
      <4> QED BY <3>1, <3>4, <4>1, <4>2, <1>2 DEF bins
    <3> QED BY <3>3, <3>4
  <2> QED BY <2>1, <2>2 DEF SmallPages
<1>17. BigBlocks(g)
  BY <1>3, <1>10, <1>11, <1>12 DEF HeapInv, BigBlocks, Small, Big
<1>18. Owned(g, M)
  <2>1. DOMAIN M = DOMAIN L \cup {p} /\ M[p] = n /\ \A q \in DOMAIN L : q # p /\ M[q] = L[q]
    BY <1>9 DEF Extend
  <2>2. M \in [DOMAIN M -> Nat \ {0}]
    BY <2>1 DEF Extend, HeapInv, Owned
  <2>3. OwnedCell(g, M, b, p)
    BY <2>1, <1>2, <1>3, <1>4, <1>5, <1>6, <1>10, <1>11, <1>12 DEF OwnedCell
  <2>4. ASSUME NEW q \in DOMAIN L, NEW c \in Blocks(h)
        PROVE  /\ OwnedCell(h, L, c, q) => OwnedCell(g, M, c, q)
               /\ OwnedHandle(h, L, c, q) => OwnedHandle(g, M, c, q)
    <3>1. CASE c # b
      BY <3>1, <2>1, <1>10, <1>11, <1>12 DEF OwnedCell, OwnedHandle, Usable
    <3>2. CASE c = b
      BY <3>2, <2>1, <1>4, <1>6, <1>10, <1>11, <1>12 DEF OwnedCell, OwnedHandle
    <3> QED BY <3>1, <3>2
  <2>5. \A q \in DOMAIN M : \E c \in Blocks(g) : OwnedCell(g, M, c, q) \/ OwnedHandle(g, M, c, q)
    <3> TAKE q \in DOMAIN M
    <3>1. CASE q = p
      BY <3>1, <2>3, <1>2, <1>11
    <3>2. CASE q \in DOMAIN L
      BY <3>2, <2>4, <1>11 DEF HeapInv, Owned
    <3> QED BY <3>1, <3>2, <2>1
  <2>6. \A c \in Big(h) : p \notin Handles(c)
    <3> SUFFICES ASSUME NEW c \in Big(h), p \in Handles(c) PROVE FALSE
      OBVIOUS
    <3>1. c \in Blocks(h) /\ c < p /\ p <= c + Extent(h, c) /\ IsBig(h, c)
      BY HandleInside DEF Big
    <3>2. b = c
      BY <3>1, <1>2, <1>4, <1>6, OneBlock
    <3> QED BY <3>1, <3>2, <1>6
  <2>7. \A c \in Big(g) : \A q, s \in DOMAIN M \cap Handles(c) : q = s
    BY <2>1, <2>6, <1>11 DEF HeapInv, Owned
  <2> QED BY <2>2, <2>5, <2>7 DEF Owned
<1>19. HeapInv(g, M)
  BY <1>14, <1>15, <1>16, <1>17, <1>18 DEF HeapInv
<1>20. p # 0
  BY <1>6, SMT
<1> QED BY <1>4, <1>8, <1>9, <1>10, <1>19, <1>20 DEF Result

(* No cell is the handle of a big block.                                   *)
LEMMA HandleFree ==
  ASSUME NEW h, NEW L, HeapInv(h, L), NEW b \in Big(h),
         h.stack[b] # <<>> \/ Handles(b) \cap DOMAIN L = {}
  PROVE  Handles(b) \cap DOMAIN L = {}
<1> SUFFICES ASSUME NEW p \in Handles(b), p \in DOMAIN L, h.stack[b] # <<>> PROVE FALSE
  OBVIOUS
<1>1. p \in Nat /\ b < p /\ p <= b + Extent(h, b) /\ b \in Blocks(h) /\ IsBig(h, b)
  BY HandleInside DEF Big
<1>2. PICK c \in Blocks(h) : OwnedCell(h, L, c, p) \/ OwnedHandle(h, L, c, p)
  BY DEF HeapInv, Owned
<1>3. c < p /\ p < c + Extent(h, c)
  BY <1>2, OwnedInside
<1>4. c = b
  BY <1>1, <1>3, OneBlock
<1> QED BY <1>1, <1>2, <1>4 DEF OwnedCell, OwnedHandle

(* malloc() and valloc() of a listed big block: the assertions of          *)
(* malloc_skip_list_delete and malloc_stack_pop hold, and either handle    *)
(* becomes the caller's.                                                   *)
LEMMA TakeBigInv ==
  ASSUME NEW h, NEW L, HeapInv(h, L), NEW b \in h.skip
  PROVE  LET r == TakeBig(h, b)
         IN  /\ r = Result("ok", r.heap, r.ptr)
             /\ r.st = "ok" /\ r.ptr = b + BIG_HEADER /\ r.ptr \in Nat \ {0}
             /\ b % PAGE_SIZE = 0 /\ b \in Nat /\ h.size[b] \in Nat
             /\ r.heap.brk = h.brk
             /\ \A q \in Handles(b), n \in Nat \ {0} :
                  n <= Usable(h, b, q) =>
                    q \notin DOMAIN L /\ HeapInv(r.heap, Extend(L, q, n))
<1> DEFINE g == [h EXCEPT !.skip = @ \ {b}, !.stack[b] = Tail(@)]
<1>1. /\ h = [ brk |-> h.brk, size |-> h.size, stack |-> h.stack,
               bins |-> h.bins, skip |-> h.skip, bigs |-> h.bigs ]
      /\ h.size \in [Blocks(h) -> Nat]
      /\ h.stack \in [Blocks(h) -> Seq(Nat)]
      /\ h.bins \in [0 .. BIG_BIN - 1 -> Seq(Blocks(h))]
      /\ h.skip \subseteq Blocks(h) /\ h.bigs \in Seq(Blocks(h)) /\ h.brk \in Nat
  BY DEF HeapInv, HeapType
<1>2. b \in Big(h) /\ h.stack[b] # <<>>
  BY DEF HeapInv, BigBlocks
<1>3. b \in Blocks(h) /\ IsBig(h, b)
  BY <1>2 DEF Big
<1>4. /\ b \in Nat /\ h.size[b] \in Nat /\ h.size[b] >= PAGE_SIZE - BIG_HEADER
      /\ b % PAGE_SIZE = 0 /\ h.stack[b] = <<b + BIG_HEADER>>
      /\ Extent(h, b) = h.size[b] + BIG_HEADER
  BY <1>2, <1>3, BlockFacts
<1>5. Head(h.stack[b]) = b + BIG_HEADER /\ Tail(h.stack[b]) = <<>>
  BY <1>4
<1>6. PopAsserts(h, b)
  <2>1. b + BIG_HEADER > b /\ b + BIG_HEADER < b + h.size[b]
    BY <1>4, SMT DEF BIG_HEADER, PAGE_SIZE
  <2> QED BY <2>1, <1>2, <1>3, <1>5 DEF PopAsserts
<1>7. TakeBig(h, b) = Result("ok", g, b + BIG_HEADER)
  BY <1>5, <1>6 DEF TakeBig, Checked
<1>8. /\ g = [ brk |-> g.brk, size |-> g.size, stack |-> g.stack,
               bins |-> g.bins, skip |-> g.skip, bigs |-> g.bigs ]
      /\ g.brk = h.brk /\ g.size = h.size /\ g.bins = h.bins /\ g.bigs = h.bigs
      /\ g.skip = h.skip \ {b}
      /\ g.stack = [h.stack EXCEPT ![b] = <<>>]
  <2> DEFINE t == [h.stack EXCEPT ![b] = <<>>]
  <2> DEFINE s == h.skip \ {b}
  <2>1. g = [h EXCEPT !.skip = s, !.stack = t]
    BY <1>1, <1>5
  <2> HIDE DEF g, t, s
  <2>2. g = [ brk |-> h.brk, size |-> h.size, stack |-> t,
              bins |-> h.bins, skip |-> s, bigs |-> h.bigs ]
    BY <1>1, <2>1
  <2> QED BY <2>2 DEF t, s
<1> HIDE DEF g
<1>9. /\ Blocks(g) = Blocks(h) /\ Small(g) = Small(h) /\ Big(g) = Big(h)
      /\ \A c \in Blocks(h) : IsBig(g, c) = IsBig(h, c) /\ Extent(g, c) = Extent(h, c)
                              /\ CellsOf(g, c) = CellsOf(h, c)
  BY <1>8 DEF Blocks, Small, Big, IsBig, Extent, CellsOf
<1>10. g.stack[b] = <<>> /\ \A c \in Blocks(h) : c # b => g.stack[c] = h.stack[c]
  BY <1>1, <1>3, <1>8
<1>11. HeapType(g)
  <2>1. g.stack \in [Blocks(g) -> Seq(Nat)]
    BY <1>1, <1>8, <1>9
  <2> QED BY <2>1, <1>1, <1>8, <1>9 DEF HeapType
<1>12. Layout(g)
  BY <1>8, <1>9 DEF HeapInv, Layout
<1>13. b \notin Small(h)
  BY <1>3 DEF Small
<1>14. SmallPages(g)
  <2>1. \A c \in Small(g) : c \in Blocks(h) /\ g.stack[c] = h.stack[c] /\ g.size[c] = h.size[c]
    BY <1>8, <1>9, <1>10, <1>13 DEF Small
  <2>2. \A k \in 0 .. BIG_BIN - 1 :
          { c \in Small(g) : g.size[c] = k /\ g.stack[c] # <<>> } =
          { c \in Small(h) : h.size[c] = k /\ h.stack[c] # <<>> }
    BY <2>1, <1>9
  <2> QED BY <2>1, <2>2, <1>8, <1>9 DEF HeapInv, SmallPages
<1>15. BigBlocks(g)
  <2>1. \A c \in Big(g) : c \in Blocks(h) /\ g.size[c] = h.size[c]
    BY <1>8, <1>9 DEF Big
  <2> QED BY <2>1, <1>2, <1>8, <1>9, <1>10 DEF HeapInv, BigBlocks
<1>16. ASSUME NEW q \in Handles(b), NEW n \in Nat \ {0}, n <= Usable(h, b, q)
       PROVE  q \notin DOMAIN L /\ HeapInv(g, Extend(L, q, n))
  <2> DEFINE M == Extend(L, q, n)
  <2>1. Handles(b) \cap DOMAIN L = {}
    BY <1>2, HandleFree
  <2>2. /\ DOMAIN M = DOMAIN L \cup {q} /\ M \in [DOMAIN M -> Nat \ {0}]
        /\ M[q] = n /\ \A p \in DOMAIN L : p # q /\ M[p] = L[p]
    <3>1. q \notin DOMAIN L /\ L \in [DOMAIN L -> Nat \ {0}]
      BY <2>1, <1>16 DEF HeapInv, Owned
    <3> QED BY <3>1 DEF Extend
  <2> HIDE DEF M
  <2>3. OwnedHandle(g, M, b, q)
    BY <2>2, <1>3, <1>9, <1>10, <1>16 DEF OwnedHandle, Usable
  <2>4. ASSUME NEW p \in DOMAIN L, NEW c \in Blocks(h)
        PROVE  /\ OwnedCell(h, L, c, p) => OwnedCell(g, M, c, p)
               /\ OwnedHandle(h, L, c, p) => OwnedHandle(g, M, c, p)
    BY <2>2, <1>3, <1>8, <1>9, <1>10 DEF OwnedCell, OwnedHandle, Usable
  <2>5. \A p \in DOMAIN M : \E c \in Blocks(g) : OwnedCell(g, M, c, p) \/ OwnedHandle(g, M, c, p)
    <3> TAKE p \in DOMAIN M
    <3>1. CASE p = q
      BY <3>1, <2>3, <1>3, <1>9
    <3>2. CASE p \in DOMAIN L
      BY <3>2, <2>4, <1>9 DEF HeapInv, Owned
    <3> QED BY <3>1, <3>2, <2>2
  <2>6. ASSUME NEW c \in Big(h), q \in Handles(c)
        PROVE  c = b
    <3>1. M[q] > 0 /\ M[q] \in Nat
      BY <2>2
    <3>2. q \in Nat /\ b < q /\ q < b + Extent(h, b)
      BY <1>2, <1>4, <1>16, HandleInside, SMT DEF Usable, BIG_HEADER
    <3>3. c \in Blocks(h) /\ c < q /\ q <= c + Extent(h, c)
      BY <2>6, HandleInside DEF Big
    <3> QED BY <3>2, <3>3, <1>3, OneBlock
  <2>7. \A c \in Big(g) : \A p, s \in DOMAIN M \cap Handles(c) : p = s
    BY <2>1, <2>2, <2>6, <1>9 DEF HeapInv, Owned
  <2> QED BY <2>1, <2>2, <2>5, <2>7, <1>11, <1>12, <1>14, <1>15, <1>16 DEF HeapInv, Owned, M
<1>17. b + BIG_HEADER \in Nat \ {0}
  BY <1>4, SMT DEF BIG_HEADER
<1> QED BY <1>4, <1>7, <1>8, <1>16, <1>17 DEF Result

(* A new big block has room for the request.                               *)
LEMMA BigFits ==
  ASSUME NEW m \in Nat
  PROVE  /\ BigPages(m) \in Nat /\ BigPages(m) >= 1 /\ BigPayload(m) \in Nat
         /\ BigPayload(m) >= m /\ BigPayload(m) >= PAGE_SIZE - BIG_HEADER
         /\ BigPayload(m) + BIG_HEADER = BigPages(m) * PAGE_SIZE
         /\ (BigPayload(m) + BIG_HEADER) % PAGE_SIZE = 0
         /\ BigPayload(m) > NUM_BINS
  BY SMT DEF BigPages, BigPayload, PAGE_SIZE, BIG_HEADER, NUM_BINS

(* malloc() and valloc() of a new big block.                               *)
LEMMA GrowBigInv ==
  ASSUME NEW h, NEW L, HeapInv(h, L), NEW m \in Nat,
         ~SbrkFails(h, BigPages(m) * PAGE_SIZE), h.brk % PAGE_SIZE = 0
  PROVE  LET g == GrowBig(h, m)
             b == h.brk
         IN  /\ b \in Nat \ {0} /\ b + BIG_HEADER \in Nat \ {0}
             /\ \A q \in Handles(b), n \in Nat \ {0} :
                  n <= b + BigPayload(m) + BIG_HEADER - q =>
                    q \notin DOMAIN L /\ HeapInv(g, Extend(L, q, n))
<1> DEFINE g == GrowBig(h, m)
<1> DEFINE b == h.brk
<1>1. b \in Nat /\ b \notin Blocks(h) /\ HeapBase <= b
  BY BlockFacts DEF HeapInv, HeapType, Layout
<1>2. /\ h = [ brk |-> h.brk, size |-> h.size, stack |-> h.stack,
               bins |-> h.bins, skip |-> h.skip, bigs |-> h.bigs ]
      /\ h.size \in [Blocks(h) -> Nat]
      /\ h.stack \in [Blocks(h) -> Seq(Nat)]
      /\ h.bins \in [0 .. BIG_BIN - 1 -> Seq(Blocks(h))]
      /\ h.skip \subseteq Blocks(h) /\ h.bigs \in Seq(Blocks(h))
  BY DEF HeapInv, HeapType
<1>3. /\ g = [ brk |-> g.brk, size |-> g.size, stack |-> g.stack,
               bins |-> g.bins, skip |-> g.skip, bigs |-> g.bigs ]
      /\ g.brk = b + BigPages(m) * PAGE_SIZE
      /\ g.size = Extend(h.size, b, BigPayload(m))
      /\ g.stack = Extend(h.stack, b, <<>>)
      /\ g.bins = h.bins /\ g.skip = h.skip /\ g.bigs = Append(h.bigs, b)
  <2> DEFINE r0 == b + BigPages(m) * PAGE_SIZE
  <2> DEFINE s0 == Extend(h.size, b, BigPayload(m))
  <2> DEFINE t0 == Extend(h.stack, b, <<>>)
  <2> DEFINE n0 == Append(h.bigs, b)
  <2>1. g = [h EXCEPT !.brk = r0, !.size = s0, !.stack = t0, !.bigs = n0]
    BY <1>2 DEF GrowBig
  <2> HIDE DEF r0, s0, t0, n0
  <2>2. g = [ brk |-> r0, size |-> s0, stack |-> t0,
              bins |-> h.bins, skip |-> h.skip, bigs |-> n0 ]
    BY <1>2, <2>1
  <2> QED BY <2>2 DEF r0, s0, t0, n0
<1> HIDE DEF g
<1>4. /\ Blocks(g) = Blocks(h) \cup {b}
      /\ g.size[b] = BigPayload(m) /\ g.stack[b] = <<>>
      /\ \A c \in Blocks(h) : g.size[c] = h.size[c] /\ g.stack[c] = h.stack[c]
  BY <1>1, <1>2, <1>3 DEF Extend, Blocks
<1>5. IsBig(g, b) /\ \A c \in Blocks(h) : IsBig(g, c) = IsBig(h, c)
  BY <1>4, BigFits DEF IsBig
<1>6. Extent(g, b) = BigPages(m) * PAGE_SIZE /\ Extent(g, b) = BigPayload(m) + BIG_HEADER
      /\ \A c \in Blocks(h) : Extent(g, c) = Extent(h, c) /\ CellsOf(g, c) = CellsOf(h, c)
  BY <1>4, <1>5, BigFits DEF Extent, CellsOf
<1>7. BigPages(m) \in Nat /\ BigPages(m) >= 1
  BY BigFits
<1>8. HeapType(g)
  <2>1. g.size \in [Blocks(g) -> Nat] /\ g.stack \in [Blocks(g) -> Seq(Nat)]
    BY <1>1, <1>2, <1>3, BigFits DEF Extend, Blocks
  <2>2. g.brk \in Nat
    BY <1>1, <1>3, <1>7, SMT DEF PAGE_SIZE
  <2>3. g.bins \in [0 .. BIG_BIN - 1 -> Seq(Blocks(g))]
    <3>1. Seq(Blocks(h)) \subseteq Seq(Blocks(g))
      BY <1>4
    <3> QED BY <3>1, <1>2, <1>3
  <2>4. g.skip \subseteq Blocks(g) /\ g.bigs \in Seq(Blocks(g))
    BY <1>2, <1>3, <1>4
  <2> QED BY <1>3, <2>1, <2>2, <2>3, <2>4 DEF HeapType
<1>9. Layout(g)
  <2>1. HeapBase <= g.brk /\ g.brk <= HeapBase + MEMORY_CAPACITY
    <3> DEFINE d == BigPages(m) * PAGE_SIZE
    <3>1. d \in Nat /\ g.brk = b + d
      BY <1>3, <1>7, SMT DEF PAGE_SIZE
    <3>2. ~(d >= HeapBase + MEMORY_CAPACITY - b)
      BY <1>1, <3>1, ConstantsOK, SMTT(30) DEF SbrkFails, HeapEnd
    <3> HIDE DEF d
    <3> QED BY <3>1, <3>2, <1>1, ConstantsOK
  <2>2. (b - HeapBase) % PAGE_SIZE = 0
    BY DEF HeapInv, Layout
  <2>3. (g.brk - HeapBase) % PAGE_SIZE = 0
    BY <1>1, <1>3, <1>7, <2>2, ConstantsOK, SMT DEF PAGE_SIZE
  <2>4. b <= g.brk /\ \A c \in Blocks(h) : c + Extent(h, c) <= b /\ c < b
                                /\ c \in Nat /\ Extent(h, c) \in Nat
    BY <1>1, <1>3, <1>7, BlockFacts, SMT DEF PAGE_SIZE
  <2>5. ASSUME NEW c \in Blocks(g)
        PROVE  /\ c \in Nat /\ HeapBase <= c
               /\ (c - HeapBase) % PAGE_SIZE = 0
               /\ c + Extent(g, c) <= g.brk
    <3>1. CASE c = b
      BY <3>1, <1>1, <1>3, <1>6, <1>7, <2>2, SMT DEF PAGE_SIZE
    <3>2. CASE c \in Blocks(h)
      <4>1. (c - HeapBase) % PAGE_SIZE = 0 /\ HeapBase <= c
        BY <3>2 DEF HeapInv, Layout
      <4>2. g.brk \in Nat /\ Extent(g, c) = Extent(h, c)
        BY <3>2, <1>6, <1>8 DEF HeapType
      <4> QED BY <3>2, <4>1, <4>2, <1>1, <2>4, SMT
    <3> QED BY <3>1, <3>2, <1>4
  <2>6. \A c, d \in Blocks(g) : c < d => c + Extent(g, c) <= d
    BY <1>1, <1>4, <1>6, <2>4, SMT DEF HeapInv, Layout
  <2> QED BY <2>1, <2>3, <2>5, <2>6 DEF Layout
<1>10. Small(g) = Small(h) /\ Big(g) = Big(h) \cup {b} /\ b \notin Small(h) /\ b \notin Big(h)
  BY <1>1, <1>4, <1>5 DEF Small, Big
<1>11. SmallPages(g)
  <2>1. \A c \in Small(g) : c \in Blocks(h) /\ g.stack[c] = h.stack[c] /\ g.size[c] = h.size[c]
                            /\ CellsOf(g, c) = CellsOf(h, c)
    BY <1>4, <1>6, <1>10 DEF Small
  <2>2. \A k \in 0 .. BIG_BIN - 1 :
          { c \in Small(g) : g.size[c] = k /\ g.stack[c] # <<>> } =
          { c \in Small(h) : h.size[c] = k /\ h.stack[c] # <<>> }
    BY <2>1, <1>10
  <2> QED BY <2>1, <2>2, <1>3, <1>10 DEF HeapInv, SmallPages
<1>12. BigBlocks(g)
  <2>1. \A c \in Big(h) : g.stack[c] = h.stack[c] /\ g.size[c] = h.size[c]
    BY <1>4 DEF Big
  <2>2. \A c \in Big(g) :
          /\ (g.size[c] + BIG_HEADER) % PAGE_SIZE = 0
          /\ c % PAGE_SIZE = 0
          /\ g.stack[c] \in { <<>>, <<c + BIG_HEADER>> }
    <3> TAKE c \in Big(g)
    <3>1. CASE c = b
      BY <3>1, <1>4, BigFits
    <3>2. CASE c \in Big(h)
      BY <3>2, <2>1 DEF HeapInv, BigBlocks
    <3> QED BY <3>1, <3>2, <1>10
  <2>3. g.skip = { c \in Big(g) : g.stack[c] # <<>> }
    BY <2>1, <1>3, <1>4, <1>10 DEF HeapInv, BigBlocks
  <2> QED BY <2>2, <2>3 DEF BigBlocks
<1>13. ASSUME NEW p \in DOMAIN L PROVE p \in Nat /\ p < b
  <2>1. PICK c \in Blocks(h) : OwnedCell(h, L, c, p) \/ OwnedHandle(h, L, c, p)
    BY DEF HeapInv, Owned
  <2>2. p \in Nat /\ p < c + Extent(h, c) /\ c + Extent(h, c) <= b /\ c + Extent(h, c) \in Nat
    BY <2>1, OwnedInside, BlockFacts
  <2> QED BY <2>2, <1>1
<1>14. ASSUME NEW q \in Handles(b), NEW n \in Nat \ {0}, n <= b + BigPayload(m) + BIG_HEADER - q
       PROVE  q \notin DOMAIN L /\ HeapInv(g, Extend(L, q, n))
  <2> DEFINE M == Extend(L, q, n)
  <2>0. q \in Nat /\ q > b
    BY <1>1, SMT DEF Handles, VallocPtr, PAGE_SIZE, BIG_HEADER
  <2>1. q \notin DOMAIN L
    BY <2>0, <1>1, <1>13
  <2>2. /\ DOMAIN M = DOMAIN L \cup {q} /\ M \in [DOMAIN M -> Nat \ {0}]
        /\ M[q] = n /\ \A p \in DOMAIN L : p # q /\ M[p] = L[p]
    <3>1. L \in [DOMAIN L -> Nat \ {0}]
      BY DEF HeapInv, Owned
    <3> QED BY <2>1, <3>1 DEF Extend
  <2> HIDE DEF M
  <2>3. OwnedHandle(g, M, b, q)
    <3>1. n <= Usable(g, b, q)
      BY <2>0, <1>1, <1>6, <1>14, BigFits, SMT DEF Usable, BIG_HEADER
    <3> QED BY <3>1, <2>2, <1>4, <1>5, <1>14 DEF OwnedHandle
  <2>4. ASSUME NEW p \in DOMAIN L, NEW c \in Blocks(h)
        PROVE  /\ OwnedCell(h, L, c, p) => OwnedCell(g, M, c, p)
               /\ OwnedHandle(h, L, c, p) => OwnedHandle(g, M, c, p)
    BY <2>2, <1>4, <1>5, <1>6 DEF OwnedCell, OwnedHandle, Usable
  <2>5. \A p \in DOMAIN M : \E c \in Blocks(g) : OwnedCell(g, M, c, p) \/ OwnedHandle(g, M, c, p)
    <3> TAKE p \in DOMAIN M
    <3>1. CASE p = q
      BY <3>1, <2>3, <1>4
    <3>2. CASE p \in DOMAIN L
      BY <3>2, <2>4, <1>4 DEF HeapInv, Owned
    <3> QED BY <3>1, <3>2, <2>2
  <2>6. \A c \in Big(h) : q \notin Handles(c)
    <3> SUFFICES ASSUME NEW c \in Big(h), q \in Handles(c) PROVE FALSE
      OBVIOUS
    <3>1. q <= c + Extent(h, c) /\ c + Extent(h, c) <= b /\ c + Extent(h, c) \in Nat
      BY HandleInside, BlockFacts DEF Big
    <3> QED BY <3>1, <2>0, <1>1
  <2>7. Handles(b) \cap DOMAIN L = {}
    <3>1. \A p \in Handles(b) : p \in Nat /\ p > b
      BY <1>1, SMT DEF Handles, VallocPtr, PAGE_SIZE, BIG_HEADER
    <3> QED BY <3>1, <1>1, <1>13
  <2>8. \A c \in Big(g) : \A p, s \in DOMAIN M \cap Handles(c) : p = s
    BY <2>2, <2>6, <2>7, <1>10 DEF HeapInv, Owned
  <2>9. Owned(g, M)
    BY <2>2, <2>5, <2>8 DEF Owned
  <2> QED BY <2>1, <2>9, <1>8, <1>9, <1>11, <1>12 DEF HeapInv, M
<1>15. b \in Nat \ {0} /\ b + BIG_HEADER \in Nat \ {0}
  BY <1>1, ConstantsOK, SMT DEF BIG_HEADER
<1> QED BY <1>14, <1>15 DEF g

(* malloc() of a small request.                                            *)
LEMMA MallocSmallInv ==
  ASSUME NEW h, NEW L, HeapInv(h, L), NEW k \in 0 .. BIG_BIN - 1,
         NEW n \in Nat \ {0}, n <= CellSize(k)
  PROVE  LET r == MallocSmall(h, k)
         IN  \/ r = Result("fault", h, NULL)
             \/ /\ r.st = "ok" /\ r.ptr \in Nat \ {0} /\ r.ptr \notin DOMAIN L
                /\ HeapInv(r.heap, Extend(L, r.ptr, n))
<1>1. CASE h.bins[k] # <<>>
  BY <1>1, PopCellInv DEF MallocSmall
<1>2. CASE h.bins[k] = <<>> /\ SbrkFails(h, PAGE_SIZE)
  BY <1>2 DEF MallocSmall
<1>3. CASE h.bins[k] = <<>> /\ ~SbrkFails(h, PAGE_SIZE)
  <2> DEFINE g == GrowSmall(h, k)
  <2>1. HeapInv(g, L) /\ g.bins[k] # <<>>
    BY <1>3, GrowSmallInv
  <2>2. MallocSmall(h, k) = PopCell(g, k)
    BY <1>3 DEF MallocSmall
  <2> HIDE DEF g
  <2> QED BY <2>1, <2>2, PopCellInv
<1> QED BY <1>1, <1>2, <1>3

(* malloc() of a big request, and what valloc() makes of it: handle q is   *)
(* the returned pointer moved up by d.                                     *)
LEMMA MallocBigInv ==
  ASSUME NEW h, NEW L, HeapInv(h, L), NEW m \in Nat, NEW r \in MallocBig(h, m),
         NEW d \in {0, PAGE_SIZE - BIG_HEADER}, NEW n \in Nat \ {0}, n + d <= m
  PROVE  \/ r = Result("fault", h, NULL)
         \/ /\ r.st = "misaligned" /\ HeapType(r.heap)
         \/ /\ r = Result("ok", r.heap, r.ptr)
            /\ r.st = "ok" /\ r.ptr \in Nat \ {0}
            /\ r.ptr + d \in Nat \ {0} /\ r.ptr + d \notin DOMAIN L
            /\ (r.ptr + (PAGE_SIZE - BIG_HEADER)) % PAGE_SIZE = 0
            /\ HeapInv(r.heap, Extend(L, r.ptr + d, n))
<1> DEFINE best == FindBest(h.skip, h.size, m)
<1>1. CASE best # {}
  <2>1. PICK b \in best : r = TakeBig(h, b)
    BY <1>1 DEF MallocBig
  <2>2. b \in h.skip /\ h.size[b] >= m
    BY DEF FindBest, Fitting
  <2>3. /\ r = Result("ok", r.heap, r.ptr)
        /\ r.st = "ok" /\ r.ptr = b + BIG_HEADER /\ r.ptr \in Nat \ {0}
        /\ b % PAGE_SIZE = 0 /\ b \in Nat /\ h.size[b] \in Nat
        /\ \A q \in Handles(b), j \in Nat \ {0} :
             j <= Usable(h, b, q) => q \notin DOMAIN L /\ HeapInv(r.heap, Extend(L, q, j))
    BY <2>1, <2>2, TakeBigInv
  <2>4. r.ptr + d \in Handles(b) /\ r.ptr + d \in Nat \ {0}
        /\ (r.ptr + (PAGE_SIZE - BIG_HEADER)) % PAGE_SIZE = 0
    BY <2>3, SMT DEF Handles, VallocPtr, PAGE_SIZE, BIG_HEADER
  <2>5. Extent(h, b) = h.size[b] + BIG_HEADER
    BY <2>2 DEF HeapInv, BigBlocks, Big, Extent
  <2>6. n <= Usable(h, b, r.ptr + d)
    BY <2>2, <2>3, <2>5, SMT DEF Usable, PAGE_SIZE, BIG_HEADER
  <2> QED BY <2>3, <2>4, <2>6
<1>2. CASE best = {} /\ SbrkFails(h, BigPages(m) * PAGE_SIZE)
  BY <1>2 DEF MallocBig
<1>3. CASE best = {} /\ ~SbrkFails(h, BigPages(m) * PAGE_SIZE) /\ h.brk % PAGE_SIZE # 0
  <2>1. r = Result("misaligned", [h EXCEPT !.brk = @ + BigPages(m) * PAGE_SIZE], NULL)
    BY <1>3 DEF MallocBig
  <2>2. r.st = "misaligned" /\ r.heap = [h EXCEPT !.brk = @ + BigPages(m) * PAGE_SIZE]
    BY <2>1 DEF Result
  <2> DEFINE r0 == h.brk + BigPages(m) * PAGE_SIZE
  <2>3. r0 \in Nat
    BY BigFits, SMT DEF HeapInv, HeapType, PAGE_SIZE
  <2>4. r.heap = [h EXCEPT !.brk = r0]
    BY <2>2
  <2> HIDE DEF r0
  <2>5. h = [ brk |-> h.brk, size |-> h.size, stack |-> h.stack,
              bins |-> h.bins, skip |-> h.skip, bigs |-> h.bigs ]
    BY DEF HeapInv, HeapType
  <2>6. r.heap = [ brk |-> r0, size |-> h.size, stack |-> h.stack,
                   bins |-> h.bins, skip |-> h.skip, bigs |-> h.bigs ]
    BY <2>4, <2>5
  <2>7. HeapType(r.heap)
    BY <2>3, <2>6 DEF HeapInv, HeapType, Blocks
  <2> QED BY <2>2, <2>7
<1>4. CASE best = {} /\ ~SbrkFails(h, BigPages(m) * PAGE_SIZE) /\ h.brk % PAGE_SIZE = 0
  <2> DEFINE b == h.brk
  <2>1. r = Result("ok", GrowBig(h, m), b + BIG_HEADER)
    BY <1>4 DEF MallocBig
  <2>2. /\ r.st = "ok" /\ r.heap = GrowBig(h, m) /\ r.ptr = b + BIG_HEADER
        /\ r = Result("ok", r.heap, r.ptr)
    BY <2>1 DEF Result
  <2>3. /\ b \in Nat \ {0} /\ b + BIG_HEADER \in Nat \ {0}
        /\ \A q \in Handles(b), j \in Nat \ {0} :
             j <= b + BigPayload(m) + BIG_HEADER - q =>
               q \notin DOMAIN L /\ HeapInv(r.heap, Extend(L, q, j))
    BY <1>4, <2>2, GrowBigInv
  <2>4. b % PAGE_SIZE = 0
    BY <1>4
  <2> HIDE DEF b
  <2>5. r.ptr + d \in Handles(b) /\ r.ptr + d \in Nat \ {0}
        /\ (r.ptr + (PAGE_SIZE - BIG_HEADER)) % PAGE_SIZE = 0
    BY <2>2, <2>3, <2>4, SMT DEF Handles, VallocPtr, PAGE_SIZE, BIG_HEADER
  <2>6. n <= b + BigPayload(m) + BIG_HEADER - (r.ptr + d)
    BY <2>2, <2>3, BigFits, SMT DEF PAGE_SIZE, BIG_HEADER
  <2> QED BY <2>2, <2>3, <2>5, <2>6
<1> QED BY <1>1, <1>2, <1>3, <1>4

(* malloc(n).                                                              *)
LEMMA MallocCall ==
  ASSUME NEW h, NEW L, HeapInv(h, L), NEW n \in Request, NEW r \in malloc(h, n)
  PROVE  \/ n = 0 /\ r = Result("ok", h, NULL)
         \/ r = Result("fault", h, NULL)
         \/ r.st = "misaligned" /\ HeapType(r.heap)
         \/ /\ n # 0 /\ r.st = "ok" /\ r.ptr \in Nat \ {0} /\ r.ptr \notin DOMAIN L
            /\ HeapInv(r.heap, Extend(L, r.ptr, n))
<1>1. n \in Nat /\ n <= INT_MAX
  BY SMT DEF Request, INT_MAX, PAGE_SIZE
<1>2. CASE n = 0
  BY <1>2 DEF malloc
<1>3. CASE n # 0 /\ malloc_bin_size(n) < BIG_BIN
  <2>1. r = MallocSmall(h, malloc_bin_size(n))
    BY <1>3 DEF malloc
  <2>2. malloc_bin_size(n) \in 0 .. BIG_BIN - 1 /\ n <= CellSize(malloc_bin_size(n))
    BY <1>1, <1>3, BinFits, SMT DEF BIG_BIN, NUM_BINS
  <2> QED BY <1>1, <1>3, <2>1, <2>2, MallocSmallInv
<1>4. CASE n # 0 /\ ~(malloc_bin_size(n) < BIG_BIN)
  <2>1. r \in MallocBig(h, n)
    BY <1>4 DEF malloc
  <2>2. n + 0 <= n
    BY <1>1
  <2>3. \/ r = Result("fault", h, NULL)
        \/ r.st = "misaligned" /\ HeapType(r.heap)
        \/ /\ r.st = "ok" /\ r.ptr \in Nat \ {0} /\ r.ptr + 0 \notin DOMAIN L
           /\ HeapInv(r.heap, Extend(L, r.ptr + 0, n))
    BY <1>1, <1>4, <2>1, <2>2, MallocBigInv
  <2>4. r.ptr \in Nat => r.ptr + 0 = r.ptr
    OBVIOUS
  <2> QED BY <1>4, <2>3, <2>4
<1> QED BY <1>2, <1>3, <1>4

(* valloc(n), for n > 0.                                                   *)
LEMMA VallocCall ==
  ASSUME NEW h, NEW L, HeapInv(h, L), NEW n \in Request \ {0}, NEW r \in valloc(h, n)
  PROVE  \/ r = Result("fault", h, NULL)
         \/ r.st = "misaligned" /\ HeapType(r.heap)
         \/ /\ r.st = "ok" /\ r.ptr \in Nat \ {0} /\ r.ptr \notin DOMAIN L
            /\ HeapInv(r.heap, Extend(L, r.ptr, n))
<1> DEFINE m == VallocSize(n)
<1> DEFINE d == PAGE_SIZE - BIG_HEADER
<1>1. n \in Nat \ {0} /\ m \in Nat /\ m <= INT_MAX /\ m # 0 /\ n + d <= m /\ m > 2048
  BY SMT DEF Request, INT_MAX, PAGE_SIZE, BIG_HEADER, VallocSize
<1>2. malloc_bin_size(m) \in 0 .. BIG_BIN
      /\ (malloc_bin_size(m) < BIG_BIN => m <= CellSize(malloc_bin_size(m)))
  BY <1>1, BinFits
<1>3. ~(malloc_bin_size(m) < BIG_BIN)
  <2> SUFFICES ASSUME malloc_bin_size(m) < BIG_BIN PROVE FALSE
    OBVIOUS
  <2> DEFINE k == malloc_bin_size(m)
  <2>1. k \in 0 .. BIG_BIN - 1 /\ m <= CellSize(k)
    BY <1>2, SMT DEF BIG_BIN, NUM_BINS
  <2> HIDE DEF k, m
  <2>2. CellSize(k) \in Nat /\ CellSize(k) <= 2048
    BY <2>1, BinBounds
  <2> QED BY <1>1, <2>1, <2>2
<1>4. PICK s \in malloc(h, m) :
        r = IF s.st # "ok" THEN s
            ELSE Checked((s.ptr + PAGE_SIZE - BIG_HEADER) % PAGE_SIZE = 0,
                         [s EXCEPT !.ptr = @ + PAGE_SIZE - BIG_HEADER])
  BY DEF valloc
<1>5. s \in MallocBig(h, m)
  BY <1>1, <1>3 DEF malloc
<1> HIDE DEF m
<1>6. \/ s = Result("fault", h, NULL)
      \/ s.st = "misaligned" /\ HeapType(s.heap)
      \/ /\ s = Result("ok", s.heap, s.ptr)
         /\ s.st = "ok" /\ s.ptr \in Nat \ {0}
         /\ s.ptr + d \in Nat \ {0} /\ s.ptr + d \notin DOMAIN L
         /\ (s.ptr + (PAGE_SIZE - BIG_HEADER)) % PAGE_SIZE = 0
         /\ HeapInv(s.heap, Extend(L, s.ptr + d, n))
  BY <1>1, <1>5, MallocBigInv
<1>7. CASE s.st # "ok"
  BY <1>4, <1>6, <1>7
<1>8. CASE s.st = "ok"
  <2>1. s.ptr \in Nat /\ s.ptr + PAGE_SIZE - BIG_HEADER = s.ptr + d
    BY <1>6, <1>8, SMT DEF Result, PAGE_SIZE, BIG_HEADER
  <2>2. r = [s EXCEPT !.ptr = s.ptr + d]
    BY <1>4, <1>6, <1>8, <2>1 DEF Checked, Result
  <2>3. s = [st |-> s.st, heap |-> s.heap, ptr |-> s.ptr]
    BY <1>6, <1>8 DEF Result
  <2>4. r.st = "ok" /\ r.heap = s.heap /\ r.ptr = s.ptr + d
    BY <1>8, <2>2, <2>3
  <2> QED BY <1>6, <1>8, <2>4 DEF Result
<1> QED BY <1>7, <1>8

(* free() steps from a live pointer to the header of its block, or to a    *)
(* page that holds none.                                                   *)
LEMMA FindsHeader ==
  ASSUME NEW h, NEW L, HeapInv(h, L), NEW b \in Blocks(h), NEW p \in DOMAIN L,
         OwnedCell(h, L, b, p) \/ OwnedHandle(h, L, b, p),
         HeaderOf(p) \in Blocks(h)
  PROVE  HeaderOf(p) = b /\ b % PAGE_SIZE = 0
<1> DEFINE c == HeaderOf(p)
<1>1. b \in Nat /\ c \in Nat /\ p \in Nat /\ b < p
  BY BlockFacts, OwnedInside
<1>2. (b - HeapBase) % PAGE_SIZE = 0 /\ (c - HeapBase) % PAGE_SIZE = 0
  BY DEF HeapInv, Layout
<1>3. p <= b + PAGE_SIZE
  <2>1. CASE OwnedCell(h, L, b, p)
    <3>1. b \in Small(h) /\ p \in CellsOf(h, b) /\ Extent(h, b) = PAGE_SIZE
      BY <2>1, BlockFacts DEF OwnedCell, Small
    <3> QED BY <3>1, <1>1, CellInside, SMT DEF PAGE_SIZE
  <2>2. CASE OwnedHandle(h, L, b, p)
    BY <2>2, <1>1, SMT DEF OwnedHandle, Handles, VallocPtr, PAGE_SIZE, BIG_HEADER
  <2> QED BY <2>1, <2>2
<1>4. c % PAGE_SIZE = 0
  BY <1>1, SMT DEF HeaderOf, PageOf, PAGE_SIZE
<1>5. b % PAGE_SIZE = 0
  BY <1>1, <1>2, <1>4, ConstantsOK, SMT DEF PAGE_SIZE
<1>6. c = b
  BY <1>1, <1>3, <1>5, SMT DEF HeaderOf, PageOf, PAGE_SIZE
<1> QED BY <1>5, <1>6

(* Books from which a pointer has been struck still fit the same heap.     *)
LEMMA RevokedBooks ==
  ASSUME NEW h, NEW L, HeapInv(h, L), NEW p
  PROVE  /\ DOMAIN Revoke(L, p) = DOMAIN L \ {p}
         /\ \A q \in DOMAIN L \ {p} : Revoke(L, p)[q] = L[q]
         /\ Revoke(L, p) \in [DOMAIN Revoke(L, p) -> Nat \ {0}]
         /\ HeapInv(h, Revoke(L, p))
<1> DEFINE M == Revoke(L, p)
<1>1. DOMAIN M = DOMAIN L \ {p} /\ \A q \in DOMAIN L \ {p} : M[q] = L[q]
  BY DEF Revoke
<1>2. M \in [DOMAIN M -> Nat \ {0}]
  BY DEF Revoke, HeapInv, Owned
<1> HIDE DEF M
<1>3. \A q \in DOMAIN M : \E b \in Blocks(h) : OwnedCell(h, M, b, q) \/ OwnedHandle(h, M, b, q)
  BY <1>1 DEF HeapInv, Owned, OwnedCell, OwnedHandle
<1>4. \A b \in Big(h) : \A q, s \in DOMAIN M \cap Handles(b) : q = s
  BY <1>1 DEF HeapInv, Owned
<1>5. HeapInv(h, M)
  BY <1>2, <1>3, <1>4 DEF HeapInv, Owned
<1> QED BY <1>1, <1>2, <1>5 DEF M

(* free() of a cell: the assertions of malloc_stack_push hold.             *)
LEMMA FreeCellInv ==
  ASSUME NEW h, NEW L, HeapInv(h, L), NEW b \in Blocks(h), NEW p \in DOMAIN L,
         OwnedCell(h, L, b, p), b % PAGE_SIZE = 0
  PROVE  LET r == FreeCell(h, b, p)
         IN  r = Result("ok", r.heap, NULL) /\ HeapInv(r.heap, Revoke(L, p))
<1> DEFINE k == h.size[b]
<1> DEFINE bins == IF h.stack[b] = <<>> THEN <<b>> \o h.bins[k] ELSE h.bins[k]
<1> DEFINE s == <<p>> \o h.stack[b]
<1> DEFINE g == [Push(h, b, p) EXCEPT !.bins[k] = bins]
<1> DEFINE M == Revoke(L, p)
<1>1. /\ h = [ brk |-> h.brk, size |-> h.size, stack |-> h.stack,
               bins |-> h.bins, skip |-> h.skip, bigs |-> h.bigs ]
      /\ h.size \in [Blocks(h) -> Nat]
      /\ h.stack \in [Blocks(h) -> Seq(Nat)]
      /\ h.bins \in [0 .. BIG_BIN - 1 -> Seq(Blocks(h))]
      /\ h.skip \subseteq Blocks(h) /\ h.bigs \in Seq(Blocks(h)) /\ h.brk \in Nat
  BY DEF HeapInv, HeapType
<1>2. b \in Small(h) /\ ~IsBig(h, b) /\ p \in CellsOf(h, b) /\ p \notin Elems(h.stack[b])
  BY DEF OwnedCell, Small
<1>3. b \in Nat /\ k \in 0 .. BIG_BIN - 1 /\ Extent(h, b) = PAGE_SIZE /\ h.stack[b] \in Seq(Nat)
  BY <1>2, BlockFacts
<1>4. p \in Nat /\ b < p /\ p < b + PAGE_SIZE
  BY <1>2, <1>3, CellInside
<1>5. PushAsserts(h, b, p)
  <2>1. (p - SMALL_HEADER) % CellSize(k) = 0
    BY <1>2, <1>3, CellAligned DEF CellsOf
  <2>2. p > b
    BY <1>3, <1>4
  <2> QED BY <2>1, <2>2, <1>2, <1>4 DEF PushAsserts
<1>6. FreeCell(h, b, p) = Result("ok", g, NULL)
  BY <1>5 DEF FreeCell, Checked
<1>7. s \in Seq(Nat) /\ s # <<>> /\ Elems(s) = Elems(h.stack[b]) \cup {p} /\ NoRepeats(s)
  <2> DEFINE t == h.stack[b]
  <2>1. NoRepeats(t) /\ t \in Seq(Nat) /\ p \notin Elems(t)
    BY <1>2, <1>3 DEF HeapInv, SmallPages
  <2> HIDE DEF t
  <2>2. /\ <<p>> \o t \in Seq(Nat) /\ <<p>> \o t # <<>>
        /\ Elems(<<p>> \o t) = Elems(t) \cup {p} /\ NoRepeats(<<p>> \o t)
    BY <2>1, <1>4, Consed
  <2> QED BY <2>2 DEF t
<1>8. Elems(h.bins[k]) = { c \in Small(h) : h.size[c] = k /\ h.stack[c] # <<>> }
      /\ NoRepeats(h.bins[k]) /\ h.bins[k] \in Seq(Blocks(h))
  BY <1>1, <1>3 DEF HeapInv, SmallPages
<1>9. /\ bins \in Seq(Blocks(h)) /\ NoRepeats(bins)
      /\ Elems(bins) = Elems(h.bins[k]) \cup {b}
  <2>1. CASE h.stack[b] # <<>>
    BY <2>1, <1>2, <1>8
  <2>2. CASE h.stack[b] = <<>>
    <3> DEFINE t == h.bins[k]
    <3>1. t \in Seq(Blocks(h)) /\ NoRepeats(t) /\ b \notin Elems(t)
      BY <2>2, <1>8
    <3> HIDE DEF t
    <3>2. /\ <<b>> \o t \in Seq(Blocks(h)) /\ NoRepeats(<<b>> \o t)
          /\ Elems(<<b>> \o t) = Elems(t) \cup {b}
      BY <3>1, Consed
    <3> QED BY <3>2, <2>2 DEF t
  <2> QED BY <2>1, <2>2
<1> HIDE DEF bins, s
<1>10. /\ g = [ brk |-> g.brk, size |-> g.size, stack |-> g.stack,
                bins |-> g.bins, skip |-> g.skip, bigs |-> g.bigs ]
       /\ g.brk = h.brk /\ g.size = h.size /\ g.skip = h.skip /\ g.bigs = h.bigs
       /\ g.stack = [h.stack EXCEPT ![b] = s]
       /\ g.bins = [h.bins EXCEPT ![k] = bins]
  <2> DEFINE t == [h.stack EXCEPT ![b] = s]
  <2> DEFINE l == [h.bins EXCEPT ![k] = bins]
  <2>1. Push(h, b, p) = [h EXCEPT !.stack = t]
    BY <1>1 DEF Push, s
  <2>2. Push(h, b, p) = [ brk |-> h.brk, size |-> h.size, stack |-> t,
                          bins |-> h.bins, skip |-> h.skip, bigs |-> h.bigs ]
    <3> HIDE DEF t
    <3> QED BY <1>1, <2>1
  <2>3. g = [Push(h, b, p) EXCEPT !.bins = l]
    <3> HIDE DEF t
    <3> QED BY <2>2
  <2> HIDE DEF t, l, g
  <2>4. g = [ brk |-> h.brk, size |-> h.size, stack |-> t,
              bins |-> l, skip |-> h.skip, bigs |-> h.bigs ]
    BY <2>2, <2>3
  <2> QED BY <2>4 DEF t, l
<1> HIDE DEF g
<1>11. /\ Blocks(g) = Blocks(h) /\ Small(g) = Small(h) /\ Big(g) = Big(h)
       /\ \A c \in Blocks(h) : IsBig(g, c) = IsBig(h, c) /\ Extent(g, c) = Extent(h, c)
                               /\ CellsOf(g, c) = CellsOf(h, c)
  BY <1>10 DEF Blocks, Small, Big, IsBig, Extent, CellsOf
<1>12. g.stack[b] = s /\ \A c \in Blocks(h) : c # b => g.stack[c] = h.stack[c]
  BY <1>1, <1>10
<1>13. HeapType(g)
  <2>1. g.stack \in [Blocks(g) -> Seq(Nat)]
    BY <1>1, <1>7, <1>10, <1>11
  <2>2. g.bins \in [0 .. BIG_BIN - 1 -> Seq(Blocks(g))]
    BY <1>1, <1>9, <1>10, <1>11
  <2> QED BY <2>1, <2>2, <1>1, <1>10, <1>11 DEF HeapType
<1>14. Layout(g)
  BY <1>10, <1>11 DEF HeapInv, Layout
<1>15. SmallPages(g)
  <2>1. \A c \in Small(g) :
          /\ g.size[c] \in 0 .. BIG_BIN - 1
          /\ Elems(g.stack[c]) \subseteq CellsOf(g, c)
          /\ NoRepeats(g.stack[c])
    <3> TAKE c \in Small(g)
    <3>1. CASE c = b
      <4>1. Elems(h.stack[b]) \subseteq CellsOf(h, b)
        BY <1>2 DEF HeapInv, SmallPages
      <4> QED BY <3>1, <4>1, <1>2, <1>3, <1>7, <1>10, <1>11, <1>12
    <3>2. CASE c # b
      BY <3>2, <1>10, <1>11, <1>12 DEF HeapInv, SmallPages, Small
    <3> QED BY <3>1, <3>2
  <2>2. ASSUME NEW j \in 0 .. BIG_BIN - 1
        PROVE  /\ Elems(g.bins[j]) = { c \in Small(g) : g.size[c] = j /\ g.stack[c] # <<>> }
               /\ NoRepeats(g.bins[j])
    <3>1. Elems(h.bins[j]) = { c \in Small(h) : h.size[c] = j /\ h.stack[c] # <<>> }
          /\ NoRepeats(h.bins[j])
      BY DEF HeapInv, SmallPages
    <3>2. \A c \in Small(g) : c # b => g.stack[c] = h.stack[c] /\ g.size[c] = h.size[c]
      BY <1>10, <1>11, <1>12 DEF Small
    <3>3. CASE j # k
      <4>1. g.bins[j] = h.bins[j]
        BY <3>3, <1>1, <1>10
      <4>2. \A c \in Small(h) : (g.size[c] = j /\ g.stack[c] # <<>>)
                                <=> (h.size[c] = j /\ h.stack[c] # <<>>)
        BY <3>2, <3>3, <1>10, <1>11
      <4> QED BY <3>1, <4>1, <4>2, <1>11
    <3>4. CASE j = k
      <4>1. g.bins[j] = bins
        BY <3>4, <1>1, <1>3, <1>10
      <4>2. { c \in Small(g) : g.size[c] = j /\ g.stack[c] # <<>> } = Elems(h.bins[k]) \cup {b}
        BY <3>1, <3>2, <3>4, <1>2, <1>7, <1>10, <1>11, <1>12
      <4> QED BY <4>1, <4>2, <1>9
    <3> QED BY <3>3, <3>4
  <2> QED BY <2>1, <2>2 DEF SmallPages
<1>16. BigBlocks(g)
  BY <1>2, <1>10, <1>11, <1>12 DEF HeapInv, BigBlocks, Small, Big
<1>17. Owned(g, M)
  <2>1. /\ DOMAIN M = DOMAIN L \ {p} /\ \A q \in DOMAIN L \ {p} : M[q] = L[q]
        /\ M \in [DOMAIN M -> Nat \ {0}] /\ HeapInv(h, M)
    BY RevokedBooks
  <2> HIDE DEF M
  <2>2. ASSUME NEW q \in DOMAIN M, NEW c \in Blocks(h)
        PROVE  /\ OwnedCell(h, M, c, q) => OwnedCell(g, M, c, q)
               /\ OwnedHandle(h, M, c, q) => OwnedHandle(g, M, c, q)
    <3>1. CASE c # b
      BY <3>1, <1>10, <1>11, <1>12 DEF OwnedCell, OwnedHandle, Usable
    <3>2. CASE c = b
      BY <3>2, <2>1, <1>2, <1>7, <1>10, <1>11, <1>12 DEF OwnedCell, OwnedHandle
    <3> QED BY <3>1, <3>2
  <2> QED BY <2>1, <2>2, <1>11 DEF HeapInv, Owned
<1>18. HeapInv(g, M)
  BY <1>13, <1>14, <1>15, <1>16, <1>17 DEF HeapInv
<1> QED BY <1>6, <1>18 DEF Result

(* free() of a big block: the assertions of free(), malloc_stack_push and  *)
(* malloc_skip_list_insert hold.                                           *)
LEMMA FreeBigInv ==
  ASSUME NEW h, NEW L, HeapInv(h, L), NEW b \in Blocks(h), NEW p \in DOMAIN L,
         OwnedHandle(h, L, b, p)
  PROVE  LET r == FreeBig(h, b)
         IN  r = Result("ok", r.heap, NULL) /\ HeapInv(r.heap, Revoke(L, p))
<1> DEFINE a == b + BIG_HEADER
<1> DEFINE g == [Push(h, b, a) EXCEPT !.skip = @ \cup {b}]
<1> DEFINE M == Revoke(L, p)
<1>1. /\ h = [ brk |-> h.brk, size |-> h.size, stack |-> h.stack,
               bins |-> h.bins, skip |-> h.skip, bigs |-> h.bigs ]
      /\ h.size \in [Blocks(h) -> Nat]
      /\ h.stack \in [Blocks(h) -> Seq(Nat)]
      /\ h.bins \in [0 .. BIG_BIN - 1 -> Seq(Blocks(h))]
      /\ h.skip \subseteq Blocks(h) /\ h.bigs \in Seq(Blocks(h)) /\ h.brk \in Nat
  BY DEF HeapInv, HeapType
<1>2. b \in Big(h) /\ IsBig(h, b) /\ h.stack[b] = <<>> /\ p \in Handles(b) /\ b \notin Small(h)
  BY DEF OwnedHandle, Big, Small
<1>3. /\ b \in Nat /\ h.size[b] \in Nat /\ h.size[b] >= PAGE_SIZE - BIG_HEADER
      /\ b % PAGE_SIZE = 0 /\ (h.size[b] + BIG_HEADER) % PAGE_SIZE = 0
  BY <1>2, BlockFacts DEF HeapInv, BigBlocks
<1>4. a \in Nat /\ a > b /\ a < b + h.size[b] /\ h.size[b] # 0
  BY <1>3, SMT DEF PAGE_SIZE, BIG_HEADER
<1>5. FreeBigAsserts(h, b)
  BY <1>2, <1>3, <1>4 DEF FreeBigAsserts, PushAsserts
<1>6. FreeBig(h, b) = Result("ok", g, NULL)
  BY <1>5 DEF FreeBig, Checked
<1> HIDE DEF a
<1>7. /\ g = [ brk |-> g.brk, size |-> g.size, stack |-> g.stack,
               bins |-> g.bins, skip |-> g.skip, bigs |-> g.bigs ]
      /\ g.brk = h.brk /\ g.size = h.size /\ g.bins = h.bins /\ g.bigs = h.bigs
      /\ g.skip = h.skip \cup {b}
      /\ g.stack = [h.stack EXCEPT ![b] = <<a>>]
  <2> DEFINE t == [h.stack EXCEPT ![b] = <<a>>]
  <2> DEFINE l == h.skip \cup {b}
  <2>1. Push(h, b, a) = [h EXCEPT !.stack = t]
    <3>1. <<a>> \o h.stack[b] = <<a>>
      BY <1>2, <1>4
    <3> QED BY <1>1, <3>1 DEF Push
  <2> HIDE DEF t
  <2>2. Push(h, b, a) = [ brk |-> h.brk, size |-> h.size, stack |-> t,
                          bins |-> h.bins, skip |-> h.skip, bigs |-> h.bigs ]
    BY <1>1, <2>1
  <2>3. g = [ brk |-> h.brk, size |-> h.size, stack |-> t,
              bins |-> h.bins, skip |-> l, bigs |-> h.bigs ]
    BY <2>2
  <2> HIDE DEF l, g
  <2> QED BY <2>3 DEF t, l
<1> HIDE DEF g
<1>8. /\ Blocks(g) = Blocks(h) /\ Small(g) = Small(h) /\ Big(g) = Big(h)
      /\ \A c \in Blocks(h) : IsBig(g, c) = IsBig(h, c) /\ Extent(g, c) = Extent(h, c)
                              /\ CellsOf(g, c) = CellsOf(h, c)
  BY <1>7 DEF Blocks, Small, Big, IsBig, Extent, CellsOf
<1>9. g.stack[b] = <<a>> /\ \A c \in Blocks(h) : c # b => g.stack[c] = h.stack[c]
  BY <1>1, <1>7
<1>10. HeapType(g)
  <2>1. g.stack \in [Blocks(g) -> Seq(Nat)]
    BY <1>1, <1>4, <1>7, <1>8
  <2> QED BY <2>1, <1>1, <1>7, <1>8 DEF HeapType
<1>11. Layout(g)
  BY <1>7, <1>8 DEF HeapInv, Layout
<1>12. SmallPages(g)
  <2>1. \A c \in Small(g) : c \in Blocks(h) /\ g.stack[c] = h.stack[c] /\ g.size[c] = h.size[c]
    BY <1>2, <1>7, <1>8, <1>9 DEF Small
  <2>2. \A k \in 0 .. BIG_BIN - 1 :
          { c \in Small(g) : g.size[c] = k /\ g.stack[c] # <<>> } =
          { c \in Small(h) : h.size[c] = k /\ h.stack[c] # <<>> }
    BY <2>1, <1>8
  <2> QED BY <2>1, <2>2, <1>7, <1>8 DEF HeapInv, SmallPages
<1>13. BigBlocks(g)
  <2>1. \A c \in Big(g) : c \in Blocks(h) /\ g.size[c] = h.size[c]
    BY <1>7, <1>8 DEF Big
  <2>2. \A c \in Big(g) :
          /\ (g.size[c] + BIG_HEADER) % PAGE_SIZE = 0
          /\ c % PAGE_SIZE = 0
          /\ g.stack[c] \in { <<>>, <<c + BIG_HEADER>> }
    BY <2>1, <1>8, <1>9 DEF HeapInv, BigBlocks, a
  <2>3. g.stack[b] # <<>>
    BY <1>9
  <2>4. g.skip = { c \in Big(g) : g.stack[c] # <<>> }
    BY <2>1, <2>3, <1>2, <1>7, <1>8, <1>9 DEF HeapInv, BigBlocks
  <2> QED BY <2>2, <2>4 DEF BigBlocks
<1>14. Owned(g, M)
  <2>1. /\ DOMAIN M = DOMAIN L \ {p} /\ \A q \in DOMAIN L \ {p} : M[q] = L[q]
        /\ M \in [DOMAIN M -> Nat \ {0}] /\ HeapInv(h, M)
    BY RevokedBooks
  <2> HIDE DEF M
  <2>2. Handles(b) \cap DOMAIN M = {}
    BY <2>1, <1>2 DEF HeapInv, Owned
  <2>3. ASSUME NEW q \in DOMAIN M, NEW c \in Blocks(h)
        PROVE  /\ OwnedCell(h, M, c, q) => OwnedCell(g, M, c, q)
               /\ OwnedHandle(h, M, c, q) => OwnedHandle(g, M, c, q)
    <3>1. CASE c # b
      BY <3>1, <1>7, <1>8, <1>9 DEF OwnedCell, OwnedHandle, Usable
    <3>2. CASE c = b
      BY <3>2, <2>2, <1>2 DEF OwnedCell, OwnedHandle
    <3> QED BY <3>1, <3>2
  <2> QED BY <2>1, <2>3, <1>8 DEF HeapInv, Owned
<1>15. HeapInv(g, M)
  BY <1>10, <1>11, <1>12, <1>13, <1>14 DEF HeapInv
<1> QED BY <1>6, <1>15 DEF Result

(* free(p), for a pointer the caller holds: no assertion fails.            *)
LEMMA FreeCall ==
  ASSUME NEW h, NEW L, HeapInv(h, L), NEW p \in DOMAIN L
  PROVE  free(h, p) = Result("ok", free(h, p).heap, NULL) /\ HeapInv(free(h, p).heap, Revoke(L, p))
<1>1. PICK b \in Blocks(h) : OwnedCell(h, L, b, p) \/ OwnedHandle(h, L, b, p)
  BY DEF HeapInv, Owned
<1>2. CASE HeaderOf(p) \notin Blocks(h)
  <2>1. free(h, p) = Result("ok", h, NULL)
    BY <1>2 DEF free, Blocks
  <2>2. free(h, p).heap = h
    BY <2>1 DEF Result
  <2> QED BY <2>1, <2>2, RevokedBooks
<1>3. CASE HeaderOf(p) \in Blocks(h)
  <2>1. HeaderOf(p) = b /\ b % PAGE_SIZE = 0
    BY <1>1, <1>3, FindsHeader
  <2>2. p # NULL
    BY <1>1, OwnedInside, BlockFacts, SMT DEF NULL
  <2>3. CASE OwnedCell(h, L, b, p)
    BY <2>1, <2>2, <2>3, <1>3, FreeCellInv DEF free, OwnedCell, Blocks
  <2>4. CASE OwnedHandle(h, L, b, p)
    BY <2>1, <2>2, <2>4, <1>3, FreeBigInv DEF free, OwnedHandle, Blocks
  <2> QED BY <1>1, <2>3, <2>4
<1> QED BY <1>2, <1>3

(* No live pointer is NULL.                                                *)
LEMMA NotNull ==
  ASSUME NEW h, NEW L, HeapInv(h, L)
  PROVE  NULL \notin DOMAIN L /\ Revoke(L, NULL) = L
<1>1. ASSUME NEW p \in DOMAIN L PROVE p # NULL
  <2>1. PICK b \in Blocks(h) : OwnedCell(h, L, b, p) \/ OwnedHandle(h, L, b, p)
    BY DEF HeapInv, Owned
  <2> QED BY <2>1, OwnedInside, BlockFacts, SMT DEF NULL
<1>2. L \in [DOMAIN L -> Nat \ {0}]
  BY DEF HeapInv, Owned
<1>3. NULL \notin DOMAIN L
  BY <1>1
<1> QED BY <1>2, <1>3 DEF Revoke

(* realloc() that finds room in the old block.                             *)
LEMMA StaysInv ==
  ASSUME NEW h, NEW L, HeapInv(h, L), NEW p \in DOMAIN L, NEW n \in Nat \ {0},
         PageOf(p) \in Blocks(h), n <= OldSize(h, PageOf(p))
  PROVE  HeapInv(h, Extend(Revoke(L, p), p, n))
<1> DEFINE M == Extend(Revoke(L, p), p, n)
<1>1. PICK b \in Blocks(h) : OwnedCell(h, L, b, p) \/ OwnedHandle(h, L, b, p)
  BY DEF HeapInv, Owned
<1>2. /\ b \in Nat /\ p \in Nat /\ b < p /\ p < b + Extent(h, b)
      /\ PageOf(p) \in Nat /\ Extent(h, b) \in Nat /\ h.size[b] \in Nat
  BY <1>1, BlockFacts, OwnedInside
<1>3. PageOf(p) % PAGE_SIZE = 0
  BY <1>2, SMT DEF PageOf, PAGE_SIZE
<1>4. (b - HeapBase) % PAGE_SIZE = 0 /\ (PageOf(p) - HeapBase) % PAGE_SIZE = 0
  BY DEF HeapInv, Layout
<1>5. b % PAGE_SIZE = 0
  BY <1>2, <1>3, <1>4, ConstantsOK, SMT DEF PAGE_SIZE
<1>6. p # b + PAGE_SIZE
  <2> SUFFICES ASSUME p = b + PAGE_SIZE PROVE FALSE
    OBVIOUS
  <2>1. PageOf(p) = p
    BY <1>2, <1>5, SMT DEF PageOf, PAGE_SIZE
  <2>2. b + Extent(h, b) <= p
    BY <1>2, <2>1 DEF HeapInv, Layout
  <2> QED BY <1>2, <2>2
<1>7. p < b + PAGE_SIZE
  <2>1. CASE OwnedCell(h, L, b, p)
    BY <2>1, <1>2, BlockFacts DEF OwnedCell
  <2>2. CASE OwnedHandle(h, L, b, p)
    BY <2>2, <1>2, <1>6, SMT DEF OwnedHandle, Handles, VallocPtr, PAGE_SIZE, BIG_HEADER
  <2> QED BY <1>1, <2>1, <2>2
<1>8. PageOf(p) = b
  BY <1>2, <1>5, <1>7, SMT DEF PageOf, PAGE_SIZE
<1>9. /\ DOMAIN M = DOMAIN L /\ M[p] = n /\ \A q \in DOMAIN L : q # p => M[q] = L[q]
      /\ M \in [DOMAIN M -> Nat \ {0}]
  <2>1. L \in [DOMAIN L -> Nat \ {0}]
    BY DEF HeapInv, Owned
  <2> QED BY <2>1 DEF Extend, Revoke
<1> HIDE DEF M
<1>10. OwnedCell(h, M, b, p) \/ OwnedHandle(h, M, b, p)
  <2>1. CASE OwnedCell(h, L, b, p)
    <3>1. h.size[b] \in 0 .. BIG_BIN - 1
      BY <2>1, BlockFacts DEF OwnedCell
    <3>2. h.size[b] < BIG_BIN
      BY <3>1, SMT DEF BIG_BIN, NUM_BINS
    <3>3. n <= CellSize(h.size[b])
      BY <3>2, <1>8 DEF OldSize
    <3> QED BY <2>1, <3>3, <1>9 DEF OwnedCell
  <2>2. CASE OwnedHandle(h, L, b, p)
    <3>1. p = b + BIG_HEADER /\ IsBig(h, b)
      BY <2>2, <1>2, <1>6 DEF OwnedHandle, Handles, VallocPtr
    <3>2. ~(h.size[b] < BIG_BIN)
      BY <3>1, <1>2, SMT DEF IsBig, BIG_BIN, NUM_BINS
    <3>3. n <= h.size[b] /\ Extent(h, b) = h.size[b] + BIG_HEADER
      BY <3>1, <3>2, <1>8 DEF OldSize, Extent
    <3>4. n <= Usable(h, b, p)
      BY <3>1, <3>3, <1>2, SMT DEF Usable, BIG_HEADER
    <3> QED BY <2>2, <3>4, <1>9 DEF OwnedHandle
  <2> QED BY <1>1, <2>1, <2>2
<1>11. \A q \in DOMAIN M : \E c \in Blocks(h) : OwnedCell(h, M, c, q) \/ OwnedHandle(h, M, c, q)
  <2> TAKE q \in DOMAIN M
  <2>1. CASE q = p
    BY <2>1, <1>10
  <2>2. CASE q # p
    BY <2>2, <1>9 DEF HeapInv, Owned, OwnedCell, OwnedHandle
  <2> QED BY <2>1, <2>2
<1>12. \A c \in Big(h) : \A q, s \in DOMAIN M \cap Handles(c) : q = s
  BY <1>9 DEF HeapInv, Owned
<1> QED BY <1>9, <1>11, <1>12 DEF HeapInv, Owned, M

(* What a call that stops the kernel leaves behind.                        *)
Stopped(r) ==
  r.st \in { "fault", "misaligned", "badmagic" } /\ HeapType(r.heap)

(* realloc(p, n): it frees, stays where it is, or allocates and frees the  *)
(* old block; the new block is then disjoint from the old one as well.     *)
LEMMA ReallocCall ==
  ASSUME NEW h, NEW L, HeapInv(h, L), NEW p \in DOMAIN L \cup {NULL}, NEW n \in Request,
         NEW r \in realloc(h, p, n)
  PROVE  \/ Stopped(r)
         \/ r.st = "ok" /\ r.ptr = NULL /\ HeapInv(r.heap, Revoke(L, p))
         \/ /\ r.st = "ok" /\ n # 0 /\ p \in DOMAIN L /\ r.ptr = p
            /\ HeapInv(r.heap, Extend(Revoke(L, p), p, n))
         \/ /\ r.st = "ok" /\ n # 0 /\ r.ptr \in Nat \ {0} /\ r.ptr \notin DOMAIN L
            /\ \E g : HeapInv(g, Extend(L, r.ptr, n))
            /\ HeapInv(r.heap, Extend(Revoke(L, p), r.ptr, n))
<1>0. n \in Nat /\ HeapType(h)
  BY DEF Request, HeapInv
<1>1. CASE p = NULL
  <2>1. r \in malloc(h, n)
    BY <1>1 DEF realloc
  <2>2. Revoke(L, p) = L
    BY <1>1, NotNull
  <2>3. \/ n = 0 /\ r = Result("ok", h, NULL)
        \/ r = Result("fault", h, NULL)
        \/ r.st = "misaligned" /\ HeapType(r.heap)
        \/ /\ n # 0 /\ r.st = "ok" /\ r.ptr \in Nat \ {0} /\ r.ptr \notin DOMAIN L
           /\ HeapInv(r.heap, Extend(L, r.ptr, n))
    BY <2>1, MallocCall
  <2> QED BY <2>2, <2>3, <1>0 DEF Result, Stopped
<1>2. CASE p # NULL /\ n = 0
  <2>1. r = free(h, p) /\ p \in DOMAIN L
    BY <1>2 DEF realloc
  <2>2. free(h, p) = Result("ok", free(h, p).heap, NULL) /\ HeapInv(free(h, p).heap, Revoke(L, p))
    BY <2>1, FreeCall
  <2>3. r = Result("ok", r.heap, NULL) /\ HeapInv(r.heap, Revoke(L, p))
    BY <2>1, <2>2
  <2>4. r.st = "ok" /\ r.ptr = NULL
    BY <2>3 DEF Result
  <2> QED BY <2>3, <2>4
<1>3. CASE p # NULL /\ n # 0 /\ PageOf(p) \notin Blocks(h)
  <2>1. r = Result("badmagic", h, NULL)
    BY <1>3 DEF realloc, Blocks
  <2> QED BY <2>1, <1>0 DEF Result, Stopped
<1>4. CASE p # NULL /\ n # 0 /\ PageOf(p) \in Blocks(h) /\ OldSize(h, PageOf(p)) >= n
  <2>1. r = Result("ok", h, p)
    BY <1>4 DEF realloc, Blocks
  <2>2. r.st = "ok" /\ r.heap = h /\ r.ptr = p
    BY <2>1 DEF Result
  <2>3. PageOf(p) \in Nat /\ OldSize(h, PageOf(p)) \in Nat
    <3>1. PageOf(p) \in Nat /\ h.size[PageOf(p)] \in Nat
      BY <1>4, BlockFacts
    <3>2. h.size[PageOf(p)] < BIG_BIN => h.size[PageOf(p)] \in 0 .. BIG_BIN - 1
      BY <3>1, SMT DEF BIG_BIN, NUM_BINS
    <3> QED BY <3>1, <3>2, BinBounds DEF OldSize
  <2>4. n <= OldSize(h, PageOf(p))
    BY <1>0, <1>4, <2>3
  <2>5. HeapInv(h, Extend(Revoke(L, p), p, n))
    BY <1>0, <1>4, <2>4, StaysInv
  <2> QED BY <1>4, <2>2, <2>5
<1>5. CASE p # NULL /\ n # 0 /\ PageOf(p) \in Blocks(h) /\ ~(OldSize(h, PageOf(p)) >= n)
  <2>1. PICK m \in malloc(h, n) :
          r = IF m.st # "ok" THEN m ELSE [free(m.heap, p) EXCEPT !.ptr = m.ptr]
    BY <1>5 DEF realloc, Blocks
  <2>2. \/ m = Result("fault", h, NULL)
        \/ m.st = "misaligned" /\ HeapType(m.heap)
        \/ /\ m.st = "ok" /\ m.ptr \in Nat \ {0} /\ m.ptr \notin DOMAIN L
           /\ HeapInv(m.heap, Extend(L, m.ptr, n))
    BY <1>5, <2>1, MallocCall
  <2>3. CASE m.st # "ok"
    BY <2>1, <2>2, <2>3, <1>0 DEF Result, Stopped
  <2>4. CASE m.st = "ok"
    <3> DEFINE q == m.ptr
    <3> DEFINE N == Extend(L, q, n)
    <3> DEFINE f == free(m.heap, p)
    <3>1. q \in Nat \ {0} /\ q \notin DOMAIN L /\ HeapInv(m.heap, N) /\ p \in DOMAIN L
      BY <2>2, <2>4, <1>5 DEF Result
    <3>2. p \in DOMAIN N
      BY <3>1 DEF Extend
    <3>3. f = Result("ok", f.heap, NULL) /\ HeapInv(f.heap, Revoke(N, p))
      <4> HIDE DEF N
      <4> QED BY <3>1, <3>2, FreeCall
    <3>4. Revoke(N, p) = Extend(Revoke(L, p), q, n)
      BY <3>1 DEF Revoke, Extend
    <3>5. r = [f EXCEPT !.ptr = q]
      BY <2>1, <2>4
    <3> HIDE DEF N, q, f
    <3>6. r.st = "ok" /\ r.heap = f.heap /\ r.ptr = q
      BY <3>3, <3>5 DEF Result
    <3>7. HeapInv(r.heap, Extend(Revoke(L, p), q, n))
      BY <3>3, <3>4, <3>6
    <3>8. HeapInv(m.heap, Extend(L, q, n))
      BY <3>1 DEF N
    <3> QED BY <1>5, <3>1, <3>6, <3>7, <3>8
  <2> QED BY <2>3, <2>4
<1> QED BY <1>1, <1>2, <1>3, <1>4, <1>5

----------------------------------------------------------------------------
(* Two live pointers never share a byte, and both stay inside the arena.   *)
LEMMA Separate ==
  ASSUME NEW h, NEW L, HeapInv(h, L), NEW p \in DOMAIN L
  PROVE  /\ p \in Nat /\ L[p] \in Nat /\ HeapBase < p /\ p + L[p] <= HeapBase + MEMORY_CAPACITY
         /\ \A q \in DOMAIN L : p # q => p + L[p] <= q \/ q + L[q] <= p
<1>1. PICK b \in Blocks(h) : OwnedCell(h, L, b, p) \/ OwnedHandle(h, L, b, p)
  BY DEF HeapInv, Owned
<1>2. /\ p \in Nat /\ L[p] \in Nat /\ L[p] > 0 /\ b < p /\ p + L[p] <= b + Extent(h, b)
      /\ b \in Nat /\ Extent(h, b) \in Nat /\ HeapBase <= b /\ b + Extent(h, b) <= h.brk
      /\ h.brk \in Nat
  BY <1>1, OwnedInside, BlockFacts
<1>3. HeapBase < p /\ p + L[p] <= HeapBase + MEMORY_CAPACITY
  BY <1>2, ConstantsOK, SMT DEF HeapInv, Layout
<1>4. ASSUME NEW q \in DOMAIN L, p # q PROVE p + L[p] <= q \/ q + L[q] <= p
  <2>1. PICK c \in Blocks(h) : OwnedCell(h, L, c, q) \/ OwnedHandle(h, L, c, q)
    BY DEF HeapInv, Owned
  <2>2. /\ q \in Nat /\ L[q] \in Nat /\ L[q] > 0 /\ c < q /\ q + L[q] <= c + Extent(h, c)
        /\ c \in Nat /\ Extent(h, c) \in Nat
    BY <2>1, OwnedInside, BlockFacts
  <2>3. CASE b # c
    <3>1. b + Extent(h, b) <= c \/ c + Extent(h, c) <= b
      BY <2>3, <1>2, <2>2 DEF HeapInv, Layout
    <3> QED BY <3>1, <1>2, <2>2
  <2>4. CASE b = c /\ IsBig(h, b)
    BY <2>4, <1>1, <2>1, <1>4 DEF OwnedCell, OwnedHandle, HeapInv, Owned, Big
  <2>5. CASE b = c /\ ~IsBig(h, b)
    <3> DEFINE k == h.size[b]
    <3>1. /\ p \in Cells(b, k) /\ q \in Cells(b, k)
          /\ L[p] <= CellSize(k) /\ L[q] <= CellSize(k)
      BY <2>5, <1>1, <2>1 DEF OwnedCell, OwnedHandle, CellsOf
    <3>2. k \in 0 .. BIG_BIN - 1
      BY <2>5, BlockFacts
    <3>3. CellSize(k) \in Nat
      BY <3>2, BinBounds
    <3>4. p + CellSize(k) <= q \/ q + CellSize(k) <= p
      BY <3>1, <3>2, <1>2, <1>4, CellsDisjoint
    <3> HIDE DEF k
    <3> QED BY <3>1, <3>3, <3>4, <1>2, <2>2, SMT
  <2> QED BY <2>3, <2>4, <2>5
<1> QED BY <1>2, <1>3, <1>4

(* What the caller holds meets no header and no link word of a free cell.  *)
LEMMA Apart ==
  ASSUME NEW h, NEW L, HeapInv(h, L), NEW p \in DOMAIN L, NEW b \in Blocks(h)
  PROVE  /\ ~Meets(p, L[p], b, HeaderSize(h, b))
         /\ \A c \in Elems(h.stack[b]) : ~Meets(p, L[p], c, 8)
<1>1. PICK o \in Blocks(h) : OwnedCell(h, L, o, p) \/ OwnedHandle(h, L, o, p)
  BY DEF HeapInv, Owned
<1>2. /\ p \in Nat /\ L[p] \in Nat /\ L[p] > 0 /\ o < p
      /\ o + HeaderSize(h, o) <= p /\ p + L[p] <= o + Extent(h, o)
  BY <1>1, OwnedInside
<1>3. /\ o \in Nat /\ Extent(h, o) \in Nat
      /\ b \in Nat /\ h.size[b] \in Nat /\ Extent(h, b) \in Nat
  BY BlockFacts
<1>4. b # o => b + Extent(h, b) <= o \/ o + Extent(h, o) <= b
  BY <1>3 DEF HeapInv, Layout
<1>5. HeaderSize(h, b) \in Nat /\ HeaderSize(h, b) <= Extent(h, b)
  <2>1. CASE IsBig(h, b)
    BY <2>1, <1>3, BlockFacts, SMT DEF HeaderSize, BIG_HEADER
  <2>2. CASE ~IsBig(h, b)
    BY <2>2, <1>3, BlockFacts, SMT DEF HeaderSize, SMALL_HEADER, PAGE_SIZE
  <2> QED BY <2>1, <2>2
<1>6. ~Meets(p, L[p], b, HeaderSize(h, b))
  BY <1>2, <1>3, <1>4, <1>5, SMT DEF Meets
<1>7. ASSUME NEW c \in Elems(h.stack[b]) PROVE ~Meets(p, L[p], c, 8)
  <2>1. CASE IsBig(h, b)
    <3>1. c = b + BIG_HEADER /\ h.stack[b] # <<>>
      BY <2>1, <1>7, BlockFacts DEF Elems
    <3>3. c + 8 <= b + Extent(h, b)
      BY <2>1, <3>1, <1>3, BlockFacts, SMTT(30) DEF BIG_HEADER, PAGE_SIZE
    <3>2. b # o
      BY <2>1, <3>1, <1>1 DEF OwnedCell, OwnedHandle
    <3> QED BY <3>1, <3>2, <3>3, <1>2, <1>3, <1>4, SMT DEF Meets, BIG_HEADER
  <2>2. CASE ~IsBig(h, b)
    <3> DEFINE k == h.size[b]
    <3>1. b \in Small(h) /\ c \in CellsOf(h, b)
      BY <2>2, <1>7 DEF Small, HeapInv, SmallPages
    <3>2. /\ c \in Nat /\ b < c /\ c + CellSize(k) <= b + Extent(h, b)
      BY <3>1, CellInside
    <3>3. k \in 0 .. BIG_BIN - 1 /\ CellSize(k) \in Nat /\ CellSize(k) >= 8
      BY <2>2, BlockFacts, BinBounds
    <3>4. CASE b # o
      <4> HIDE DEF k
      <4> QED BY <3>2, <3>3, <3>4, <1>2, <1>3, <1>4, SMT DEF Meets
    <3>5. CASE b = o
      <4>1. p \in Cells(b, k) /\ c \in Cells(b, k) /\ p # c /\ L[p] <= CellSize(k)
        BY <2>2, <3>1, <3>5, <1>1, <1>7 DEF OwnedCell, OwnedHandle, CellsOf
      <4>2. p + CellSize(k) <= c \/ c + CellSize(k) <= p
        BY <4>1, <3>3, <1>3, CellsDisjoint
      <4> HIDE DEF k
      <4> QED BY <4>1, <4>2, <3>2, <3>3, <1>2, SMT DEF Meets
    <3> QED BY <3>4, <3>5
  <2> QED BY <2>1, <2>2
<1> QED BY <1>6, <1>7

(* The heap before the first call.                                         *)
LEMMA EmptyHeapInv == HeapInv(EmptyHeap, [p \in {} |-> 0])
<1> DEFINE h == EmptyHeap
<1> DEFINE L == [p \in {} |-> 0]
<1>1. Blocks(h) = {} /\ Small(h) = {} /\ Big(h) = {} /\ DOMAIN L = {}
  BY DEF EmptyHeap, Blocks, Small, Big
<1>2. Elems(<<>>) = {} /\ NoRepeats(<<>>)
  BY DEF Elems, NoRepeats
<1>3. HeapType(h)
  BY <1>1, ConstantsOK DEF HeapType, EmptyHeap, Blocks
<1>4. Layout(h)
  <2>1. h.brk = HeapBase
    BY DEF EmptyHeap
  <2>2. (HeapBase - HeapBase) % PAGE_SIZE = 0 /\ HeapBase <= HeapBase + MEMORY_CAPACITY
        /\ HeapBase <= HeapBase
    BY ConstantsOK, SMT DEF PAGE_SIZE
  <2> QED BY <1>1, <2>1, <2>2 DEF Layout
<1>5. SmallPages(h)
  BY <1>1, <1>2 DEF SmallPages, EmptyHeap
<1>6. BigBlocks(h)
  BY <1>1 DEF BigBlocks, EmptyHeap
<1>7. Owned(h, L)
  BY <1>1 DEF Owned
<1> QED BY <1>3, <1>4, <1>5, <1>6, <1>7 DEF HeapInv

(* The inductive invariant: the heap is consistent with the caller's books *)
(* until the kernel stops, and what stops it is never one of the           *)
(* assertions on the stacks and the lists.                                 *)
IInv ==
  /\ status \in { "ok", "fault", "misaligned", "badmagic" }
  /\ HeapType(heap)
  /\ status = "ok" => HeapInv(heap, live)

(* What a call returns and what it makes of the caller's books, as an      *)
(* outcome the contract of module HeapSpec allows.                         *)
Allowed(r, M) ==
  \/ Stopped(r)
  \/ /\ r.st = "ok" /\ HeapInv(r.heap, M)
     /\ M # live => \/ \E p \in DOMAIN live : M = Revoke(live, p)
                    \/ \E p, n : /\ p \in DOMAIN live /\ M = Extend(Revoke(live, p), p, n)
                    \/ \E p, q, n : /\ p \in DOMAIN live \cup {NULL} /\ q \notin DOMAIN live
                                    /\ M = Extend(Revoke(live, p), q, n)
                                    /\ \E g : HeapInv(g, Extend(live, q, n))

(* An allowed outcome keeps the invariant and is a step of the contract.   *)
LEMMA Outcome ==
  ASSUME IInv, status = "ok", NEW r, NEW M, Allowed(r, M), Return(r, M)
  PROVE  IInv' /\ [Contract!Next]_live
<1>1. heap' = r.heap /\ status' = r.st
  BY DEF Return
<1>2. CASE Stopped(r)
  <2>1. live' = live
    BY <1>2 DEF Return, Stopped
  <2> QED BY <1>1, <1>2, <2>1 DEF IInv, Stopped
<1>3. CASE r.st = "ok" /\ HeapInv(r.heap, M) /\ Allowed(r, M) /\ ~Stopped(r)
  <2>1. live' = M
    BY <1>3 DEF Return
  <2>2. IInv'
    BY <1>1, <1>3, <2>1 DEF IInv, HeapInv
  <2>3. CASE M = live
    BY <2>1, <2>2, <2>3
  <2>4. CASE \E p \in DOMAIN live : M = Revoke(live, p)
    BY <2>1, <2>2, <2>4 DEF Contract!Next, Contract!Release, Contract!Without, Revoke
  <2>5. CASE \E p, n : p \in DOMAIN live /\ M = Extend(Revoke(live, p), p, n)
    <3>1. PICK p, n : p \in DOMAIN live /\ M = Extend(Revoke(live, p), p, n)
      BY <2>5
    <3>2. /\ p \in DOMAIN M /\ M[p] = n
          /\ \A q \in DOMAIN live \ {p} : q \in DOMAIN M /\ M[q] = Revoke(live, p)[q]
      BY <3>1 DEF Extend, Revoke
    <3>3. HeapBase < p /\ p + n <= HeapBase + MEMORY_CAPACITY
          /\ \A q \in DOMAIN M : p # q => p + n <= q \/ q + M[q] <= p
      BY <3>2, <1>3, Separate
    <3>4. Contract!Resize(p, n)
      BY <3>1, <3>2, <3>3, <2>1
         DEF Contract!Resize, Contract!Fits, Contract!Disjoint, Contract!Without, Contract!With,
             Revoke, Extend
    <3> QED BY <3>1, <3>2, <3>4, <2>1, <2>2 DEF Contract!Next
  <2>6. CASE \E p, q, n : /\ p \in DOMAIN live \cup {NULL} /\ q \notin DOMAIN live
                          /\ M = Extend(Revoke(live, p), q, n)
                          /\ \E g : HeapInv(g, Extend(live, q, n))
    <3>1. PICK p, q, n : /\ p \in DOMAIN live \cup {NULL} /\ q \notin DOMAIN live
                         /\ M = Extend(Revoke(live, p), q, n)
                         /\ \E g : HeapInv(g, Extend(live, q, n))
      BY <2>6
    <3> DEFINE N == Extend(live, q, n)
    <3>2. q \in DOMAIN N /\ N[q] = n /\ \A s \in DOMAIN live : s \in DOMAIN N /\ N[s] = live[s] /\ s # q
      BY <3>1 DEF Extend
    <3>3. PICK g : HeapInv(g, N)
      BY <3>1
    <3> HIDE DEF N
    <3>4. HeapBase < q /\ q + n <= HeapBase + MEMORY_CAPACITY
          /\ \A s \in DOMAIN live : q # s /\ (q + n <= s \/ s + live[s] <= q)
      BY <3>2, <3>3, Separate
    <3>5. Contract!Fits(q, n, live)
      BY <3>4 DEF Contract!Fits, Contract!Disjoint
    <3>6. q \in DOMAIN M /\ M[q] = n
      BY <3>1 DEF Extend
    <3>7. CASE p \in DOMAIN live
      <4>1. Contract!Move(p, q, n)
        BY <3>1, <3>5, <2>1 DEF Contract!Move, Contract!With, Contract!Without, Extend, Revoke
      <4> QED BY <4>1, <3>6, <3>7, <2>1, <2>2 DEF Contract!Next
    <3>8. CASE p = NULL
      <4>1. Revoke(live, p) = live
        BY <3>8, NotNull DEF IInv
      <4>2. Contract!Allocate(q, n)
        BY <3>1, <3>5, <4>1, <2>1 DEF Contract!Allocate, Contract!With, Extend
      <4> QED BY <4>2, <3>6, <2>1, <2>2 DEF Contract!Next
    <3> QED BY <3>1, <3>7, <3>8
  <2> QED BY <1>3, <2>3, <2>4, <2>5, <2>6 DEF Allowed
<1> QED BY <1>2, <1>3 DEF Allowed

(* A call of malloc().                                                     *)
LEMMA MallocStep ==
  ASSUME IInv, NEW n \in Request, Malloc(n)
  PROVE  IInv' /\ [Contract!Next]_live
<1>1. PICK r \in malloc(heap, n) : Return(r, Grant(live, r.ptr, n))
  BY DEF Malloc
<1>2. status = "ok" /\ HeapInv(heap, live)
  BY DEF Malloc, IInv
<1>3. \/ n = 0 /\ r = Result("ok", heap, NULL)
      \/ r = Result("fault", heap, NULL)
      \/ r.st = "misaligned" /\ HeapType(r.heap)
      \/ /\ n # 0 /\ r.st = "ok" /\ r.ptr \in Nat \ {0} /\ r.ptr \notin DOMAIN live
         /\ HeapInv(r.heap, Extend(live, r.ptr, n))
  BY <1>2, MallocCall
<1>4. Allowed(r, Grant(live, r.ptr, n))
  <2>1. CASE r.st = "ok" /\ r.ptr \in Nat \ {0} /\ r.ptr \notin DOMAIN live
             /\ HeapInv(r.heap, Extend(live, r.ptr, n))
    <3>1. Grant(live, r.ptr, n) = Extend(Revoke(live, NULL), r.ptr, n)
      BY <2>1, <1>2, NotNull DEF Grant, NULL
    <3>2. Grant(live, r.ptr, n) = Extend(live, r.ptr, n)
      BY <2>1 DEF Grant, NULL
    <3> QED BY <2>1, <3>1, <3>2 DEF Allowed
  <2>2. CASE r = Result("ok", heap, NULL)
    <3>1. r.st = "ok" /\ r.heap = heap /\ Grant(live, r.ptr, n) = live
      BY <2>2 DEF Result, Grant
    <3> QED BY <3>1, <1>2 DEF Allowed
  <2>3. CASE Stopped(r)
    BY <2>3 DEF Allowed
  <2>4. r = Result("fault", heap, NULL) => Stopped(r)
    BY DEF Result, Stopped, IInv
  <2> QED BY <1>3, <2>1, <2>2, <2>3, <2>4 DEF Stopped
<1> QED BY <1>1, <1>2, <1>4, Outcome

(* A call of valloc().                                                     *)
LEMMA VallocStep ==
  ASSUME IInv, NEW n \in Request \ {0}, Valloc(n)
  PROVE  IInv' /\ [Contract!Next]_live
<1>1. PICK r \in valloc(heap, n) : Return(r, Grant(live, r.ptr, n))
  BY DEF Valloc
<1>2. status = "ok" /\ HeapInv(heap, live)
  BY DEF Valloc, IInv
<1>3. \/ r = Result("fault", heap, NULL)
      \/ r.st = "misaligned" /\ HeapType(r.heap)
      \/ /\ r.st = "ok" /\ r.ptr \in Nat \ {0} /\ r.ptr \notin DOMAIN live
         /\ HeapInv(r.heap, Extend(live, r.ptr, n))
  BY <1>2, VallocCall
<1>4. Allowed(r, Grant(live, r.ptr, n))
  <2>1. CASE r.st = "ok" /\ r.ptr \in Nat \ {0} /\ r.ptr \notin DOMAIN live
             /\ HeapInv(r.heap, Extend(live, r.ptr, n))
    <3>1. Grant(live, r.ptr, n) = Extend(Revoke(live, NULL), r.ptr, n)
      BY <2>1, <1>2, NotNull DEF Grant, NULL
    <3>2. Grant(live, r.ptr, n) = Extend(live, r.ptr, n)
      BY <2>1 DEF Grant, NULL
    <3> QED BY <2>1, <3>1, <3>2 DEF Allowed
  <2>2. r = Result("fault", heap, NULL) => Stopped(r)
    BY DEF Result, Stopped, IInv
  <2> QED BY <1>3, <2>1, <2>2 DEF Allowed, Stopped
<1> QED BY <1>1, <1>2, <1>4, Outcome

(* A call of free() with a pointer the caller holds.                       *)
LEMMA FreeStep ==
  ASSUME IInv, NEW p \in DOMAIN live, Free(p)
  PROVE  IInv' /\ [Contract!Next]_live
<1> DEFINE r == free(heap, p)
<1>1. status = "ok" /\ HeapInv(heap, live) /\ Return(r, Revoke(live, p))
  BY DEF Free, IInv
<1>2. r = Result("ok", r.heap, NULL) /\ HeapInv(r.heap, Revoke(live, p))
  BY <1>1, FreeCall
<1> HIDE DEF r
<1>3. Allowed(r, Revoke(live, p))
  BY <1>2 DEF Allowed, Result
<1> QED BY <1>1, <1>3, Outcome

(* A call of realloc() with a pointer the caller holds, or NULL.           *)
LEMMA ReallocStep ==
  ASSUME IInv, NEW p \in DOMAIN live \cup {NULL}, NEW n \in Request, Realloc(p, n)
  PROVE  IInv' /\ [Contract!Next]_live
<1>1. PICK r \in realloc(heap, p, n) : Return(r, Grant(Revoke(live, p), r.ptr, n))
  BY DEF Realloc
<1>2. status = "ok" /\ HeapInv(heap, live)
  BY DEF Realloc, IInv
<1> DEFINE M == Grant(Revoke(live, p), r.ptr, n)
<1>3. \/ Stopped(r)
      \/ r.st = "ok" /\ r.ptr = NULL /\ HeapInv(r.heap, Revoke(live, p))
      \/ /\ r.st = "ok" /\ n # 0 /\ p \in DOMAIN live /\ r.ptr = p
         /\ HeapInv(r.heap, Extend(Revoke(live, p), p, n))
      \/ /\ r.st = "ok" /\ n # 0 /\ r.ptr \in Nat \ {0} /\ r.ptr \notin DOMAIN live
         /\ \E g : HeapInv(g, Extend(live, r.ptr, n))
         /\ HeapInv(r.heap, Extend(Revoke(live, p), r.ptr, n))
  BY <1>2, ReallocCall
<1>4. CASE Stopped(r)
  BY <1>1, <1>2, <1>4, Outcome DEF Allowed
<1>5. CASE r.st = "ok" /\ r.ptr = NULL /\ HeapInv(r.heap, Revoke(live, p))
  <2>1. M = Revoke(live, p)
    BY <1>5 DEF Grant
  <2>2. p = NULL => M = live
    BY <2>1, <1>2, NotNull
  <2>3. Allowed(r, M)
    BY <1>5, <2>1, <2>2 DEF Allowed
  <2> QED BY <1>1, <1>2, <2>3, Outcome
<1>6. CASE /\ r.st = "ok" /\ p \in DOMAIN live /\ r.ptr = p
           /\ HeapInv(r.heap, Extend(Revoke(live, p), p, n))
  <2>1. M = Extend(Revoke(live, p), p, n)
    BY <1>2, <1>6, NotNull DEF Grant
  <2>2. Allowed(r, M)
    BY <1>6, <2>1 DEF Allowed
  <2> QED BY <1>1, <1>2, <2>2, Outcome
<1>7. CASE /\ r.st = "ok" /\ r.ptr \in Nat \ {0} /\ r.ptr \notin DOMAIN live
           /\ \E g : HeapInv(g, Extend(live, r.ptr, n))
           /\ HeapInv(r.heap, Extend(Revoke(live, p), r.ptr, n))
  <2>1. M = Extend(Revoke(live, p), r.ptr, n)
    BY <1>7 DEF Grant, NULL
  <2>2. Allowed(r, M)
    BY <1>7, <2>1 DEF Allowed
  <2> QED BY <1>1, <1>2, <2>2, Outcome
<1> QED BY <1>3, <1>4, <1>5, <1>6, <1>7

(* A caller of valloc() asks for at least one byte: valloc(0) may return   *)
(* the first byte behind its block, which realloc() takes for the header   *)
(* of the next one (README, section 4).                                    *)
NoEmptyValloc == 0 \notin VallocSizes

(* No call.                                                                *)
LEMMA Stutter ==
  ASSUME IInv, UNCHANGED vars
  PROVE  IInv' /\ UNCHANGED live
<1>1. heap' = heap /\ live' = live /\ status' = status
  BY DEF vars
<1> QED BY <1>1 DEF IInv

(* Every step keeps the invariant and is a step of the contract, or none.  *)
LEMMA Step ==
  ASSUME NoEmptyValloc, IInv, [Next]_vars
  PROVE  IInv' /\ [Contract!Next]_live
<1>1. ASSUME NEW n \in Sizes, Malloc(n) PROVE IInv' /\ [Contract!Next]_live
  BY <1>1, MallocStep, ConstantsOK
<1>2. ASSUME NEW c \in CallocArgs, Calloc(c) PROVE IInv' /\ [Contract!Next]_live
  <2>1. c[1] * c[2] \in Request
    BY ConstantsOK
  <2>2. Malloc(c[1] * c[2])
    BY <1>2 DEF Calloc, Malloc
  <2> QED BY <2>1, <2>2, MallocStep
<1>3. ASSUME NEW n \in VallocSizes, Valloc(n) PROVE IInv' /\ [Contract!Next]_live
  BY <1>3, VallocStep, ConstantsOK DEF NoEmptyValloc
<1>4. ASSUME NEW p \in DOMAIN live, Free(p) PROVE IInv' /\ [Contract!Next]_live
  BY <1>4, FreeStep
<1>5. ASSUME NEW p \in DOMAIN live \cup {NULL}, NEW n \in Sizes, Realloc(p, n)
      PROVE  IInv' /\ [Contract!Next]_live
  BY <1>5, ReallocStep, ConstantsOK
<1>6. CASE UNCHANGED vars
  BY <1>6, Stutter
<1> QED BY <1>1, <1>2, <1>3, <1>4, <1>5, <1>6 DEF Next

(* The invariant holds at the start.                                       *)
LEMMA Start == ASSUME Init PROVE IInv
  BY EmptyHeapInv DEF Init, IInv, HeapInv

(* The invariant holds always.                                             *)
LEMMA Inductive == NoEmptyValloc => (Spec => []IInv)
<1> SUFFICES ASSUME NoEmptyValloc PROVE Spec => []IInv
  OBVIOUS
<1>1. Init => IInv
  BY Start
<1>2. IInv /\ [Next]_vars => IInv'
  BY Step
<1> QED BY <1>1, <1>2, PTL DEF Spec

(* Type correctness.                                                       *)
THEOREM TypeCorrect == NoEmptyValloc => (Spec => []TypeOK)
<1> SUFFICES ASSUME NoEmptyValloc PROVE Spec => []TypeOK
  OBVIOUS
<1>1. IInv => TypeOK
  BY DEF IInv, TypeOK, Stops
<1> QED BY <1>1, Inductive, PTL

(* The allocator's structures stay consistent with each other and with     *)
(* what the caller holds, whatever it calls and in whatever order.         *)
THEOREM HeapConsistent == NoEmptyValloc => (Spec => []Inv)
<1> SUFFICES ASSUME NoEmptyValloc PROVE Spec => []Inv
  OBVIOUS
<1>1. IInv => Inv
  BY DEF IInv, Inv
<1> QED BY <1>1, Inductive, PTL

(* No assertion of the allocator's stacks and lists ever fails.            *)
THEOREM NoAssertionFails == NoEmptyValloc => (Spec => []AssertionsHold)
<1> SUFFICES ASSUME NoEmptyValloc PROVE Spec => []AssertionsHold
  OBVIOUS
<1>1. IInv => AssertionsHold
  BY DEF IInv, AssertionsHold
<1> QED BY <1>1, Inductive, PTL

(* A caller who writes only the bytes it asked for never reaches a header, *)
(* nor the link word malloc_stack_push() keeps in a free cell.             *)
THEOREM CallerCannotCorrupt == NoEmptyValloc => (Spec => []MetadataApart)
<1> SUFFICES ASSUME NoEmptyValloc PROVE Spec => []MetadataApart
  OBVIOUS
<1>1. IInv => MetadataApart
  BY Apart DEF IInv, MetadataApart
<1> QED BY <1>1, Inductive, PTL

(* The allocator implements what module HeapSpec promises its callers.     *)
THEOREM Refines == NoEmptyValloc => (Spec => ImplementsContract)
<1> SUFFICES ASSUME NoEmptyValloc PROVE Spec => ImplementsContract
  OBVIOUS
<1>1. Init => Contract!Init
  BY DEF Init, Contract!Init
<1>2. IInv /\ [Next]_vars => [Contract!Next]_live
  BY Step
<1> QED BY <1>1, <1>2, Inductive, PTL DEF Spec, ImplementsContract, Contract!Spec

----------------------------------------------------------------------------
(* The effect of each piece of the code, whatever is asserted: an assert() *)
(* that fails changes the outcome and not the heap.                        *)
HeapRecord(h) ==
  h = [ brk |-> h.brk, size |-> h.size, stack |-> h.stack,
        bins |-> h.bins, skip |-> h.skip, bigs |-> h.bigs ]

LEMMA CheckedKeeps ==
  ASSUME NEW a, NEW st, NEW h, NEW p
  PROVE  /\ Checked(a, Result(st, h, p)).heap = h
         /\ Checked(a, Result(st, h, p)).ptr = p
BY DEF Checked, Result

(* The domains of a heap's fields.                                         *)
LEMMA Fields ==
  ASSUME NEW h, NEW L, HeapInv(h, L)
  PROVE  /\ HeapRecord(h) /\ h.brk \in Nat /\ h.brk \notin Blocks(h)
         /\ h.size \in [Blocks(h) -> Nat] /\ h.stack \in [Blocks(h) -> Seq(Nat)]
         /\ h.bins \in [0 .. BIG_BIN - 1 -> Seq(Blocks(h))]
         /\ h.skip \subseteq Blocks(h) /\ h.bigs \in Seq(Blocks(h))
<1>1. h.brk \notin Blocks(h)  BY BlockFacts
<1> QED  BY <1>1 DEF HeapInv, HeapType, HeapRecord

(* h and g have the same blocks and lists, but for the stack of block b.   *)
OnlyStack(h, g, b) ==
  /\ g.brk = h.brk /\ g.size = h.size /\ g.bigs = h.bigs
  /\ \A c \in Blocks(h) : c # b => g.stack[c] = h.stack[c]

(* h and g differ by the block at the old break.                           *)
OneBlockMore(h, g) ==
  /\ Blocks(g) = Blocks(h) \cup {h.brk}
  /\ g.skip = h.skip
  /\ \A c \in Blocks(h) : g.size[c] = h.size[c] /\ g.stack[c] = h.stack[c]

LEMMA PopCellDoes ==
  ASSUME NEW h, NEW L, HeapInv(h, L), NEW k \in 0 .. BIG_BIN - 1, h.bins[k] # <<>>
  PROVE  LET r == PopCell(h, k)
         IN  \E b \in Small(h) :
               /\ OnlyStack(h, r.heap, b) /\ r.heap.skip = h.skip
               /\ Elems(h.stack[b]) = Elems(r.heap.stack[b]) \cup {r.ptr}
               /\ r.ptr \in CellsOf(h, b)
<1> DEFINE b == Head(h.bins[k])
           rest == Tail(h.stack[b])
           bins == IF rest = <<>> THEN Tail(h.bins[k]) ELSE h.bins[k]
           t == [h.stack EXCEPT ![b] = rest]
           l == [h.bins EXCEPT ![k] = bins]
           g == [h EXCEPT !.stack[b] = rest, !.bins[k] = bins]
           p == Head(h.stack[b])
<1>1. PopCell(h, k).heap = g /\ PopCell(h, k).ptr = p
  <2>1. PopCell(h, k) = Checked(PopAsserts(h, b), Result("ok", g, p))  BY Zenon DEF PopCell
  <2> HIDE DEF g, p
  <2> QED  BY <2>1, CheckedKeeps
<1>2. b \in Small(h) /\ h.stack[b] # <<>>
  <2> DEFINE s == h.bins[k]
  <2>1. s \in Seq(Blocks(h)) /\ s # <<>>  BY Fields
  <2>2. Elems(s) = {c \in Small(h) : h.size[c] = k /\ h.stack[c] # <<>>}
    BY DEF HeapInv, SmallPages
  <2> HIDE DEF s
  <2>3. Head(s) \in Elems(s)  BY <2>1, Popped
  <2>4. Head(s) \in Small(h) /\ h.stack[Head(s)] # <<>>  BY <2>2, <2>3
  <2> QED  BY <2>4 DEF s
<1> HIDE DEF b
<1>3. Elems(h.stack[b]) = Elems(rest) \cup {p} /\ p \in CellsOf(h, b)
  <2>1. h.stack[b] \in Seq(Nat) /\ Elems(h.stack[b]) \subseteq CellsOf(h, b)
    BY <1>2, Fields DEF HeapInv, SmallPages, Small
  <2>2. Elems(h.stack[b]) = Elems(rest) \cup {p}  BY <1>2, <2>1, Popped
  <2> QED  BY <2>1, <2>2
<1>4. g = [h EXCEPT !.stack = t, !.bins = l]  BY Fields DEF HeapRecord
<1> HIDE DEF t, l, g, p, bins, rest
<1>5. /\ g.brk = h.brk /\ g.size = h.size /\ g.skip = h.skip /\ g.bigs = h.bigs
      /\ g.stack = t
  BY <1>4, Fields DEF HeapRecord
<1>6. t[b] = rest /\ \A c \in Blocks(h) : c # b => t[c] = h.stack[c]
  BY <1>2, Fields DEF t, Small
<1> QED  BY <1>1, <1>2, <1>3, <1>5, <1>6 DEF OnlyStack

LEMMA GrowSmallDoes ==
  ASSUME NEW h, NEW L, HeapInv(h, L), NEW k \in 0 .. BIG_BIN - 1
  PROVE  LET g == GrowSmall(h, k)
         IN  /\ OneBlockMore(h, g) /\ g.bigs = h.bigs
             /\ g.size[h.brk] = k /\ Elems(g.stack[h.brk]) = Cells(h.brk, k)
<1> DEFINE g == GrowSmall(h, k)
           s0 == Extend(h.size, h.brk, k)
           t0 == Extend(h.stack, h.brk, FreshStack(h.brk, k))
           n0 == [h.bins EXCEPT ![k] = <<h.brk>> \o @]
<1>1. g = [h EXCEPT !.brk = @ + PAGE_SIZE, !.size = s0, !.stack = t0, !.bins = n0]
  BY Fields DEF GrowSmall, HeapRecord
<1> HIDE DEF s0, t0, n0, g
<1>2. g.size = s0 /\ g.stack = t0 /\ g.skip = h.skip /\ g.bigs = h.bigs
  BY <1>1, Fields DEF HeapRecord
<1>3. /\ DOMAIN s0 = Blocks(h) \cup {h.brk} /\ s0[h.brk] = k
      /\ t0[h.brk] = FreshStack(h.brk, k)
      /\ \A c \in Blocks(h) : s0[c] = h.size[c] /\ t0[c] = h.stack[c]
  BY Fields DEF s0, t0, Extend, Blocks
<1>4. Elems(FreshStack(h.brk, k)) = Cells(h.brk, k)  BY Fields, FreshStackCells
<1> QED  BY <1>2, <1>3, <1>4 DEF OneBlockMore, Blocks, g

LEMMA TakeBigDoes ==
  ASSUME NEW h, NEW L, HeapInv(h, L), NEW b \in h.skip
  PROVE  LET r == TakeBig(h, b)
         IN  /\ b \in Big(h) /\ OnlyStack(h, r.heap, b)
             /\ r.heap.skip = h.skip \ {b} /\ r.ptr \in Handles(b)
<1> DEFINE s == h.skip \ {b}
           t == [h.stack EXCEPT ![b] = Tail(@)]
           g == [h EXCEPT !.skip = @ \ {b}, !.stack[b] = Tail(@)]
<1>1. TakeBig(h, b).heap = g /\ TakeBig(h, b).ptr = Head(h.stack[b])
  BY CheckedKeeps DEF TakeBig
<1>2. g = [h EXCEPT !.skip = s, !.stack = t]  BY Fields DEF HeapRecord
<1> HIDE DEF s, t, g
<1>3. g.brk = h.brk /\ g.size = h.size /\ g.skip = s /\ g.bigs = h.bigs /\ g.stack = t
  BY <1>2, Fields DEF HeapRecord
<1>4. \A c \in Blocks(h) : c # b => t[c] = h.stack[c]  BY Fields DEF t
<1>5. b \in Big(h) /\ Head(h.stack[b]) = b + BIG_HEADER
  <2>1. b \in Big(h) /\ h.stack[b] # <<>>  BY DEF HeapInv, BigBlocks
  <2>2. h.stack[b] = <<b + BIG_HEADER>>  BY <2>1 DEF HeapInv, BigBlocks
  <2> QED  BY <2>1, <2>2
<1> QED  BY <1>1, <1>3, <1>4, <1>5 DEF OnlyStack, Handles, s

LEMMA GrowBigDoes ==
  ASSUME NEW h, NEW L, HeapInv(h, L), NEW m \in Nat
  PROVE  LET g == GrowBig(h, m)
         IN  OneBlockMore(h, g) /\ g.bigs = Append(h.bigs, h.brk) /\ IsBig(g, h.brk)
<1> DEFINE g == GrowBig(h, m)
           s0 == Extend(h.size, h.brk, BigPayload(m))
           t0 == Extend(h.stack, h.brk, <<>>)
           n0 == Append(h.bigs, h.brk)
<1>1. g = [h EXCEPT !.brk = @ + BigPages(m) * PAGE_SIZE, !.size = s0, !.stack = t0, !.bigs = n0]
  BY Fields DEF GrowBig, HeapRecord
<1> HIDE DEF s0, t0, n0, g
<1>2. g.size = s0 /\ g.stack = t0 /\ g.skip = h.skip /\ g.bigs = n0
  BY <1>1, Fields DEF HeapRecord
<1>3. /\ DOMAIN s0 = Blocks(h) \cup {h.brk} /\ s0[h.brk] = BigPayload(m)
      /\ \A c \in Blocks(h) : s0[c] = h.size[c] /\ t0[c] = h.stack[c]
  BY Fields DEF s0, t0, Extend, Blocks
<1>4. BigPayload(m) > NUM_BINS  BY BigFits
<1> QED  BY <1>2, <1>3, <1>4 DEF OneBlockMore, Blocks, IsBig, n0, g

LEMMA FreeCellDoes ==
  ASSUME NEW h, NEW L, HeapInv(h, L), NEW b \in Small(h), NEW p \in Nat
  PROVE  LET r == FreeCell(h, b, p)
         IN  /\ OnlyStack(h, r.heap, b) /\ r.heap.skip = h.skip
             /\ Elems(r.heap.stack[b]) = Elems(h.stack[b]) \cup {p}
<1> DEFINE k == h.size[b]
           bins == IF h.stack[b] = <<>> THEN <<b>> \o h.bins[k] ELSE h.bins[k]
           s == <<p>> \o h.stack[b]
           t == [h.stack EXCEPT ![b] = s]
           l == [h.bins EXCEPT ![k] = bins]
           g == [Push(h, b, p) EXCEPT !.bins[k] = bins]
<1>1. FreeCell(h, b, p).heap = g  BY CheckedKeeps DEF FreeCell
<1>2. b \in Blocks(h) /\ h.stack[b] \in Seq(Nat)  BY Fields DEF Small
<1>3. Elems(s) = Elems(h.stack[b]) \cup {p}  BY <1>2, Consed
<1>4. g = [h EXCEPT !.stack = t, !.bins = l]  BY Fields DEF HeapRecord, Push
<1> HIDE DEF s, t, l, g, bins, k
<1>5. g.brk = h.brk /\ g.size = h.size /\ g.skip = h.skip /\ g.bigs = h.bigs /\ g.stack = t
  BY <1>4, Fields DEF HeapRecord
<1>6. t[b] = s /\ \A c \in Blocks(h) : c # b => t[c] = h.stack[c]  BY <1>2, Fields DEF t
<1> QED  BY <1>1, <1>3, <1>5, <1>6 DEF OnlyStack

LEMMA FreeBigDoes ==
  ASSUME NEW h, NEW L, HeapInv(h, L), NEW b \in Big(h)
  PROVE  LET r == FreeBig(h, b)
         IN  OnlyStack(h, r.heap, b) /\ r.heap.skip = h.skip \cup {b}
<1> DEFINE s == h.skip \cup {b}
           t == [h.stack EXCEPT ![b] = <<b + BIG_HEADER>> \o @]
           g == [Push(h, b, b + BIG_HEADER) EXCEPT !.skip = @ \cup {b}]
<1>1. FreeBig(h, b).heap = g  BY CheckedKeeps DEF FreeBig
<1>2. g = [h EXCEPT !.skip = s, !.stack = t]  BY Fields DEF HeapRecord, Push
<1> HIDE DEF s, t, g
<1>3. g.brk = h.brk /\ g.size = h.size /\ g.skip = s /\ g.bigs = h.bigs /\ g.stack = t
  BY <1>2, Fields DEF HeapRecord
<1>4. \A c \in Blocks(h) : c # b => t[c] = h.stack[c]  BY Fields DEF t
<1> QED  BY <1>1, <1>3, <1>4 DEF OnlyStack, s

----------------------------------------------------------------------------
(* What every call keeps, besides HeapInv: NothingLost and PhysicalOrder   *)
(* of a heap and the caller's books.  Nothing is lost only in an arena     *)
(* that starts on a page boundary: in another one free() does not find the *)
(* headers, and leaves what it is given alone.                             *)
Aligned == HeapBase % PAGE_SIZE = 0

Lossless(h, L) ==
  /\ \A b \in Small(h) : CellsOf(h, b) \subseteq Elems(h.stack[b]) \cup DOMAIN L
  /\ \A b \in Big(h) : b \in h.skip \/ Handles(b) \cap DOMAIN L # {}

Complete(h, L) == Aligned => Lossless(h, L)

Ordered(h) ==
  /\ Elems(h.bigs) = Big(h)
  /\ \A i, j \in DOMAIN h.bigs : i < j => h.bigs[i] < h.bigs[j]

Whole(h, L) == HeapInv(h, L) /\ Complete(h, L) /\ Ordered(h)

LEMMA SameBlocks ==
  ASSUME NEW h, NEW g, g.size = h.size
  PROVE  /\ Blocks(g) = Blocks(h) /\ Small(g) = Small(h) /\ Big(g) = Big(h)
         /\ \A b \in Blocks(h) : CellsOf(g, b) = CellsOf(h, b)
BY DEF Blocks, Small, Big, IsBig, CellsOf

(* The blocks of a heap that has grown: k or IsBig(g, h.brk) says what the *)
(* new one is.                                                             *)
LEMMA GrownBlocks ==
  ASSUME NEW h, NEW g, OneBlockMore(h, g)
  PROVE  /\ Small(g) = Small(h) \cup (IF IsBig(g, h.brk) THEN {} ELSE {h.brk})
         /\ Big(g) = Big(h) \cup (IF IsBig(g, h.brk) THEN {h.brk} ELSE {})
         /\ \A b \in Blocks(h) : CellsOf(g, b) = CellsOf(h, b)
<1>1. \A b \in Blocks(h) : IsBig(g, b) <=> IsBig(h, b)  BY DEF OneBlockMore, IsBig
<1> QED  BY <1>1 DEF OneBlockMore, Small, Big, CellsOf

(* A pointer inside b is neither a cell nor a handle of another block.     *)
LEMMA OnlyIn ==
  ASSUME NEW h, NEW L, HeapInv(h, L), NEW b \in Blocks(h), NEW p \in Nat,
         b < p, p < b + Extent(h, b)
  PROVE  /\ \A c \in Small(h) : c # b => p \notin CellsOf(h, c)
         /\ \A c \in Big(h) : c # b => p \notin Handles(c)
<1>1. ASSUME NEW c \in Small(h), p \in CellsOf(h, c)  PROVE c = b
  <2>1. c \in Blocks(h) /\ c < p /\ p < c + Extent(h, c)  BY <1>1, CellInside DEF Small
  <2>2. c \in Nat /\ Extent(h, c) \in Nat  BY <2>1, BlockFacts
  <2>3. p <= c + Extent(h, c)  BY <2>1, <2>2
  <2> QED  BY <2>1, <2>3, OneBlock
<1>2. ASSUME NEW c \in Big(h), p \in Handles(c)  PROVE c = b
  <2>1. c \in Blocks(h) /\ c < p /\ p <= c + Extent(h, c)  BY <1>2, HandleInside DEF Big
  <2> QED  BY <2>1, OneBlock
<1> QED  BY <1>1, <1>2

LEMMA GrantedDomain ==
  ASSUME NEW L, NEW p, NEW n
  PROVE  DOMAIN Extend(L, p, n) = DOMAIN L \cup {p} /\ DOMAIN Revoke(L, p) = DOMAIN L \ {p}
BY DEF Extend, Revoke

LEMMA PopCellWhole ==
  ASSUME NEW h, NEW L, Whole(h, L), NEW k \in 0 .. BIG_BIN - 1, h.bins[k] # <<>>, NEW n
  PROVE  LET r == PopCell(h, k)
         IN  Complete(r.heap, Extend(L, r.ptr, n)) /\ Ordered(r.heap)
<1> DEFINE r == PopCell(h, k)
<1>1. PICK b \in Small(h) :
        /\ OnlyStack(h, r.heap, b) /\ r.heap.skip = h.skip
        /\ Elems(h.stack[b]) = Elems(r.heap.stack[b]) \cup {r.ptr}
        /\ r.ptr \in CellsOf(h, b)
  BY PopCellDoes DEF Whole
<1> DEFINE g == r.heap
           M == Extend(L, r.ptr, n)
<1>2. DOMAIN M = DOMAIN L \cup {r.ptr}  BY GrantedDomain
<1> HIDE DEF r, M
<1>3. Small(g) = Small(h) /\ Big(g) = Big(h) /\ \A c \in Small(h) : CellsOf(g, c) = CellsOf(h, c)
  BY <1>1, SameBlocks DEF OnlyStack, Small
<1>4. ASSUME NEW c \in Small(h), Lossless(h, L)
      PROVE  CellsOf(g, c) \subseteq Elems(g.stack[c]) \cup DOMAIN M
  <2>1. CellsOf(h, c) \subseteq Elems(h.stack[c]) \cup DOMAIN L  BY <1>4 DEF Lossless
  <2>2. c # b => g.stack[c] = h.stack[c]  BY <1>1 DEF OnlyStack, Small
  <2> QED  BY <1>1, <1>2, <1>3, <2>1, <2>2
<1>5. Complete(g, M)  BY <1>1, <1>2, <1>3, <1>4 DEF Whole, Complete, Lossless
<1>6. Ordered(g)  BY <1>1, <1>3 DEF Whole, Ordered, OnlyStack
<1> QED  BY <1>5, <1>6 DEF r, M

LEMMA GrowSmallWhole ==
  ASSUME NEW h, NEW L, Whole(h, L), NEW k \in 0 .. BIG_BIN - 1,
         ~SbrkFails(h, PAGE_SIZE), h.bins[k] = <<>>
  PROVE  Whole(GrowSmall(h, k), L)
<1> DEFINE g == GrowSmall(h, k)
<1>1. /\ OneBlockMore(h, g) /\ g.bigs = h.bigs
      /\ g.size[h.brk] = k /\ Elems(g.stack[h.brk]) = Cells(h.brk, k)
  BY GrowSmallDoes DEF Whole
<1>2. HeapInv(g, L)  BY GrowSmallInv DEF Whole
<1> HIDE DEF g
<1>3. ~IsBig(g, h.brk)  BY <1>1, SMT DEF IsBig, BIG_BIN, NUM_BINS
<1>4. /\ Small(g) = Small(h) \cup {h.brk} /\ Big(g) = Big(h)
      /\ \A b \in Small(h) : CellsOf(g, b) = CellsOf(h, b) /\ g.stack[b] = h.stack[b]
  <2>1. Small(g) = Small(h) \cup {h.brk} /\ Big(g) = Big(h)  BY <1>1, <1>3, GrownBlocks, Zenon
  <2>2. \A b \in Small(h) : CellsOf(g, b) = CellsOf(h, b)  BY <1>1, GrownBlocks DEF Small
  <2>3. \A b \in Small(h) : g.stack[b] = h.stack[b]  BY <1>1 DEF OneBlockMore, Small
  <2> QED  BY <2>1, <2>2, <2>3
<1>5. CellsOf(g, h.brk) = Cells(h.brk, k)  BY <1>1 DEF CellsOf
<1>6. Complete(g, L)  BY <1>1, <1>4, <1>5 DEF Whole, Complete, Lossless, OneBlockMore
<1>7. Ordered(g)  BY <1>1, <1>4 DEF Whole, Ordered
<1> QED  BY <1>2, <1>6, <1>7 DEF Whole, g

LEMMA TakeBigWhole ==
  ASSUME NEW h, NEW L, Whole(h, L), NEW b \in h.skip, NEW q \in Handles(b), NEW n
  PROVE  LET g == TakeBig(h, b).heap
         IN  Complete(g, Extend(L, q, n)) /\ Ordered(g)
<1> DEFINE g == TakeBig(h, b).heap
           M == Extend(L, q, n)
<1>1. b \in Big(h) /\ OnlyStack(h, g, b) /\ g.skip = h.skip \ {b}
  BY TakeBigDoes DEF Whole
<1>2. DOMAIN M = DOMAIN L \cup {q}  BY GrantedDomain
<1> HIDE DEF g, M
<1>3. Small(g) = Small(h) /\ Big(g) = Big(h) /\ \A c \in Small(h) : CellsOf(g, c) = CellsOf(h, c)
  BY <1>1, SameBlocks DEF OnlyStack, Small
<1>4. \A c \in Small(h) : g.stack[c] = h.stack[c]  BY <1>1 DEF OnlyStack, Small, Big
<1>5. Complete(g, M)  BY <1>1, <1>2, <1>3, <1>4 DEF Whole, Complete, Lossless
<1>6. Ordered(g)  BY <1>1, <1>3 DEF Whole, Ordered, OnlyStack
<1> QED  BY <1>5, <1>6 DEF g, M

(* What appending does to a sequence.                                      *)
LEMMA Appended ==
  ASSUME NEW S, NEW s \in Seq(S), NEW x
  PROVE  /\ Elems(Append(s, x)) = Elems(s) \cup {x}
         /\ DOMAIN Append(s, x) = 1 .. Len(s) + 1 /\ DOMAIN s = 1 .. Len(s) /\ Len(s) \in Nat
         /\ Append(s, x)[Len(s) + 1] = x /\ \A i \in 1 .. Len(s) : Append(s, x)[i] = s[i]
<1> DEFINE t == Append(s, x)
<1>1. /\ DOMAIN t = 1 .. Len(s) + 1 /\ DOMAIN s = 1 .. Len(s) /\ Len(s) \in Nat
      /\ t[Len(s) + 1] = x /\ \A i \in 1 .. Len(s) : t[i] = s[i]
  OBVIOUS
<1> HIDE DEF t
<1>2. \A i \in DOMAIN t : i = Len(s) + 1 \/ i \in DOMAIN s  BY <1>1
<1>3. \A i \in DOMAIN s : i \in DOMAIN t  BY <1>1
<1>4. Len(s) + 1 \in DOMAIN t  BY <1>1
<1>5. Elems(t) = Elems(s) \cup {x}  BY <1>1, <1>2, <1>3, <1>4 DEF Elems
<1> QED  BY <1>1, <1>5 DEF t

LEMMA GrowBigWhole ==
  ASSUME NEW h, NEW L, Whole(h, L), NEW m \in Nat, NEW q \in Handles(h.brk), NEW n
  PROVE  LET g == GrowBig(h, m)
         IN  Complete(g, Extend(L, q, n)) /\ Ordered(g)
<1> DEFINE g == GrowBig(h, m)
           M == Extend(L, q, n)
           s == h.bigs
<1>1. OneBlockMore(h, g) /\ g.bigs = Append(s, h.brk) /\ IsBig(g, h.brk)
  BY GrowBigDoes DEF Whole
<1>2. DOMAIN M = DOMAIN L \cup {q}  BY GrantedDomain
<1> HIDE DEF g, M
<1>3. /\ Small(g) = Small(h) /\ Big(g) = Big(h) \cup {h.brk} /\ g.skip = h.skip
      /\ \A c \in Small(h) : CellsOf(g, c) = CellsOf(h, c) /\ g.stack[c] = h.stack[c]
  BY <1>1, GrownBlocks DEF Small, OneBlockMore
<1>4. Complete(g, M)  BY <1>2, <1>3 DEF Whole, Complete, Lossless
<1>5. Ordered(g)
  <2>1. s \in Seq(Blocks(h)) /\ Elems(s) = Big(h)
        /\ \A i, j \in DOMAIN s : i < j => s[i] < s[j]
    BY Fields DEF Whole, Ordered
  <2>2. \A c \in Blocks(h) : c < h.brk
    <3> TAKE c \in Blocks(h)
    <3>1. /\ c \in Nat /\ h.brk \in Nat /\ Extent(h, c) \in Nat /\ Extent(h, c) >= 1
          /\ c + Extent(h, c) <= h.brk
      BY BlockFacts DEF Whole
    <3> QED  BY <3>1
  <2> HIDE DEF s
  <2>3. /\ Elems(g.bigs) = Elems(s) \cup {h.brk}
        /\ DOMAIN g.bigs = 1 .. Len(s) + 1 /\ DOMAIN s = 1 .. Len(s) /\ Len(s) \in Nat
        /\ g.bigs[Len(s) + 1] = h.brk /\ \A i \in 1 .. Len(s) : g.bigs[i] = s[i]
    BY <1>1, <2>1, Appended
  <2>4. ASSUME NEW i \in DOMAIN g.bigs, NEW j \in DOMAIN g.bigs, i < j
        PROVE  g.bigs[i] < g.bigs[j]
    <3>1. i \in DOMAIN s /\ g.bigs[i] = s[i] /\ s[i] \in Blocks(h)
      BY <2>1, <2>3, <2>4
    <3>2. CASE j = Len(s) + 1  BY <3>1, <3>2, <2>2, <2>3
    <3>3. CASE j # Len(s) + 1
      <4>1. j \in DOMAIN s /\ g.bigs[j] = s[j]  BY <3>3, <2>3
      <4> QED  BY <3>1, <4>1, <2>1, <2>4
    <3> QED  BY <3>2, <3>3
  <2> QED  BY <2>1, <2>3, <2>4, <1>3 DEF Ordered
<1> QED  BY <1>4, <1>5 DEF g, M

LEMMA FreeCellWhole ==
  ASSUME NEW h, NEW L, Whole(h, L), NEW b \in Blocks(h), NEW p \in DOMAIN L, OwnedCell(h, L, b, p)
  PROVE  LET g == FreeCell(h, b, p).heap
         IN  Complete(g, Revoke(L, p)) /\ Ordered(g)
<1> DEFINE g == FreeCell(h, b, p).heap
           M == Revoke(L, p)
<1>1. b \in Small(h) /\ p \in Nat /\ b < p /\ p < b + Extent(h, b)
  BY OwnedInside DEF OwnedCell, Small, Whole
<1>2. /\ OnlyStack(h, g, b) /\ g.skip = h.skip
      /\ Elems(g.stack[b]) = Elems(h.stack[b]) \cup {p}
  BY <1>1, FreeCellDoes DEF Whole
<1>3. DOMAIN M = DOMAIN L \ {p}  BY GrantedDomain
<1> HIDE DEF g, M
<1>4. Small(g) = Small(h) /\ Big(g) = Big(h) /\ \A c \in Small(h) : CellsOf(g, c) = CellsOf(h, c)
  BY <1>2, SameBlocks DEF OnlyStack, Small
<1>5. /\ \A c \in Small(h) : c # b => p \notin CellsOf(h, c)
      /\ \A c \in Big(h) : p \notin Handles(c)
  BY <1>1, OnlyIn DEF Whole, Small, Big
<1>6. \A c \in Small(h) : c # b => g.stack[c] = h.stack[c]  BY <1>2 DEF OnlyStack, Small
<1>7. Complete(g, M)
  <2> SUFFICES ASSUME Lossless(h, L) PROVE Lossless(g, M)  BY DEF Whole, Complete
  <2>1. ASSUME NEW c \in Small(h)  PROVE CellsOf(g, c) \subseteq Elems(g.stack[c]) \cup DOMAIN M
    <3>1. CellsOf(h, c) \subseteq Elems(h.stack[c]) \cup DOMAIN L  BY DEF Lossless
    <3> QED  BY <3>1, <1>2, <1>3, <1>4, <1>5, <1>6
  <2>2. ASSUME NEW c \in Big(h)  PROVE c \in g.skip \/ Handles(c) \cap DOMAIN M # {}
    BY <1>2, <1>3, <1>5 DEF Lossless
  <2> QED  BY <2>1, <2>2, <1>4 DEF Lossless
<1>8. Ordered(g)  BY <1>2, <1>4 DEF Whole, Ordered, OnlyStack
<1> QED  BY <1>7, <1>8 DEF g, M

LEMMA FreeBigWhole ==
  ASSUME NEW h, NEW L, Whole(h, L), NEW b \in Blocks(h), NEW p \in DOMAIN L, OwnedHandle(h, L, b, p)
  PROVE  LET g == FreeBig(h, b).heap
         IN  Complete(g, Revoke(L, p)) /\ Ordered(g)
<1> DEFINE g == FreeBig(h, b).heap
           M == Revoke(L, p)
<1>1. b \in Big(h) /\ p \in Nat /\ b < p /\ p < b + Extent(h, b)
  BY OwnedInside DEF OwnedHandle, Big, Whole
<1>2. OnlyStack(h, g, b) /\ g.skip = h.skip \cup {b}
  BY <1>1, FreeBigDoes DEF Whole
<1>3. DOMAIN M = DOMAIN L \ {p}  BY GrantedDomain
<1> HIDE DEF g, M
<1>4. Small(g) = Small(h) /\ Big(g) = Big(h) /\ \A c \in Small(h) : CellsOf(g, c) = CellsOf(h, c)
  BY <1>2, SameBlocks DEF OnlyStack, Small
<1>5. /\ \A c \in Small(h) : p \notin CellsOf(h, c)
      /\ \A c \in Big(h) : c # b => p \notin Handles(c)
  BY <1>1, OnlyIn DEF Whole, Small, Big
<1>6. \A c \in Small(h) : g.stack[c] = h.stack[c]  BY <1>1, <1>2 DEF OnlyStack, Small, Big
<1>7. Complete(g, M)
  <2> SUFFICES ASSUME Lossless(h, L) PROVE Lossless(g, M)  BY DEF Whole, Complete
  <2>1. ASSUME NEW c \in Small(h)  PROVE CellsOf(g, c) \subseteq Elems(g.stack[c]) \cup DOMAIN M
    <3>1. CellsOf(h, c) \subseteq Elems(h.stack[c]) \cup DOMAIN L  BY DEF Lossless
    <3> QED  BY <3>1, <1>3, <1>4, <1>5, <1>6
  <2>2. ASSUME NEW c \in Big(h)  PROVE c \in g.skip \/ Handles(c) \cap DOMAIN M # {}
    BY <1>2, <1>3, <1>5 DEF Lossless
  <2> QED  BY <2>1, <2>2, <1>4 DEF Lossless
<1>8. Ordered(g)  BY <1>2, <1>4 DEF Whole, Ordered, OnlyStack
<1> QED  BY <1>7, <1>8 DEF g, M

----------------------------------------------------------------------------
(* malloc() of a small and of a big request; d is what valloc() adds.      *)
LEMMA MallocSmallWhole ==
  ASSUME NEW h, NEW L, Whole(h, L), NEW k \in 0 .. BIG_BIN - 1, NEW n,
         MallocSmall(h, k).st = "ok"
  PROVE  LET r == MallocSmall(h, k)
         IN  Complete(r.heap, Extend(L, r.ptr, n)) /\ Ordered(r.heap)
<1>1. CASE h.bins[k] # <<>>  BY <1>1, PopCellWhole DEF MallocSmall
<1>2. CASE h.bins[k] = <<>>
  <2> DEFINE g == GrowSmall(h, k)
  <2>1. ~SbrkFails(h, PAGE_SIZE)  BY <1>2 DEF MallocSmall, Result
  <2>2. Whole(g, L) /\ g.bins[k] # <<>>  BY <1>2, <2>1, GrowSmallWhole, GrowSmallInv DEF Whole
  <2>3. MallocSmall(h, k) = PopCell(g, k)  BY <1>2, <2>1 DEF MallocSmall
  <2> HIDE DEF g
  <2> QED  BY <2>2, <2>3, PopCellWhole
<1> QED  BY <1>1, <1>2

LEMMA MallocBigWhole ==
  ASSUME NEW h, NEW L, Whole(h, L), NEW m \in Nat, NEW r \in MallocBig(h, m), r.st = "ok",
         NEW d \in {0, PAGE_SIZE - BIG_HEADER}, NEW n
  PROVE  Complete(r.heap, Extend(L, r.ptr + d, n)) /\ Ordered(r.heap)
<1> DEFINE best == FindBest(h.skip, h.size, m)
<1>1. CASE best # {}
  <2>1. PICK b \in best : r = TakeBig(h, b)  BY <1>1 DEF MallocBig
  <2>2. b \in h.skip  BY DEF FindBest, Fitting
  <2>3. b \in Nat /\ r.ptr = b + BIG_HEADER  BY <2>1, <2>2, TakeBigInv DEF Whole
  <2>4. r.ptr + d \in Handles(b)
    BY <2>3, SMT DEF Handles, VallocPtr, PAGE_SIZE, BIG_HEADER
  <2> QED  BY <2>1, <2>2, <2>4, TakeBigWhole
<1>2. CASE best = {}
  <2>1. r = Result("ok", GrowBig(h, m), h.brk + BIG_HEADER)
    BY <1>2 DEF MallocBig, Result
  <2>2. r.heap = GrowBig(h, m) /\ r.ptr = h.brk + BIG_HEADER /\ h.brk \in Nat
    BY <2>1, Fields DEF Result, Whole
  <2>3. r.ptr + d \in Handles(h.brk)
    BY <2>2, SMT DEF Handles, VallocPtr, PAGE_SIZE, BIG_HEADER
  <2> QED  BY <2>2, <2>3, GrowBigWhole
<1> QED  BY <1>1, <1>2

LEMMA MallocWhole ==
  ASSUME NEW h, NEW L, Whole(h, L), NEW n \in Request \ {0}, NEW r \in malloc(h, n), r.st = "ok"
  PROVE  Whole(r.heap, Extend(L, r.ptr, n))
<1>1. r.ptr \in Nat /\ HeapInv(r.heap, Extend(L, r.ptr, n))
  BY MallocCall DEF Whole, Result
<1>2. n \in Nat /\ n <= INT_MAX  BY SMT DEF Request, INT_MAX, PAGE_SIZE
<1>3. CASE malloc_bin_size(n) < BIG_BIN
  <2>1. r = MallocSmall(h, malloc_bin_size(n))  BY <1>3 DEF malloc
  <2>2. malloc_bin_size(n) \in 0 .. BIG_BIN - 1
    BY <1>2, <1>3, BinFits, SMT DEF BIG_BIN, NUM_BINS
  <2> QED  BY <1>1, <2>1, <2>2, MallocSmallWhole DEF Whole
<1>4. CASE ~(malloc_bin_size(n) < BIG_BIN)
  <2>1. r \in MallocBig(h, n)  BY <1>4 DEF malloc
  <2>2. Complete(r.heap, Extend(L, r.ptr + 0, n)) /\ Ordered(r.heap)
    BY <1>2, <2>1, MallocBigWhole
  <2>3. r.ptr + 0 = r.ptr  BY <1>1
  <2> QED  BY <1>1, <2>2, <2>3 DEF Whole
<1> QED  BY <1>3, <1>4

(* valloc() of at least a byte takes a big block.                          *)
LEMMA VallocIsBig ==
  ASSUME NEW n \in Request, NEW h
  PROVE  VallocSize(n) \in Nat /\ malloc(h, VallocSize(n)) = MallocBig(h, VallocSize(n))
<1> DEFINE m == VallocSize(n)
<1>1. m \in Nat /\ m <= INT_MAX /\ m # 0 /\ m > 2048
  BY SMT DEF Request, INT_MAX, PAGE_SIZE, BIG_HEADER, VallocSize
<1>2. malloc_bin_size(m) \in 0 .. BIG_BIN
      /\ (malloc_bin_size(m) < BIG_BIN => m <= CellSize(malloc_bin_size(m)))
  BY <1>1, BinFits
<1> HIDE DEF m
<1>3. ~(malloc_bin_size(m) < BIG_BIN)
  <2> SUFFICES ASSUME malloc_bin_size(m) < BIG_BIN PROVE FALSE  OBVIOUS
  <2>1. malloc_bin_size(m) \in 0 .. BIG_BIN - 1 /\ m <= CellSize(malloc_bin_size(m))
    BY <1>2, SMT DEF BIG_BIN, NUM_BINS
  <2> QED  BY <1>1, <2>1, BinBounds
<1>4. malloc(h, m) = MallocBig(h, m)  BY <1>1, <1>3 DEF malloc
<1> QED  BY <1>1, <1>4 DEF m

LEMMA VallocWhole ==
  ASSUME NEW h, NEW L, Whole(h, L), NEW n \in Request \ {0}, NEW r \in valloc(h, n), r.st = "ok"
  PROVE  Whole(r.heap, Extend(L, r.ptr, n))
<1> DEFINE d == PAGE_SIZE - BIG_HEADER
<1>1. HeapInv(r.heap, Extend(L, r.ptr, n))  BY VallocCall DEF Whole, Result
<1>2. PICK s \in MallocBig(h, VallocSize(n)) :
        r = IF s.st # "ok" THEN s
            ELSE Checked((s.ptr + PAGE_SIZE - BIG_HEADER) % PAGE_SIZE = 0,
                         [s EXCEPT !.ptr = @ + PAGE_SIZE - BIG_HEADER])
  BY VallocIsBig DEF valloc
<1>3. /\ VallocSize(n) \in Nat /\ n \in Nat \ {0} /\ n + d <= VallocSize(n)
      /\ d \in {0, PAGE_SIZE - BIG_HEADER}
  BY SMT DEF VallocSize, PAGE_SIZE, BIG_HEADER, Request
<1>4. \/ s = Result("fault", h, NULL)
      \/ s.st = "misaligned"
      \/ s = Result("ok", s.heap, s.ptr) /\ s.st = "ok" /\ s.ptr \in Nat
         /\ (s.ptr + (PAGE_SIZE - BIG_HEADER)) % PAGE_SIZE = 0
  BY <1>3, MallocBigInv DEF Whole
<1>5. s.st = "ok"  BY <1>2
<1>6. s = Result("ok", s.heap, s.ptr) /\ s.ptr \in Nat  BY <1>4, <1>5 DEF Result
<1>7. r.heap = s.heap /\ r.ptr = s.ptr + d
  <2>1. s.ptr + PAGE_SIZE - BIG_HEADER = s.ptr + d  BY <1>6, SMT DEF PAGE_SIZE, BIG_HEADER
  <2>2. r.heap = s.heap /\ r.ptr = s.ptr + PAGE_SIZE - BIG_HEADER
    BY <1>2, <1>5, <1>6 DEF Checked, Result
  <2> QED  BY <2>1, <2>2
<1>8. Complete(s.heap, Extend(L, s.ptr + d, n)) /\ Ordered(s.heap)
  BY <1>3, <1>5, MallocBigWhole
<1> QED  BY <1>1, <1>7, <1>8 DEF Whole

(* free() of a pointer the caller holds.                                   *)
LEMMA FreeWhole ==
  ASSUME NEW h, NEW L, Whole(h, L), NEW p \in DOMAIN L
  PROVE  Whole(free(h, p).heap, Revoke(L, p))
<1>0. HeapInv(free(h, p).heap, Revoke(L, p))  BY FreeCall DEF Whole
<1>1. PICK b \in Blocks(h) : OwnedCell(h, L, b, p) \/ OwnedHandle(h, L, b, p)
  BY DEF Whole, HeapInv, Owned
<1>2. CASE HeaderOf(p) \notin Blocks(h)
  <2>1. free(h, p).heap = h  BY <1>2 DEF free, Blocks, Result
  <2>2. ~Aligned
    <3> SUFFICES ASSUME Aligned PROVE HeaderOf(p) = b  BY <1>2
    <3>1. b \in Nat /\ p \in Nat /\ b < p  BY <1>1, BlockFacts, OwnedInside DEF Whole
    <3>2. (b - HeapBase) % PAGE_SIZE = 0  BY DEF Whole, HeapInv, Layout
    <3>3. b % PAGE_SIZE = 0  BY <3>1, <3>2, ConstantsOK, SMT DEF Aligned, PAGE_SIZE
    <3>4. p <= b + PAGE_SIZE
      <4>1. CASE OwnedCell(h, L, b, p)
        <5>1. p < b + Extent(h, b) /\ Extent(h, b) = PAGE_SIZE
          BY <4>1, OwnedInside, BlockFacts DEF OwnedCell, Whole
        <5> QED  BY <5>1, <3>1, SMT DEF PAGE_SIZE
      <4>2. CASE OwnedHandle(h, L, b, p)
        BY <4>2, <3>1, SMT DEF OwnedHandle, Handles, VallocPtr, PAGE_SIZE, BIG_HEADER
      <4> QED  BY <1>1, <4>1, <4>2
    <3> QED  BY <3>1, <3>3, <3>4, SMT DEF HeaderOf, PageOf, PAGE_SIZE
  <2> QED  BY <1>0, <2>1, <2>2 DEF Whole, Complete
<1>3. CASE HeaderOf(p) \in Blocks(h)
  <2>1. HeaderOf(p) = b  BY <1>1, <1>3, FindsHeader DEF Whole
  <2>2. p # NULL  BY NotNull DEF Whole
  <2>3. CASE OwnedCell(h, L, b, p)
    BY <1>0, <1>3, <2>1, <2>2, <2>3, FreeCellWhole DEF free, OwnedCell, Blocks, Whole
  <2>4. CASE OwnedHandle(h, L, b, p)
    BY <1>0, <1>3, <2>1, <2>2, <2>4, FreeBigWhole DEF free, OwnedHandle, Blocks, Whole
  <2> QED  BY <1>1, <2>3, <2>4
<1> QED  BY <1>2, <1>3

(* The books after malloc(): a null pointer grants nothing.                *)
LEMMA MallocGranted ==
  ASSUME NEW h, NEW L, Whole(h, L), NEW n \in Request, NEW r \in malloc(h, n), r.st = "ok"
  PROVE  Whole(r.heap, Grant(L, r.ptr, n))
<1>1. CASE n = 0  BY <1>1 DEF malloc, Grant, Result
<1>2. CASE n # 0
  <2>1. r.ptr \in Nat \ {0}  BY <1>2, MallocCall DEF Whole, Result
  <2> QED  BY <1>2, <2>1, MallocWhole DEF Grant, NULL
<1> QED  BY <1>1, <1>2

(* realloc() of a pointer the caller holds, or NULL.                       *)
LEMMA ReallocWhole ==
  ASSUME NEW h, NEW L, Whole(h, L), NEW p \in DOMAIN L \cup {NULL}, NEW n \in Request,
         NEW r \in realloc(h, p, n), r.st = "ok"
  PROVE  Whole(r.heap, Grant(Revoke(L, p), r.ptr, n))
<1>0. NULL \notin DOMAIN L /\ Revoke(L, NULL) = L  BY NotNull DEF Whole
<1>1. CASE p = NULL  BY <1>0, <1>1, MallocGranted DEF realloc
<1>2. CASE p # NULL /\ n = 0
  <2>1. r = free(h, p) /\ p \in DOMAIN L  BY <1>2 DEF realloc
  <2>2. r.ptr = NULL  BY <2>1, FreeCall DEF Whole, Result
  <2> QED  BY <2>1, <2>2, FreeWhole DEF Grant
<1>3. CASE p # NULL /\ n # 0 /\ PageOf(p) \notin Blocks(h)
  BY <1>3 DEF realloc, Blocks, Result
<1>4. CASE p # NULL /\ n # 0 /\ PageOf(p) \in Blocks(h) /\ OldSize(h, PageOf(p)) >= n
  <2> DEFINE M == Extend(Revoke(L, p), p, n)
  <2>1. r.heap = h /\ r.ptr = p /\ p \in DOMAIN L  BY <1>4 DEF realloc, Blocks, Result
  <2>2. Grant(Revoke(L, p), r.ptr, n) = M  BY <1>4, <2>1 DEF Grant
  <2>3. DOMAIN M = DOMAIN L  BY <2>1 DEF Extend, Revoke
  <2>4. n \in Nat  BY DEF Request
  <2>5. HeapInv(h, M)
    <3>1. \/ Stopped(r)
          \/ r.st = "ok" /\ r.ptr = NULL
          \/ r.ptr = p /\ HeapInv(r.heap, Extend(Revoke(L, p), p, n))
          \/ r.ptr \notin DOMAIN L
      BY ReallocCall DEF Whole
    <3> QED  BY <3>1, <2>1, <1>4 DEF Stopped
  <2> HIDE DEF M
  <2> QED  BY <2>1, <2>2, <2>3, <2>5 DEF Whole, Complete, Lossless
<1>5. CASE p # NULL /\ n # 0 /\ PageOf(p) \in Blocks(h) /\ ~(OldSize(h, PageOf(p)) >= n)
  <2>1. PICK m \in malloc(h, n) :
          r = IF m.st # "ok" THEN m ELSE [free(m.heap, p) EXCEPT !.ptr = m.ptr]
    BY <1>5 DEF realloc, Blocks
  <2>2. m.st = "ok"  BY <2>1
  <2>3. m.ptr \in Nat \ {0} /\ m.ptr \notin DOMAIN L /\ p \in DOMAIN L
    BY <1>5, <2>2, MallocCall DEF Whole, Result
  <2> DEFINE N == Extend(L, m.ptr, n)
             f == free(m.heap, p)
  <2>4. Whole(m.heap, N) /\ p \in DOMAIN N
    <3>1. n \in Request \ {0}  BY <1>5
    <3>2. Whole(m.heap, N)  BY <3>1, <2>2, MallocWhole
    <3>3. p \in DOMAIN N  BY <2>3 DEF Extend
    <3> QED  BY <3>2, <3>3
  <2>5. Revoke(N, p) = Extend(Revoke(L, p), m.ptr, n)  BY <2>3 DEF Revoke, Extend
  <2> HIDE DEF N
  <2>6. f = Result("ok", f.heap, NULL) /\ Whole(f.heap, Revoke(N, p))
    BY <2>4, FreeCall, FreeWhole DEF Whole
  <2>7. r = [f EXCEPT !.ptr = m.ptr]  BY <2>1, <2>2
  <2> HIDE DEF f
  <2>8. r.heap = f.heap /\ r.ptr = m.ptr  BY <2>6, <2>7 DEF Result
  <2>9. Grant(Revoke(L, p), r.ptr, n) = Revoke(N, p)  BY <2>3, <2>5, <2>8 DEF Grant, NULL
  <2> QED  BY <2>6, <2>8, <2>9
<1> QED  BY <1>1, <1>2, <1>3, <1>4, <1>5

----------------------------------------------------------------------------
(* The free memory is accounted for until the kernel stops.                *)
WInv == status = "ok" => Whole(heap, live)

LEMMA Returned ==
  ASSUME WInv, status = "ok", NEW r, NEW M, r.st = "ok" => Whole(r.heap, M), Return(r, M)
  PROVE  WInv'
<1>1. heap' = r.heap /\ status' = r.st  BY DEF Return
<1>2. CASE r.st = "ok"
  <2>1. live' = M  BY <1>2 DEF Return
  <2> QED  BY <1>1, <1>2, <2>1 DEF WInv, Whole, HeapInv
<1>3. CASE r.st # "ok"  BY <1>1, <1>3 DEF WInv
<1> QED  BY <1>2, <1>3

LEMMA StartWhole == ASSUME Init PROVE WInv
<1>1. Small(EmptyHeap) = {} /\ Big(EmptyHeap) = {}  BY DEF Small, Big, Blocks, EmptyHeap
<1>2. EmptyHeap.bigs = <<>>  BY DEF EmptyHeap
<1>3. Elems(<<>>) = {} /\ DOMAIN <<>> = {}  BY DEF Elems
<1>4. Complete(EmptyHeap, [p \in {} |-> 0])  BY <1>1 DEF Complete, Lossless
<1>5. Ordered(EmptyHeap)  BY <1>1, <1>2, <1>3 DEF Ordered
<1> QED  BY <1>4, <1>5, EmptyHeapInv DEF Init, WInv, Whole

LEMMA StepWhole ==
  ASSUME NoEmptyValloc, WInv, [Next]_vars
  PROVE  WInv'
<1>1. ASSUME NEW n \in Request, Malloc(n) PROVE WInv'
  <2>1. PICK r \in malloc(heap, n) : Return(r, Grant(live, r.ptr, n))  BY <1>1 DEF Malloc
  <2>2. status = "ok" /\ Whole(heap, live)  BY <1>1 DEF Malloc, WInv
  <2> QED  BY <2>1, <2>2, MallocGranted, Returned
<1>2. ASSUME NEW c \in CallocArgs, Calloc(c) PROVE WInv'
  <2>1. c[1] * c[2] \in Request  BY ConstantsOK
  <2>2. Malloc(c[1] * c[2])  BY <1>2 DEF Calloc, Malloc
  <2> QED  BY <2>1, <2>2, <1>1
<1>3. ASSUME NEW n \in VallocSizes, Valloc(n) PROVE WInv'
  <2>1. PICK r \in valloc(heap, n) : Return(r, Grant(live, r.ptr, n))  BY <1>3 DEF Valloc
  <2>2. status = "ok" /\ Whole(heap, live)  BY <1>3 DEF Valloc, WInv
  <2>3. n \in Request \ {0}  BY ConstantsOK DEF NoEmptyValloc
  <2>4. r.st = "ok" => Grant(live, r.ptr, n) = Extend(live, r.ptr, n)
    BY <2>1, <2>2, <2>3, VallocCall DEF Whole, Grant, NULL, Result
  <2>5. r.st = "ok" => Whole(r.heap, Grant(live, r.ptr, n))
    BY <2>2, <2>3, <2>4, VallocWhole
  <2> QED  BY <2>1, <2>2, <2>5, Returned
<1>4. ASSUME NEW p \in DOMAIN live, Free(p) PROVE WInv'
  <2> DEFINE r == free(heap, p)
  <2>1. Return(r, Revoke(live, p)) /\ status = "ok" /\ Whole(heap, live)
    BY <1>4 DEF Free, WInv
  <2>2. Whole(r.heap, Revoke(live, p))  BY <2>1, FreeWhole
  <2> HIDE DEF r
  <2> QED  BY <2>1, <2>2, Returned
<1>5. ASSUME NEW p \in DOMAIN live \cup {NULL}, NEW n \in Sizes, Realloc(p, n)
      PROVE  WInv'
  <2>1. PICK r \in realloc(heap, p, n) : Return(r, Grant(Revoke(live, p), r.ptr, n))
    BY <1>5 DEF Realloc
  <2>2. status = "ok" /\ Whole(heap, live) /\ n \in Request
    BY <1>5, ConstantsOK DEF Realloc, WInv
  <2> QED  BY <2>1, <2>2, ReallocWhole, Returned
<1>6. CASE UNCHANGED vars  BY <1>6 DEF vars, WInv, Whole, HeapInv
<1>7. ASSUME NEW n \in Sizes, Malloc(n) PROVE WInv'  BY <1>1, <1>7, ConstantsOK
<1> QED  BY <1>2, <1>3, <1>4, <1>5, <1>6, <1>7 DEF Next

LEMMA AlwaysWhole == NoEmptyValloc => (Spec => []WInv)
<1> SUFFICES ASSUME NoEmptyValloc PROVE Spec => []WInv  OBVIOUS
<1>1. Init => WInv  BY StartWhole
<1>2. WInv /\ [Next]_vars => WInv'  BY StepWhole
<1> QED  BY <1>1, <1>2, PTL DEF Spec

(* No byte is lost, in an arena that starts on a page boundary: whatever   *)
(* the caller does not hold is on a free list.                             *)
THEOREM NoByteIsLost == NoEmptyValloc /\ Aligned => (Spec => []NothingLost)
<1> SUFFICES ASSUME NoEmptyValloc, Aligned PROVE Spec => []NothingLost  OBVIOUS
<1>1. WInv => NothingLost  BY DEF WInv, Whole, Complete, Lossless, NothingLost
<1> QED  BY <1>1, AlwaysWhole, PTL

(* The links of the big blocks run in the order of their addresses, in any *)
(* arena: malloc() appends, at the break, and nothing unlinks.             *)
THEOREM LinksInPhysicalOrder == NoEmptyValloc => (Spec => []PhysicalOrder)
<1> SUFFICES ASSUME NoEmptyValloc PROVE Spec => []PhysicalOrder  OBVIOUS
<1>1. WInv => PhysicalOrder  BY DEF WInv, Whole, Ordered, PhysicalOrder
<1> QED  BY <1>1, AlwaysWhole, PTL

----------------------------------------------------------------------------
(* If a listed block is large enough, one of them fits best.               *)
LEMMA BestExists ==
  ASSUME NEW S, NEW size, NEW n, \A b \in S : size[b] \in Nat, NEW a \in S, size[a] >= n
  PROVE  FindBest(S, size, n) # {}
<1> DEFINE F == Fitting(S, size, n)
           T == {size[b] : b \in F}
<1>1. a \in F /\ \A b \in F : size[b] \in Nat  BY DEF Fitting
<1> HIDE DEF F
<1>2. T \subseteq Nat /\ T # {}  BY <1>1
<1> HIDE DEF T
<1>3. PICK x \in T : \A y \in T : x <= y  BY <1>2, LeastOf
<1>4. PICK b \in F : size[b] = x  BY <1>3 DEF T
<1>5. \A c \in F : size[b] <= size[c]  BY <1>3, <1>4 DEF T
<1> QED  BY <1>4, <1>5 DEF FindBest, F

(* The heap grows, and the kernel runs out of it, only when nothing the    *)
(* caller does not hold fits: no cell of the bin, no big block.            *)
LEMMA GrowsWhenFull == ASSUME WInv, Aligned PROVE GrowsOnlyWhenFull
<1> SUFFICES ASSUME status = "ok", NEW n \in Sizes \ {0},
                    IF malloc_bin_size(n) < BIG_BIN THEN UnusedCells(malloc_bin_size(n)) # {}
                    ELSE UnusedBig(n) # {},
                    NEW r \in malloc(heap, n)
             PROVE  r.st = "ok" /\ r.heap.brk = heap.brk
  BY DEF GrowsOnlyWhenFull
<1> DEFINE k == malloc_bin_size(n)
<1>1. HeapInv(heap, live) /\ Lossless(heap, live)  BY DEF WInv, Whole, Complete
<1>2. n \in Nat \ {0} /\ n <= INT_MAX
  <2>1. n \in Request  BY ConstantsOK
  <2> QED  BY <2>1, SMT DEF Request, INT_MAX, PAGE_SIZE
<1>3. CASE k < BIG_BIN
  <2>1. k \in 0 .. BIG_BIN - 1 /\ n <= CellSize(k)
    BY <1>2, <1>3, BinFits, SMT DEF BIG_BIN, NUM_BINS
  <2>2. r = MallocSmall(heap, k)  BY <1>3 DEF malloc
  <2>3. UnusedCells(k) # {}  BY <1>3
  <2> HIDE DEF k
  <2>4. PICK b \in Small(heap) : heap.size[b] = k /\ ~(CellsOf(heap, b) \subseteq DOMAIN live)
    <3>1. PICK a : a \in UnusedCells(k)  BY <2>3
    <3> DEFINE X == {CellsOf(heap, b) : b \in {c \in Small(heap) : heap.size[c] = k}}
    <3>3. UnusedCells(k) = (UNION X) \ DOMAIN live  BY Zenon DEF UnusedCells
    <3> HIDE DEF X
    <3>4. a \in UNION X /\ a \notin DOMAIN live  BY <3>1, <3>3
    <3>5. PICK S \in X : a \in S  BY <3>4
    <3> QED  BY <3>4, <3>5 DEF X
  <2>5. PICK c \in Elems(heap.stack[b]) : TRUE  BY <1>1, <2>4 DEF Lossless
  <2>6. heap.stack[b] # <<>>  BY <2>5 DEF Elems
  <2>7. b \in Elems(heap.bins[k])  BY <1>1, <2>1, <2>4, <2>6 DEF HeapInv, SmallPages
  <2>8. heap.bins[k] # <<>>  BY <2>7 DEF Elems
  <2> QED  BY <1>1, <1>2, <2>1, <2>2, <2>8, PopCellInv DEF MallocSmall
<1>4. CASE ~(k < BIG_BIN)
  <2>1. r \in MallocBig(heap, n)  BY <1>4 DEF malloc
  <2>2. PICK b \in Big(heap) : heap.size[b] >= n /\ b \in heap.skip
    BY <1>1, <1>4 DEF UnusedBig, Lossless
  <2>3. \A c \in heap.skip : heap.size[c] \in Nat  BY <1>1, Fields
  <2>4. FindBest(heap.skip, heap.size, n) # {}  BY <2>2, <2>3, BestExists
  <2>5. PICK c \in heap.skip : r = TakeBig(heap, c)
    BY <2>1, <2>4 DEF MallocBig, FindBest, Fitting
  <2> QED  BY <1>1, <2>5, TakeBigInv
<1> QED  BY <1>3, <1>4

(* malloc.c:420, 483: in an arena that starts on a page boundary, sbrk()   *)
(* is called only if no cell and no big block on a free list would do.     *)
THEOREM GrowsWhenNothingFits == NoEmptyValloc /\ Aligned => (Spec => []GrowsOnlyWhenFull)
<1> SUFFICES ASSUME NoEmptyValloc, Aligned PROVE Spec => []GrowsOnlyWhenFull  OBVIOUS
<1>1. WInv => GrowsOnlyWhenFull  BY GrowsWhenFull
<1> QED  BY <1>1, AlwaysWhole, PTL

----------------------------------------------------------------------------
(* The block of a live pointer has room for what was asked.                *)
LEMMA RoomHolds ==
  ASSUME NEW h, NEW L, HeapInv(h, L), NEW p \in DOMAIN L
  PROVE  L[p] \in Nat /\ Room(h, p) \in Int /\ L[p] <= Room(h, p)
<1>1. PICK b \in Blocks(h) : OwnedCell(h, L, b, p) \/ OwnedHandle(h, L, b, p)
  BY DEF HeapInv, Owned
<1>2. /\ p \in Nat /\ L[p] \in Nat /\ b < p /\ p < b + Extent(h, b)
      /\ b \in Nat /\ Extent(h, b) \in Nat /\ h.size[b] \in Nat
      /\ ~IsBig(h, b) => h.size[b] \in 0 .. BIG_BIN - 1
  BY <1>1, OwnedInside, BlockFacts
<1>3. b < p /\ p <= b + Extent(h, b)  BY <1>2
<1>4. \A c \in Blocks(h) : c < p /\ p <= c + Extent(h, c) => c = b  BY <1>2, OneBlock
<1>5. BlockOf(h, p) = b  BY <1>3, <1>4 DEF BlockOf
<1>6. CASE OwnedCell(h, L, b, p)
  <2>1. Room(h, p) = CellSize(h.size[b])  BY <1>5, <1>6 DEF Room, OwnedCell
  <2> QED  BY <1>2, <1>6, <2>1, BinBounds DEF OwnedCell
<1>7. CASE OwnedHandle(h, L, b, p)
  <2>1. Room(h, p) = Usable(h, b, p)  BY <1>5, <1>7 DEF Room, OwnedHandle
  <2> QED  BY <1>2, <1>7, <2>1 DEF OwnedHandle, Usable
<1> QED  BY <1>1, <1>6, <1>7

(* OldSize, by realloc()'s own search for the header, is at most the room. *)
LEMMA OldSizeFits ==
  ASSUME NEW h, NEW L, HeapInv(h, L), NEW p \in DOMAIN L, PageOf(p) \in Blocks(h)
  PROVE  LET old == OldSize(h, PageOf(p)) IN old \in Nat \ {0} /\ old <= Room(h, p)
<1> DEFINE b == PageOf(p)
           old == OldSize(h, b)
           M == Extend(Revoke(L, p), p, old)
<1>1. old \in Nat \ {0}
  <2>1. h.size[b] \in Nat  BY BlockFacts
  <2> HIDE DEF b
  <2>2. CASE h.size[b] < BIG_BIN
    <3>1. h.size[b] \in 0 .. BIG_BIN - 1  BY <2>1, <2>2, SMT DEF BIG_BIN, NUM_BINS
    <3> QED  BY <2>2, <3>1, BinBounds DEF OldSize
  <2>3. CASE ~(h.size[b] < BIG_BIN)  BY <2>1, <2>3, SMT DEF OldSize, BIG_BIN, NUM_BINS
  <2> QED  BY <2>2, <2>3
<1>2. old <= OldSize(h, PageOf(p))  BY <1>1
<1> HIDE DEF old
<1>3. HeapInv(h, M)  BY <1>1, <1>2, StaysInv
<1>4. p \in DOMAIN M /\ M[p] = old  BY DEF Extend
<1> HIDE DEF M
<1>5. old <= Room(h, p)  BY <1>3, <1>4, RoomHolds
<1> QED  BY <1>1, <1>5 DEF old

(* What realloc() copies lies inside the old block and the new one.        *)
LEMMA CopyStaysInside == ASSUME IInv PROVE CopyFits
<1> SUFFICES ASSUME status = "ok", NEW p \in DOMAIN live, PageOf(p) \in Blocks(heap)
             PROVE  LET old == OldSize(heap, PageOf(p))
                    IN  /\ old <= Room(heap, p)
                        /\ \A n \in Sizes : n > old =>
                             \A r \in malloc(heap, n) : r.st = "ok" => old <= Room(r.heap, r.ptr)
  BY DEF CopyFits
<1> DEFINE old == OldSize(heap, PageOf(p))
<1>1. HeapInv(heap, live)  BY DEF IInv
<1>2. old \in Nat \ {0} /\ old <= Room(heap, p)  BY <1>1, OldSizeFits
<1> HIDE DEF old
<1>3. ASSUME NEW n \in Sizes, n > old, NEW r \in malloc(heap, n), r.st = "ok"
      PROVE  old <= Room(r.heap, r.ptr)
  <2> DEFINE M == Extend(live, r.ptr, n)
  <2>1. n \in Request /\ n \in Nat /\ n # 0  BY <1>2, <1>3, ConstantsOK DEF Request
  <2>2. HeapInv(r.heap, M)  BY <1>1, <1>3, <2>1, MallocCall DEF Result
  <2>3. r.ptr \in DOMAIN M /\ M[r.ptr] = n  BY DEF Extend
  <2> HIDE DEF M
  <2>4. Room(r.heap, r.ptr) \in Int /\ n <= Room(r.heap, r.ptr)  BY <2>2, <2>3, RoomHolds
  <2> QED  BY <1>2, <1>3, <2>1, <2>4
<1> QED  BY <1>2, <1>3 DEF old

(* malloc.c:639: what realloc() copies lies within the old block and       *)
(* within the new one.                                                     *)
THEOREM ReallocCopiesInside == NoEmptyValloc => (Spec => []CopyFits)
<1> SUFFICES ASSUME NoEmptyValloc PROVE Spec => []CopyFits  OBVIOUS
<1>1. IInv => CopyFits  BY CopyStaysInside
<1> QED  BY <1>1, Inductive, PTL

----------------------------------------------------------------------------
(* How the calls use the list of free big blocks: existing blocks keep     *)
(* their size; malloc() takes a best fit out, free() puts a block in.      *)
Keeps(h, g) ==
  Blocks(h) \subseteq Blocks(g) /\ \A b \in Blocks(h) : g.size[b] = h.size[b]

Takes(h, g, n) ==
  /\ g.size = h.size
  /\ \E c \in FindBest(h.skip, h.size, n) : g.skip = h.skip \ {c}

LEMMA MallocBigUses ==
  ASSUME NEW h, NEW L, HeapInv(h, L), NEW n \in Nat, NEW r \in MallocBig(h, n)
  PROVE  Keeps(h, r.heap) /\ (r.heap.skip = h.skip \/ Takes(h, r.heap, n))
<1> DEFINE best == FindBest(h.skip, h.size, n)
<1>1. CASE best # {}
  <2>1. PICK c \in best : r = TakeBig(h, c)  BY <1>1 DEF MallocBig
  <2>2. c \in h.skip  BY DEF FindBest, Fitting
  <2>3. r.heap.size = h.size /\ r.heap.skip = h.skip \ {c}
    BY <2>1, <2>2, TakeBigDoes DEF OnlyStack
  <2> QED  BY <2>3 DEF Keeps, Takes, Blocks
<1>2. CASE best = {} /\ SbrkFails(h, BigPages(n) * PAGE_SIZE)
  BY <1>2 DEF MallocBig, Result, Keeps
<1>3. CASE best = {} /\ ~SbrkFails(h, BigPages(n) * PAGE_SIZE) /\ h.brk % PAGE_SIZE # 0
  <2>1. r.heap = [h EXCEPT !.brk = @ + BigPages(n) * PAGE_SIZE]
    BY <1>3 DEF MallocBig, Result
  <2>2. r.heap.size = h.size /\ r.heap.skip = h.skip  BY <2>1, Fields DEF HeapRecord
  <2> QED  BY <2>2 DEF Keeps, Blocks
<1>4. CASE best = {} /\ ~SbrkFails(h, BigPages(n) * PAGE_SIZE) /\ h.brk % PAGE_SIZE = 0
  <2>1. r.heap = GrowBig(h, n)  BY <1>4 DEF MallocBig, Result
  <2> QED  BY <2>1, GrowBigDoes DEF OneBlockMore, Keeps
<1> QED  BY <1>1, <1>2, <1>3, <1>4

LEMMA MallocUses ==
  ASSUME NEW h, NEW L, HeapInv(h, L), NEW n \in Request, NEW r \in malloc(h, n)
  PROVE  Keeps(h, r.heap) /\ (r.heap.skip = h.skip \/ (n > 0 /\ Takes(h, r.heap, n)))
<1>1. n \in Nat /\ n <= INT_MAX  BY SMT DEF Request, INT_MAX, PAGE_SIZE
<1>2. CASE n = 0  BY <1>2 DEF malloc, Result, Keeps
<1>3. CASE n # 0 /\ ~(malloc_bin_size(n) < BIG_BIN)
  BY <1>1, <1>3, MallocBigUses DEF malloc
<1>4. CASE n # 0 /\ malloc_bin_size(n) < BIG_BIN
  <2> DEFINE k == malloc_bin_size(n)
  <2>1. r = MallocSmall(h, k)  BY <1>4 DEF malloc
  <2>2. k \in 0 .. BIG_BIN - 1  BY <1>1, <1>4, BinFits, SMT DEF BIG_BIN, NUM_BINS
  <2> HIDE DEF k
  <2>3. CASE h.bins[k] # <<>>
    BY <2>1, <2>2, <2>3, PopCellDoes DEF MallocSmall, OnlyStack, Keeps, Blocks
  <2>4. CASE h.bins[k] = <<>> /\ SbrkFails(h, PAGE_SIZE)
    BY <2>1, <2>4 DEF MallocSmall, Result, Keeps
  <2>5. CASE h.bins[k] = <<>> /\ ~SbrkFails(h, PAGE_SIZE)
    <3> DEFINE g == GrowSmall(h, k)
    <3>1. HeapInv(g, L) /\ g.bins[k] # <<>> /\ OneBlockMore(h, g)
      BY <2>2, <2>5, GrowSmallInv, GrowSmallDoes
    <3>2. r = PopCell(g, k)  BY <2>1, <2>5 DEF MallocSmall
    <3> HIDE DEF g
    <3>3. r.heap.size = g.size /\ r.heap.skip = g.skip
      BY <2>2, <3>1, <3>2, PopCellDoes DEF OnlyStack
    <3> QED  BY <3>1, <3>3 DEF OneBlockMore, Keeps, Blocks
  <2> QED  BY <2>3, <2>4, <2>5
<1> QED  BY <1>2, <1>3, <1>4

LEMMA FreeUses ==
  ASSUME NEW h, NEW L, HeapInv(h, L), NEW p \in DOMAIN L
  PROVE  LET g == free(h, p).heap
         IN  /\ g.size = h.size
             /\ \/ g.skip = h.skip
                \/ HeaderOf(p) \in Blocks(h) \ h.skip /\ g.skip = h.skip \cup {HeaderOf(p)}
<1>1. PICK b \in Blocks(h) : OwnedCell(h, L, b, p) \/ OwnedHandle(h, L, b, p)
  BY DEF HeapInv, Owned
<1>2. CASE HeaderOf(p) \notin Blocks(h)  BY <1>2 DEF free, Blocks, Result
<1>3. CASE HeaderOf(p) \in Blocks(h)
  <2>1. HeaderOf(p) = b  BY <1>1, <1>3, FindsHeader
  <2>2. p # NULL  BY NotNull
  <2>3. CASE OwnedCell(h, L, b, p)
    <3>1. free(h, p) = FreeCell(h, b, p)  BY <1>3, <2>1, <2>2, <2>3 DEF free, OwnedCell, Blocks
    <3>2. b \in Small(h) /\ p \in Nat  BY <1>1, <2>3, OwnedInside DEF OwnedCell, Small
    <3> QED  BY <3>1, <3>2, FreeCellDoes DEF OnlyStack
  <2>4. CASE OwnedHandle(h, L, b, p)
    <3>1. free(h, p) = FreeBig(h, b)  BY <1>3, <2>1, <2>2, <2>4 DEF free, OwnedHandle, Blocks
    <3>2. b \in Big(h) /\ b \notin h.skip  BY <2>4 DEF OwnedHandle, Big, HeapInv, BigBlocks
    <3> QED  BY <2>1, <3>1, <3>2, FreeBigDoes DEF OnlyStack
  <2> QED  BY <1>1, <2>3, <2>4
<1> QED  BY <1>2, <1>3

(* A header free() would find from a live pointer is not listed.           *)
LEMMA OwnerNotListed ==
  ASSUME NEW h, NEW L, HeapInv(h, L), NEW p \in DOMAIN L, HeaderOf(p) \in Blocks(h)
  PROVE  HeaderOf(p) \notin h.skip
<1>1. PICK b \in Blocks(h) : OwnedCell(h, L, b, p) \/ OwnedHandle(h, L, b, p)
  BY DEF HeapInv, Owned
<1>2. HeaderOf(p) = b  BY <1>1, FindsHeader
<1> QED  BY <1>1, <1>2 DEF OwnedCell, OwnedHandle, HeapInv, BigBlocks, Big

LEMMA BlockAddress ==
  ASSUME NEW h, NEW L, HeapInv(h, L), NEW b \in Blocks(h)
  PROVE  b \in Addresses
<1> DEFINE i == (b - HeapBase) \div PAGE_SIZE
<1>1. /\ b \in Nat /\ h.brk \in Nat /\ HeapBase <= b /\ b <= h.brk
      /\ h.brk <= HeapBase + MEMORY_CAPACITY /\ (b - HeapBase) % PAGE_SIZE = 0
  <2>1. /\ b \in Nat /\ h.brk \in Nat /\ HeapBase <= b /\ Extent(h, b) \in Nat
        /\ b + Extent(h, b) <= h.brk
    BY BlockFacts
  <2>2. h.brk <= HeapBase + MEMORY_CAPACITY /\ (b - HeapBase) % PAGE_SIZE = 0
    BY DEF HeapInv, Layout
  <2> QED  BY <2>1, <2>2
<1>2. i \in 0 .. MEMORY_CAPACITY \div PAGE_SIZE /\ b = HeapBase + i * PAGE_SIZE
  BY <1>1, ConstantsOK, SMT DEF PAGE_SIZE
<1> QED  BY <1>2 DEF Addresses

(* malloc(n) and free(p), and realloc(p, n) as the two in one step.        *)
Listed(h, g, n) ==
  /\ Keeps(h, g)
  /\ \/ g.skip = h.skip
     \/ n \in BigRequests /\ Takes(h, g, n)
     \/ \E b \in Addresses :
          /\ b \in Blocks(g) \ h.skip
          /\ \/ g.skip = h.skip \cup {b}
             \/ /\ n \in BigRequests /\ b \in Blocks(h)
                /\ \E c \in FindBest(h.skip, h.size, n) : g.skip = (h.skip \ {c}) \cup {b}

LEMMA MallocLists ==
  ASSUME NEW h, NEW L, HeapInv(h, L), NEW n \in Request, NEW r \in malloc(h, n),
         n > 0 => n \in BigRequests
  PROVE  Listed(h, r.heap, n)
BY MallocUses DEF Listed

LEMMA VallocLists ==
  ASSUME NEW h, NEW L, HeapInv(h, L), NEW n \in VallocSizes \ {0}, NEW r \in valloc(h, n)
  PROVE  Listed(h, r.heap, VallocSize(n))
<1>1. n \in Request /\ VallocSize(n) \in BigRequests  BY ConstantsOK DEF BigRequests
<1>2. PICK s \in MallocBig(h, VallocSize(n)) :
        r = IF s.st # "ok" THEN s
            ELSE Checked((s.ptr + PAGE_SIZE - BIG_HEADER) % PAGE_SIZE = 0,
                         [s EXCEPT !.ptr = @ + PAGE_SIZE - BIG_HEADER])
  BY <1>1, VallocIsBig DEF valloc
<1>3. /\ VallocSize(n) \in Nat /\ n \in Nat \ {0} /\ n + 0 <= VallocSize(n)
      /\ 0 \in {0, PAGE_SIZE - BIG_HEADER}
  BY <1>1, SMT DEF VallocSize, PAGE_SIZE, BIG_HEADER, Request
<1>4. \/ s = Result("fault", h, NULL)
      \/ s.st = "misaligned"
      \/ s = Result("ok", s.heap, s.ptr) /\ s.st = "ok"
  BY <1>3, MallocBigInv
<1>5. r.heap = s.heap  BY <1>2, <1>4 DEF Checked, Result
<1> QED  BY <1>1, <1>3, <1>5, MallocBigUses DEF Listed

LEMMA FreeLists ==
  ASSUME NEW h, NEW L, HeapInv(h, L), NEW p \in DOMAIN L, NEW n
  PROVE  Listed(h, free(h, p).heap, n)
<1> DEFINE g == free(h, p).heap
<1>1. /\ g.size = h.size
      /\ \/ g.skip = h.skip
         \/ HeaderOf(p) \in Blocks(h) \ h.skip /\ g.skip = h.skip \cup {HeaderOf(p)}
  BY FreeUses
<1> HIDE DEF g
<1>2. HeaderOf(p) \in Blocks(h) => HeaderOf(p) \in Addresses  BY BlockAddress
<1>3. Listed(h, g, n)  BY <1>1, <1>2 DEF Listed, Keeps, Blocks
<1> QED  BY <1>3 DEF g

LEMMA ReallocLists ==
  ASSUME NEW h, NEW L, HeapInv(h, L), NEW p \in DOMAIN L \cup {NULL}, NEW n \in Request,
         NEW r \in realloc(h, p, n), n > 0 => n \in BigRequests
  PROVE  Listed(h, r.heap, n)
<1>1. CASE p = NULL  BY <1>1, MallocLists DEF realloc
<1>2. CASE p # NULL /\ n = 0  BY <1>2, FreeLists DEF realloc
<1>3. CASE /\ p # NULL /\ n # 0
           /\ PageOf(p) \notin Blocks(h) \/ OldSize(h, PageOf(p)) >= n
  BY <1>3 DEF realloc, Blocks, Result, Listed, Keeps
<1>4. CASE p # NULL /\ n # 0 /\ PageOf(p) \in Blocks(h) /\ ~(OldSize(h, PageOf(p)) >= n)
  <2>1. PICK m \in malloc(h, n) :
          r = IF m.st # "ok" THEN m ELSE [free(m.heap, p) EXCEPT !.ptr = m.ptr]
    BY <1>4 DEF realloc, Blocks
  <2>2. Keeps(h, m.heap) /\ (m.heap.skip = h.skip \/ (n > 0 /\ Takes(h, m.heap, n)))
    BY MallocUses
  <2>3. CASE m.st # "ok"  BY <2>1, <2>3, MallocLists
  <2>4. CASE m.st = "ok"
    <3> DEFINE M == Extend(L, m.ptr, n)
               f == free(m.heap, p)
               b == HeaderOf(p)
    <3>1. HeapInv(m.heap, M) /\ p \in DOMAIN L
      BY <1>4, <2>4, MallocCall DEF Result
    <3>2. p \in DOMAIN M  BY <3>1 DEF Extend
    <3> HIDE DEF M
    <3>3. f = Result("ok", f.heap, NULL)  BY <3>1, <3>2, FreeCall
    <3>4. /\ f.heap.size = m.heap.size
          /\ \/ f.heap.skip = m.heap.skip
             \/ b \in Blocks(m.heap) \ m.heap.skip /\ f.heap.skip = m.heap.skip \cup {b}
      BY <3>1, <3>2, FreeUses
    <3>5. r = [f EXCEPT !.ptr = m.ptr]  BY <2>1, <2>4
    <3>6. b \in Blocks(m.heap) => b \in Addresses  BY <3>1, BlockAddress
    <3>7. b \in Blocks(h) => b \notin h.skip  BY <3>1, OwnerNotListed
    <3> HIDE DEF f, b
    <3>8. r.heap = f.heap  BY <3>3, <3>5 DEF Result
    <3>9. h.skip \subseteq Blocks(h)  BY Fields
    <3>10. Blocks(f.heap) = Blocks(m.heap) /\ Keeps(h, f.heap)
      BY <2>2, <3>4 DEF Keeps, Blocks
    <3>11. CASE m.heap.skip = h.skip
      BY <3>4, <3>6, <3>8, <3>10, <3>11 DEF Listed
    <3>12. CASE n > 0 /\ Takes(h, m.heap, n)
      <4>1. n \in BigRequests /\ Blocks(m.heap) = Blocks(h) /\ f.heap.size = h.size
        BY <3>4, <3>12 DEF Takes, Blocks
      <4>2. PICK c \in FindBest(h.skip, h.size, n) : m.heap.skip = h.skip \ {c}
        BY <3>12 DEF Takes
      <4>3. CASE f.heap.skip = m.heap.skip
        BY <3>8, <3>10, <4>1, <4>2, <4>3 DEF Listed, Takes
      <4>4. CASE b \in Blocks(m.heap) \ m.heap.skip /\ f.heap.skip = m.heap.skip \cup {b}
        <5>1. b \in Addresses /\ b \in Blocks(f.heap) \ h.skip /\ b \in Blocks(h)
          BY <3>6, <3>7, <3>10, <4>1, <4>4
        <5>2. f.heap.skip = (h.skip \ {c}) \cup {b}  BY <4>2, <4>4
        <5> QED  BY <3>8, <3>10, <4>1, <4>2, <5>1, <5>2 DEF Listed
      <4> QED  BY <3>4, <4>3, <4>4
    <3> QED  BY <2>2, <3>11, <3>12
  <2> QED  BY <2>3, <2>4
<1> QED  BY <1>1, <1>2, <1>3, <1>4

LEMMA ListedStep ==
  ASSUME IInv, NEW n, Listed(heap, heap', n)
  PROVE  [List!Next]_<<heap.size, heap.skip>>
<1>1. heap.skip \subseteq Blocks(heap)  BY DEF IInv, HeapType
<1>2. List!SizesKept  BY <1>1 DEF Listed, Keeps, Blocks, List!SizesKept
<1>0. List!FindBest(heap.skip, heap.size, n) = FindBest(heap.skip, heap.size, n)
  BY DEF FindBest, Fitting, List!FindBest, List!Fitting
<1>3. CASE heap'.skip = heap.skip  BY <1>2, <1>3 DEF List!Next
<1>4. CASE n \in BigRequests /\ Takes(heap, heap', n)
  BY <1>0, <1>2, <1>4 DEF List!Next, List!TakeBest, Takes
<1>5. CASE \E b \in Addresses : b \in Blocks(heap') \ heap.skip /\ heap'.skip = heap.skip \cup {b}
  BY <1>2, <1>5 DEF List!Next, List!Insert, Blocks
<1>6. CASE \E b \in Addresses :
             /\ b \in Blocks(heap') \ heap.skip
             /\ n \in BigRequests /\ b \in Blocks(heap)
             /\ \E c \in FindBest(heap.skip, heap.size, n) :
                  heap'.skip = (heap.skip \ {c}) \cup {b}
  BY <1>0, <1>2, <1>6 DEF List!Next, List!Exchange, Blocks
<1> QED  BY <1>3, <1>4, <1>5, <1>6 DEF Listed

LEMMA UsesStep ==
  ASSUME NoEmptyValloc, IInv, [Next]_vars
  PROVE  [List!Next]_<<heap.size, heap.skip>>
<1>0. \A n \in Sizes : n \in Request /\ (n > 0 => n \in BigRequests)
  BY ConstantsOK DEF BigRequests
<1>1. ASSUME NEW n \in Request, n > 0 => n \in BigRequests, Malloc(n)
      PROVE  [List!Next]_<<heap.size, heap.skip>>
  <2>1. PICK r \in malloc(heap, n) : heap' = r.heap  BY <1>1 DEF Malloc, Return
  <2>2. HeapInv(heap, live)  BY <1>1 DEF Malloc, IInv
  <2> QED  BY <1>1, <2>1, <2>2, MallocLists, ListedStep
<1>2. ASSUME NEW c \in CallocArgs, Calloc(c)  PROVE [List!Next]_<<heap.size, heap.skip>>
  <2>1. c[1] * c[2] \in Request /\ c[1] * c[2] \in BigRequests
    BY ConstantsOK DEF BigRequests
  <2>2. Malloc(c[1] * c[2])  BY <1>2 DEF Calloc, Malloc
  <2> QED  BY <2>1, <2>2, <1>1
<1>3. ASSUME NEW n \in VallocSizes, Valloc(n)  PROVE [List!Next]_<<heap.size, heap.skip>>
  <2>1. PICK r \in valloc(heap, n) : heap' = r.heap  BY <1>3 DEF Valloc, Return
  <2>2. HeapInv(heap, live) /\ n \in VallocSizes \ {0}
    BY <1>3 DEF Valloc, IInv, NoEmptyValloc
  <2>3. Listed(heap, r.heap, VallocSize(n))  BY <2>2, VallocLists
  <2> QED  BY <2>1, <2>3, ListedStep
<1>4. ASSUME NEW p \in DOMAIN live, Free(p)  PROVE [List!Next]_<<heap.size, heap.skip>>
  <2>1. heap' = free(heap, p).heap  BY <1>4 DEF Free, Return
  <2>2. HeapInv(heap, live)  BY <1>4 DEF Free, IInv
  <2>3. Listed(heap, free(heap, p).heap, 0)  BY <2>2, FreeLists
  <2> QED  BY <2>1, <2>3, ListedStep
<1>5. ASSUME NEW p \in DOMAIN live \cup {NULL}, NEW n \in Sizes, Realloc(p, n)
      PROVE  [List!Next]_<<heap.size, heap.skip>>
  <2>1. PICK r \in realloc(heap, p, n) : heap' = r.heap  BY <1>5 DEF Realloc, Return
  <2>2. HeapInv(heap, live)  BY <1>5 DEF Realloc, IInv
  <2>3. Listed(heap, r.heap, n)  BY <1>0, <2>2, ReallocLists
  <2> QED  BY <2>1, <2>3, ListedStep
<1>6. CASE UNCHANGED vars  BY <1>6 DEF vars
<1>7. ASSUME NEW n \in Sizes, Malloc(n)  PROVE [List!Next]_<<heap.size, heap.skip>>
  BY <1>0, <1>1, <1>7
<1> QED  BY <1>2, <1>3, <1>4, <1>5, <1>6, <1>7 DEF Next

(* malloc() and free() use the list of free big blocks as its contract     *)
(* says: no block is put in twice, a listed block keeps its size, and what *)
(* is taken out is a best fit.                                             *)
THEOREM ListUsedProperly == NoEmptyValloc => (Spec => UsesListProperly)
<1> SUFFICES ASSUME NoEmptyValloc PROVE Spec => UsesListProperly  OBVIOUS
<1>1. Init => List!Init  BY DEF Init, EmptyHeap, List!Init
<1>2. IInv /\ [Next]_vars => [List!Next]_<<heap.size, heap.skip>>  BY UsesStep
<1> QED  BY <1>1, <1>2, Inductive, PTL DEF Spec, UsesListProperly, List!Spec
=============================================================================
