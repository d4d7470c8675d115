------------------------------ MODULE MCMalloc ------------------------------
(* Instances of Malloc for TLC.                                            *)
EXTENDS MallocInv

(* A page-aligned global_mem, and the one in iso/kernel.elf (its low bits).*)
AlignedBase  == 16 * PAGE_SIZE
BuiltBase    == 50944          \* 0xc700

NoSizes == {}
NoArgs  == {}

(* Bin 7 has three cells to a page, bin 8 one: pages fill up and come back.*)
(* 2048 fills its cell to the byte; 2049 is in the big bin, with 3999, the *)
(* largest of one page, and 4001, which takes two.                         *)
MixedSizes == {0, 1000, 2048, 2049, 3999, 4001}
TwoByFive  == {<<2, 500>>, <<2, 0>>}

PageVallocs == {1, 4096}

(* Big blocks alone, for the runs that show a violation.                   *)
BigSizes == {0, 3999, 4001}
=============================================================================
