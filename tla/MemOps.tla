------------------------------- MODULE MemOps -------------------------------
(***************************************************************************)
(* kernel/util/memory.c: memcpy(), memzero() and memset(), one byte per    *)
(* step, calloc()'s use of memset(), and sbrk() in one step.  Between two  *)
(* calls the owners of the memory write what they like into it.            *)
(***************************************************************************)
EXTENDS Integers

CONSTANTS
  MemSize,   (* the addresses are 1 .. MemSize, NULL is 0                  *)
  Byte,      (* the values a byte takes, 0 among them                      *)
  Half,      (* ints are -Half .. Half - 1                                 *)
  Lengths,   (* the lengths passed, as size_t                              *)
  MEMORY_CAPACITY,
  Growths    (* the sizes malloc() asks sbrk() for, as size_t              *)

ASSUME MemConstants ==
  /\ MemSize \in Nat \ {0}
  /\ 0 \in Byte
  /\ Half \in Nat \ {0}
  /\ Lengths \subseteq Nat /\ Growths \subseteq Nat
  /\ MEMORY_CAPACITY \in Nat \ {0}

VARIABLES
  mem,
  op,                  (* the running function, or "none"                  *)
  done,                (* it has returned and its result can be looked at  *)
  dest, src, n, c, i,  (* its parameters and its loop counter              *)
  old,                 (* the memory when it was called                    *)
  pbreak               (* how far sbrk() has come in global_mem            *)

call == <<op, done, dest, src, n, c, i>>
vars == <<mem, call, old, pbreak>>

Address == 1 .. MemSize
NULL    == 0

(* (int)n                                                                  *)
AsInt(k) ==
  LET low == k % (2 * Half)
  IN  IF low >= Half THEN low - 2 * Half ELSE low

Init ==
  /\ mem = [a \in Address |-> 0]
  /\ op = "none" /\ done = FALSE
  /\ dest = NULL /\ src = NULL /\ n = 0 /\ c = 0 /\ i = 0
  /\ old = mem
  /\ pbreak = 0

(* The owner of a block writes a byte of it.                               *)
Write(a, v) ==
  /\ op = "none"
  /\ mem' = [mem EXCEPT ![a] = v]
  /\ old' = mem'
  /\ UNCHANGED <<call, pbreak>>

Call(f, d, s, len, v) ==
  /\ op = "none"
  /\ op' = f /\ dest' = d /\ src' = s /\ n' = len /\ c' = v
  /\ i' = 0 /\ done' = FALSE /\ old' = mem
  /\ UNCHANGED <<mem, pbreak>>

(* The len bytes at a are memory of the caller's.                          *)
Within(a, len) == a + len <= MemSize + 1

Memcpy(d, s, len)  == Within(d, len) /\ Within(s, len) /\ Call("memcpy", d, s, len, 0)
Memzero(d, len)    == Within(d, len) /\ Call("memzero", d, NULL, len, 0)
Memset(d, v, len)  == (d # NULL => Within(d, len)) /\ Call("memset", d, NULL, len, v)

(* calloc() got a block from malloc() and clears it with memset().         *)
Calloc(d, len)     == Within(d, len) /\ Call("calloc", d, NULL, len, 0)

----------------------------------------------------------------------------
(* The loop conditions.  memset() looks at the byte before it looks at the *)
(* length; what it reads behind the last byte changes nothing.             *)
Filling == op \in {"memset", "calloc"}

(* Mutants: the last index is taken too, or not even the one before it;    *)
(* the byte is not looked at.                                              *)
MoreInclusive ==
  /\ op # "none" /\ ~done /\ i <= AsInt(n)
  /\ dest + i \in Address /\ (op = "memcpy" => src + i \in Address)
  /\ Filling => dest # NULL /\ mem[dest + i] # 0
MoreAnyByte ==
  /\ op # "none" /\ ~done /\ i < AsInt(n)
  /\ Filling => dest # NULL

MoreShort ==
  /\ op # "none" /\ ~done /\ i < AsInt(n) - 1
  /\ Filling => dest # NULL /\ mem[dest + i] # 0

More ==
  /\ op # "none" /\ ~done /\ i < AsInt(n)
  /\ Filling => dest # NULL /\ mem[dest + i] # 0

(* Mutants: source and destination swapped; value and length swapped.      *)
ByteOfDest   == IF op = "memcpy" THEN mem[dest + i] ELSE c
ByteOfLength == IF op = "memcpy" THEN mem[src + i] ELSE n

Byte_i == IF op = "memcpy" THEN mem[src + i] ELSE c

Step ==
  /\ More
  /\ mem' = [mem EXCEPT ![dest + i] = Byte_i]
  /\ i' = i + 1
  /\ UNCHANGED <<op, done, dest, src, n, c, old, pbreak>>

Return ==
  /\ op # "none" /\ ~done /\ ~More
  /\ done' = TRUE
  /\ UNCHANGED <<mem, op, dest, src, n, c, i, old, pbreak>>

(* The caller goes on.                                                     *)
Leave ==
  /\ done
  /\ op' = "none" /\ done' = FALSE
  /\ dest' = NULL /\ src' = NULL /\ n' = 0 /\ c' = 0 /\ i' = 0
  /\ old' = mem
  /\ UNCHANGED <<mem, pbreak>>

Run == Step \/ Return \/ Leave

----------------------------------------------------------------------------
(* Mutant: only the upper end is tested.                                   *)
SbrkFailsAbove(increment) == increment >= MEMORY_CAPACITY - pbreak

SbrkFails(increment) == increment < -pbreak \/ increment >= MEMORY_CAPACITY - pbreak

(* Its parameter is an int: what malloc() asks for arrives cut, and if it  *)
(* is negative then the break goes back.  A refusal changes nothing.       *)
sbrk(size) ==
  /\ op = "none" /\ ~SbrkFails(AsInt(size))
  /\ pbreak' = pbreak + AsInt(size)
  /\ UNCHANGED <<mem, call, old>>

----------------------------------------------------------------------------
Calls ==
  \E len \in Lengths :
    \/ \E d, s \in Address : Memcpy(d, s, len)
    \/ \E d \in Address : Memzero(d, len)
    \/ \E d \in Address \cup {NULL}, v \in Byte : Memset(d, v, len)
    \/ \E d \in Address : Calloc(d, len)

Next ==
  \/ Run
  \/ Calls
  \/ \E size \in Growths : sbrk(size)
  \/ \E a \in Address, v \in Byte : Write(a, v)

Spec == Init /\ [][Next]_vars

----------------------------------------------------------------------------
(* The memory holds bytes and the running call its parameters.             *)
TypeOK ==
  /\ mem \in [Address -> Byte] /\ old \in [Address -> Byte]
  /\ op \in {"none", "memcpy", "memzero", "memset", "calloc"}
  /\ done \in BOOLEAN
  /\ dest \in Address \cup {NULL} /\ src \in Address \cup {NULL}
  /\ n \in Nat /\ c \in Byte /\ i \in Nat

(* A call has returned whose length fits into an int; a longer one comes   *)
(* out negative or too small and treats too few bytes.                     *)
Finished == done /\ n < Half

(* A source that begins in front of a destination it overlaps is           *)
(* overwritten before it is read.                                          *)
Forward == src >= dest \/ src + n <= dest

(* realloc() moves a block with memcpy(): every byte arrives, also when    *)
(* the blocks overlap, unless the source begins first.                     *)
CopyIsExact ==
  (Finished /\ op = "memcpy" /\ Forward) =>
    \A j \in 0 .. n - 1 : mem[dest + j] = old[src + j]

(* memzero() clears all it was asked to.                                   *)
ZeroIsExact == (Finished /\ op = "memzero") => \A j \in 0 .. n - 1 : mem[dest + j] = 0

(* memset() fills up to the first byte that was zero, and not beyond.      *)
FillStopsAtZero ==
  (Finished /\ Filling /\ dest # NULL) =>
    \A j \in 0 .. n - 1 :
      mem[dest + j] = IF \E k \in 0 .. j : old[dest + k] = 0 THEN old[dest + j] ELSE c

(* No call touches a byte outside its destination, whatever its length     *)
(* becomes as an int.                                                      *)
NothingElse ==
  \A a \in Address : (op = "none" \/ a < dest \/ a >= dest + n) => mem[a] = old[a]

(* memory.c:40: whatever a size becomes as an int, and in whatever order   *)
(* the break goes forward and back, it stays inside global_mem.            *)
BreakInArena == 0 <= pbreak /\ pbreak < MEMORY_CAPACITY

(* malloc.c:653-660: "Allocate memory and zero it before returning a       *)
(* pointer to the newly allocated memory ... a memset to 0x00 across the   *)
(* length of the requested memory chunk."                                  *)
CallocClears ==
  (Finished /\ op = "calloc") => \A j \in 0 .. n - 1 : mem[dest + j] = 0
=============================================================================
