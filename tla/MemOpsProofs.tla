---------------------------- MODULE MemOpsProofs ----------------------------
(***************************************************************************)
(* The theorems about MemOps, for memories, bytes, ints and lengths of any *)
(* size.                                                                   *)
(***************************************************************************)
EXTENDS MemOps, TLAPS

(* The inductive invariant: which bytes the running loop has reached and   *)
(* what they hold; all others are as they were.                            *)

Parameters ==
  op # "none" =>
    /\ dest # NULL => Within(dest, n)
    /\ op \in {"memcpy", "memzero", "calloc"} => dest \in Address
    /\ op = "memcpy" => src \in Address /\ Within(src, n)
    /\ op = "memzero" => c = 0

Reached ==
  /\ i > 0 => i <= AsInt(n) /\ dest # NULL
  /\ \A b \in Address : (op = "none" \/ b < dest \/ b >= dest + i) => mem[b] = old[b]

Copied  == (op = "memcpy" /\ Forward) => \A j \in 0 .. i - 1 : mem[dest + j] = old[src + j]
Cleared == op = "memzero" => \A j \in 0 .. i - 1 : mem[dest + j] = 0
Filled  ==
  (Filling /\ dest # NULL) =>
    \A j \in 0 .. i - 1 : mem[dest + j] = c /\ old[dest + j] # 0

Ended == done => op # "none" /\ ~(i < AsInt(n) /\ (Filling => dest # NULL /\ mem[dest + i] # 0))

LoopInv == TypeOK /\ Parameters /\ Reached /\ Copied /\ Cleared /\ Filled /\ Ended

(* A length as an int is never more than the length, and is the length     *)
(* when that fits.                                                         *)
LEMMA AsIntBounds ==
  \A k \in Nat : AsInt(k) \in Int /\ AsInt(k) <= k /\ (k < Half => AsInt(k) = k)
<1> SUFFICES ASSUME NEW k \in Nat
             PROVE  AsInt(k) \in Int /\ AsInt(k) <= k /\ (k < Half => AsInt(k) = k)
    OBVIOUS
<1> DEFINE w == 2 * Half
<1>1. Half \in Nat /\ Half > 0 /\ w \in Nat /\ w > 0  BY MemConstants
<1>2. k % w \in 0 .. w - 1 /\ (k < w => k % w = k) /\ k % w <= k
  <2>1. k = w * (k \div w) + (k % w) /\ k \div w \in Int /\ k % w \in 0 .. w - 1
        BY <1>1
  <2>2. k \div w >= 0  BY <1>1, <2>1
  <2>3. w * (k \div w) >= 0  BY <1>1, <2>1, <2>2
  <2>4. k < w => k % w = k  BY <1>1
  <2> QED  BY <2>1, <2>3, <2>4, <1>1
<1>3. AsInt(k) = IF k % w >= Half THEN (k % w) - w ELSE k % w  BY DEF AsInt
<1> QED  BY <1>1, <1>2, <1>3

(* Nothing runs in the beginning.                                          *)
LEMMA InitLoop == Init => LoopInv
<1> SUFFICES ASSUME Init PROVE LoopInv  OBVIOUS
<1> USE DEF Init
<1>1. TypeOK
  <2>1. [x \in Address |-> 0] \in [Address -> Byte]  BY MemConstants
  <2> QED  BY <2>1, MemConstants DEF TypeOK, NULL
<1>2. Parameters /\ Copied /\ Cleared  BY DEF Parameters, Copied, Cleared
<1>3. Filled  BY DEF Filled, Filling
<1>4. Reached  BY DEF Reached
<1>5. Ended  BY DEF Ended
<1> QED  BY <1>1, <1>2, <1>3, <1>4, <1>5 DEF LoopInv

(* One byte more is reached.                                               *)
LEMMA StepLoop == LoopInv /\ Step => LoopInv'
<1> SUFFICES ASSUME LoopInv, Step PROVE LoopInv'  OBVIOUS
<1> USE DEF LoopInv
<1>1. /\ op # "none" /\ ~done /\ i < AsInt(n)
      /\ Filling => dest # NULL /\ mem[dest + i] # 0
      /\ i \in Nat /\ n \in Nat /\ AsInt(n) \in Int /\ AsInt(n) <= n /\ MemSize \in Nat
  BY AsIntBounds, MemConstants DEF Step, More, TypeOK
<1>2. /\ dest \in Address /\ dest # NULL /\ dest + i \in Address /\ dest \in Nat
      /\ op = "memcpy" => src \in Address /\ src + i \in Address /\ src \in Nat
  <2>1. dest \in Address
    <3>1. CASE op \in {"memcpy", "memzero", "calloc"}  BY <3>1, <1>1 DEF Parameters
    <3>2. CASE op = "memset"  BY <3>2, <1>1 DEF Filling, TypeOK
    <3> QED  BY <1>1, <3>1, <3>2 DEF TypeOK
  <2>2. Within(dest, n)  BY <1>1, <2>1, MemConstants DEF Parameters, Address, NULL
  <2>3. op = "memcpy" => src \in Address /\ Within(src, n)  BY <1>1 DEF Parameters
  <2> QED  BY <1>1, <2>1, <2>2, <2>3, MemConstants DEF Within, Address, NULL
<1>3. /\ mem' = [mem EXCEPT ![dest + i] = Byte_i] /\ i' = i + 1
      /\ UNCHANGED <<op, done, dest, src, n, c, old>>
  BY DEF Step
<1>4. Byte_i \in Byte  BY <1>2 DEF Byte_i, TypeOK
<1>5. /\ mem' \in [Address -> Byte] /\ mem'[dest + i] = Byte_i
      /\ \A b \in Address : b # dest + i => mem'[b] = mem[b]
  BY <1>2, <1>3, <1>4 DEF TypeOK
<1>6. TypeOK'  BY <1>1, <1>3, <1>5 DEF TypeOK
<1>7. Parameters'  BY <1>3 DEF Parameters, Within
<1>8. Reached'
  <2>1. i' <= AsInt(n)' /\ dest' # NULL'  BY <1>1, <1>2, <1>3 DEF AsInt, NULL
  <2>2. ASSUME NEW b \in Address, b < dest \/ b >= dest + (i + 1)  PROVE mem'[b] = old[b]
    <3>1. b # dest + i /\ (b < dest \/ b >= dest + i)  BY <1>1, <1>2, <2>2 DEF Address
    <3> QED  BY <3>1, <1>5 DEF Reached
  <2> QED  BY <1>1, <1>3, <2>1, <2>2 DEF Reached
<1>9. Copied'
  <2> SUFFICES ASSUME op = "memcpy", Forward, NEW j \in 0 .. i
               PROVE  mem'[dest + j] = old[src + j]
    BY <1>1, <1>3 DEF Copied, Forward
  <2>1. CASE j = i
    <3>1. mem'[dest + i] = mem[src + i]  BY <1>5 DEF Byte_i
    <3>2. src + i < dest \/ src + i >= dest + i  BY <1>1, <1>2 DEF Forward
    <3> QED  BY <2>1, <3>1, <3>2, <1>2 DEF Reached
  <2>2. CASE j # i
    <3>1. j \in 0 .. i - 1 /\ dest + j # dest + i /\ dest + j \in Address
          BY <1>1, <1>2, <2>2 DEF Address
    <3>2. mem[dest + j] = old[src + j]  BY <3>1 DEF Copied
    <3> QED  BY <3>1, <3>2, <1>5
  <2> QED  BY <2>1, <2>2
<1>10. Cleared' /\ Filled'
  <2> SUFFICES ASSUME op # "memcpy", op = "memzero" \/ Filling, NEW j \in 0 .. i
               PROVE  mem'[dest + j] = c /\ (Filling => old[dest + j] # 0)
    <3>1. op = "memzero" => c = 0  BY DEF Parameters
    <3> QED  BY <1>1, <1>3, <3>1 DEF Cleared, Filled, Filling
  <2>1. CASE j = i
    <3>1. mem'[dest + j] = c  BY <2>1, <1>5 DEF Byte_i
    <3>2. Filling => old[dest + j] # 0  BY <2>1, <1>1, <1>2 DEF Reached
    <3> QED  BY <3>1, <3>2
  <2>2. CASE j # i
    <3>1. j \in 0 .. i - 1 /\ dest + j # dest + i /\ dest + j \in Address
          BY <1>1, <1>2, <2>2 DEF Address
    <3>2. op = "memzero" => mem[dest + j] = c  BY <3>1 DEF Cleared, Parameters
    <3>3. Filling => mem[dest + j] = c /\ old[dest + j] # 0  BY <3>1, <1>2 DEF Filled
    <3> QED  BY <3>1, <3>2, <3>3, <1>5
  <2> QED  BY <2>1, <2>2
<1>11. Ended'  BY <1>1, <1>3 DEF Ended
<1> QED  BY <1>6, <1>7, <1>8, <1>9, <1>10, <1>11

(* The other steps move no byte of a running call.                         *)
LEMMA OtherLoop == LoopInv /\ [Next]_vars /\ ~Step => LoopInv'
<1> SUFFICES ASSUME LoopInv, [Next]_vars, ~Step PROVE LoopInv'  OBVIOUS
<1> USE DEF LoopInv
<1>1. CASE Return
  <2>1. /\ op # "none" /\ done' = TRUE
        /\ ~(i < AsInt(n) /\ (Filling => dest # NULL /\ mem[dest + i] # 0))
    <3>1. op # "none" /\ ~done /\ ~More /\ done' = TRUE  BY <1>1 DEF Return
    <3> QED  BY <3>1 DEF More
  <2>2. UNCHANGED <<mem, op, dest, src, n, c, i, old>>  BY <1>1 DEF Return
  <2>3. TypeOK'  BY <2>1, <2>2 DEF TypeOK
  <2>4. Parameters'  BY <2>2 DEF Parameters, Within
  <2>5. Reached'  BY <2>2 DEF Reached, AsInt
  <2>6. Copied' /\ Cleared' /\ Filled'  BY <2>2 DEF Copied, Cleared, Filled, Forward, Filling
  <2>7. Ended'  BY <2>1, <2>2 DEF Ended, Filling, AsInt
  <2> QED  BY <2>3, <2>4, <2>5, <2>6, <2>7
<1>2. CASE Leave
  <2>1. /\ op' = "none" /\ done' = FALSE /\ dest' = NULL /\ src' = NULL
        /\ n' = 0 /\ c' = 0 /\ i' = 0 /\ old' = mem /\ mem' = mem
        BY <1>2 DEF Leave
  <2>2. TypeOK'  BY <2>1, MemConstants DEF TypeOK
  <2>3. Parameters' /\ Reached' /\ Ended'  BY <2>1 DEF Parameters, Reached, Ended
  <2>4. Copied' /\ Cleared' /\ Filled'  BY <2>1 DEF Copied, Cleared, Filled, Filling
  <2> QED  BY <2>2, <2>3, <2>4
<1>3. ASSUME NEW a \in Address, NEW v \in Byte, Write(a, v)  PROVE LoopInv'
  <2>1. /\ op = "none" /\ mem' = [mem EXCEPT ![a] = v] /\ old' = mem'
        /\ UNCHANGED <<op, done, dest, src, n, c, i>>
        BY <1>3 DEF Write, call
  <2>2. TypeOK'  BY <2>1 DEF TypeOK
  <2>3. Parameters'  BY <2>1 DEF Parameters
  <2>4. i = 0 \/ (i <= AsInt(n) /\ dest # NULL)  BY DEF Reached, TypeOK
  <2>5. Reached'  BY <2>1, <2>4 DEF Reached, AsInt
  <2>6. Copied' /\ Cleared' /\ Filled' /\ Ended'
        BY <2>1 DEF Copied, Cleared, Filled, Ended, Filling
  <2> QED  BY <2>2, <2>3, <2>5, <2>6
<1>4. CASE Calls
  <2>1. PICK len \in Lengths :
          \/ \E d, s \in Address : Memcpy(d, s, len)
          \/ \E d \in Address : Memzero(d, len)
          \/ \E d \in Address \cup {NULL}, v \in Byte : Memset(d, v, len)
          \/ \E d \in Address : Calloc(d, len)
        BY <1>4 DEF Calls
  <2>2. \E f \in {"memcpy", "memzero", "memset", "calloc"}, d, s \in Address \cup {NULL}, v \in Byte :
          /\ Call(f, d, s, len, v)
          /\ d # NULL => Within(d, len)
          /\ f # "memset" => d \in Address
          /\ f = "memcpy" => s \in Address /\ Within(s, len)
          /\ f = "memzero" => v = 0
    <3>1. 0 \in Byte  BY MemConstants
    <3>2. CASE \E d, s \in Address : Memcpy(d, s, len)  BY <3>1, <3>2 DEF Memcpy
    <3>3. CASE \E d \in Address : Memzero(d, len)  BY <3>1, <3>3 DEF Memzero
    <3>4. CASE \E d \in Address \cup {NULL}, v \in Byte : Memset(d, v, len)  BY <3>4 DEF Memset
    <3>5. CASE \E d \in Address : Calloc(d, len)  BY <3>1, <3>5 DEF Calloc
    <3> QED  BY <2>1, <3>2, <3>3, <3>4, <3>5
  <2>3. PICK f \in {"memcpy", "memzero", "memset", "calloc"}, d \in Address \cup {NULL},
              s \in Address \cup {NULL}, v \in Byte :
          /\ op' = f /\ dest' = d /\ src' = s /\ n' = len /\ c' = v
          /\ i' = 0 /\ done' = FALSE /\ old' = mem /\ mem' = mem
          /\ d # NULL => Within(d, len)
          /\ f # "memset" => d \in Address
          /\ f = "memcpy" => s \in Address /\ Within(s, len)
          /\ f = "memzero" => v = 0
        BY <2>2 DEF Call
  <2>4. len \in Nat  BY MemConstants
  <2>5. TypeOK'  BY <2>3, <2>4 DEF TypeOK
  <2>6. Parameters'  BY <2>3 DEF Parameters, Within
  <2>7. Reached' /\ Copied' /\ Cleared' /\ Filled' /\ Ended'
        BY <2>3 DEF Reached, Copied, Cleared, Filled, Ended
  <2> QED  BY <2>5, <2>6, <2>7
<1>5. CASE UNCHANGED vars \/ \E size \in Growths : sbrk(size)
  <2>1. UNCHANGED <<mem, op, done, dest, src, n, c, i, old>>  BY <1>5 DEF vars, call, sbrk
  <2>2. TypeOK' /\ Parameters'  BY <2>1 DEF TypeOK, Parameters, Within
  <2>3. Reached' /\ Ended'  BY <2>1 DEF Reached, Ended, Filling, AsInt
  <2>4. Copied' /\ Cleared' /\ Filled'  BY <2>1 DEF Copied, Cleared, Filled, Forward, Filling
  <2> QED  BY <2>2, <2>3, <2>4
<1> QED  BY <1>1, <1>2, <1>3, <1>4, <1>5 DEF Next, Run

(* What the loop has done when it ends is what was asked.                  *)
LEMMA LoopResult ==
  LoopInv => TypeOK /\ CopyIsExact /\ ZeroIsExact /\ FillStopsAtZero /\ NothingElse
<1> SUFFICES ASSUME LoopInv
             PROVE  TypeOK /\ CopyIsExact /\ ZeroIsExact /\ FillStopsAtZero /\ NothingElse
    OBVIOUS
<1> USE DEF LoopInv
<1>1. Finished => i \in Nat /\ n \in Nat /\ AsInt(n) = n /\ op # "none"
      BY AsIntBounds DEF Finished, TypeOK, Ended
<1>2. Finished /\ ~Filling => i >= n  BY <1>1 DEF Ended, Finished
<1>3. CopyIsExact
  <2> SUFFICES ASSUME Finished, op = "memcpy", Forward, NEW j \in 0 .. n - 1
               PROVE  mem[dest + j] = old[src + j]
      BY DEF CopyIsExact
  <2>1. i >= n  BY <1>2 DEF Filling
  <2>2. j \in 0 .. i - 1  BY <2>1, <1>1
  <2> QED  BY <2>2 DEF Copied
<1>4. ZeroIsExact
  <2> SUFFICES ASSUME Finished, op = "memzero", NEW j \in 0 .. n - 1
               PROVE  mem[dest + j] = 0
      BY DEF ZeroIsExact
  <2>1. i >= n  BY <1>2 DEF Filling
  <2>2. j \in 0 .. i - 1  BY <2>1, <1>1
  <2> QED  BY <2>2 DEF Cleared
<1>5. FillStopsAtZero
  <2> SUFFICES ASSUME Finished, Filling, dest # NULL, NEW j \in 0 .. n - 1
               PROVE  mem[dest + j] = IF \E k \in 0 .. j : old[dest + k] = 0
                                      THEN old[dest + j] ELSE c
      BY DEF FillStopsAtZero
  <2>1. i >= n \/ mem[dest + i] = 0  BY <1>1 DEF Ended, Finished
  <2>2. /\ dest \in Address /\ dest \in Nat /\ MemSize \in Nat /\ dest + n <= MemSize + 1
        BY <1>1, MemConstants DEF TypeOK, Parameters, Within, Address, NULL
  <2>3. \A k \in 0 .. n - 1 : dest + k \in Address  BY <1>1, <2>2 DEF Address
  <2>4. CASE j < i
    <3>1. \A k \in 0 .. j : k \in 0 .. i - 1  BY <1>1, <2>4
    <3>2. mem[dest + j] = c /\ \A k \in 0 .. j : old[dest + k] # 0  BY <3>1, <1>1 DEF Filled
    <3> QED  BY <3>2
  <2>5. CASE j >= i
    <3>1. i \in 0 .. n - 1 /\ mem[dest + i] = 0  BY <1>1, <2>1, <2>5
    <3>2. old[dest + i] = 0  BY <3>1, <2>2, <2>3 DEF Reached
    <3>3. mem[dest + j] = old[dest + j]  BY <1>1, <2>2, <2>3, <2>5 DEF Reached
    <3>4. i \in 0 .. j  BY <1>1, <2>5
    <3> QED  BY <3>2, <3>3, <3>4
  <2> QED  BY <1>1, <2>4, <2>5
<1>6. NothingElse
  <2> SUFFICES ASSUME NEW b \in Address, op = "none" \/ b < dest \/ b >= dest + n
               PROVE  mem[b] = old[b]
      BY DEF NothingElse
  <2>1. i \in Nat /\ n \in Nat /\ dest \in Int /\ b \in Int /\ AsInt(n) \in Int /\ AsInt(n) <= n
        BY AsIntBounds, MemConstants DEF TypeOK, Address, NULL
  <2>2. i <= n  BY <2>1 DEF Reached
  <2>3. op = "none" \/ b < dest \/ b >= dest + i  BY <2>1, <2>2
  <2> QED  BY <2>3 DEF Reached
<1> QED  BY <1>3, <1>4, <1>5, <1>6

(* The invariant of the loops holds in every state.                        *)
LEMMA LoopAlways == Spec => []LoopInv
<1>1. LoopInv /\ [Next]_vars => LoopInv'  BY StepLoop, OtherLoop
<1> QED  BY InitLoop, <1>1, PTL DEF Spec

(* The break moves in sbrk() only, which tests both ends.                  *)
LEMMA BreakStep == pbreak \in Int /\ BreakInArena /\ [Next]_vars => (pbreak \in Int /\ BreakInArena)'
<1> SUFFICES ASSUME pbreak \in Int, BreakInArena, [Next]_vars
             PROVE  (pbreak \in Int /\ BreakInArena)'
    OBVIOUS
<1>1. ASSUME NEW size \in Growths, sbrk(size)  PROVE (pbreak \in Int /\ BreakInArena)'
  <2>1. AsInt(size) \in Int  BY AsIntBounds, MemConstants
  <2> QED  BY <1>1, <2>1, MemConstants DEF sbrk, SbrkFails, BreakInArena
<1>2. CASE pbreak' = pbreak  BY <1>2 DEF BreakInArena
<1>3. (\E size \in Growths : sbrk(size)) \/ pbreak' = pbreak
      BY DEF Next, Run, Step, Return, Leave, Calls, Memcpy, Memzero, Memset, Calloc, Call, Write, vars
<1> QED  BY <1>1, <1>2, <1>3

(* memory.c:33-46: sbrk() keeps the break inside global_mem, for any size  *)
(* it is asked for and any width of an int.                                *)
THEOREM BreakStays == Spec => []BreakInArena
<1>1. Init => pbreak \in Int /\ BreakInArena  BY MemConstants DEF Init, BreakInArena
<1> QED  BY <1>1, BreakStep, PTL DEF Spec

(* memory.c:7-31: the memory keeps its type.                               *)
THEOREM MemoryTyped == Spec => []TypeOK
BY LoopAlways, LoopResult, PTL

(* memory.c:7-12: memcpy() copies every byte, if the length fits an int    *)
(* and the source does not begin in front of a destination it overlaps.    *)
THEOREM MemcpyCopies == Spec => []CopyIsExact
BY LoopAlways, LoopResult, PTL

(* memory.c:14-16: memzero() clears every byte, if the length fits.        *)
THEOREM MemzeroClears == Spec => []ZeroIsExact
BY LoopAlways, LoopResult, PTL

(* memory.c:18-31: memset() fills exactly up to the first zero byte.       *)
THEOREM MemsetStops == Spec => []FillStopsAtZero
BY LoopAlways, LoopResult, PTL

(* memory.c:7-31: no call touches a byte outside its destination, for any  *)
(* length at all.                                                          *)
THEOREM OthersUntouched == Spec => []NothingElse
BY LoopAlways, LoopResult, PTL
=============================================================================
