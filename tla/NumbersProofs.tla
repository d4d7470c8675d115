--------------------------- MODULE NumbersProofs ---------------------------
(***************************************************************************)
(* The theorems about Numbers, for every width, every base and every       *)
(* number.                                                                 *)
(***************************************************************************)
EXTENDS NumbersInv, FiniteSetTheorems, SequenceTheorems, Induction

(* Dividing by a base takes away at least half.                            *)
LEMMA Dividing ==
  ASSUME NEW n \in Nat, NEW d \in Nat \ {0, 1}
  PROVE  /\ n \div d \in Nat /\ n % d \in 0 .. d - 1
         /\ n = (n \div d) * d + (n % d)
         /\ 2 * (n \div d) <= n
<1> DEFINE q == n \div d
           r == n % d
<1>1. q \in Nat /\ r \in 0 .. d - 1  OBVIOUS
<1>2. n = d * q + r  OBVIOUS
<1> HIDE DEF q, r
<1>3. 2 * q <= d * q  BY <1>1
<1>4. d * q = q * d  BY <1>1
<1>5. 2 * q <= n /\ n = q * d + r  BY <1>1, <1>2, <1>3, <1>4
<1> QED  BY <1>1, <1>5 DEF q, r
----------------------------------------------------------------------------
(* The fold of module Folds chooses a function on the sets of indexes with *)
(* this equation.                                                          *)
FoldEquation(g, b, digits) ==
  g = [s \in SUBSET (DOMAIN digits) |->
         IF s = {} THEN 0
         ELSE LET x == Max(s) IN g[s \ {x}] * b + digits[x]]

LEMMA HornerUnfolds ==
  ASSUME NEW b, NEW digits
  PROVE  Horner(b, digits) = (CHOOSE g : FoldEquation(g, b, digits))[DOMAIN digits]
BY Zenon DEF Horner, FoldLeft, MapThenFoldSet, FoldEquation

LEMMA MaxOfInterval == ASSUME NEW n \in Nat PROVE \A s \in SUBSET (1 .. n + 1) : n + 1 \in s => Max(s) = n + 1
<1> TAKE s \in SUBSET (1 .. n + 1)
<1> SUFFICES ASSUME n + 1 \in s PROVE Max(s) = n + 1  OBVIOUS
<1>1. \A y \in s : n + 1 >= y  OBVIOUS
<1>2. \A x \in s : (\A y \in s : x >= y) => x = n + 1  OBVIOUS
<1> QED  BY <1>1, <1>2 DEF Max

(* There is one.                                                           *)
LEMMA FoldExists ==
  ASSUME NEW b, NEW digits, NEW n \in Nat, DOMAIN digits = 1 .. n
  PROVE  \E g : FoldEquation(g, b, digits)
<1> DEFINE Eqn(g, m) == \A s \in SUBSET (1 .. m) :
                          g[s] = IF s = {} THEN 0 ELSE g[s \ {Max(s)}] * b + digits[Max(s)]
           T == {m \in Nat : \E g : Eqn(g, m)}
<1>1. 0 \in T
  <2> DEFINE g == [s \in {{}} |-> 0]
  <2>1. Eqn(g, 0)  OBVIOUS
  <2> QED  BY <2>1
<1>2. \A m \in Nat : m \in T => m + 1 \in T
  <2> TAKE m \in Nat
  <2> HAVE m \in T
  <2>1. PICK g : Eqn(g, m)  OBVIOUS
  <2> DEFINE N == m + 1
             e == [s \in SUBSET (1 .. N) |->
                     IF N \in s THEN g[s \ {N}] * b + digits[N] ELSE g[s]]
  <2>2. N \notin 1 .. m /\ 1 .. N = (1 .. m) \cup {N}  OBVIOUS
  <2>3. \A s \in SUBSET (1 .. N) : N \in s => Max(s) = N  BY MaxOfInterval
  <2> HIDE DEF N
  <2>4. \A s \in SUBSET (1 .. m) : e[s] = g[s]
    <3> TAKE s \in SUBSET (1 .. m)
    <3>1. s \in SUBSET (1 .. N) /\ N \notin s  BY <2>2
    <3> QED  BY <3>1
  <2>5. \A s \in SUBSET (1 .. N) : N \in s => e[s] = g[s \ {N}] * b + digits[N]
    OBVIOUS
  <2> HIDE DEF e
  <2>6. ASSUME NEW s \in SUBSET (1 .. N)
        PROVE  e[s] = IF s = {} THEN 0 ELSE e[s \ {Max(s)}] * b + digits[Max(s)]
    <3>1. CASE N \in s
      <4>1. Max(s) = N /\ s # {}  BY <2>3, <3>1
      <4>2. s \ {N} \in SUBSET (1 .. m)  BY <2>2
      <4>3. e[s \ {N}] = g[s \ {N}]  BY <2>4, <4>2
      <4>4. e[s] = g[s \ {N}] * b + digits[N]  BY <2>5, <3>1
      <4> QED  BY <4>1, <4>3, <4>4
    <3>2. CASE N \notin s
      <4>1. s \in SUBSET (1 .. m)  BY <2>2, <3>2
      <4>2. s \ {Max(s)} \in SUBSET (1 .. m)  BY <4>1
      <4>3. e[s] = g[s] /\ e[s \ {Max(s)}] = g[s \ {Max(s)}]  BY <2>4, <4>1, <4>2
      <4>4. g[s] = IF s = {} THEN 0 ELSE g[s \ {Max(s)}] * b + digits[Max(s)]  BY <2>1, <4>1
      <4> QED  BY <4>3, <4>4
    <3> QED  BY <3>1, <3>2
  <2>7. Eqn(e, m + 1)  BY <2>6 DEF N
  <2> HIDE DEF Eqn
  <2>8. \E f : Eqn(f, m + 1)  BY <2>7, Zenon
  <2>9. m + 1 \in Nat  OBVIOUS
  <2> QED  BY <2>8, <2>9, Zenon
<1>3. n \in T
  <2> HIDE DEF T
  <2> QED  BY <1>1, <1>2, InductionOn
<1>4. PICK g : Eqn(g, n)  BY <1>3
<1> DEFINE f == [s \in SUBSET (1 .. n) |-> g[s]]
<1>5. \A s \in SUBSET (1 .. n) : f[s] = IF s = {} THEN 0 ELSE f[s \ {Max(s)}] * b + digits[Max(s)]
  BY <1>4
<1>6. f = [s \in SUBSET (1 .. n) |-> f[s]]  OBVIOUS
<1> HIDE DEF f
<1>7. f = [s \in SUBSET (1 .. n) |-> IF s = {} THEN 0 ELSE f[s \ {Max(s)}] * b + digits[Max(s)]]
  BY <1>5, <1>6
<1>8. FoldEquation(f, b, digits)  BY <1>7 DEF FoldEquation
<1> QED  BY <1>8

LEMMA Shorter == \A m \in Nat : (1 .. m + 1) \ {m + 1} = 1 .. m
OBVIOUS

(* Horner's scheme: h has the value of each number of leading digits.      *)
LEMMA HornerIs ==
  ASSUME NEW b \in Nat, NEW n \in Nat, NEW digits \in [1 .. n -> Int], NEW h \in [0 .. n -> Int],
         h[0] = 0, \A m \in 0 .. n - 1 : h[m+1] = h[m] * b + digits[m+1]
  PROVE  Horner(b, digits) = h[n]
<1> DEFINE g == CHOOSE g : FoldEquation(g, b, digits)
<1>1. FoldEquation(g, b, digits)
  <2>1. PICK f : FoldEquation(f, b, digits)  BY FoldExists
  <2> QED  BY <2>1
<1>2. Horner(b, digits) = g[1 .. n]  BY HornerUnfolds, Zenon
<1> HIDE DEF g
<1>3. \A s \in SUBSET (1 .. n) : g[s] = IF s = {} THEN 0 ELSE g[s \ {Max(s)}] * b + digits[Max(s)]
  BY <1>1 DEF FoldEquation
<1> DEFINE T == {m \in Nat : m <= n => g[1 .. m] = h[m]}
<1>4. 0 \in T
  <2>1. 1 .. 0 = {} /\ {} \in SUBSET (1 .. n)  OBVIOUS
  <2>2. g[1 .. 0] = 0  BY <1>3, <2>1
  <2> QED  BY <2>2
<1>5. \A m \in Nat : m \in T => m + 1 \in T
  <2> SUFFICES ASSUME NEW m \in Nat, m \in T, m + 1 <= n  PROVE g[1 .. m + 1] = h[m+1]
    OBVIOUS
  <2>1. g[1 .. m] = h[m] /\ m \in 0 .. n - 1  OBVIOUS
  <2>2. /\ 1 .. m + 1 \in SUBSET (1 .. n) /\ 1 .. m + 1 # {} /\ m + 1 \in 1 .. m + 1
        /\ (1 .. m + 1) \ {m + 1} = 1 .. m
    <3>1. \A x \in 1 .. m + 1 : x \in 1 .. n  OBVIOUS
    <3>2. m + 1 \in 1 .. m + 1  OBVIOUS
    <3> HIDE DEF T
    <3>3. (1 .. m + 1) \ {m + 1} = 1 .. m  BY Shorter
    <3> QED  BY <3>1, <3>2, <3>3, Zenon
  <2>3. Max(1 .. m + 1) = m + 1  BY <2>2, MaxOfInterval
  <2>4. g[1 .. m + 1] = g[1 .. m] * b + digits[m+1]  BY <1>3, <2>2, <2>3
  <2> QED  BY <2>1, <2>4
<1>6. n \in T
  <2> HIDE DEF T
  <2> QED  BY <1>4, <1>5, InductionOn
<1> QED  BY <1>2, <1>6

----------------------------------------------------------------------------
(* The buffer.  What is left of the number after i digits is so small that *)
(* there is room for what is still to come: a number that gets a sign has  *)
(* one bit less, and loses more than one with every digit in base 10.      *)
Abs(n) == IF n < 0 THEN -n ELSE n
Cap    == IF negative THEN Bits - 1 ELSE Bits

BufferOK ==
  /\ pc \in {"idle", "digits", "end", "reverse", "returned"}
  /\ given \in Int /\ num \in Int /\ i \in Nat /\ k \in Nat /\ negative \in BOOLEAN
  /\ buffer \in [0 .. Bits -> Int]
  /\ pc # "idle" => base \in Bases /\ i <= Bits
  /\ pc = "digits" =>
       /\ i <= Cap /\ (negative => base = 10)
       /\ \/ Abs(num) * 2^i < 2^Cap
          \/ negative /\ i = 0 /\ Abs(num) <= 2^Cap
  /\ pc \in {"digits", "end"} => k = 0
  /\ pc = "reverse" => k <= i \div 2

LEMMA Constants ==
  /\ Bits \in Nat /\ Bits >= 2 /\ Bases \subseteq Nat \ {0, 1} /\ Bases \subseteq 2 .. 36
  /\ Rubbish \in Int /\ Size - 1 = Bits
BY NumbersConstants DEF NumbersConstants, Size

(* A number that is not zero leaves room for a digit and, if it gets one,  *)
(* the sign.                                                               *)
LEMMA RoomForDigit ==
  ASSUME BufferOK, pc = "digits", num # 0  PROVE i < Cap
<1> DEFINE n == Abs(num)
<1>1. n \in Nat /\ n >= 1 /\ i \in Nat /\ Cap \in Nat /\ Cap >= 1
  BY Constants DEF BufferOK, Abs, Cap
<1>2. CASE n * 2^i < 2^Cap
  <2>1. 2^i \in Nat /\ 2^Cap \in Nat  BY <1>1, TwoPower
  <2> HIDE DEF n
  <2>2. 2^i <= n * 2^i  BY <1>1, <2>1
  <2>3. ~(i >= Cap)
    <3> SUFFICES ASSUME i >= Cap PROVE FALSE  OBVIOUS
    <3>1. 2^i >= 2^Cap  BY <1>1, PowersGrow
    <3>2. n * 2^i \in Nat  BY <1>1, <2>1
    <3> QED  BY <1>2, <2>1, <2>2, <3>1, <3>2
  <2> QED  BY <1>1, <2>3
<1>3. CASE ~(n * 2^i < 2^Cap)  BY <1>1, <1>3 DEF BufferOK
<1> QED  BY <1>2, <1>3

LEMMA DigitIsInt == \A n \in Int : Digit(n) \in Int
BY DEF Digit, a, zero

(* C's division of what may be negative.                                   *)
LEMMA Halved ==
  ASSUME NEW n \in Int, NEW d \in Nat \ {0, 1}
  PROVE  /\ Quotient(n, d) \in Int /\ Remainder(n, d) \in Int
         /\ Abs(n) \in Nat /\ Abs(Quotient(n, d)) = Abs(n) \div d
         /\ Abs(Quotient(n, d)) \in Nat /\ 2 * Abs(Quotient(n, d)) <= Abs(n)
<1>1. Abs(n) \in Nat  BY DEF Abs
<1>2. Abs(n) \div d \in Nat /\ 2 * (Abs(n) \div d) <= Abs(n)  BY <1>1, Dividing
<1>3. CASE n < 0
  <2>1. Abs(n) = -n  BY <1>3 DEF Abs
  <2>2. Quotient(n, d) = -(Abs(n) \div d)  BY <1>3, <2>1 DEF Quotient
  <2> DEFINE q == Abs(n) \div d
  <2> HIDE DEF q
  <2>3. Quotient(n, d) = -q /\ q \in Nat  BY <1>2, <2>2 DEF q
  <2>4. Abs(Quotient(n, d)) = q  BY <2>3 DEF Abs
  <2>5. Remainder(n, d) \in Int  BY <2>3 DEF Remainder
  <2> QED  BY <1>1, <1>2, <2>3, <2>4, <2>5 DEF q
<1>4. CASE ~(n < 0)
  <2>1. Abs(n) = n  BY <1>4 DEF Abs
  <2>2. Quotient(n, d) = Abs(n) \div d  BY <1>4, <2>1 DEF Quotient
  <2> DEFINE q == Abs(n) \div d
  <2> HIDE DEF q
  <2>3. Quotient(n, d) = q /\ q \in Nat  BY <1>2, <2>2 DEF q
  <2>4. Abs(Quotient(n, d)) = q  BY <2>3 DEF Abs
  <2>5. Remainder(n, d) \in Int  BY <2>3 DEF Remainder
  <2> QED  BY <1>1, <1>2, <2>3, <2>4, <2>5 DEF q
<1> QED  BY <1>3, <1>4

(* The remainder has the number's sign.                                    *)
LEMMA Divided ==
  ASSUME NEW n \in Int, NEW d \in Nat \ {0, 1}
  PROVE  /\ Quotient(n, d) \in Int /\ Remainder(n, d) \in Int
         /\ n = Quotient(n, d) * d + Remainder(n, d)
         /\ n >= 0 => Quotient(n, d) >= 0 /\ Remainder(n, d) \in 0 .. d - 1
         /\ n <= 0 => Quotient(n, d) <= 0 /\ Remainder(n, d) \in -(d - 1) .. 0
<1> DEFINE p == Abs(n)
           q == p \div d
           r == p % d
<1>1. p \in Nat  BY DEF Abs
<1>2. q \in Nat /\ r \in 0 .. d - 1 /\ p = q * d + r  BY <1>1, Dividing
<1>3. n >= 0 => Quotient(n, d) = q  BY DEF Quotient, Abs
<1>4. n < 0 => Quotient(n, d) = -q  BY DEF Quotient, Abs
<1>5. (n >= 0 => p = n) /\ (n < 0 => p = -n)  BY DEF Abs
<1> HIDE DEF p, q, r
<1>6. r \in Nat /\ q * d \in Nat /\ d * q = q * d /\ d * (-q) = -(q * d) /\ (-q) * d = -(q * d)
  BY <1>2
<1>7. CASE n >= 0
  <2>1. Quotient(n, d) = q /\ Remainder(n, d) = n - d * q  BY <1>3, <1>7 DEF Remainder
  <2>2. Remainder(n, d) = r  BY <1>2, <1>5, <1>6, <1>7, <2>1
  <2>3. n = q * d + r  BY <1>2, <1>5, <1>7
  <2>4. n <= 0 => q = 0 /\ r = 0
    <3> SUFFICES ASSUME n <= 0 PROVE q = 0 /\ r = 0  OBVIOUS
    <3>1. q * d + r = 0  BY <1>7, <2>3
    <3>2. r = 0 /\ q * d = 0  BY <1>6, <3>1
    <3>3. q <= q * d  BY <1>2
    <3> QED  BY <1>2, <3>2, <3>3
  <2> QED  BY <1>2, <2>1, <2>2, <2>3, <2>4
<1>8. CASE n < 0
  <2>1. Quotient(n, d) = -q /\ Remainder(n, d) = n - d * (-q)  BY <1>4, <1>8 DEF Remainder
  <2>2. Remainder(n, d) = -r  BY <1>2, <1>5, <1>6, <1>8, <2>1
  <2>3. n = (-q) * d + (-r)  BY <1>2, <1>5, <1>6, <1>8
  <2> QED  BY <1>2, <1>8, <2>1, <2>2, <2>3
<1> QED  BY <1>7, <1>8

SignedDigit(n, r, d) ==
  /\ r \in Int
  /\ n >= 0 => r \in 0 .. d - 1
  /\ n <= 0 => r \in -(d - 1) .. 0

LEMMA SignedDigits ==
  ASSUME NEW n \in Int, NEW d \in Nat \ {0, 1}
  PROVE  SignedDigit(n, Remainder(n, d), d)
BY Divided DEF SignedDigit

LEMMA BeginBuffer ==
  ASSUME BufferOK, NEW n, NEW b \in Bases, NEW s \in BOOLEAN, Begin(n, b, s),
         IF s THEN n \in Ints ELSE n \in Unsigneds
  PROVE  /\ given' \in Int /\ num' \in Int /\ i' = 0 /\ k' = 0 /\ negative' \in BOOLEAN
         /\ base' \in Bases /\ Cap' \in Nat /\ (negative' => base' = 10)
         /\ \/ Abs(num') * 2^0 < 2^Cap'
            \/ negative' /\ Abs(num') <= 2^Cap'
<1>1. /\ Bits - 1 \in Nat /\ (Bits - 1) + 1 = Bits
      /\ 2^(Bits-1) \in Nat /\ 2^Bits = 2 * 2^(Bits-1) /\ 2^0 = 1
  <2>1. Bits - 1 \in Nat /\ (Bits - 1) + 1 = Bits  BY Constants
  <2>2. 2^((Bits - 1) + 1) = 2 * 2^(Bits-1) /\ 2^(Bits-1) \in Nat  BY <2>1, TwoPower
  <2> QED  BY <2>1, <2>2, TwoPower
<1>2. 2^(Bits-1) >= 1
  <2>1. \A e \in Nat : 2^e >= 2^0
    <3> TAKE e \in Nat
    <3>1. e >= 0 /\ 0 \in Nat  OBVIOUS
    <3> QED  BY <3>1, PowersGrow
  <2> QED  BY <2>1, <1>1
<1> DEFINE P == 2^(Bits-1)
<1> HIDE DEF P
<1>3. n \in Int /\ (s => -P <= n /\ n <= P - 1) /\ (~s => 0 <= n /\ n <= 2 * P - 1) /\ P \in Nat /\ P >= 1
  BY <1>1, <1>2 DEF Ints, SmallestInt, Unsigneds, P
<1>4. /\ given' = n /\ base' = b /\ i' = 0 /\ k' = 0
      /\ negative' = (s /\ n < 0 /\ b = 10)
      /\ num' = IF negative' THEN Negated(n) ELSE n
  BY DEF Begin
<1>5. CASE s /\ n < 0 /\ b = 10
  <2>1. negative' = TRUE /\ Cap' = Bits - 1  BY <1>4, <1>5 DEF Cap
  <2>2. num' \in Int /\ Abs(num') <= P  BY <1>3, <1>4, <1>5, <2>1 DEF Negated, Abs, SmallestInt
  <2>3. 2^Cap' = P  BY <2>1 DEF P
  <2> QED  BY <1>1, <1>3, <1>4, <1>5, <2>1, <2>2, <2>3
<1>6. CASE ~(s /\ n < 0 /\ b = 10)
  <2>1. negative' = FALSE /\ Cap' = Bits /\ num' = n  BY <1>4, <1>6 DEF Cap
  <2>2. Abs(n) \in Nat /\ Abs(n) < 2 * P  BY <1>3 DEF Abs
  <2>3. 2^Cap' = 2 * P  BY <1>1, <2>1 DEF P
  <2>4. Abs(num') * 2^0 < 2^Cap'  BY <1>1, <2>1, <2>2, <2>3
  <2> QED  BY <1>3, <1>4, <2>1, <2>4, Constants
<1> QED  BY <1>5, <1>6

LEMMA InitBuffer == Init => BufferOK
<1> SUFFICES ASSUME Init PROVE BufferOK  OBVIOUS
<1>1. buffer \in [0 .. Bits -> Int]  BY Constants DEF Init
<1>2. pc = "idle" /\ given \in Int /\ num \in Int /\ i \in Nat /\ k \in Nat  BY DEF Init
<1>3. negative \in BOOLEAN  BY DEF Init
<1> QED  BY <1>1, <1>2, <1>3 DEF BufferOK

LEMMA DigitBuffer == BufferOK /\ NextDigit => BufferOK'
<1> SUFFICES ASSUME BufferOK, NextDigit PROVE BufferOK'  OBVIOUS
<1>1. i < Cap  BY RoomForDigit DEF NextDigit
<1>2. /\ Cap' = Cap /\ Cap \in Nat /\ Cap <= Bits /\ Bits \in Nat
      /\ base \in Nat \ {0, 1} /\ i \in Nat
  <2>1. Cap' = Cap  BY DEF NextDigit, Cap
  <2>2. Cap \in Nat /\ Cap <= Bits /\ Bits \in Nat  BY Constants DEF Cap
  <2>3. base \in Nat \ {0, 1}  BY Constants DEF NextDigit, BufferOK
  <2>4. i \in Nat  BY DEF BufferOK
  <2> QED  BY <2>1, <2>2, <2>3, <2>4
<1> DEFINE n == Abs(num)
           q == Abs(Quotient(num, base))
           P == 2^i
           C == 2^Cap
<1>3. /\ Quotient(num, base) \in Int /\ Remainder(num, base) \in Int
      /\ n \in Nat /\ q \in Nat /\ 2 * q <= n
  BY <1>2, Halved DEF BufferOK
<1>4. P \in Nat /\ P >= 1 /\ C \in Nat /\ 2^(i+1) = 2 * P /\ 2^0 = 1
  <2>1. 2^i >= 2^0
    <3>1. i >= 0 /\ 0 \in Nat  BY <1>2
    <3> QED  BY <1>2, <3>1, PowersGrow
  <2> QED  BY <1>2, <2>1, TwoPower
<1>5. num # 0 /\ n # 0  BY DEF NextDigit, BufferOK, Abs
<1>6. n * P < C \/ (negative /\ i = 0 /\ n <= C)  BY DEF BufferOK, NextDigit
<1>7. Abs(num') = q /\ i' = i + 1 /\ base' = base /\ negative' = negative /\ pc' = "digits" /\ num' \in Int
  BY <1>3 DEF NextDigit
<1>8. i = 0 => P = 1  BY <1>4
<1>10. negative => 2 * q < n
  <2> SUFFICES ASSUME negative PROVE 2 * q < n  OBVIOUS
  <2>1. base = 10  BY DEF BufferOK, NextDigit
  <2>2. q = n \div 10  BY <1>2, <2>1, Halved DEF BufferOK
  <2> HIDE DEF n, q
  <2> QED  BY <1>3, <1>5, <2>2
<1> HIDE DEF n, q, P, C
<1>9. q * (2 * P) < C
  <2>1. q * (2 * P) = (2 * q) * P  BY <1>3, <1>4
  <2>2. CASE n * P < C
    <3>1. (2 * q) * P <= n * P  BY <1>3, <1>4
    <3>2. (2 * q) * P \in Nat /\ n * P \in Nat  BY <1>3, <1>4
    <3> QED  BY <2>1, <2>2, <3>1, <3>2, <1>4
  <2>3. CASE negative /\ i = 0 /\ n <= C
    <3>1. P = 1 /\ 2 * q < n  BY <1>8, <1>10, <2>3
    <3>2. q * (2 * P) = 2 * q  BY <1>3, <3>1
    <3> QED  BY <1>3, <1>4, <2>3, <3>1, <3>2
  <2> QED  BY <1>6, <2>2, <2>3
<1>11. Abs(num') * 2^i' < 2^Cap'  BY <1>2, <1>4, <1>7, <1>9, Zenon DEF C
<1>12. buffer' \in [0 .. Bits -> Int]
  <2>1. Digit(Remainder(num, base)) \in Int  BY <1>3, DigitIsInt
  <2> QED  BY <2>1 DEF NextDigit, Put, BufferOK
<1>13. i + 1 <= Cap /\ i + 1 <= Bits /\ i + 1 \in Nat  BY <1>1, <1>2
<1>14. /\ given' = given /\ k' = k /\ base' = base /\ negative' = negative /\ pc' = "digits"
       /\ i' = i + 1 /\ num' \in Int
  BY <1>7 DEF NextDigit
<1>15. /\ given \in Int /\ k \in Nat /\ k = 0 /\ negative \in BOOLEAN /\ base \in Bases
       /\ (negative => base = 10)
  BY DEF BufferOK, NextDigit
<1> QED  BY <1>2, <1>11, <1>12, <1>13, <1>14, <1>15 DEF BufferOK

LEMMA KeepsBuffer == BufferOK /\ [Next]_vars => BufferOK'
<1> SUFFICES ASSUME BufferOK, [Next]_vars PROVE BufferOK'  OBVIOUS
<1>1. ASSUME NEW n, NEW b \in Bases, NEW s \in BOOLEAN, Call(n, b, s),
             IF s THEN n \in Ints ELSE n \in Unsigneds
      PROVE  BufferOK'
  <2>1. Begin(n, b, s)  BY <1>1 DEF Call, Zero, NonZero
  <2>2. /\ given' \in Int /\ num' \in Int /\ i' = 0 /\ k' = 0 /\ negative' \in BOOLEAN
        /\ base' \in Bases /\ Cap' \in Nat /\ (negative' => base' = 10)
        /\ \/ Abs(num') * 2^0 < 2^Cap'
           \/ negative' /\ Abs(num') <= 2^Cap'
    BY <1>1, <2>1, BeginBuffer
  <2>3. pc' \in {"digits", "returned"} /\ buffer' \in [0 .. Bits -> Int]
    BY <1>1, Constants DEF Call, Zero, NonZero, BufferOK, NUL
  <2>4. Abs(num') * 2^i' < 2^Cap' \/ (negative' /\ i' = 0 /\ Abs(num') <= 2^Cap')
    BY <2>2
  <2>5. 0 <= Bits /\ i' <= Cap'  BY <2>2, Constants
  <2> QED  BY <2>2, <2>3, <2>4, <2>5 DEF BufferOK
<1>2. CASE NextDigit  BY <1>2, DigitBuffer
<1>3. CASE Sign
  <2>1. /\ pc' = "end" /\ given' = given /\ base' = base /\ num' = num /\ k' = k /\ negative' = negative
        /\ i <= Cap /\ base \in Bases /\ k = 0
    BY <1>3 DEF Sign, BufferOK
  <2>4. ASSUME negative PROVE i' \in Nat /\ i' <= Bits
    <3>1. Cap = Bits - 1 /\ i' = i + 1  BY <1>3, <2>4 DEF Sign, Cap
    <3> QED  BY <2>1, <3>1, Constants DEF BufferOK
  <2>5. ASSUME ~negative PROVE i' \in Nat /\ i' <= Bits
    <3>1. Cap = Bits /\ i' = i  BY <1>3, <2>5 DEF Sign, Cap
    <3> QED  BY <2>1, <3>1, Constants DEF BufferOK
  <2>2. i' \in Nat /\ i' <= Bits  BY <2>4, <2>5
  <2>3. buffer' \in [0 .. Bits -> Int]  BY <1>3 DEF Sign, Put, minus, BufferOK
  <2> QED  BY <2>1, <2>2, <2>3 DEF BufferOK
<1>4. CASE Terminate
  <2>1. buffer' \in [0 .. Bits -> Int]  BY <1>4 DEF Terminate, Put, NUL, BufferOK
  <2>2. pc' = "reverse" /\ UNCHANGED <<given, base, num, i, negative, k>>
    BY <1>4 DEF Terminate
  <2>3. k = 0 /\ 0 <= i \div 2  BY <1>4 DEF Terminate, BufferOK
  <2> QED  BY <1>4, <2>1, <2>2, <2>3 DEF Terminate, BufferOK
<1>5. CASE Swap
  <2>1. k + 1 <= i \div 2 /\ k + 1 \in Nat  BY <1>5 DEF Swap, HalfLength, BufferOK
  <2>2. buffer[k] \in Int /\ buffer[i-k-1] \in Int
    <3>1. i <= Bits /\ k < i \div 2 /\ i \in Nat /\ k \in Nat /\ Bits \in Nat
      BY <1>5, Constants DEF Swap, HalfLength, BufferOK
    <3>2. k \in 0 .. Bits /\ i - k - 1 \in 0 .. Bits  BY <3>1
    <3> QED  BY <3>2 DEF BufferOK
  <2>3. buffer' \in [0 .. Bits -> Int]  BY <1>5, <2>2 DEF Swap, BufferOK
  <2> QED  BY <1>5, <2>1, <2>3 DEF Swap, BufferOK
<1>6. CASE Reversed  BY <1>6 DEF Reversed, BufferOK
<1>7. CASE Return
  <2>1. buffer' \in [0 .. Bits -> Int]  BY <1>7, Constants DEF Return
  <2>2. pc' = "idle" /\ given' \in Int /\ num' \in Int /\ i' \in Nat /\ k' \in Nat
    BY <1>7 DEF Return
  <2>3. negative' \in BOOLEAN  BY <1>7 DEF Return
  <2> QED  BY <2>1, <2>2, <2>3 DEF BufferOK
<1>8. CASE UNCHANGED vars  BY <1>8 DEF vars, BufferOK, Cap
<1> QED  BY <1>1, <1>2, <1>3, <1>4, <1>5, <1>6, <1>7, <1>8 DEF Next

LEMMA BufferInvariant == Spec => []BufferOK
BY InitBuffer, KeepsBuffer, PTL DEF Spec

(* util.c, with the buffers of 33 bytes of print.c: itoa() and uitoa()     *)
(* never write behind a buffer that has one byte more than a number has    *)
(* bits, whatever the number and the base.                                 *)
THEOREM BuffersSuffice == Spec => []BufferSuffices
<1>1. BufferOK => BufferSuffices
  <2> SUFFICES ASSUME BufferOK,
                      (pc = "digits" /\ num # 0) \/ (pc = "digits" /\ negative) \/ pc = "end"
               PROVE  i < Size
    BY DEF BufferSuffices
  <2>1. i <= Bits
    BY DEF BufferOK
  <2> QED  BY <2>1, Constants DEF BufferOK, Size
<1> QED  BY <1>1, BufferInvariant, PTL

----------------------------------------------------------------------------
(* The text.  The digits t denote what is shown if there are values h from *)
(* it down, each with the digit of its remainder and of the same sign.     *)
Denoted(t, h, c) ==
  /\ h \in [0 .. c -> Int] /\ h[0] = Shown
  /\ \A m \in 0 .. c - 1 :
       h[m] # 0 /\ t[m] = Digit(Remainder(h[m], base)) /\ h[m+1] = Quotient(h[m], base)
  /\ \A m \in 0 .. c : (Shown > 0 => h[m] >= 0) /\ (Shown < 0 => h[m] <= 0)

(* All of them, the last digit first, and the sign.                        *)
Complete(t) ==
  \E c \in Nat : \E h :
    /\ c # 0 /\ Denoted(t, h, c) /\ h[c] = 0
    /\ i = (IF negative THEN c + 1 ELSE c)
    /\ negative => t[c] = minus

(* What reverse() has done of its work.                                    *)
Turned(t) ==
  /\ buffer[i] = NUL
  /\ \A m \in 0 .. i - 1 :
       buffer[m] = IF m < k \/ m >= i - k THEN t[i-1-m] ELSE t[m]

AllTurned(t) == buffer[i] = NUL /\ \A m \in 0 .. i - 1 : buffer[m] = t[i-1-m]

TextOK ==
  pc # "idle" /\ given # 0 =>
    /\ negative <=> HasSign
    /\ pc = "digits" => \E h : Denoted(buffer, h, i) /\ h[i] = num
    /\ pc = "end" => Complete(buffer)
    /\ pc = "reverse" => \E t : Complete(t) /\ Turned(t)
    /\ pc = "returned" => \E t : Complete(t) /\ AllTurned(t)

(* Zero is done at once.                                                   *)
ZeroOK == given = 0 => pc \in {"idle", "returned"} /\ (pc = "returned" => buffer[0] = NUL)

LEMMA ShownIsThere == ASSUME given \in Int, given # 0  PROVE Shown \in Int /\ Shown # 0
BY DEF Shown, Negated

(* The arguments decide what is shown.                                     *)
SameCall == given' = given /\ base' = base /\ signed' = signed

LEMMA ShownStays ==
  ASSUME SameCall
  PROVE  /\ Shown' = Shown /\ (HasSign' <=> HasSign)
         /\ \A t, h, c : Denoted(t, h, c)' <=> Denoted(t, h, c)
<1>1. Shown' = Shown /\ (HasSign' <=> HasSign)  BY DEF SameCall, Shown, HasSign, Negated
<1> QED  BY <1>1 DEF Denoted, SameCall

LEMMA BeginText ==
  ASSUME NEW n, NEW b \in Bases, NEW s \in BOOLEAN, Call(n, b, s),
         IF s THEN n \in Ints ELSE n \in Unsigneds, BufferOK
  PROVE  TextOK'
<1>1. Begin(n, b, s)  BY DEF Call, Zero, NonZero
<1>2. n \in Int  BY TwoPower, Constants DEF Ints, Unsigneds, SmallestInt
<1>3. /\ given' = n /\ base' = b /\ signed' = s /\ i' = 0
      /\ negative' = (s /\ n < 0 /\ b = 10)
      /\ num' = IF negative' THEN Negated(n) ELSE n
  BY <1>1 DEF Begin
<1> SUFFICES ASSUME given' # 0 PROVE TextOK'  BY DEF TextOK
<1>4. n # 0  BY <1>3
<1>5. pc' = "digits"  BY <1>4 DEF Call, Zero, NonZero
<1>6. (negative <=> HasSign)'  BY <1>3 DEF HasSign
<1>7. num' = Shown'  BY <1>3, <1>6 DEF Shown, Negated
<1>8. num' \in Int  BY <1>2, <1>3 DEF Negated
<1> PICK x \in Int : x = num'  BY <1>8
<1>9. PICK h \in [0 .. 0 -> Int] : h[0] = x
  <2> DEFINE f == [m \in 0 .. 0 |-> x]
  <2>1. f \in [0 .. 0 -> Int] /\ f[0] = x  OBVIOUS
  <2> HIDE DEF f
  <2> QED  BY <2>1
<1>10. Denoted(buffer, h, i)' /\ h[i'] = num'
  <2>1. h[i'] = num' /\ h[0] = Shown'  BY <1>3, <1>7, <1>9
  <2>2. (0 .. i - 1)' = {} /\ (0 .. i)' = {0}  BY <1>3
  <2>3. \A m \in (0 .. i)' : (Shown' > 0 => h[m] >= 0) /\ (Shown' < 0 => h[m] <= 0)
    BY <1>7, <1>9, <2>2
  <2>4. h \in [0 .. i -> Int]'  BY <1>3
  <2> QED  BY <2>1, <2>2, <2>3, <2>4 DEF Denoted
<1> QED  BY <1>3, <1>5, <1>6, <1>10 DEF TextOK

LEMMA DigitText == BufferOK /\ TextOK /\ NextDigit => TextOK'
<1> SUFFICES ASSUME BufferOK, TextOK, NextDigit, given' # 0 PROVE TextOK'  BY DEF TextOK
<1>1. /\ pc = "digits" /\ pc' = "digits" /\ SameCall /\ negative' = negative
      /\ i' = i + 1 /\ num' = Quotient(num, base) /\ num # 0
      /\ buffer' = [buffer EXCEPT ![i] = Digit(Remainder(num, base))]
  BY DEF NextDigit, Put, SameCall
<1>2. given # 0  BY <1>1 DEF SameCall
<1>3. num \in Int /\ (negative <=> HasSign)  BY <1>1, <1>2 DEF TextOK, BufferOK
<1>4. PICK h : Denoted(buffer, h, i) /\ h[i] = num  BY <1>1, <1>2 DEF TextOK
<1>5. base \in Nat \ {0, 1}  BY <1>1, Constants DEF BufferOK
<1>7. i \in Nat /\ i \in 0 .. Bits
  <2>1. i < Cap  BY <1>1, RoomForDigit
  <2> QED  BY <2>1, Constants DEF BufferOK, Cap
<1>8. /\ h \in [0 .. i -> Int] /\ h[0] = Shown
      /\ \A m \in 0 .. i : (Shown > 0 => h[m] >= 0) /\ (Shown < 0 => h[m] <= 0)
  BY <1>4 DEF Denoted
<1> DEFINE q == Quotient(num, base)
<1>6. q \in Int /\ (num >= 0 => q >= 0) /\ (num <= 0 => q <= 0)  BY <1>3, <1>5, Divided
<1> HIDE DEF q
<1>9. PICK e : /\ e \in [0 .. i + 1 -> Int] /\ e[0] = Shown /\ e[i+1] = q
               /\ \A m \in 0 .. i : e[m] = h[m]
  <2> DEFINE f == [m \in 0 .. i + 1 |-> IF m = i + 1 THEN q ELSE h[m]]
  <2>1. /\ f \in [0 .. i + 1 -> Int] /\ f[0] = Shown /\ f[i+1] = q
        /\ \A m \in 0 .. i : f[m] = h[m]
    BY <1>6, <1>7, <1>8
  <2> HIDE DEF f
  <2> QED  BY <2>1
<1>10. ASSUME NEW m \in 0 .. i
       PROVE  e[m] # 0 /\ buffer'[m] = Digit(Remainder(e[m], base)) /\ e[m+1] = Quotient(e[m], base)
  <2>1. CASE m = i
    <3>1. buffer'[i] = Digit(Remainder(num, base))  BY <1>1, <1>7 DEF BufferOK
    <3>2. e[i] = num  BY <1>4, <1>7, <1>9
    <3> QED  BY <2>1, <3>1, <3>2, <1>1, <1>9 DEF q
  <2>2. CASE m # i
    <3>1. m \in 0 .. i - 1 /\ m + 1 \in 0 .. i  BY <1>7, <2>2
    <3>2. h[m] # 0 /\ buffer[m] = Digit(Remainder(h[m], base)) /\ h[m+1] = Quotient(h[m], base)
      BY <1>4, <3>1 DEF Denoted
    <3>3. m \in 0 .. Bits  BY <1>7, <3>1, Constants
    <3>4. buffer'[m] = buffer[m]  BY <1>1, <2>2, <3>3 DEF BufferOK
    <3> QED  BY <3>1, <3>2, <3>4, <1>9
  <2> QED  BY <2>1, <2>2
<1>11. \A m \in 0 .. i + 1 : (Shown > 0 => e[m] >= 0) /\ (Shown < 0 => e[m] <= 0)
  <2> TAKE m \in 0 .. i + 1
  <2>1. CASE m = i + 1
    <3>1. i \in 0 .. i  BY <1>7
    <3>2. (Shown > 0 => num >= 0) /\ (Shown < 0 => num <= 0)  BY <1>4, <1>8, <3>1
    <3> QED  BY <1>6, <1>9, <2>1, <3>2
  <2>2. CASE m # i + 1
    <3>1. m \in 0 .. i  BY <1>7, <2>2
    <3> QED  BY <1>8, <1>9, <3>1
  <2> QED  BY <2>1, <2>2
<1>12. (i + 1) - 1 = i  BY <1>7
<1>13. Shown' = Shown /\ base' = base /\ (HasSign' <=> HasSign)
  BY <1>1, ShownStays DEF SameCall
<1>14. Denoted(buffer, e, i)'  BY <1>1, <1>9, <1>10, <1>11, <1>12, <1>13 DEF Denoted
<1>15. e[i'] = num'  BY <1>1, <1>9 DEF q
<1>16. (negative <=> HasSign)'  BY <1>1, <1>3, <1>13
<1> QED  BY <1>1, <1>14, <1>15, <1>16 DEF TextOK

LEMMA SignText == BufferOK /\ TextOK /\ Sign => TextOK'
<1> SUFFICES ASSUME BufferOK, TextOK, Sign, given' # 0 PROVE TextOK'  BY DEF TextOK
<1>1. /\ pc = "digits" /\ pc' = "end" /\ SameCall /\ num = 0
      /\ (negative' <=> negative)
  BY DEF Sign, SameCall
<1>2. given # 0 /\ given \in Int  BY <1>1 DEF SameCall, BufferOK
<1>3. negative <=> HasSign  BY <1>1, <1>2 DEF TextOK
<1>4. PICK h : Denoted(buffer, h, i) /\ h[i] = 0  BY <1>1, <1>2 DEF TextOK
<1>5. i \in Nat \ {0} /\ i <= Cap
  <2>1. h[0] # 0  BY <1>2, <1>4, ShownIsThere DEF Denoted
  <2> QED  BY <1>1, <1>4, <2>1 DEF BufferOK
<1>6. PICK c \in Nat : c = i /\ c # 0  BY <1>5
<1>7. /\ h \in [0 .. c -> Int] /\ h[0] = Shown /\ h[c] = 0
      /\ \A m \in 0 .. c - 1 :
           h[m] # 0 /\ buffer[m] = Digit(Remainder(h[m], base)) /\ h[m+1] = Quotient(h[m], base)
      /\ \A m \in 0 .. c : (Shown > 0 => h[m] >= 0) /\ (Shown < 0 => h[m] <= 0)
  BY <1>4, <1>6 DEF Denoted
<1>8. /\ i' = IF negative THEN c + 1 ELSE c
      /\ \A m \in 0 .. c - 1 : buffer'[m] = buffer[m]
      /\ negative => buffer'[c] = minus
  <2>1. CASE negative = TRUE
    <3>1. i' = c + 1 /\ buffer' = [buffer EXCEPT ![c] = minus]  BY <1>6, <2>1 DEF Sign, Put
    <3>2. c \in 0 .. Bits  BY <1>5, <1>6, <2>1, Constants DEF Cap
    <3>3. \A m \in 0 .. c - 1 : m \in 0 .. Bits /\ m # c  BY <3>2, Constants
    <3> QED  BY <2>1, <3>1, <3>2, <3>3 DEF BufferOK
  <2>2. CASE negative = FALSE
    <3>1. i' = i /\ buffer' = buffer  BY <2>2 DEF Sign
    <3> QED  BY <1>6, <2>2, <3>1
  <2> QED  BY <2>1, <2>2 DEF BufferOK
<1>13. Shown' = Shown /\ base' = base /\ (HasSign' <=> HasSign)
  BY <1>1, ShownStays DEF SameCall
<1>9. Denoted(buffer, h, c)'  BY <1>1, <1>7, <1>8, <1>13 DEF Denoted
<1>10. Complete(buffer)'
  <2>1. /\ i' = (IF negative' THEN c + 1 ELSE c) /\ (negative' => buffer'[c] = minus)
    BY <1>1, <1>8
  <2> QED  BY <1>6, <1>7, <1>9, <2>1, Zenon DEF Complete
<1>11. (negative <=> HasSign)'  BY <1>1, <1>3, <1>13
<1> QED  BY <1>1, <1>10, <1>11 DEF TextOK

(* Where Complete() says something, there is no zero byte: the characters  *)
(* of digits end above it, even of negative ones.                          *)
LEMMA NoNULInside ==
  ASSUME NEW t, Complete(t), base \in 2 .. 36
  PROVE  i \in Nat \ {0} /\ \A m \in 0 .. i - 1 : t[m] \in Nat \ {NUL}
<1>0. PICK c \in Nat : \E h :
        /\ c # 0 /\ Denoted(t, h, c) /\ h[c] = 0
        /\ i = (IF negative THEN c + 1 ELSE c) /\ (negative => t[c] = minus)
  BY DEF Complete
<1>1. PICK h :
        /\ c # 0 /\ Denoted(t, h, c) /\ h[c] = 0
        /\ i = (IF negative THEN c + 1 ELSE c) /\ (negative => t[c] = minus)
  BY <1>0
<1>2. ASSUME NEW m \in 0 .. c - 1 PROVE t[m] \in Nat \ {NUL}
  <2>1. h[m] \in Int /\ t[m] = Digit(Remainder(h[m], base))  BY <1>1 DEF Denoted
  <2>2. Remainder(h[m], base) \in Int /\ Remainder(h[m], base) >= -35
    <3> PICK n \in Int : n = h[m]  BY <2>1
    <3> PICK d \in 2 .. 36 : d = base  OBVIOUS
    <3>1. d \in Nat \ {0, 1} /\ d <= 36  OBVIOUS
    <3>2. SignedDigit(n, Remainder(n, d), d)  BY SignedDigits
    <3>3. Remainder(n, d) \in Int /\ Remainder(n, d) >= -35
      BY <3>1, <3>2 DEF SignedDigit
    <3> QED  BY <3>1, <3>3
  <2> DEFINE r == Remainder(h[m], base)
  <2> HIDE DEF r
  <2>3. Digit(r) \in Nat \ {0}  BY <2>2 DEF r, Digit, a, zero
  <2> QED  BY <2>1, <2>3 DEF r, NUL
<1>3. minus \in Nat \ {NUL}  BY DEF minus, NUL
<1>4. CASE negative
  <2>1. i = c + 1 /\ t[c] = minus  BY <1>1, <1>4
  <2>2. \A m \in 0 .. (c + 1) - 1 : m = c \/ m \in 0 .. c - 1  OBVIOUS
  <2>3. c + 1 \in Nat \ {0}  OBVIOUS
  <2> QED  BY <1>2, <1>3, <2>1, <2>2, <2>3
<1>5. CASE ~negative
  <2>1. i = c /\ c \in Nat \ {0}  BY <1>1, <1>5
  <2> QED  BY <1>2, <2>1
<1> QED  BY <1>4, <1>5, Zenon

LEMMA TerminateText == BufferOK /\ TextOK /\ Terminate => TextOK'
<1> SUFFICES ASSUME BufferOK, TextOK, Terminate, given' # 0 PROVE TextOK'  BY DEF TextOK
<1>1. /\ pc = "end" /\ pc' = "reverse" /\ SameCall /\ i' = i /\ k' = k
      /\ (negative' <=> negative) /\ buffer' = [buffer EXCEPT ![i] = NUL]
  BY DEF Terminate, Put, SameCall
<1>2. given # 0  BY <1>1 DEF SameCall
<1>3. (negative <=> HasSign) /\ Complete(buffer)  BY <1>1, <1>2 DEF TextOK
<1>4. PICK t : t = buffer  OBVIOUS
<1>5. Complete(t)'
  <2>1. Complete(t)  BY <1>3, <1>4
  <2> QED  BY <1>1, <2>1, ShownStays DEF Complete
<1>6. Turned(t)'
  <2>1. k = 0 /\ i \in 0 .. Bits /\ Bits \in Nat  BY <1>1, Constants DEF BufferOK
  <2>2. buffer'[i] = NUL  BY <1>1, <2>1 DEF BufferOK
  <2>3. \A m \in 0 .. i - 1 : m \in 0 .. Bits /\ m # i /\ ~(m < 0) /\ ~(m >= i - 0)  BY <2>1
  <2>4. \A m \in 0 .. i - 1 : buffer'[m] = t[m]  BY <1>1, <1>4, <2>3 DEF BufferOK
  <2> QED  BY <1>1, <2>1, <2>2, <2>3, <2>4 DEF Turned
<1>7. (negative <=> HasSign)'  BY <1>1, <1>3, ShownStays
<1> QED  BY <1>1, <1>5, <1>6, <1>7 DEF TextOK

LEMMA SwapText == BufferOK /\ TextOK /\ Swap => TextOK'
<1> SUFFICES ASSUME BufferOK, TextOK, Swap, given' # 0 PROVE TextOK'  BY DEF TextOK
<1>1. /\ pc = "reverse" /\ pc' = "reverse" /\ SameCall /\ i' = i /\ k' = k + 1
      /\ (negative' <=> negative) /\ k < i \div 2
      /\ buffer' = [buffer EXCEPT ![k] = buffer[i-k-1], ![i-k-1] = buffer[k]]
  BY DEF Swap, HalfLength, SameCall
<1>2. given # 0  BY <1>1 DEF SameCall
<1>3. negative <=> HasSign  BY <1>1, <1>2 DEF TextOK
<1>4. PICK t : Complete(t) /\ Turned(t)  BY <1>1, <1>2 DEF TextOK
<1>5. Complete(t)'  BY <1>1, <1>4, ShownStays DEF Complete
<1>6. Turned(t)'
  <2> DEFINE j == i - k - 1
  <2>1. i \in Nat /\ k \in Nat /\ i <= Bits /\ Bits \in Nat  BY <1>1, Constants DEF BufferOK
  <2>2. j \in 0 .. i - 1 /\ k < j /\ k \in 0 .. i - 1 /\ j = i - 1 - k /\ k = i - 1 - j /\ j < i - k
    BY <1>1, <2>1
  <2>3. 0 .. i - 1 \subseteq 0 .. Bits /\ i \in 0 .. Bits /\ i \notin 0 .. i - 1  BY <2>1
  <2>4. buffer[k] = t[k] /\ buffer[j] = t[j]
    <3>1. ~(k < k) /\ ~(k >= i - k) /\ ~(j < k) /\ ~(j >= i - k)  BY <2>1, <2>2
    <3> HIDE DEF j
    <3> QED  BY <1>4, <2>2, <3>1 DEF Turned
  <2>5. /\ buffer'[k] = t[i-1-k] /\ buffer'[j] = t[i-1-j] /\ buffer'[i] = NUL
        /\ \A m \in 0 .. i - 1 : m # k /\ m # j => buffer'[m] = buffer[m]
    <3>1. buffer' = [buffer EXCEPT ![k] = buffer[j], ![j] = buffer[k]]  BY <1>1
    <3>2. buffer[i] = NUL  BY <1>4 DEF Turned
    <3> HIDE DEF j
    <3> QED  BY <2>2, <2>3, <2>4, <3>1, <3>2 DEF BufferOK
  <2>6. ASSUME NEW m \in 0 .. i - 1
        PROVE  buffer'[m] = IF m < k + 1 \/ m >= i - (k + 1) THEN t[i-1-m] ELSE t[m]
    <3>1. j = i - (k + 1)  BY <2>1
    <3> HIDE DEF j
    <3>2. CASE m = k  BY <2>1, <2>5, <3>2
    <3>3. CASE m = j  BY <2>1, <2>2, <2>5, <3>1, <3>3
    <3>4. CASE m # k /\ m # j
      <4>1. /\ buffer'[m] = buffer[m]
            /\ buffer[m] = IF m < k \/ m >= i - k THEN t[i-1-m] ELSE t[m]
        BY <1>4, <2>5, <3>4 DEF Turned
      <4>2. (m < k + 1 <=> m < k) /\ (m >= i - (k + 1) <=> m >= i - k)
        BY <2>1, <2>2, <3>1, <3>4
      <4> QED  BY <4>1, <4>2
    <3> QED  BY <3>2, <3>3, <3>4
  <2> QED  BY <1>1, <2>5, <2>6 DEF Turned
<1>7. (negative <=> HasSign)'  BY <1>1, <1>3, ShownStays
<1> QED  BY <1>1, <1>5, <1>6, <1>7 DEF TextOK

LEMMA ReversedText == BufferOK /\ TextOK /\ Reversed => TextOK'
<1> SUFFICES ASSUME BufferOK, TextOK, Reversed, given' # 0 PROVE TextOK'  BY DEF TextOK
<1>1. /\ pc = "reverse" /\ pc' = "returned" /\ SameCall /\ i' = i
      /\ (negative' <=> negative) /\ k >= i \div 2 /\ buffer' = buffer
  BY DEF Reversed, HalfLength, SameCall
<1>2. given # 0  BY <1>1 DEF SameCall
<1>3. negative <=> HasSign  BY <1>1, <1>2 DEF TextOK
<1>4. PICK t : Complete(t) /\ Turned(t)  BY <1>1, <1>2 DEF TextOK
<1>5. Complete(t)'  BY <1>1, <1>4, ShownStays DEF Complete
<1>6. AllTurned(t)'
  <2>1. i \in Nat /\ k \in Nat /\ k = i \div 2  BY <1>1 DEF BufferOK
  <2>2. ASSUME NEW m \in 0 .. i - 1 PROVE buffer[m] = t[i-1-m]
    <3>1. m < k \/ m >= i - k \/ m = i - 1 - m  BY <2>1
    <3> QED  BY <1>4, <3>1 DEF Turned
  <2>3. buffer[i] = NUL  BY <1>4 DEF Turned
  <2> QED  BY <1>1, <2>2, <2>3 DEF AllTurned
<1>7. (negative <=> HasSign)'  BY <1>1, <1>3, ShownStays
<1> QED  BY <1>1, <1>5, <1>6, <1>7 DEF TextOK

LEMMA KeepsText == BufferOK /\ TextOK /\ [Next]_vars => TextOK'
<1> SUFFICES ASSUME BufferOK, TextOK, [Next]_vars PROVE TextOK'  OBVIOUS
<1>1. ASSUME NEW n \in Ints, NEW b \in Bases, Call(n, b, TRUE)  PROVE TextOK'
  BY <1>1, BeginText
<1>2. ASSUME NEW n \in Unsigneds, NEW b \in Bases, Call(n, b, FALSE)  PROVE TextOK'
  BY <1>2, BeginText
<1>3. CASE NextDigit  BY <1>3, DigitText
<1>4. CASE Sign  BY <1>4, SignText
<1>5. CASE Terminate  BY <1>5, TerminateText
<1>6. CASE Swap  BY <1>6, SwapText
<1>7. CASE Reversed  BY <1>7, ReversedText
<1>8. CASE Return  BY <1>8 DEF Return, TextOK
<1>9. CASE UNCHANGED vars
  <2>1. /\ pc' = pc /\ SameCall /\ given' = given /\ num' = num /\ i' = i /\ k' = k
        /\ (negative' <=> negative) /\ buffer' = buffer
    BY <1>9 DEF vars, SameCall
  <2>2. HasSign' <=> HasSign  BY <2>1, ShownStays
  <2>3. \A t, h, c : Denoted(t, h, c)' <=> Denoted(t, h, c)  BY <2>1, ShownStays
  <2>4. \A t : Complete(t)' <=> Complete(t)  BY <2>1, <2>3 DEF Complete
  <2>5. \A t : (Turned(t)' <=> Turned(t)) /\ (AllTurned(t)' <=> AllTurned(t))
    BY <2>1 DEF Turned, AllTurned
  <2> SUFFICES ASSUME pc # "idle", given # 0 PROVE TextOK'  BY <2>1 DEF TextOK
  <2>6. (negative <=> HasSign)'  BY <2>1, <2>2 DEF TextOK
  <2>7. (pc = "digits" => \E h : Denoted(buffer, h, i) /\ h[i] = num)'
    <3> SUFFICES ASSUME pc = "digits" PROVE (\E h : Denoted(buffer, h, i) /\ h[i] = num)'
      BY <2>1
    <3>1. PICK h : Denoted(buffer, h, i) /\ h[i] = num  BY DEF TextOK
    <3> QED  BY <2>1, <2>3, <3>1
  <2>8. (pc = "end" => Complete(buffer))'  BY <2>1, <2>4 DEF TextOK
  <2>9. (pc = "reverse" => \E t : Complete(t) /\ Turned(t))'  BY <2>1, <2>4, <2>5 DEF TextOK
  <2>10. (pc = "returned" => \E t : Complete(t) /\ AllTurned(t))'  BY <2>1, <2>4, <2>5 DEF TextOK
  <2> QED  BY <2>6, <2>7, <2>8, <2>9, <2>10 DEF TextOK
<1> QED  BY <1>1, <1>2, <1>3, <1>4, <1>5, <1>6, <1>7, <1>8, <1>9 DEF Next

LEMMA KeepsZero == BufferOK /\ ZeroOK /\ [Next]_vars => ZeroOK'
<1> SUFFICES ASSUME BufferOK, ZeroOK, [Next]_vars, given' = 0 PROVE ZeroOK'  BY DEF ZeroOK
<1>1. ASSUME NEW n, NEW b, NEW s, Call(n, b, s)  PROVE ZeroOK'
  <2>1. n = 0  BY <1>1 DEF Call, Zero, NonZero, Begin
  <2>2. 0 \in 0 .. Bits  BY Constants
  <2>3. buffer'[0] = NUL /\ pc' = "returned"
    BY <1>1, <2>1, <2>2 DEF Call, Zero, NonZero, BufferOK
  <2> QED  BY <2>3 DEF ZeroOK
<1>2. CASE NextDigit \/ Sign \/ Terminate \/ Swap \/ Reversed
  BY <1>2 DEF NextDigit, Sign, Terminate, Swap, Reversed, ZeroOK
<1>3. CASE Return  BY <1>3 DEF Return, ZeroOK
<1>4. CASE UNCHANGED vars  BY <1>4 DEF vars, ZeroOK
<1> QED  BY <1>1, <1>2, <1>3, <1>4 DEF Next

LEMMA TextInvariant == Spec => [](BufferOK /\ TextOK /\ ZeroOK)
<1>1. Init => TextOK /\ ZeroOK  BY DEF Init, TextOK, ZeroOK
<1> QED  BY <1>1, InitBuffer, KeepsBuffer, KeepsText, KeepsZero, PTL DEF Spec

----------------------------------------------------------------------------
(* The text returned: as long as i says, the last digit at its end.        *)
LEMMA Returned ==
  ASSUME BufferOK, NEW t, Complete(t), AllTurned(t), pc = "returned"
  PROVE  Text = [n \in 1 .. i |-> t[i-n]]
<1>1. i \in Nat \ {0} /\ \A m \in 0 .. i - 1 : t[m] # NUL
  <2>1. base \in 2 .. 36  BY Constants DEF BufferOK
  <2> QED  BY <2>1, NoNULInside
<1>2. DOMAIN buffer = 0 .. Bits /\ i <= Bits /\ Bits \in Nat  BY Constants DEF BufferOK
<1>3. buffer[i] = NUL /\ \A m \in 0 .. i - 1 : buffer[m] = t[i-1-m] /\ buffer[m] # NUL
  <2>1. \A m \in 0 .. i - 1 : i - 1 - m \in 0 .. i - 1  BY <1>1
  <2> QED  BY <1>1, <2>1 DEF AllTurned
<1>4. strlen = i
  <2>1. i \in DOMAIN buffer  BY <1>1, <1>2
  <2>2. ASSUME NEW n \in DOMAIN buffer, buffer[n] = NUL, \A m \in 0 .. n - 1 : buffer[m] # NUL
        PROVE  n = i
    <3>1. n \in Nat  BY <1>2, <2>2
    <3>2. ~(n < i)  BY <1>1, <1>3, <2>2, <3>1
    <3>3. ~(i < n)  BY <1>1, <1>3, <2>2, <3>1
    <3> QED  BY <1>1, <3>1, <3>2, <3>3
  <2> QED  BY <1>3, <2>1, <2>2 DEF strlen
<1>5. \A n \in 1 .. i : buffer[n-1] = t[i-n]
  <2> TAKE n \in 1 .. i
  <2>1. n - 1 \in 0 .. i - 1 /\ i - 1 - (n - 1) = i - n  BY <1>1
  <2>2. buffer[n-1] = t[i-1-(n-1)]  BY <1>3, <2>1
  <2> QED  BY <2>1, <2>2
<1> QED  BY <1>4, <1>5 DEF Text

(* Whatever reads the digits in their order reads the number.              *)
LEMMA ReadInOrder ==
  ASSUME NEW c \in Nat, NEW d \in Nat, NEW digits \in [1 .. c -> Int], NEW h \in [0 .. c -> Int],
         h[c] = 0, \A m \in 0 .. c - 1 : h[m] = h[m+1] * d + digits[c-m]
  PROVE  Horner(d, digits) = h[0]
<1>1. PICK e \in [0 .. c -> Int] : \A m \in 0 .. c : e[m] = h[c-m]
  <2> DEFINE f == [m \in 0 .. c |-> h[c-m]]
  <2>1. f \in [0 .. c -> Int] /\ \A m \in 0 .. c : f[m] = h[c-m]  OBVIOUS
  <2> HIDE DEF f
  <2> QED  BY <2>1
<1>2. e[0] = 0 /\ e[c] = h[0]
  <2>1. c - 0 = c /\ c - c = 0 /\ 0 \in 0 .. c /\ c \in 0 .. c  OBVIOUS
  <2> QED  BY <1>1, <2>1
<1>3. ASSUME NEW m \in 0 .. c - 1 PROVE e[m+1] = e[m] * d + digits[m+1]
  <2> PICK x \in 0 .. c - 1 : x = c - (m + 1)  OBVIOUS
  <2>1. x + 1 = c - m /\ c - x = m + 1 /\ m \in 0 .. c /\ m + 1 \in 0 .. c  OBVIOUS
  <2>2. e[m] = h[x+1] /\ e[m+1] = h[x]  BY <1>1, <2>1
  <2>3. h[x] = h[x+1] * d + digits[c-x]  OBVIOUS
  <2> QED  BY <2>1, <2>2, <2>3
<1>4. Horner(d, digits) = e[c]
  <2>1. \A m \in 0 .. c - 1 : e[m+1] = e[m] * d + digits[m+1]  BY <1>3
  <2> QED  BY <1>2, <2>1, HornerIs
<1> QED  BY <1>2, <1>4

LEMMA Read ==
  ASSUME NEW t, NEW h, NEW c \in Nat, Denoted(t, h, c), h[c] = 0, base \in Nat \ {0, 1},
         NEW digits, digits = [n \in 1 .. c |-> digits[n]],
         \A n \in 1 .. c : digits[n] = Remainder(h[c-n], base)
  PROVE  Horner(base, digits) = Shown
<1>1. /\ h \in [0 .. c -> Int] /\ h[0] = Shown
      /\ \A m \in 0 .. c - 1 : h[m+1] = Quotient(h[m], base)
  BY DEF Denoted
<1>2. digits \in [1 .. c -> Int]
  <2>1. \A n \in 1 .. c : Remainder(h[c-n], base) \in Int
    <3> TAKE n \in 1 .. c
    <3>1. c - n \in 0 .. c  OBVIOUS
    <3>2. h[c-n] \in Int  BY <1>1, <3>1
    <3> QED  BY <3>2, Divided
  <2> QED  BY <2>1
<1>3. \A m \in 0 .. c - 1 : h[m] = h[m+1] * base + digits[c-m]
  <2> TAKE m \in 0 .. c - 1
  <2>1. h[m] \in Int /\ c - m \in 1 .. c /\ c - (c - m) = m  BY <1>1
  <2>2. h[m] = Quotient(h[m], base) * base + Remainder(h[m], base)  BY <2>1, Divided
  <2>3. digits[c-m] = Remainder(h[m], base) /\ h[m+1] = Quotient(h[m], base)  BY <1>1, <2>1
  <2> QED  BY <2>2, <2>3
<1>4. PICK d \in Nat, e \in [1 .. c -> Int] : d = base /\ e = digits  BY <1>2
<1>5. \A m \in 0 .. c - 1 : h[m] = h[m+1] * d + e[c-m]  BY <1>3, <1>4
<1>6. Horner(d, e) = h[0]
  <2>1. h \in [0 .. c -> Int] /\ h[c] = 0  BY <1>1
  <2> QED  BY <1>5, <2>1, ReadInOrder, Zenon
<1> QED  BY <1>1, <1>4, <1>6

LEMMA DigitValue == \A n \in Int : ValueOf(Digit(n)) = n
BY DEF ValueOf, Digit, a, zero

(* Negative digits are none to a reader, the others are.                   *)
LEMMA DigitsKnown ==
  ASSUME base \in 2 .. 36
  PROVE  \A r \in -(base - 1) .. base - 1 : IsDigit(Digit(r)) <=> r >= 0
<1> TAKE r \in -(base - 1) .. base - 1
<1>1. r \in Int /\ r <= 35 /\ base \in Int /\ r <= base - 1  OBVIOUS
<1>2. ValueOf(Digit(r)) = r  BY <1>1, DigitValue
<1>3. CASE r >= 0
  <2>1. Digit(r) \in (48 .. 57) \cup (97 .. 122)  BY <1>1, <1>3 DEF Digit, a, zero
  <2>2. r \in 0 .. base - 1  BY <1>1, <1>3
  <2> QED  BY <1>2, <1>3, <2>1, <2>2 DEF IsDigit, a, zero
<1>4. CASE r < 0
  <2>1. ~(r \in 0 .. base - 1)  BY <1>4
  <2> QED  BY <1>1, <1>2, <1>4, <2>1 DEF IsDigit
<1> QED  BY <1>1, <1>3, <1>4

(* The digits that were written, read as a text of their own.              *)
LEMMA WrittenDigits ==
  ASSUME BufferOK, given # 0, NEW t, NEW h, NEW c \in Nat \ {0}, Denoted(t, h, c), h[c] = 0,
         base \in 2 .. 36, NEW w, DOMAIN w = 1 .. c, \A n \in 1 .. c : w[n] = t[c-n]
  PROVE  Magnitude(w) = Shown /\ ((\A n \in DOMAIN w : IsDigit(w[n])) <=> Shown > 0)
<1> DEFINE r == [n \in 1 .. c |-> Remainder(h[c-n], base)]
<1>1. base \in Nat \ {0, 1} /\ Shown \in Int /\ Shown # 0
  BY ShownIsThere DEF BufferOK
<1>2. /\ h \in [0 .. c -> Int] /\ h[0] = Shown
      /\ \A m \in 0 .. c - 1 :
           h[m] # 0 /\ t[m] = Digit(Remainder(h[m], base)) /\ h[m+1] = Quotient(h[m], base)
      /\ \A m \in 0 .. c : (Shown > 0 => h[m] >= 0) /\ (Shown < 0 => h[m] <= 0)
  BY DEF Denoted
<1>3. ASSUME NEW n \in 1 .. c
      PROVE  /\ w[n] = Digit(r[n]) /\ r[n] \in -(base - 1) .. base - 1
             /\ (Shown > 0 => r[n] >= 0)
  <2>1. PICK m \in 0 .. c - 1 : m = c - n  OBVIOUS
  <2>2. h[m] \in Int /\ w[n] = t[m] /\ t[m] = Digit(Remainder(h[m], base)) /\ (Shown > 0 => h[m] >= 0)
    BY <1>2, <2>1
  <2>3. r[n] = Remainder(h[m], base)  BY <2>1
  <2> HIDE DEF r
  <2>4. SignedDigit(h[m], r[n], base)  BY <1>1, <2>2, <2>3, SignedDigits
  <2>5. r[n] \in -(base - 1) .. base - 1 /\ (h[m] >= 0 => r[n] >= 0)
    BY <1>1, <2>2, <2>4 DEF SignedDigit
  <2> QED  BY <2>2, <2>3, <2>5
<1>4. Magnitude(w) = Shown
  <2> DEFINE digits == [n \in DOMAIN w |-> ValueOf(w[n])]
  <2>1. DOMAIN digits = 1 .. c /\ digits = [n \in 1 .. c |-> digits[n]]  OBVIOUS
  <2>2. \A n \in 1 .. c : digits[n] = Remainder(h[c-n], base)
    <3> TAKE n \in 1 .. c
    <3>1. digits[n] = ValueOf(w[n]) /\ r[n] = Remainder(h[c-n], base)  OBVIOUS
    <3> HIDE DEF digits, r
    <3>2. r[n] \in Int /\ w[n] = Digit(r[n])  BY <1>1, <1>3
    <3> QED  BY <3>1, <3>2, DigitValue
  <2> HIDE DEF digits
  <2>3. Horner(base, digits) = Shown  BY <1>1, <2>1, <2>2, Read
  <2> QED  BY <2>3 DEF Magnitude, digits
<1>5. Shown > 0 => \A n \in DOMAIN w : IsDigit(w[n])
  <2> HIDE DEF r
  <2> SUFFICES ASSUME Shown > 0, NEW n \in 1 .. c PROVE IsDigit(w[n])  OBVIOUS
  <2>1. w[n] = Digit(r[n]) /\ r[n] \in -(base - 1) .. base - 1 /\ r[n] >= 0  BY <1>3
  <2> QED  BY <2>1, DigitsKnown
<1>6. Shown < 0 => ~IsDigit(w[1])
  <2> SUFFICES ASSUME Shown < 0 PROVE ~IsDigit(w[1])  OBVIOUS
  <2>1. PICK m \in 0 .. c - 1 : m = c - 1 /\ m + 1 = c /\ m \in 0 .. c  OBVIOUS
  <2>2. h[m] \in Int /\ h[m] # 0 /\ h[m] <= 0 /\ Quotient(h[m], base) = 0  BY <1>2, <2>1
  <2>3. 1 \in 1 .. c /\ r[1] = Remainder(h[m], base)  BY <2>1
  <2> HIDE DEF r
  <2>4. h[m] = 0 * base + r[1]  BY <1>1, <2>2, <2>3, Divided
  <2>5. r[1] < 0
    <3>1. 0 * base = 0 /\ r[1] \in -(base - 1) .. base - 1  BY <1>1, <1>3, <2>3
    <3> QED  BY <1>1, <2>2, <2>4, <3>1
  <2>6. w[1] = Digit(r[1]) /\ r[1] \in -(base - 1) .. base - 1  BY <1>3, <2>3
  <2> QED  BY <2>5, <2>6, DigitsKnown
<1>7. 1 \in DOMAIN w  OBVIOUS
<1> QED  BY <1>1, <1>4, <1>5, <1>6, <1>7

(* Zero has no text.                                                       *)
LEMMA ZeroIsEmpty ==
  ASSUME BufferOK, buffer[0] = NUL  PROVE Text = <<>>
<1>1. DOMAIN buffer = 0 .. Bits /\ 0 \in 0 .. Bits  BY Constants DEF BufferOK
<1>2. \A n \in DOMAIN buffer :
        (buffer[n] = NUL /\ \A m \in 0 .. n - 1 : buffer[m] # NUL) => n = 0
  BY <1>1
<1>3. strlen = 0  BY <1>1, <1>2 DEF strlen
<1>4. Text = [n \in 1 .. 0 |-> buffer[n - 1]]  BY <1>3 DEF Text
<1> QED  BY <1>4

(* util.c: what itoa() and uitoa() return for every number in every base   *)
(* of digits and letters: the digits of what is shown, in order and none   *)
(* missing, after the sign if it has one; they can be read exactly if that *)
(* is positive, and of zero there are none.                                *)
THEOREM TextsDenote == Spec => []DigitsDenote
<1>1. BufferOK /\ TextOK /\ ZeroOK => DigitsDenote
  <2> SUFFICES ASSUME BufferOK, TextOK, ZeroOK, pc = "returned"
               PROVE  IF given = 0 THEN Text = <<>>
                      ELSE /\ HasSign => Head(Text) = minus
                           /\ Magnitude(Digits(Text)) = Shown
                           /\ (\A n \in DOMAIN Digits(Text) : IsDigit(Digits(Text)[n])) <=> Shown > 0
    BY DEF DigitsDenote
  <2>0. CASE given = 0
    <3>1. Text = <<>>  BY <2>0, ZeroIsEmpty DEF ZeroOK
    <3> QED  BY <2>0, <3>1
  <2> SUFFICES ASSUME given # 0
               PROVE  /\ HasSign => Head(Text) = minus
                      /\ Magnitude(Digits(Text)) = Shown
                      /\ (\A n \in DOMAIN Digits(Text) : IsDigit(Digits(Text)[n])) <=> Shown > 0
    BY <2>0
  <2>1. negative <=> HasSign  BY DEF TextOK
  <2>2. PICK t : Complete(t) /\ AllTurned(t)  BY DEF TextOK
  <2>3. base \in 2 .. 36  BY Constants DEF BufferOK
  <2>4. PICK c \in Nat : \E h :
          /\ c # 0 /\ Denoted(t, h, c) /\ h[c] = 0
          /\ i = (IF negative THEN c + 1 ELSE c) /\ (negative => t[c] = minus)
    BY <2>2 DEF Complete
  <2>5. PICK h :
          /\ c # 0 /\ Denoted(t, h, c) /\ h[c] = 0
          /\ i = (IF negative THEN c + 1 ELSE c) /\ (negative => t[c] = minus)
    BY <2>4
  <2>6. Text = [n \in 1 .. i |-> t[i-n]]  BY <2>2, Returned
  <2>7. ASSUME NEW w, DOMAIN w = 1 .. c, \A n \in 1 .. c : w[n] = t[c-n]
        PROVE  Magnitude(w) = Shown /\ ((\A n \in DOMAIN w : IsDigit(w[n])) <=> Shown > 0)
    BY <2>3, <2>5, <2>7, WrittenDigits
  <2>11. CASE HasSign
    <3>1. i = c + 1 /\ t[c] = minus  BY <2>1, <2>5, <2>11
    <3>2. Head(Text) = minus
      <4>1. 1 \in 1 .. c + 1 /\ (c + 1) - 1 = c  OBVIOUS
      <4>2. Text[1] = t[c]  BY <2>6, <3>1, <4>1
      <4> QED  BY <3>1, <4>2
    <3>3. Text \in Seq({t[m] : m \in 0 .. c}) /\ Len(Text) = c + 1
      <4> DEFINE S == {t[m] : m \in 0 .. c}
      <4>1. Text \in [1 .. c + 1 -> S]
        <5>1. \A n \in 1 .. c + 1 : (c + 1) - n \in 0 .. c  OBVIOUS
        <5> QED  BY <2>6, <3>1, <5>1
      <4> HIDE DEF S
      <4>2. [1 .. c + 1 -> S] \in {[1 .. n -> S] : n \in Nat}  OBVIOUS
      <4>3. Text \in Seq(S)  BY <4>1, <4>2, SeqDef, Zenon
      <4>4. Len(Text) = c + 1
        <5>1. DOMAIN Text = 1 .. c + 1  BY <4>1
        <5>2. Len(Text) \in Nat /\ DOMAIN Text = 1 .. Len(Text)  BY <4>3, LenProperties
        <5> QED  BY <5>1, <5>2
      <4> QED  BY <4>3, <4>4 DEF S
    <3>4. DOMAIN Tail(Text) = 1 .. c /\ \A n \in 1 .. c : Tail(Text)[n] = Text[n+1]
      <4> PICK S : Text \in Seq(S)  BY <3>3
      <4>1. Text # <<>>  BY <3>3
      <4>2. Tail(Text) \in Seq(S) /\ Len(Tail(Text)) = Len(Text) - 1
            /\ \A n \in 1 .. Len(Text) - 1 : Tail(Text)[n] = Text[n+1]
        BY <4>1, HeadTailProperties
      <4>3. DOMAIN Tail(Text) = 1 .. Len(Tail(Text))  BY <4>2, LenProperties
      <4>4. Len(Text) - 1 = c  BY <3>3
      <4> QED  BY <4>2, <4>3, <4>4
    <3>5. \A n \in 1 .. c : Tail(Text)[n] = t[c-n]
      <4> TAKE n \in 1 .. c
      <4>1. n + 1 \in 1 .. c + 1 /\ (c + 1) - (n + 1) = c - n  OBVIOUS
      <4>2. Text[n+1] = t[(c+1)-(n+1)]  BY <2>6, <3>1, <4>1
      <4> QED  BY <3>4, <4>1, <4>2
    <3>6. Digits(Text) = Tail(Text)  BY <2>11 DEF Digits
    <3> QED  BY <2>7, <3>2, <3>4, <3>5, <3>6
  <2>12. CASE ~HasSign
    <3>1. i = c  BY <2>1, <2>5, <2>12
    <3>2. DOMAIN Text = 1 .. c /\ \A n \in 1 .. c : Text[n] = t[c-n]  BY <2>6, <3>1
    <3>3. Digits(Text) = Text  BY <2>12 DEF Digits
    <3> QED  BY <2>7, <2>12, <3>2, <3>3
  <2> QED  BY <2>11, <2>12
<1> QED  BY <1>1, TextInvariant, PTL

(* The hexadecimal digits in both cases.                                   *)
LEMMA HexDigits ==
  \A n \in 0 .. 15 :
    LET ch == Digit(n)
    IN  HexDigit(ch) = n /\ HexDigit(IF ch >= a THEN ch - 32 ELSE ch) = n
<1> TAKE n \in 0 .. 15
<1>1. CASE n > 9
  <2>1. Digit(n) = n + 87  BY <1>1 DEF Digit, a, zero
  <2>2. HexDigit(n + 87) = n  BY <1>1 DEF HexDigit
  <2>3. HexDigit((n + 87) - 32) = n  BY <1>1 DEF HexDigit
  <2>4. n + 87 >= a  BY <1>1 DEF a
  <2> QED  BY <2>1, <2>2, <2>3, <2>4
<1>2. CASE ~(n > 9)
  <2>1. Digit(n) = n + 48  BY <1>2 DEF Digit, a, zero
  <2>2. HexDigit(n + 48) = n  BY <1>2 DEF HexDigit
  <2>3. ~(n + 48 >= a)  BY <1>2 DEF a
  <2> QED  BY <2>1, <2>2, <2>3
<1> QED  BY <1>1, <1>2

(* print.c: xtou64() reads back what uitoa() has written in base 16, in    *)
(* small letters and in capitals, for numbers of any width it can hold.    *)
THEOREM HexIsReadBack == Spec => []ReadsBack
<1>1. BufferOK /\ TextOK => ReadsBack
  <2> SUFFICES ASSUME BufferOK, TextOK, pc = "returned", base = 16, given > 0
               PROVE  xtou64(Text) = given /\ xtou64(Capitals(Text)) = given
    BY DEF ReadsBack
  <2>1. given \in Int /\ given # 0 /\ ~HasSign  BY DEF BufferOK, HasSign
  <2>2. Shown = given  BY <2>1 DEF Shown
  <2>3. PICK t : Complete(t) /\ AllTurned(t)  BY <2>1 DEF TextOK
  <2>4. ~negative  BY <2>1 DEF TextOK
  <2>5. PICK c \in Nat : \E h : Denoted(t, h, c) /\ h[c] = 0 /\ i = c
    BY <2>3, <2>4 DEF Complete
  <2>6. PICK h : Denoted(t, h, c) /\ h[c] = 0 /\ i = c  BY <2>5
  <2>7. Text = [n \in 1 .. c |-> t[c-n]]  BY <2>3, <2>6, Returned
  <2>8. ASSUME NEW n \in 1 .. c
        PROVE  /\ Remainder(h[c-n], base) \in 0 .. 15 /\ Text[n] = Digit(Remainder(h[c-n], base))
    <3>1. c - n \in 0 .. c - 1 /\ c - n \in 0 .. c  OBVIOUS
    <3>2. h[c-n] \in Int /\ t[c-n] = Digit(Remainder(h[c-n], base))  BY <2>6, <3>1 DEF Denoted
    <3>4. h[c-n] >= 0  BY <2>2, <2>6, <3>1 DEF Denoted
    <3>3. Remainder(h[c-n], base) \in 0 .. 15
      <4>1. SignedDigit(h[c-n], Remainder(h[c-n], 16), 16)
        <5>1. 16 \in Nat \ {0, 1}  OBVIOUS
        <5> QED  BY <3>2, <5>1, SignedDigits
      <4>2. Remainder(h[c-n], 16) \in 0 .. 15  BY <3>2, <3>4, <4>1 DEF SignedDigit
      <4> QED  BY <4>2
    <3> QED  BY <2>7, <3>2, <3>3
  <2>9. xtou64(Text) = given
    <3> DEFINE digits == [n \in DOMAIN Text |-> HexDigit(Text[n])]
    <3>1. DOMAIN Text = 1 .. c  BY <2>7
    <3>2. digits = [n \in 1 .. c |-> digits[n]]  BY <3>1
    <3>3. \A n \in 1 .. c : digits[n] = Remainder(h[c-n], base)
      <4> TAKE n \in 1 .. c
      <4>1. digits[n] = HexDigit(Text[n])  BY <3>1
      <4> HIDE DEF digits
      <4> QED  BY <2>8, <4>1, HexDigits
    <3> HIDE DEF digits
    <3>4. Horner(base, digits) = Shown  BY <2>6, <3>2, <3>3, Read
    <3> QED  BY <2>2, <3>4 DEF xtou64, digits
  <2>10. xtou64(Capitals(Text)) = given
    <3> DEFINE w == Capitals(Text)
               digits == [n \in DOMAIN w |-> HexDigit(w[n])]
    <3>1. DOMAIN w = 1 .. c /\ \A n \in 1 .. c : w[n] = IF Text[n] >= a THEN Text[n] - 32 ELSE Text[n]
      BY <2>7 DEF Capitals
    <3> HIDE DEF w
    <3>2. digits = [n \in 1 .. c |-> digits[n]]  BY <3>1
    <3>3. \A n \in 1 .. c : digits[n] = Remainder(h[c-n], base)
      <4> TAKE n \in 1 .. c
      <4>1. digits[n] = HexDigit(IF Text[n] >= a THEN Text[n] - 32 ELSE Text[n])  BY <3>1
      <4> HIDE DEF digits
      <4> QED  BY <2>8, <4>1, HexDigits
    <3> HIDE DEF digits
    <3>4. Horner(base, digits) = Shown  BY <2>6, <3>2, <3>3, Read
    <3>5. Horner(16, digits) = given  BY <2>2, <3>4
    <3> QED  BY <3>5 DEF xtou64, digits, w
  <2> QED  BY <2>9, <2>10
<1> QED  BY <1>1, TextInvariant, PTL
=============================================================================
