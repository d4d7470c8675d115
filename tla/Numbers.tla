------------------------------ MODULE Numbers ------------------------------
(***************************************************************************)
(* itoa(), uitoa(), reverse() and strlen() of kernel/util/util.c and       *)
(* xtou64() of kernel/print/print.c.  Numbers have Bits bits, characters   *)
(* are their codes, the buffer has Bits + 1 bytes: its callers' 33 for 32. *)
(***************************************************************************)
EXTENDS Integers, SequencesExt

CONSTANTS
  Bits,     (* the width of int and uint32                                 *)
  Bases,    (* the bases asked for: for 36 there are digits and letters    *)
  Rubbish   (* what is in the buffer before a call                         *)

ASSUME NumbersConstants ==
  /\ Bits \in Nat \ {0, 1} /\ Bases \subseteq 2 .. 36 /\ Rubbish \in 0 .. 255

VARIABLES
  pc,                (* "idle", "digits", "end", "reverse" or "returned"   *)
  given, base,       (* the arguments                                      *)
  signed,            (* itoa() rather than uitoa()                         *)
  num, i, negative,  (* the locals                                         *)
  k,                 (* reverse()'s loop counter                           *)
  buffer

vars == <<pc, given, base, signed, num, i, negative, k, buffer>>

(* Mutant: no byte for the terminator.                                     *)
SizeOfDigits == Bits

Size == Bits + 1
NUL  == 0
zero == 48        (* '0', 'a' and '-'                                      *)
a    == 97
minus == 45

SmallestInt == -(2^(Bits-1))
Ints        == SmallestInt .. 2^(Bits-1) - 1
Unsigneds   == 0 .. 2^Bits - 1

(* Division as in C: towards zero, the remainder has the dividend's sign.  *)
Quotient(n, d)  == IF n < 0 THEN -((-n) \div d) ELSE n \div d
Remainder(n, d) == n - d * Quotient(n, d)

(* -num; the smallest int comes out as itself in the shipped kernel.       *)
Negated(n) == IF n = SmallestInt THEN n ELSE -n

Digit(rem) == IF rem > 9 THEN rem - 10 + a ELSE rem + zero

Put(at, ch) == [buffer EXCEPT ![at] = ch]

----------------------------------------------------------------------------
Init ==
  /\ pc = "idle" /\ given = 0 /\ base = 0 /\ signed = FALSE
  /\ num = 0 /\ i = 0 /\ negative = FALSE /\ k = 0
  /\ buffer = [x \in 0 .. Size - 1 |-> Rubbish]

Begin(n, b, s) ==
  /\ pc = "idle"
  /\ given' = n /\ base' = b /\ signed' = s /\ i' = 0 /\ k' = 0
  /\ negative' = (s /\ n < 0 /\ b = 10)
  /\ num' = IF negative' THEN Negated(n) ELSE n

(* Zero: the '0' is overwritten by the terminator, since i++ comes after.  *)
Zero(n, b, s) ==
  /\ n = 0 /\ Begin(n, b, s)
  /\ buffer' = [buffer EXCEPT ![0] = NUL]
  /\ pc' = "returned"

NonZero(n, b, s) ==
  /\ n # 0 /\ Begin(n, b, s)
  /\ pc' = "digits"
  /\ UNCHANGED buffer

Call(n, b, s) == Zero(n, b, s) \/ NonZero(n, b, s)

NextDigit ==
  /\ pc = "digits" /\ num # 0
  /\ buffer' = Put(i, Digit(Remainder(num, base)))
  /\ i' = i + 1 /\ num' = Quotient(num, base)
  /\ UNCHANGED <<pc, given, base, signed, negative, k>>

Sign ==
  /\ pc = "digits" /\ num = 0
  /\ \/ negative /\ buffer' = Put(i, minus) /\ i' = i + 1
     \/ ~negative /\ UNCHANGED <<buffer, i>>
  /\ pc' = "end"
  /\ UNCHANGED <<given, base, signed, num, negative, k>>

Terminate ==
  /\ pc = "end"
  /\ buffer' = Put(i, NUL) /\ pc' = "reverse"
  /\ UNCHANGED <<given, base, signed, num, i, negative, k>>

(* Mutant: the loop goes over the whole text.                              *)
WholeLength == i

HalfLength == i \div 2

Swap ==
  /\ pc = "reverse" /\ k < HalfLength
  /\ buffer' = [buffer EXCEPT ![k] = buffer[i - k - 1], ![i - k - 1] = buffer[k]]
  /\ k' = k + 1
  /\ UNCHANGED <<pc, given, base, signed, num, i, negative>>

Reversed ==
  /\ pc = "reverse" /\ k >= HalfLength
  /\ pc' = "returned"
  /\ UNCHANGED <<given, base, signed, num, i, negative, k, buffer>>

(* The caller is done with the text.                                       *)
Return ==
  /\ pc = "returned"
  /\ pc' = "idle" /\ given' = 0 /\ base' = 0 /\ signed' = FALSE
  /\ num' = 0 /\ i' = 0 /\ negative' = FALSE /\ k' = 0
  /\ buffer' = [x \in 0 .. Size - 1 |-> Rubbish]

Next ==
  \/ \E n \in Ints, b \in Bases : Call(n, b, TRUE)
  \/ \E n \in Unsigneds, b \in Bases : Call(n, b, FALSE)
  \/ NextDigit \/ Sign \/ Terminate \/ Swap \/ Reversed \/ Return

Spec == Init /\ [][Next]_vars

----------------------------------------------------------------------------
(* strlen(): up to the first zero byte.                                    *)
strlen == CHOOSE n \in DOMAIN buffer :
            buffer[n] = NUL /\ \A m \in 0 .. n - 1 : buffer[m] # NUL
Text   == [n \in 1 .. strlen |-> buffer[n - 1]]

(* Mutant: letters are read as their lowest four bits.                     *)
HexDigitLow(ch) == ch % 16

(* (c & 0xF) + (c >> 6) | ((c >> 3) & 0x8), where + binds tighter than |.  *)
HexDigit(ch) ==
  LET low  == (ch % 16) + (ch \div 64)
      high == 8 * ((ch \div 64) % 2)
  IN  IF (low \div 8) % 2 = 1 THEN low ELSE low + high

(* The value of a sequence of digits, most significant first.              *)
Horner(b, digits) == FoldLeft(LAMBDA res, v : res * b + v, 0, digits)

(* Texts of up to sixteen digits, which do not overflow.                   *)
xtou64(text) == Horner(16, [n \in DOMAIN text |-> HexDigit(text[n])])
=============================================================================
