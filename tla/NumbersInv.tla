----------------------------- MODULE NumbersInv -----------------------------
(* What is checked of Numbers.                                             *)
EXTENDS Numbers

(* No write goes past the buffer of Bits + 1 bytes, with any number and    *)
(* any base: base 2 and the smallest int included.                         *)
BufferSuffices ==
  (pc = "digits" /\ num # 0) \/ (pc = "digits" /\ negative) \/ pc = "end" => i < Size

(* What a character stands for, as the code makes them: those below '0'    *)
(* for the negative digits that come of dividing a negative number.        *)
ValueOf(ch)     == IF ch >= a THEN 10 + ch - a ELSE ch - zero
Magnitude(text) == Horner(base, [n \in DOMAIN text |-> ValueOf(text[n])])

(* A reader knows these digits only.                                       *)
IsDigit(ch) ==
  ch \in (zero .. zero + 9) \cup (a .. a + 25) /\ ValueOf(ch) \in 0 .. base - 1

(* The sign is given to numbers of itoa() in base ten; what follows it are *)
(* the digits of Shown.                                                    *)
HasSign      == signed /\ given < 0 /\ base = 10
Shown        == IF HasSign THEN Negated(given) ELSE given
Digits(text) == IF HasSign THEN Tail(text) ELSE text

(* The text of every number has a sign or not, and then digits that make   *)
(* up what was shown, in the right order, none missing.  They are digits   *)
(* to a reader exactly if that is positive: never for a negative number in *)
(* another base than ten, nor for the smallest int in base ten, which is   *)
(* its own negation.  Zero has no digit at all.                            *)
DigitsDenote ==
  pc = "returned" =>
    IF given = 0 THEN Text = <<>>
    ELSE /\ HasSign => Head(Text) = minus
         /\ Magnitude(Digits(Text)) = Shown
         /\ (\A n \in DOMAIN Digits(Text) : IsDigit(Digits(Text)[n])) <=> Shown > 0

(* xtou64() reads back what is written in base 16, in capitals too.        *)
Capitals(text) == [n \in DOMAIN text |-> IF text[n] >= a THEN text[n] - 32 ELSE text[n]]
ReadsBack ==
  (pc = "returned" /\ base = 16 /\ given > 0) =>
    xtou64(Text) = given /\ xtou64(Capitals(Text)) = given

(* util.c:28 and 58: "Handle 0 explicitly, otherwise empty string is       *)
(* printed for 0".                                                         *)
ZeroIsPrinted == (pc = "returned" /\ given = 0) => Text # <<>>
=============================================================================
