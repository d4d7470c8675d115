------------------------------ MODULE StreamInv ------------------------------
(* What is checked of Stream.                                              *)
EXTENDS Stream

(* The index never comes to the buffer's last two bytes, which every push  *)
(* relies on, and the parser stays within its format and its modes.        *)
TypeOK ==
  /\ pc \in {"idle", "parse", "digits", "text"}
  /\ buf \in [Indexes -> Char \cup {NUL}] /\ buf_i \in 0 .. BufLen - 3
  /\ call \in Calls \cup {NoCall} /\ args \in Seq(Argument)
  /\ i \in 1 .. Len(fmt) + 1 /\ parse_mode \in {"normal", "argument", "format"}
  /\ arg \in Char \cup {NUL}
  /\ val \in 0 .. Words - 1 /\ base \in {8, 10, 16}
  /\ todo \in Seq(Char) /\ out \in Seq(Char) /\ spoiled \in BOOLEAN

(* What the stream holds: the characters pushed, and what is left behind   *)
(* them of a text that was refused.                                        *)
queue == Chunk(buf, 0, buf_i)
stale == Chunk(buf, buf_i, strlen(buf))

(* memset() stops at the first zero byte (memory.c:24) and the terminator  *)
(* is written behind the text only: that the stream is a pipe nevertheless *)
(* needs a buffer which is text up to buf_i at least and zeros to its end. *)
ZerosBehind ==
  /\ buf_i <= strlen(buf) /\ strlen(buf) <= BufLen - 2
  /\ \A k \in strlen(buf) .. BufLen - 1 : buf[k] = NUL

(* Through both kinds of flush, whatever the writer refuses, characters    *)
(* leave in the order they were pushed, once, and a text that was refused  *)
(* is sent again behind what has replaced its beginning.                   *)
Pipe == INSTANCE TextPipe WITH Capacity <- BufLen - 2
ImplementsPipe == Pipe!Spec

----------------------------------------------------------------------------
(* A text of digits in a base, read from the left, comes to the value v;   *)
(* no digit is a leading zero.  The code prints no digit of zero.          *)
Spells(t, v, b) ==
  \E read \in [0 .. Len(t) -> 0 .. v] :
    /\ read[0] = 0 /\ read[Len(t)] = v
    /\ \A k \in 1 .. Len(t) :
         /\ read[k] > 0
         /\ \E d \in 0 .. b - 1 : t[k] = DigitChar[d] /\ read[k] = b * read[k - 1] + d

Sign(kind, n) == IF kind = "d" /\ n < 0 THEN <<"-">> ELSE <<>>

(* The pieces of a format and what each is to print: a character, an       *)
(* escaped brace, a text, and a number as an unsigned one behind its sign. *)
IsPlain(p) ==
  \E c \in Char \ {LeftBrace} : p = [fmt |-> <<c>>, args |-> <<>>, means |-> <<c>>]

IsBrace(p) == p = [fmt |-> <<LeftBrace, LeftBrace>>, args |-> <<>>, means |-> <<LeftBrace>>]

IsText(p) ==
  Len(p.args) = 1 /\ p.fmt = <<LeftBrace, "s", RightBrace>> /\ p.means = p.args[1].text

InBase(p, kind, b) ==
  \/ p.fmt = <<LeftBrace, kind, RightBrace>> /\ b = 10
  \/ p.fmt = <<LeftBrace, "?", "x", kind, RightBrace>> /\ b = 16
  \/ p.fmt = <<LeftBrace, "?", "o", kind, RightBrace>> /\ b = 8

IsNumber(p) ==
  /\ Len(p.args) = 1
  /\ LET n == p.args[1].n
     IN  \E kind \in {"d", "u"}, b \in {8, 10, 16} :
           LET t == SubSeq(p.means, Len(Sign(kind, n)) + 1, Len(p.means))
           IN  InBase(p, kind, b) /\ p.means = Sign(kind, n) \o t /\ Spells(t, n % Words, b)

IsPiece(p) == IsPlain(p) \/ IsBrace(p) \/ IsText(p) \/ IsNumber(p)

Join(p, c) == [fmt |-> p.fmt \o c.fmt, args |-> p.args \o c.args, means |-> p.means \o c.means]

(* Every call of this set is empty or one of these pieces before another.  *)
BuiltOf(pieces, calls) ==
  \A c \in calls : c = NoCall \/ \E p \in pieces, rest \in calls : c = Join(p, rest)

(* The calls whose formats are made of pieces, any number of them.         *)
Regular == UNION {calls \in SUBSET Call : BuiltOf({p \in Call : IsPiece(p)}, calls)}

(* A call whose texts are all taken has printed, at its last flush, what   *)
(* its format says: text, escaped braces, and arguments in their bases.    *)
PrintsWhatIsMeant ==
  (pc = "parse" /\ i = Len(fmt) + 1 /\ ~spoiled) => out \o queue = call.means

(* randpseudocode.c:102 and 106: "base can be 'd' for decimal, 'x' for     *)
(* hexidecimal, or 'o' for octal": a number given a base is printed in it. *)
BasesAsDocumented ==
  (pc = "parse" /\ i = Len(fmt) + 1 /\ ~spoiled) =>
    \A kind \in {"d", "u"}, flag \in {"d", "x", "o"} :
      fmt = <<LeftBrace, "?", flag, kind, RightBrace>> =>
        LET n    == call.args[1].n
            text == out \o queue
            t    == SubSeq(text, Len(Sign(kind, n)) + 1, Len(text))
        IN  text = Sign(kind, n) \o t /\ Spells(t, n % Words, BaseOf[flag])
=============================================================================
