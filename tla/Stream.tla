------------------------------- MODULE Stream -------------------------------
(***************************************************************************)
(* randpseudocode.c: the draft of a vfprintf() that writes through a       *)
(* buffer, one character of the format, one digit or one character of a    *)
(* text per step.  The writer may refuse any text it is given.             *)
(***************************************************************************)
EXTENDS Integers, Sequences

CONSTANTS
  BufLen,      (* buf_len                                                  *)
  Char,        (* the characters of texts, without the zero byte           *)
  NUL,         (* the zero byte                                            *)
  DigitChar,   (* the characters of the digits 0, 1, 2, ...                *)
  Words,       (* how many unsigned ints there are, the code's 2^32        *)
  Calls        (* what vfprintf() is called with                           *)

LeftBrace  == "{"
RightBrace == "}"

BaseOf == [d |-> 10, x |-> 16, o |-> 8]

(* A call has a format, arguments and, for the properties only, the text   *)
(* it is to print.  An argument is a record of a number and a text, for    *)
(* va_arg() takes either.  A buffer of two bytes would never be full.      *)
Argument == [n : Int, text : Seq(Char)]
Call     == [fmt : Seq(Char), args : Seq(Argument), means : Seq(Char)]

ASSUME StreamConstants ==
  /\ BufLen \in Nat /\ BufLen >= 3 /\ Words \in Nat \ {0}
  /\ NUL \notin Char
  /\ {LeftBrace, RightBrace, "?", "d", "u", "s", "x", "o", "-"} \subseteq Char
  /\ DigitChar \in [0 .. 15 -> Char]
  /\ Calls \subseteq Call

VARIABLES
  pc,                        (* "idle", "parse", "digits" or "text"        *)
  buf, buf_i,                (* the stream's                               *)
  call, args,                (* the call, and the arguments not yet taken  *)
  i, parse_mode, arg,        (* vfprintf()'s locals                        *)
  val, base, todo,           (* what is being converted, what to push      *)
  out,                       (* what the writer has taken during this call *)
  spoiled                    (* ghost: a text was refused during this call *)
                             (* or is still in the buffer from one before  *)

stream == <<buf, buf_i, out, spoiled>>
parser == <<call, args, i, parse_mode, arg>>
number == <<val, base, todo>>
vars   == <<pc, stream, parser, number>>

fmt == call.fmt

Indexes == 0 .. BufLen - 1
Empty   == [k \in Indexes |-> NUL]

----------------------------------------------------------------------------
(* The stream.                                                             *)

strlen(b) ==
  CHOOSE n \in Indexes : b[n] = NUL /\ \A m \in 0 .. n - 1 : b[m] # NUL

Terminated(b) == [b EXCEPT ![BufLen - 1] = NUL]

(* Mutant: memset() of buf_i bytes, when buf_i is 0 already.               *)
ClearedByIndex(b) == b

(* memset() of memory.c stops at the first byte that is zero.              *)
Cleared(b) == [k \in Indexes |-> IF k < strlen(b) THEN NUL ELSE b[k]]

(* The bytes from the first up to the second index, as a text.             *)
Chunk(b, from, to) == [k \in 1 .. to - from |-> b[from + k - 1]]
TextOf(b)          == Chunk(b, 0, strlen(b))

(* print_stream_buf() of the buffer b: the writer takes its text or not.   *)
(* Whoever calls it sets buf_i to 0.                                       *)
print_stream_buf(b) ==
  LET t == Terminated(b)
  IN  /\ buf_i' = 0
      /\ \/ out' = out \o TextOf(t) /\ buf' = Cleared(t) /\ UNCHANGED spoiled
         \/ buf' = t /\ spoiled' = TRUE /\ UNCHANGED out

(* Mutant: room for the terminator only.                                   *)
FullLate(k) == k = BufLen - 1

(* The buffer is full when its last two bytes are left.                    *)
Full(k) == k = BufLen - 2

(* push_to_buf(): its error is that the writer has refused.                *)
Stored(c) == [buf EXCEPT ![buf_i] = c]

PushQuietly(c) ==
  /\ ~Full(buf_i + 1)
  /\ buf' = Stored(c) /\ buf_i' = buf_i + 1
  /\ UNCHANGED <<out, spoiled>>

PushAndPrint(c) ==
  /\ Full(buf_i + 1)
  /\ print_stream_buf(Stored(c))

push_to_buf(c) == PushQuietly(c) \/ PushAndPrint(c)

Refused == Full(buf_i + 1) /\ out' = out

----------------------------------------------------------------------------
NoCall == [fmt |-> <<>>, args |-> <<>>, means |-> <<>>]

(* Between two calls the locals have these values.                         *)
Init ==
  /\ pc = "idle"
  /\ buf = Empty /\ buf_i = 0 /\ out = <<>> /\ spoiled = FALSE
  /\ call = NoCall /\ args = <<>>
  /\ i = 1 /\ parse_mode = "normal" /\ arg = NUL
  /\ val = 0 /\ base = 10 /\ todo = <<>>

vfprintf(c) ==
  /\ pc = "idle" /\ pc' = "parse"
  /\ call' = c /\ args' = c.args
  /\ out' = <<>> /\ spoiled' = (buf # Empty)
  /\ UNCHANGED <<buf, buf_i, i, parse_mode, arg, number>>

(* The parser has come to a character of this set.                         *)
Meets(chars) == pc = "parse" /\ i <= Len(fmt) /\ fmt[i] \in chars

Onward == i' = i + 1 /\ UNCHANGED call

Switch(from, to) ==
  /\ parse_mode = from /\ parse_mode' = to
  /\ Onward
  /\ UNCHANGED <<pc, stream, args, arg, number>>

Open  == Meets({LeftBrace}) /\ Switch("normal", "format")
Close == Meets({RightBrace}) /\ Switch("format", "normal")
Ask   == Meets({"?"}) /\ Switch("format", "argument")

Special == {LeftBrace, RightBrace, "?", "d", "u", "s"}

SetArg ==
  /\ Meets(Char \ Special)
  /\ parse_mode = "argument" /\ parse_mode' = "format"
  /\ arg' = fmt[i]
  /\ Onward
  /\ UNCHANGED <<pc, stream, args, number>>

(* The second brace of an escaped one.                                     *)
Escaped ==
  /\ Meets({LeftBrace}) /\ parse_mode # "normal" /\ parse_mode' = "normal"
  /\ push_to_buf(LeftBrace)
  /\ Onward
  /\ UNCHANGED <<pc, args, arg, number>>

Plain ==
  /\ \/ parse_mode = "normal" /\ Meets(Char \ {LeftBrace})
     \/ parse_mode = "argument" /\ Meets(Special \ {LeftBrace})
     \/ parse_mode = "format" /\ Meets(Char \ Special)
  /\ push_to_buf(fmt[i])
  /\ Onward
  /\ UNCHANGED <<pc, args, parse_mode, arg, number>>

(* Mutant: the base outlives its directive.                                *)
KeepArg == UNCHANGED arg

EndOfSpecifier == arg' = NUL

(* A call passes as many arguments as its format takes.                    *)
Take == args # <<>> /\ args' = Tail(args)

int_display_flag_to_base(flag) == IF flag \in DOMAIN BaseOf THEN BaseOf[flag] ELSE 10

Directive(c) ==
  /\ Meets({c}) /\ parse_mode = "format"
  /\ Onward /\ Take /\ EndOfSpecifier
  /\ UNCHANGED parse_mode

(* The digits are those of the number as an unsigned one.                  *)
Number ==
  /\ \/ /\ Directive("d")
        /\ IF args[1].n < 0 THEN push_to_buf("-") ELSE UNCHANGED stream
     \/ /\ Directive("u")
        /\ UNCHANGED stream
  /\ val' = args[1].n % Words
  /\ base' = int_display_flag_to_base(arg)
  /\ pc' = "digits" /\ UNCHANGED todo

String ==
  /\ Directive("s")
  /\ todo' = args[1].text /\ pc' = "text"
  /\ UNCHANGED <<stream, val, base>>

(* push_int_to_buf(): zero has no digit.                                   *)
Digit ==
  /\ pc = "digits" /\ val # 0
  /\ todo' = <<DigitChar[val % base]>> \o todo /\ val' = val \div base
  /\ UNCHANGED <<pc, stream, parser, base>>

EndOfDigits ==
  /\ pc = "digits" /\ val = 0
  /\ pc' = "text" /\ base' = 10
  /\ UNCHANGED <<stream, parser, val, todo>>

AfterPush == todo' = IF Refused THEN <<>> ELSE Tail(todo)

(* push_all_to_buf(): the rest of a text is dropped when one write fails.  *)
PushText ==
  /\ pc = "text" /\ todo # <<>>
  /\ push_to_buf(todo[1])
  /\ AfterPush
  /\ UNCHANGED <<pc, parser, val, base>>

EndOfText ==
  /\ pc = "text" /\ todo = <<>>
  /\ pc' = "parse"
  /\ UNCHANGED <<stream, parser, number>>

(* The last flush; vfprintf() returns 0 whatever the writer has answered.  *)
Return ==
  /\ pc = "parse" /\ i = Len(fmt) + 1
  /\ print_stream_buf(buf)
  /\ pc' = "idle" /\ call' = NoCall /\ args' = <<>>
  /\ i' = 1 /\ parse_mode' = "normal" /\ arg' = NUL
  /\ UNCHANGED number

Run == \/ Open \/ Close \/ Ask \/ SetArg \/ Escaped \/ Plain
       \/ Number \/ String \/ Digit \/ EndOfDigits \/ PushText \/ EndOfText
       \/ Return

Next == Run \/ \E c \in Calls : vfprintf(c)

Spec == Init /\ [][Next]_vars
=============================================================================
