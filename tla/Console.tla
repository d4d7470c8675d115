------------------------------ MODULE Console ------------------------------
(***************************************************************************)
(* kernel/print/print.c: Print() and what it calls, the cursor in term_ctx *)
(* and the wait for the serial port; and the texts of printbasic.c, which  *)
(* have a position of their own but clear the screen for all.  A character *)
(* is a one-letter string, a colour its six hexadecimal digits.            *)
(***************************************************************************)
EXTENDS Drawing, SequencesExt

CONSTANTS
  Margin,      (* term_ctx.margin                                          *)
  TabSize,     (* term_ctx.tab_size                                        *)
  WordBits,    (* the width of uint64 and                                  *)
  IntBits,     (* of int                                                   *)
  Behind,      (* what may stand behind sc[6] up to a zero byte: digits    *)
  Formats,     (* the formats Print() is called with: sequences of pieces  *)
  Strings,     (* the texts printStr() is called with,                     *)
  Labels,      (* and tPrintStr() and tPrintInt(), at one of               *)
  Places,      (* these positions                                          *)
  MaxX, MaxY,  (* bounds: no call begins further right or down than this,  *)
  LastY        (* and y stays at LastY, which only an endless loop reaches *)

LeftBrace  == "{"
RightBrace == "}"

(* A piece of a format is a record: the characters it is written with, the *)
(* arguments it may come with, each a text, and what it is to print: its   *)
(* text, its argument or nothing.                                          *)
Kinds == {"text", "argument", "nothing"}
Piece == [chars : Seq(STRING), kind : Kinds, args : SUBSET Seq(STRING)]

ASSUME ConsoleConstants ==
  /\ {Margin, TabSize, WordBits, IntBits} \subseteq Nat \ {0}
  /\ {MaxX, MaxY, LastY} \subseteq Nat /\ Places \subseteq [x : Nat, y : Nat]
  /\ Formats \subseteq Seq(Piece)

VARIABLES
  pc,                    (* "idle", "format", "number", "chars", "string"  *)
                         (* or, in tPrintStr(), "label"                    *)
  cursor,                (* term_ctx.x and term_ctx.y; ghost: whether a    *)
                         (* tab or printStr() moved it on this line        *)
  pieces, args,          (* the call's format and its arguments            *)
  p, state, color, arg,  (* Print()'s locals; arg counts va_arg()          *)
  text, i, j, room, at,  (* the text being printed and its loop's locals;  *)
                         (* at is tPrintStr()'s x and y                    *)
  ready,                 (* the serial transmitter is empty                *)
  shown,                 (* the characters this call has printed           *)
  last                   (* where the last glyph on this screen is, if any *)

parser == <<pieces, args, p, state, color, arg>>
loop   == <<text, i, j, room, at>>
vars   == <<pc, cursor, parser, loop, ready, shown, last>>

Origin == [x |-> 0, y |-> 0]
white  == <<"f", "f", "f", "f", "f", "f">>
Home   == [x |-> 5, y |-> 5, jumped |-> FALSE]

(* The characters of a format.                                             *)
Written(f) == FlattenSeq([k \in DOMAIN f |-> f[k].chars])
fmt        == Written(pieces)

(* A number of n bits, unsigned or as an int.                              *)
Word(n)  == n % 2^WordBits
AsInt(n) == LET low == n % 2^IntBits
            IN  IF low >= 2^(IntBits-1) THEN low - 2^IntBits ELSE low

----------------------------------------------------------------------------
(* The cursor.                                                             *)

(* Mutant: the column only.                                                *)
CarriageReturn(c) == [c EXCEPT !.x = Margin]

Below(y) == IF y + CellHeight > LastY THEN LastY ELSE y + CellHeight

NewLine(c) == [x |-> Margin, y |-> Below(c.y), jumped |-> FALSE]

(* Mutant: the margins are forgotten.                                      *)
AfterGlyphAtEdge(c) ==
  IF c.x + CellWidth >= Width THEN NewLine(c) ELSE [c EXCEPT !.x = @ + CellWidth]

AfterGlyph(c) ==
  IF c.x + CellWidth >= Word(Width - 2 * Margin)
  THEN NewLine(c) ELSE [c EXCEPT !.x = @ + CellWidth]

Draw(ch, next) ==
  /\ cursor' = next
  /\ last' = {cursor}
  /\ shown' = Append(shown, ch)

printChar(ch) ==
  \/ /\ ch = "newline"
     /\ cursor' = NewLine(cursor) /\ shown' = Append(shown, ch)
     /\ UNCHANGED last
  \/ /\ ch = "tab"
     /\ cursor' = [cursor EXCEPT !.x = @ + TabSize * CellWidth, !.jumped = TRUE]
     /\ shown' = Append(shown, ch)
     /\ UNCHANGED last
  \/ /\ ch \notin {"newline", "tab"}
     /\ Draw(ch, AfterGlyph(cursor))

----------------------------------------------------------------------------
(* Between two calls the locals have these values.                         *)
Init ==
  /\ pc = "idle" /\ cursor = Home
  /\ pieces = <<>> /\ args = <<>>
  /\ p = 1 /\ state = "normal" /\ color = white /\ arg = 0
  /\ text = <<>> /\ i = 1 /\ j = 0 /\ room = 0 /\ at = Origin
  /\ ready = TRUE /\ shown = <<>> /\ last = {}

LeaveLoop == text' = <<>> /\ i' = 1 /\ j' = 0 /\ room' = 0 /\ at' = Origin

Return ==
  /\ pc' = "idle" /\ shown' = <<>>
  /\ pieces' = <<>> /\ args' = <<>>
  /\ p' = 1 /\ state' = "normal" /\ color' = white /\ arg' = 0
  /\ LeaveLoop

CanBegin == pc = "idle" /\ cursor.x <= MaxX /\ cursor.y <= MaxY

PrintFormat(f, a) ==
  /\ CanBegin
  /\ pc' = "format" /\ pieces' = f /\ args' = a
  /\ UNCHANGED <<cursor, p, state, color, arg, loop, ready, shown, last>>

printStr(s) ==
  /\ CanBegin
  /\ pc' = "string" /\ text' = s /\ i' = 1 /\ j' = 0
  /\ room' = AsInt(Word(Width - 2 * Margin) \div CellWidth)
  /\ cursor' = [cursor EXCEPT !.jumped = TRUE]
  /\ UNCHANGED <<parser, at, ready, shown, last>>

tPrintStr(s, place) ==
  /\ CanBegin
  /\ pc' = "label" /\ text' = s /\ i' = 1 /\ j' = 0
  /\ room' = AsInt(Word(Width - place.x) \div CellWidth)
  /\ at' = place
  /\ UNCHANGED <<cursor, parser, ready, shown, last>>

fillScreen == cursor' = Home /\ last' = AfterFill(last)

ClearScreen ==
  /\ pc = "idle"
  /\ fillScreen
  /\ UNCHANGED <<pc, parser, loop, ready, shown>>

(* The port sends the character it was given.                              *)
Transmitted ==
  /\ ~ready /\ ready' = TRUE
  /\ UNCHANGED <<pc, cursor, parser, loop, shown, last>>

(* writeSerial() of the character the parser has come to.                  *)
Visit(ch) ==
  /\ pc = "format" /\ p <= Len(fmt) /\ ch = fmt[p]
  /\ ready /\ ready' = FALSE

(* The parser goes on with the next character, without printing, or after. *)
Go(newState) ==
  /\ p' = p + 1 /\ state' = newState
  /\ UNCHANGED <<pc, pieces, args, color, arg, loop>>

Normal ==
  /\ state = "normal"
  /\ \/ /\ Visit(LeftBrace) /\ Go("format")
        /\ UNCHANGED <<cursor, shown, last>>
     \/ \E ch \in ToSet(fmt) \ {LeftBrace} : Visit(ch) /\ printChar(ch) /\ Go("normal")

Take == arg' = arg + 1

(* Digits printInt() and printUint() expect to fit into the current line.  *)
Room == AsInt(Word(Width - 2 * Margin - cursor.x) \div CellWidth)

Numbers    == {"d", "o", "x", "u", "y", "X"}
Directives == Numbers \cup {"s", "c"}

(* A directive takes its argument and prints it in a loop of its own; the  *)
(* character behind it is parsed when the loop has ended.                  *)
Directive ==
  /\ state = "format"
  /\ \E ch \in Directives :
       /\ Visit(ch) /\ Take
       /\ text' = args[arg + 1] /\ i' = 1 /\ j' = 0
       /\ \/ /\ ch \in Numbers
             /\ pc' = "number" /\ room' = Room
          \/ /\ ch \notin Numbers
             /\ pc' = "chars" /\ UNCHANGED room
  /\ UNCHANGED <<cursor, pieces, args, p, state, color, at, shown, last>>

Format ==
  /\ state = "format"
  /\ \/ /\ Visit("#") /\ Go("color")
        /\ UNCHANGED <<cursor, shown, last>>
     \/ /\ Visit(RightBrace) /\ Go("normal")
        /\ UNCHANGED <<cursor, shown, last>>
     \/ \E ch \in ToSet(fmt) \ (Directives \cup {"#", RightBrace}) :
          Visit(ch) /\ printChar(ch) /\ Go("format")

(* Mutant: the point ends the directive.                                   *)
AfterColorAlways(ch) == "normal"

AfterColor(ch) == IF ch = "." THEN "format" ELSE "normal"

(* Mutant: p += 6.                                                         *)
PastColorByOne == p + 7

PastColor == p + 6

(* xtou64() reads on behind sc[] until it meets a zero byte, each byte     *)
(* pushes the digits one place up, and a pixel takes the lowest six.       *)
xtou64(sc) == { LET all == sc \o more
                IN  SubSeq(all, Len(all) - 5, Len(all)) : more \in Behind }

(* sc[]; what stands behind a format that ends in its colour is not known  *)
(* and taken for zeros here.                                               *)
Digits == [k \in 1 .. 6 |-> IF p + k - 1 <= Len(fmt) THEN fmt[p + k - 1] ELSE "0"]

Color ==
  /\ state = "color"
  /\ \/ \E ch \in {RightBrace, "."} : Visit(ch) /\ Go(AfterColor(ch))
     \/ /\ \E ch \in ToSet(fmt) \ {RightBrace, "."} : Visit(ch)
        /\ color' \in xtou64(Digits)
        /\ p' = PastColor
        /\ UNCHANGED <<pc, pieces, args, state, arg, loop>>
  /\ UNCHANGED <<cursor, shown, last>>

(* Print() returns at the terminating zero.                                *)
EndOfFormat ==
  /\ pc = "format" /\ p = Len(fmt) + 1
  /\ Return
  /\ UNCHANGED <<cursor, ready, last>>

----------------------------------------------------------------------------
(* The loops over a text.                                                  *)

(* {s} and {c}                                                             *)
Character ==
  /\ pc = "chars" /\ i <= Len(text)
  /\ printChar(text[i]) /\ i' = i + 1
  /\ UNCHANGED <<pc, parser, text, j, room, at, ready>>

Counting == pc \in {"number", "string"} /\ i <= Len(text)

(* Mutant: the count goes on.                                              *)
RestartCounting == UNCHANGED j

Restart == j' = 0

(* A number goes by the count of the line it began on.                     *)
NextLine == [NewLine(cursor) EXCEPT !.jumped = cursor.jumped /\ pc = "number"]

LineBreak ==
  /\ Counting /\ text[i] = "newline"
  /\ cursor' = NextLine /\ shown' = Append(shown, text[i])
  /\ i' = i + 1 /\ Restart
  /\ UNCHANGED <<pc, parser, text, room, at, ready, last>>

LineFull ==
  /\ Counting /\ text[i] # "newline" /\ j >= room
  /\ cursor' = NextLine /\ Restart
  /\ UNCHANGED <<pc, parser, text, i, room, at, ready, shown, last>>

Glyph ==
  /\ Counting /\ text[i] # "newline" /\ j < room
  /\ Draw(text[i], [cursor EXCEPT !.x = @ + CellWidth])
  /\ i' = i + 1 /\ j' = j + 1
  /\ UNCHANGED <<pc, parser, text, room, at, ready>>

(* tPrintStr().  On a newline it steps back and meets it again; when the   *)
(* line is full it does not, and the character is lost.                    *)
Labelling == pc = "label" /\ i <= Len(text)

LabelBreak ==
  /\ Labelling
  /\ \/ text[i] = "newline" /\ UNCHANGED i
     \/ text[i] # "newline" /\ j >= room /\ i' = i + 1
  /\ j' = 0 /\ at' = [at EXCEPT !.y = Below(at.y)]
  /\ UNCHANGED <<pc, cursor, parser, text, room, ready, shown, last>>

(* Mutant: the height of the glyph is forgotten.                           *)
LowAtEdge(y) == y >= Height

(* There is no room for a line here.                                       *)
Low(y) == y >= Height - FontHeight

(* The screen is cleared, and the text goes on at its top, in the column   *)
(* it had come to.                                                         *)
LabelStart == IF Low(at.y) THEN [x |-> Home.x, y |-> Home.y] ELSE at
LabelPlace == [LabelStart EXCEPT !.x = @ + CellWidth * j]

LabelGlyph ==
  /\ Labelling /\ text[i] # "newline" /\ j < room
  /\ at' = LabelStart
  /\ IF Low(at.y) THEN fillScreen ELSE UNCHANGED <<cursor, last>>
  /\ i' = i + 1 /\ j' = j + 1 /\ shown' = Append(shown, text[i])
  /\ UNCHANGED <<pc, parser, text, room, ready>>

(* The text is printed: Print() parses on, the others return.              *)
EndOfText ==
  /\ i > Len(text)
  /\ \/ /\ pc \in {"number", "chars"}
        /\ pc' = "format" /\ p' = p + 1 /\ LeaveLoop
        /\ UNCHANGED <<cursor, pieces, args, state, color, arg, shown>>
     \/ /\ pc = "string"
        /\ Return
        /\ cursor' = [cursor EXCEPT !.jumped = TRUE]
     \/ /\ pc = "label"
        /\ Return /\ UNCHANGED cursor
  /\ UNCHANGED <<ready, last>>

Run == \/ Normal \/ Directive \/ Format \/ Color \/ EndOfFormat
       \/ Character \/ LineBreak \/ LineFull \/ Glyph \/ EndOfText
       \/ LabelBreak \/ LabelGlyph

(* How many arguments the first k pieces of a format take.                 *)
Taken(f, k) == Cardinality({q \in 1 .. k : f[q].kind = "argument"})

(* The arguments a format may be called with.                              *)
ArgumentsOf(f) ==
  { a \in [1 .. Taken(f, Len(f)) -> UNION {f[k].args : k \in DOMAIN f}] :
      \A k \in DOMAIN f : f[k].kind = "argument" => a[Taken(f, k)] \in f[k].args }

Calls ==
  \/ \E f \in Formats : \E a \in ArgumentsOf(f) : PrintFormat(f, a)
  \/ \E s \in Strings : printStr(s)
  \/ \E s \in Labels, place \in Places : tPrintStr(s, place)
  \/ ClearScreen

Next == Run \/ Calls \/ Transmitted

Spec == Init /\ [][Next]_vars /\ WF_vars(Run) /\ WF_vars(Transmitted)
=============================================================================
