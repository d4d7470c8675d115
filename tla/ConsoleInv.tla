---------------------------- MODULE ConsoleInv ----------------------------
(* What is checked of Console.                                             *)
EXTENDS Console

(* print.c:374 steps over a colour without looking for the terminating     *)
(* zero: in a format whose colours have six digits it is never passed.     *)
NeverPastEnd == p <= Len(fmt) + 1

(* What a format is to print: the text of its plain pieces and the         *)
(* arguments of its directives, in order.                                  *)
Meaning(k) ==
  CASE pieces[k].kind = "text"     -> pieces[k].chars
    [] pieces[k].kind = "argument" -> args[Taken(pieces, k)]
    [] pieces[k].kind = "nothing"  -> <<>>

Meant == FlattenSeq([k \in DOMAIN pieces |-> Meaning(k)])

(* The parser's three states read every piece as it is meant: when Print() *)
(* comes to the end it has printed that, character by character.           *)
PrintsWhatIsMeant == (pc = "format" /\ p = Len(fmt) + 1) => shown = Meant

(* A glyph, and the column of pixels tPrintChar() leaves free on its left, *)
(* lie within the line, unless a tab led there or printStr(), which counts *)
(* from the left margin wherever the cursor is and leaves it a margin from *)
(* the edge.                                                               *)
GlyphsFit == \A g \in last : g.jumped \/ g.x + CellWidth <= Width

(* No glyph is drawn over another: every one stands right of the one       *)
(* before or on a lower line, whichever loops drew the two.                *)
ReadingOrder ==
  [][\A g \in last, h \in last' :
       \/ h = g
       \/ h.y = g.y /\ h.x >= g.x + CellWidth
       \/ h.y >= g.y + CellHeight]_vars

(* Wherever tPrintStr() is told to begin, even far below the screen, its   *)
(* glyphs lie within the framebuffer: the test of its last line allows for *)
(* a whole glyph, and what it goes on with after clearing the screen (y    *)
(* and x from the top, the column from before) is on it.                   *)
LabelsInside ==
  (Labelling /\ text[i] # "newline" /\ j < room) => CharInside(LabelPlace)

(* Every call comes to its end, for any state of the serial port, unless a *)
(* number begins where not one digit has room, or tPrintStr() meets a      *)
(* newline: these two loops never end.                                     *)
CallsReturn ==
  pc # "idle" ~> \/ pc = "idle"
                 \/ pc = "number" /\ room <= 0
                 \/ Labelling /\ text[i] = "newline"

----------------------------------------------------------------------------
(* What the theorems about the console assume; the shipped kernel and the  *)
(* instance for TLC are so.                                                *)

(* What is counted on a line has room in an int.                           *)
WidthsFit == WordBits >= IntBits /\ Width < 2^(IntBits-1)

(* The font goes with the margin: a cell of 9 pixels and print.c:18's 5.   *)
(* The cursor begins within the margins.                                   *)
MarginFits == /\ Margin <= 5 /\ 5 + 2 * Margin <= Width
              /\ CellWidth <= 2 * Margin

(* The caller's labels begin within a row, and the framebuffer has a row   *)
(* of glyphs below and right of tPrintStr()'s restart at 5, 5.             *)
LabelsBegin == /\ \A q \in Places : q.x <= Width
               /\ Height >= FontHeight + 6 /\ Width >= 6 /\ PixelBytes >= 3

(* The model's bound on y, which the code does not have, is not met.       *)
RoomBelow == cursor.y + CellHeight <= LastY

(* A sign # in a format begins a colour: it is followed by the end of the  *)
(* colour, or by the six digits and then the end.                          *)
Ends == {RightBrace, "."}

ColorsEnd ==
  \A f \in Formats : \A q \in DOMAIN Written(f) :
    Written(f)[q] = "#" =>
      \/ q = Len(Written(f))
      \/ Written(f)[q+1] \in Ends
      \/ q + 7 <= Len(Written(f)) /\ Written(f)[q+7] \in Ends

(* The language of formats: a piece outside of braces and a piece within,  *)
(* and whether braces are open behind it.  A colour may be empty.          *)
Outside(q, open) ==
  \/ q.chars = <<LeftBrace>> /\ q.kind = "nothing" /\ open
  \/ Len(q.chars) = 1 /\ q.chars[1] # LeftBrace /\ q.kind = "text" /\ ~open

Colour(q, open) ==
  /\ q.kind = "nothing" /\ q.chars[1] = "#"
  /\ Len(q.chars) = 2 \/ (Len(q.chars) = 8 /\ q.chars[2] \notin Ends)
  /\ q.chars[Len(q.chars)] \in Ends /\ (open <=> q.chars[Len(q.chars)] = ".")

Inside(q, open) ==
  \/ Len(q.chars) = 1 /\ q.chars[1] \in Directives /\ q.kind = "argument" /\ open
  \/ /\ Len(q.chars) = 1 /\ q.chars[1] \notin Directives \cup {"#", RightBrace}
     /\ q.kind = "text" /\ open
  \/ q.chars = <<RightBrace>> /\ q.kind = "nothing" /\ ~open
  \/ Colour(q, open)

Legible(f, open) ==
  /\ open \in [0 .. Len(f) -> BOOLEAN] /\ open[0] = FALSE
  /\ \A k \in 1 .. Len(f) :
       IF open[k-1] THEN Inside(f[k], open[k]) ELSE Outside(f[k], open[k])

FormatsLegible == \A f \in Formats : \E open \in [0 .. Len(f) -> BOOLEAN] : Legible(f, open)
=============================================================================
