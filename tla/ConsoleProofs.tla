--------------------------- MODULE ConsoleProofs ---------------------------
(***************************************************************************)
(* Proofs about Console, for every framebuffer, font, set of texts and     *)
(* widths of the integers that satisfy the theorem's hypotheses, which are *)
(* stated in module ConsoleInv.                                            *)
(***************************************************************************)
EXTENDS ConsoleInv, SequenceTheorems, Induction

----------------------------------------------------------------------------
(* Arithmetic.                                                             *)

LEMMA Dimensions ==
  /\ Width \in Nat \ {0} /\ Height \in Nat \ {0} /\ PixelBytes \in Nat \ {0}
  /\ Pitch \in Nat \ {0} /\ CellWidth \in Nat \ {0, 1} /\ CellHeight \in Nat \ {0, 1}
  /\ Pitch >= Width * PixelBytes /\ Height >= CellHeight
  /\ Margin \in Nat \ {0} /\ TabSize \in Nat \ {0}
  /\ WordBits \in Nat \ {0} /\ IntBits \in Nat \ {0} /\ LastY \in Nat
  /\ Places \subseteq [x : Nat, y : Nat]
BY DrawingConstants, ConsoleConstants

LEMMA SmallMod ==
  ASSUME NEW n \in Nat, NEW m \in Nat, n < m  PROVE n % m = n
OBVIOUS

(* A difference that is not negative and that fits is what C computes.     *)
LEMMA FittingNumbers ==
  ASSUME WidthsFit, NEW n \in Nat, n <= Width
  PROVE  Word(n) = n /\ AsInt(n) = n
<1> DEFINE half == 2^(IntBits-1)
<1>1. IntBits - 1 \in Nat /\ IntBits = (IntBits - 1) + 1 /\ WordBits \in Nat
  BY Dimensions
<1>2. half \in Nat /\ 2^IntBits = 2 * half /\ 2^WordBits \in Nat  BY <1>1, TwoPower
<1>3. 2^WordBits >= half  BY <1>1, PowersGrow DEF WidthsFit
<1>4. n < half  BY Dimensions DEF WidthsFit
<1> HIDE DEF half
<1>5. n < 2^WordBits /\ n < 2^IntBits  BY <1>2, <1>3, <1>4
<1>6. n % 2^WordBits = n
  <2> DEFINE m == 2^WordBits
  <2>1. m \in Nat /\ n < m  BY <1>2, <1>5
  <2> HIDE DEF m
  <2>2. n % m = n  BY <2>1, SmallMod
  <2> QED  BY <2>2 DEF m
<1>7. n % 2^IntBits = n
  <2> DEFINE m == 2^IntBits
  <2>1. m \in Nat /\ n < m  BY <1>2, <1>5
  <2> HIDE DEF m
  <2>2. n % m = n  BY <2>1, SmallMod
  <2> QED  BY <2>2 DEF m
<1>8. ~(n >= half)  BY <1>2, <1>4
<1> QED  BY <1>6, <1>7, <1>8 DEF Word, AsInt, half

(* The number of cells that fit.                                           *)
LEMMA Cells ==
  ASSUME WidthsFit, NEW n \in Nat, n <= Width
  PROVE  LET r == AsInt(Word(n) \div CellWidth)
         IN  r \in Nat /\ r * CellWidth <= n
<1> DEFINE r == n \div CellWidth
<1>1. CellWidth \in Nat \ {0, 1}  BY Dimensions
<1>2. r \in Nat /\ n = CellWidth * r + (n % CellWidth) /\ n % CellWidth \in Nat
  BY <1>1
<1> HIDE DEF r
<1>3. r * CellWidth <= n /\ r <= n
  <2>1. CellWidth * r = r * CellWidth /\ CellWidth * r \in Nat  BY <1>1, <1>2
  <2>2. r <= CellWidth * r  BY <1>1, <1>2
  <2> QED  BY <1>2, <2>1, <2>2
<1>4. Word(n) = n /\ AsInt(r) = r
  BY <1>2, <1>3, FittingNumbers, Dimensions
<1> QED  BY <1>2, <1>3, <1>4 DEF r

----------------------------------------------------------------------------
(* GlyphsFit.                                                              *)

Cursors == [x : Nat, y : Nat, jumped : BOOLEAN]

(* Where the loops and the parser may begin a glyph.                       *)
Fitting(c) == c.jumped \/ c.x <= Width - 2 * Margin

Drawn(glyphs) == \A g \in glyphs : g.jumped \/ g.x + CellWidth <= Width

(* The loop over a number has room for the digits it still counts, on this *)
(* line and, from the margin, on the next.                                 *)
NumberOK ==
  /\ room \in Nat /\ j \in Nat /\ j <= room
  /\ cursor.x + (room - j) * CellWidth <= Width - 2 * Margin
  /\ Margin + room * CellWidth <= Width - 2 * Margin

(* printStr() counts from the margin, where it is from its second line on. *)
StringOK ==
  /\ room \in Nat /\ room * CellWidth <= Width - 2 * Margin
  /\ ~cursor.jumped => j \in Nat /\ j <= room /\ cursor.x = Margin + j * CellWidth

LineOK ==
  /\ cursor \in Cursors /\ cursor.x >= Margin
  /\ Drawn(last)
  /\ pc \notin {"number", "string"} => Fitting(cursor)
  /\ pc = "number" /\ ~cursor.jumped => NumberOK
  /\ pc = "string" => StringOK

LEMMA Lines ==
  ASSUME MarginFits, NEW c \in Cursors
  PROVE  /\ NewLine(c) \in Cursors /\ NewLine(c).x = Margin /\ Fitting(NewLine(c))
         /\ Home \in Cursors /\ Home.x >= Margin /\ Fitting(Home)
BY Dimensions DEF MarginFits, Cursors, NewLine, Below, Home, Fitting

(* printChar() leaves the cursor where another glyph fits.                 *)
LEMMA CharPrinted ==
  ASSUME MarginFits, WidthsFit, cursor \in Cursors, cursor.x >= Margin, Drawn(last),
         Fitting(cursor), NEW ch, printChar(ch)
  PROVE  cursor' \in Cursors /\ cursor'.x >= Margin /\ Drawn(last)' /\ Fitting(cursor')
<1>1. CASE ch = "newline" /\ cursor' = NewLine(cursor) /\ UNCHANGED last
  BY <1>1, Lines, Dimensions DEF Drawn
<1>2. CASE cursor' = [cursor EXCEPT !.x = @ + TabSize * CellWidth, !.jumped = TRUE]
           /\ UNCHANGED last
  <2> DEFINE tab == TabSize * CellWidth
  <2>1. tab \in Nat /\ cursor' = [cursor EXCEPT !.x = @ + tab, !.jumped = TRUE]
    BY <1>2, Dimensions
  <2> HIDE DEF tab
  <2>2. cursor' = [x |-> cursor.x + tab, y |-> cursor.y, jumped |-> TRUE]
    BY <2>1 DEF Cursors
  <2>3. cursor.x \in Nat /\ cursor.y \in Nat  BY DEF Cursors
  <2>4. cursor'.x = cursor.x + tab /\ cursor'.y = cursor.y /\ cursor'.jumped = TRUE
    BY <2>2
  <2>5. cursor' \in Cursors
    <3>1. cursor.x + tab \in Nat /\ TRUE \in BOOLEAN  BY <2>1, <2>3
    <3> QED  BY <2>2, <2>3, <3>1, Zenon DEF Cursors
  <2>6. cursor'.x >= Margin  BY <2>1, <2>3, <2>4, Dimensions
  <2> QED  BY <1>2, <2>4, <2>5, <2>6 DEF Drawn, Fitting
<1>3. CASE Draw(ch, AfterGlyph(cursor))
  <2>1. cursor' = AfterGlyph(cursor) /\ last' = {cursor}  BY <1>3 DEF Draw
  <2>2. Drawn(last)'
    BY <2>1, Dimensions DEF Drawn, Fitting, MarginFits, Cursors
  <2>3. Word(Width - 2 * Margin) = Width - 2 * Margin
    BY Dimensions, FittingNumbers DEF MarginFits
  <2>4. CASE cursor.x + CellWidth >= Width - 2 * Margin
    <3>1. cursor' = NewLine(cursor)  BY <2>1, <2>3, <2>4 DEF AfterGlyph
    <3> QED  BY <2>2, <3>1, Lines, Dimensions
  <2>5. CASE ~(cursor.x + CellWidth >= Width - 2 * Margin)
    <3>1. cursor' = [cursor EXCEPT !.x = @ + CellWidth]  BY <2>1, <2>3, <2>5 DEF AfterGlyph
    <3>2. cursor' \in Cursors /\ cursor'.x = cursor.x + CellWidth
      BY <3>1, Dimensions DEF Cursors
    <3>3. cursor.x \in Nat  BY DEF Cursors
    <3> QED  BY <2>2, <2>5, <3>2, <3>3, Dimensions DEF Fitting
  <2> QED  BY <2>4, <2>5
<1> QED  BY <1>1, <1>2, <1>3 DEF printChar

LEMMA ClearedOK ==
  ASSUME MarginFits, Drawn(last), fillScreen
  PROVE  cursor' = Home /\ Drawn(last)'
BY DEF fillScreen, AfterFill, printRectangle, Drawn

(* A directive for a number finds out how many digits have room.           *)
LEMMA NumberBegins ==
  ASSUME MarginFits, WidthsFit, LineOK, pc = "format", ~cursor.jumped,
         pc' = "number", room' = Room, j' = 0, UNCHANGED cursor
  PROVE  NumberOK'
<1> DEFINE n == Width - 2 * Margin - cursor.x
<1>1. cursor.x \in Nat /\ cursor.x >= Margin /\ cursor.x <= Width - 2 * Margin
  BY DEF LineOK, Fitting, Cursors
<1>2. n \in Nat /\ n <= Width  BY <1>1, Dimensions
<1> HIDE DEF n
<1>3. AsInt(Word(n) \div CellWidth) \in Nat /\ AsInt(Word(n) \div CellWidth) * CellWidth <= n
  BY <1>2, Cells
<1>4. room' = AsInt(Word(n) \div CellWidth)  BY DEF Room, n
<1>5. room' \in Nat /\ room' * CellWidth <= n  BY <1>3, <1>4
<1>6. (room' - 0) * CellWidth = room' * CellWidth /\ room' * CellWidth \in Nat
  BY <1>5, Dimensions
<1>7. /\ cursor.x + room' * CellWidth <= Width - 2 * Margin
      /\ Margin + room' * CellWidth <= Width - 2 * Margin
  <2> DEFINE c == room' * CellWidth
  <2>1. c \in Nat /\ c <= n  BY <1>5, <1>6
  <2> HIDE DEF c
  <2>2. cursor.x + c <= Width - 2 * Margin /\ Margin + c <= Width - 2 * Margin
    BY <1>1, <2>1, Dimensions DEF n
  <2> QED  BY <2>2 DEF c
<1> QED  BY <1>5, <1>6, <1>7 DEF NumberOK

LEMMA StringBegins ==
  ASSUME MarginFits, WidthsFit, LineOK, pc = "idle", NEW s, printStr(s)
  PROVE  LineOK'
<1>1. cursor' \in Cursors /\ cursor'.x = cursor.x /\ cursor'.jumped
  BY DEF LineOK, printStr, Cursors
<1>2. pc' = "string" /\ UNCHANGED last  BY DEF printStr
<1> DEFINE n == Width - 2 * Margin
<1>3. n \in Nat /\ n <= Width  BY Dimensions DEF MarginFits
<1>4. room' = AsInt(Word(n) \div CellWidth)  BY DEF printStr
<1> HIDE DEF n
<1>5. room' \in Nat /\ room' * CellWidth <= n  BY <1>3, <1>4, Cells
<1>6. StringOK'  BY <1>1, <1>5 DEF StringOK, n
<1> QED  BY <1>1, <1>2, <1>6 DEF LineOK, Drawn

(* A loop goes on at the margin of the next line.                          *)
LEMMA NextLineOK ==
  ASSUME MarginFits, LineOK, Counting, cursor' = NextLine, j' = 0,
         UNCHANGED <<pc, room, last>>
  PROVE  LineOK'
<1>1. cursor' \in Cursors /\ cursor'.x = Margin
  <2>1. NewLine(cursor) = [x |-> Margin, y |-> Below(cursor.y), jumped |-> FALSE]
    BY DEF NewLine
  <2>2. cursor' = [x |-> Margin, y |-> Below(cursor.y), jumped |-> cursor.jumped /\ pc = "number"]
    BY <2>1 DEF NextLine
  <2>3. cursor.y \in Nat /\ (cursor.jumped /\ pc = "number") \in BOOLEAN
    BY DEF LineOK, Cursors
  <2>4. Below(cursor.y) \in Nat  BY <2>3, Dimensions DEF Below
  <2> QED  BY <2>2, <2>3, <2>4, Dimensions DEF Cursors
<1>2. cursor'.jumped <=> cursor.jumped /\ pc = "number"
  BY DEF NextLine, NewLine
<1>3. CASE pc = "number" /\ ~cursor'.jumped
  <2>1. NumberOK  BY <1>2, <1>3 DEF LineOK
  <2>2. (room - 0) * CellWidth = room * CellWidth  BY <2>1 DEF NumberOK
  <2>3. NumberOK'  BY <1>1, <2>1, <2>2 DEF NumberOK
  <2> QED  BY <1>1, <1>3, <2>3, Dimensions DEF LineOK, Drawn
<1>4. CASE pc = "number" /\ cursor'.jumped
  BY <1>1, <1>4, Dimensions DEF LineOK, Drawn
<1>5. CASE pc = "string"
  <2>1. StringOK /\ 0 * CellWidth = 0  BY <1>5, Dimensions DEF LineOK
  <2>2. StringOK'  BY <1>1, <2>1, Dimensions DEF StringOK
  <2> QED  BY <1>1, <1>5, <2>2, Dimensions DEF LineOK, Drawn
<1> QED  BY <1>3, <1>4, <1>5 DEF Counting

(* A digit or a letter within the line.                                    *)
LEMMA GlyphOK ==
  ASSUME MarginFits, LineOK, Glyph
  PROVE  LineOK'
<1>1. /\ cursor' = [cursor EXCEPT !.x = @ + CellWidth] /\ last' = {cursor}
      /\ j' = j + 1 /\ j < room /\ UNCHANGED <<pc, room>>
      /\ pc \in {"number", "string"} /\ cursor \in Cursors /\ cursor.x >= Margin
  BY DEF LineOK, Glyph, Draw, Counting
<1>2. /\ cursor' \in Cursors /\ cursor'.x = cursor.x + CellWidth
      /\ cursor'.jumped = cursor.jumped /\ cursor.x \in Nat
  BY <1>1, Dimensions DEF Cursors
<1>3. CASE cursor.jumped
  BY <1>1, <1>2, <1>3, Dimensions DEF LineOK, Drawn, StringOK
<1>4. CASE pc = "number" /\ ~cursor.jumped
  <2>1. NumberOK  BY <1>4 DEF LineOK
  <2> DEFINE c == (room - (j + 1)) * CellWidth
  <2>2. j \in Nat /\ room \in Nat /\ room - (j + 1) \in Nat  BY <1>1, <2>1 DEF NumberOK
  <2>3. (room - j) * CellWidth = c + CellWidth /\ c \in Nat  BY <2>2, Dimensions
  <2> HIDE DEF c
  <2>4. cursor.x + CellWidth + c <= Width - 2 * Margin
    BY <1>2, <2>1, <2>3, Dimensions DEF NumberOK
  <2>5. NumberOK'  BY <1>1, <1>2, <2>1, <2>2, <2>4, Dimensions DEF NumberOK, c
  <2>6. cursor.x + CellWidth <= Width  BY <1>2, <2>3, <2>4, Dimensions
  <2> QED  BY <1>1, <1>2, <1>4, <2>5, <2>6, Dimensions DEF LineOK, Drawn
<1>5. CASE pc = "string" /\ ~cursor.jumped
  <2>1. StringOK  BY <1>5 DEF LineOK
  <2> DEFINE c == j * CellWidth
             full == room * CellWidth
  <2>2. j \in Nat /\ room \in Nat /\ j + 1 <= room  BY <1>1, <1>5, <2>1 DEF StringOK
  <2>3. c \in Nat /\ (j + 1) * CellWidth = c + CellWidth  BY <2>2, Dimensions
  <2>4. full \in Nat /\ (j + 1) * CellWidth <= full  BY <2>2, Dimensions
  <2>5. full <= Width - 2 * Margin /\ cursor.x = Margin + c  BY <1>5, <2>1 DEF StringOK
  <2> HIDE DEF c, full
  <2>6. cursor.x + CellWidth <= Width  BY <2>3, <2>4, <2>5, Dimensions
  <2>7. cursor'.x = Margin + (j + 1) * CellWidth  BY <1>2, <2>3, <2>5, Dimensions
  <2>8. StringOK'  BY <1>1, <2>1, <2>2, <2>7 DEF StringOK
  <2> QED  BY <1>1, <1>2, <1>5, <2>6, <2>8, Dimensions DEF LineOK, Drawn
<1> QED  BY <1>1, <1>3, <1>4, <1>5

LEMMA TextEndsOK ==
  ASSUME MarginFits, LineOK, EndOfText
  PROVE  LineOK'
<1>1. CASE pc \in {"number", "chars"} /\ pc' = "format" /\ UNCHANGED <<cursor, last>>
  <2>1. Fitting(cursor)
    <3>1. CASE pc = "number" /\ ~cursor.jumped
      <4>1. NumberOK  BY <3>1 DEF LineOK
      <4> DEFINE c == (room - j) * CellWidth
      <4>2. room - j \in Nat  BY <4>1 DEF NumberOK
      <4>3. c \in Nat /\ cursor.x + c <= Width - 2 * Margin
        BY <4>1, <4>2, Dimensions DEF NumberOK
      <4>4. cursor.x \in Nat  BY DEF LineOK, Cursors
      <4> HIDE DEF c
      <4> QED  BY <4>3, <4>4, Dimensions DEF Fitting
    <3> QED  BY <1>1, <3>1 DEF LineOK, Fitting
  <2> QED  BY <1>1, <2>1 DEF LineOK, Drawn
<1>2. CASE pc = "string" /\ pc' = "idle" /\ cursor' = [cursor EXCEPT !.jumped = TRUE]
           /\ UNCHANGED last
  <2>1. cursor \in Cursors /\ cursor.x >= Margin  BY DEF LineOK
  <2>2. cursor' \in Cursors /\ cursor'.x = cursor.x /\ cursor'.jumped
    BY <1>2, <2>1 DEF Cursors
  <2> QED  BY <1>2, <2>1, <2>2 DEF LineOK, Drawn, Fitting
<1>3. CASE pc = "label" /\ pc' = "idle" /\ UNCHANGED <<cursor, last>>
  BY <1>3 DEF LineOK, Drawn
<1> QED  BY <1>1, <1>2, <1>3 DEF EndOfText, Return

LEMMA StepFits ==
  ASSUME MarginFits, WidthsFit, LineOK, [Next]_vars
  PROVE  LineOK'
<1> USE DEF LineOK, Drawn
<1>1. CASE UNCHANGED <<pc, cursor, last>> /\ pc \notin {"number", "string"}  BY <1>1
<1>2. ASSUME NEW ch, printChar(ch), pc \in {"format", "chars"}, UNCHANGED pc
      PROVE  LineOK'
  BY <1>2, CharPrinted
<1>3. CASE Normal
  <2>1. pc = "format" /\ UNCHANGED pc  BY <1>3 DEF Normal, Visit, Go
  <2>2. UNCHANGED <<cursor, last>> \/ \E ch : printChar(ch)  BY <1>3 DEF Normal
  <2> QED  BY <1>1, <1>2, <2>1, <2>2
<1>4. CASE Format
  <2>1. pc = "format" /\ UNCHANGED pc  BY <1>4 DEF Format, Visit, Go
  <2>2. UNCHANGED <<cursor, last>> \/ \E ch : printChar(ch)  BY <1>4 DEF Format
  <2> QED  BY <1>1, <1>2, <2>1, <2>2
<1>5. CASE Directive
  <2>1. pc = "format" /\ UNCHANGED <<cursor, last>> /\ j' = 0
    BY <1>5 DEF Directive, Visit
  <2>2. (pc' = "number" /\ room' = Room) \/ pc' = "chars"  BY <1>5 DEF Directive
  <2>3. CASE pc' = "chars"  BY <2>1, <2>3
  <2>4. CASE pc' = "number" /\ room' = Room
    <3>1. ~cursor.jumped => NumberOK'  BY <2>1, <2>4, NumberBegins
    <3> QED  BY <2>1, <2>4, <3>1
  <2> QED  BY <2>2, <2>3, <2>4
<1>6. CASE Color  BY <1>1, <1>6 DEF Color, Visit, Go
<1>7. CASE EndOfFormat  BY <1>7 DEF EndOfFormat, Return
<1>8. CASE Character
  <2>1. pc = "chars" /\ UNCHANGED pc /\ printChar(text[i])  BY <1>8 DEF Character
  <2> QED  BY <1>2, <2>1
<1>9. CASE LineBreak  BY <1>9, NextLineOK DEF LineBreak, Restart
<1>10. CASE LineFull  BY <1>10, NextLineOK DEF LineFull, Restart
<1>11. CASE Glyph  BY <1>11, GlyphOK
<1>12. CASE EndOfText  BY <1>12, TextEndsOK
<1>13. CASE LabelBreak  BY <1>1, <1>13 DEF LabelBreak, Labelling
<1>14. CASE LabelGlyph
  <2>1. pc = "label" /\ UNCHANGED pc  BY <1>14 DEF LabelGlyph, Labelling
  <2>2. fillScreen \/ UNCHANGED <<cursor, last>>  BY <1>14 DEF LabelGlyph
  <2> QED  BY <1>1, <2>1, <2>2, ClearedOK, Lines
<1>15. CASE \E f \in Formats : \E a \in ArgumentsOf(f) : PrintFormat(f, a)
  BY <1>15 DEF PrintFormat, CanBegin
<1>16. CASE \E s \in Strings : printStr(s)
  BY <1>16, StringBegins DEF printStr, CanBegin
<1>17. CASE \E s \in Labels, place \in Places : tPrintStr(s, place)
  BY <1>17 DEF tPrintStr, CanBegin
<1>18. CASE ClearScreen  BY <1>18, ClearedOK, Lines DEF ClearScreen
<1>19. CASE Transmitted \/ UNCHANGED vars
  BY <1>19 DEF Transmitted, vars, loop, NumberOK, StringOK
<1> QED
  BY <1>3, <1>4, <1>5, <1>6, <1>7, <1>8, <1>9, <1>10, <1>11, <1>12, <1>13, <1>14,
     <1>15, <1>16, <1>17, <1>18, <1>19
  DEF Next, Run, Calls

(* print.c: wherever on a line printChar(), printInt() and printUint() are *)
(* used, alone or after one another, their glyphs lie within it, for any   *)
(* framebuffer that has room for a cell between two margins.               *)
THEOREM GlyphsStayInLine == MarginFits /\ WidthsFit => (Spec => []GlyphsFit)
<1> SUFFICES ASSUME MarginFits, WidthsFit PROVE Spec => []GlyphsFit  OBVIOUS
<1>1. Init => LineOK
  BY Dimensions DEF Init, Home, LineOK, Cursors, Drawn, Fitting, MarginFits
<1>2. LineOK /\ [Next]_vars => LineOK'  BY StepFits
<1>3. LineOK => GlyphsFit  BY DEF LineOK, Drawn, GlyphsFit
<1> QED  BY <1>1, <1>2, <1>3, PTL DEF Spec

----------------------------------------------------------------------------
(* LabelsInside.                                                           *)

(* The room of a label is that of the column e where it began; it goes on  *)
(* there or, after the screen was cleared, in column 5.                    *)
Roomy(r, x) == \E e \in 0 .. Width : r * CellWidth <= Width - e /\ x \in {e, 5}

LabelOK ==
  pc = "label" => /\ room \in Nat /\ j \in Nat /\ at \in [x : Nat, y : Nat]
                  /\ Roomy(room, at.x)

LEMMA LabelBegins ==
  ASSUME LabelsBegin, WidthsFit, NEW s, NEW place \in Places, tPrintStr(s, place)
  PROVE  LabelOK'
<1>1. place \in [x : Nat, y : Nat] /\ place.x \in Nat /\ place.x <= Width
  BY Dimensions DEF LabelsBegin
<1> DEFINE n == Width - place.x
<1>2. n \in Nat /\ n <= Width  BY <1>1, Dimensions
<1>3. room' = AsInt(Word(n) \div CellWidth) /\ at' = place /\ j' = 0  BY DEF tPrintStr
<1> HIDE DEF n
<1>4. room' \in Nat /\ room' * CellWidth <= n  BY <1>2, <1>3, Cells
<1>5. Roomy(room', place.x)
  <2>1. place.x \in 0 .. Width  BY <1>1, Dimensions
  <2>2. room' * CellWidth <= Width - place.x  BY <1>4 DEF n
  <2> QED  BY <2>1, <2>2, Zenon DEF Roomy
<1> QED  BY <1>1, <1>3, <1>4, <1>5 DEF LabelOK

(* The restart of tPrintStr() is not in the last line.                     *)
LEMMA StartIsHigh ==
  ASSUME LabelsBegin, at \in [x : Nat, y : Nat]
  PROVE  /\ LabelStart \in [x : Nat, y : Nat] /\ LabelStart.x \in {at.x, 5}
         /\ LabelStart.y + FontHeight <= Height - 1
<1>1. FontHeight \in Nat /\ Height \in Nat  BY Dimensions DEF FontHeight
<1>2. CASE Low(at.y)
  <2>1. LabelStart = [x |-> 5, y |-> 5]  BY <1>2 DEF LabelStart, Home
  <2> QED  BY <1>1, <2>1 DEF LabelsBegin
<1>3. CASE ~Low(at.y)
  <2>1. LabelStart = at /\ at.y \in Nat  BY <1>3 DEF LabelStart
  <2> QED  BY <1>1, <1>3, <2>1 DEF Low
<1> QED  BY <1>2, <1>3

(* Two rows are enough for what a glyph has on the right of the last       *)
(* column, two bytes of colour and four pixels.                            *)
LEMMA BytesInside ==
  ASSUME LabelsBegin, NEW x \in Nat, NEW y \in Nat, x <= Width + 4, y <= Height - 2
  PROVE  LastByte(x, y) < Height * Pitch
<1>1. /\ Width \in Nat /\ Height \in Nat /\ PixelBytes \in Nat /\ Pitch \in Nat
      /\ Pitch >= Width * PixelBytes /\ Width >= 6 /\ PixelBytes >= 3
  BY Dimensions DEF LabelsBegin
<1>2. x * PixelBytes <= (Width + 4) * PixelBytes  BY <1>1
<1>3. y * Pitch <= (Height - 2) * Pitch  BY <1>1
<1>4. (Width + 4) * PixelBytes = Width * PixelBytes + 4 * PixelBytes  BY <1>1
<1>5. (Height - 2) * Pitch = Height * Pitch - 2 * Pitch  BY <1>1
<1>6. 6 * PixelBytes <= Width * PixelBytes  BY <1>1
<1>7. /\ x * PixelBytes \in Nat /\ y * Pitch \in Nat /\ Width * PixelBytes \in Nat
      /\ Height * Pitch \in Nat
  BY <1>1
<1> DEFINE a == x * PixelBytes
           b == y * Pitch
           c == Width * PixelBytes
           d == Height * Pitch
<1>8. /\ a \in Nat /\ b \in Nat /\ c \in Nat /\ d \in Nat
      /\ a <= c + 4 * PixelBytes /\ b <= d - 2 * Pitch /\ 6 * PixelBytes <= c /\ c <= Pitch
  BY <1>1, <1>2, <1>3, <1>4, <1>5, <1>6, <1>7
<1> HIDE DEF a, b, c, d
<1>9. a + b + 2 < d  BY <1>1, <1>8
<1> QED  BY <1>9 DEF LastByte, where, a, b, d

LEMMA LabelFits ==
  ASSUME LabelsBegin, LabelOK
  PROVE  LabelsInside
<1> SUFFICES ASSUME pc = "label", j < room  PROVE CharInside(LabelPlace)
  BY DEF LabelsInside, Labelling
<1>1. room \in Nat /\ j \in Nat /\ at \in [x : Nat, y : Nat] /\ at.x \in Nat
  BY DEF LabelOK
<1>2. PICK e \in 0 .. Width : room * CellWidth <= Width - e /\ at.x \in {e, 5}
  BY DEF LabelOK, Roomy
<1> DEFINE c == CellWidth * j
           full == room * CellWidth
<1>3. c \in Nat /\ full \in Nat /\ c + CellWidth <= full
  <2>1. (j + 1) * CellWidth <= room * CellWidth  BY <1>1, Dimensions
  <2>2. (j + 1) * CellWidth = CellWidth * j + CellWidth  BY <1>1, Dimensions
  <2> QED  BY <1>1, <2>1, <2>2, Dimensions
<1>4. full <= Width - e  BY <1>2
<1> HIDE DEF c, full
<1>5. /\ LabelStart \in [x : Nat, y : Nat] /\ LabelStart.x \in {e, 5}
      /\ LabelStart.y + FontHeight <= Height - 1
  BY <1>1, <1>2, StartIsHigh
<1>6. LabelPlace.x = LabelStart.x + c /\ LabelPlace.y = LabelStart.y
  BY <1>5 DEF LabelPlace, c
<1> DEFINE x == LabelPlace.x + FontWidth
           y == LabelPlace.y + FontHeight - 1
<1>7. x \in Nat /\ x <= Width + 4
  BY <1>2, <1>3, <1>4, <1>5, <1>6, Dimensions DEF FontWidth
<1>8. y \in Nat /\ y <= Height - 2
  BY <1>5, <1>6, Dimensions DEF FontHeight
<1> HIDE DEF x, y
<1>9. LastByte(x, y) < Height * Pitch  BY <1>7, <1>8, BytesInside
<1> QED  BY <1>9 DEF CharInside, x, y

LEMMA StepLabels ==
  ASSUME LabelsBegin, WidthsFit, LabelOK, [Next]_vars
  PROVE  LabelOK'
<1>1. CASE \E s \in Labels, place \in Places : tPrintStr(s, place)
  BY <1>1, LabelBegins
<1>2. CASE LabelBreak
  <2>1. /\ pc = "label" /\ UNCHANGED <<pc, room>> /\ j' = 0
        /\ at' = [at EXCEPT !.y = Below(at.y)]
    BY <1>2 DEF LabelBreak, Labelling
  <2>2. at \in [x : Nat, y : Nat] /\ at.y \in Nat  BY <2>1 DEF LabelOK
  <2>3. Below(at.y) \in Nat  BY <2>2, Dimensions DEF Below
  <2>4. at' \in [x : Nat, y : Nat] /\ at'.x = at.x  BY <2>1, <2>2, <2>3
  <2> QED  BY <2>1, <2>4 DEF LabelOK
<1>3. CASE LabelGlyph
  <2>1. pc = "label" /\ UNCHANGED <<pc, room>> /\ j' = j + 1 /\ at' = LabelStart
    BY <1>3 DEF LabelGlyph, Labelling
  <2>2. at' \in [x : Nat, y : Nat] /\ at'.x \in {at.x, 5}
    BY <2>1, StartIsHigh DEF LabelOK
  <2>3. Roomy(room, at'.x)  BY <2>1, <2>2 DEF LabelOK, Roomy
  <2> QED  BY <2>1, <2>2, <2>3 DEF LabelOK
<1>4. CASE UNCHANGED <<pc, room, j, at>>  BY <1>4 DEF LabelOK
<1>5. CASE pc' # "label"  BY <1>5 DEF LabelOK
<1>6. Normal \/ Format \/ Color \/ EndOfFormat
        => UNCHANGED <<pc, room, j, at>> \/ pc' # "label"
  BY DEF Normal, Format, Color, EndOfFormat, Visit, Go, Return, loop
<1>7. Directive \/ Character \/ LineBreak \/ LineFull \/ Glyph \/ EndOfText => pc' # "label"
  BY DEF Directive, Character, LineBreak, LineFull, Glyph, EndOfText, Counting, Return
<1>8. (\E f \in Formats : \E a \in ArgumentsOf(f) : PrintFormat(f, a)) => pc' # "label"
  BY DEF PrintFormat
<1>9. (\E s \in Strings : printStr(s)) => pc' # "label"  BY DEF printStr
<1>10. ClearScreen \/ Transmitted \/ UNCHANGED vars => UNCHANGED <<pc, room, j, at>>
  BY DEF ClearScreen, Transmitted, vars, loop
<1> QED
  BY <1>1, <1>2, <1>3, <1>4, <1>5, <1>6, <1>7, <1>8, <1>9, <1>10 DEF Next, Run, Calls

(* printbasic.c:62-82: wherever within a row, and however far down, a      *)
(* label begins, none of its glyphs is written outside of the framebuffer. *)
THEOREM LabelsStayInside == LabelsBegin /\ WidthsFit => (Spec => []LabelsInside)
<1> SUFFICES ASSUME LabelsBegin, WidthsFit PROVE Spec => []LabelsInside  OBVIOUS
<1>1. Init => LabelOK  BY DEF Init, LabelOK
<1>2. LabelOK /\ [Next]_vars => LabelOK'  BY StepLabels
<1>3. LabelOK => LabelsInside  BY LabelFits
<1> QED  BY <1>1, <1>2, <1>3, PTL DEF Spec

----------------------------------------------------------------------------
(* NeverPastEnd.                                                           *)

(* What comes of joining sequences, one after the other.                   *)
Joining(h, ss, S) ==
  /\ h \in [0 .. Len(ss) -> Seq(S)]
  /\ h[0] = <<>> /\ \A k \in 1 .. Len(ss) : h[k] = h[k-1] \o ss[k]

LEMMA FlattenPrefixes ==
  ASSUME NEW S, NEW ss \in Seq(Seq(S))
  PROVE  \E h : Joining(h, ss, S) /\ FlattenSeq(ss) = h[Len(ss)]
<1> DEFINE n == Len(ss)
           Joins(f) == f = [k \in 1 .. n |-> IF k = 1 THEN ss[k] ELSE f[k-1] \o ss[k]]
<1>0. n \in Nat /\ \A k \in 1 .. n : ss[k] \in Seq(S)  OBVIOUS
<1>1. CASE n = 0
  <2>1. ss = <<>>  BY <1>1
  <2>2. FlattenSeq(ss) = ss  BY <1>1, Zenon DEF FlattenSeq
  <2>3. <<>> \in Seq(S)  OBVIOUS
  <2> DEFINE h == [k \in 0 .. 0 |-> <<>>]
  <2>4. h \in [0 .. Len(ss) -> Seq(S)] /\ h[0] = <<>> /\ 1 .. Len(ss) = {}  BY <1>1, <2>3
  <2> HIDE DEF h
  <2>5. Joining(h, ss, S)  BY <2>4 DEF Joining
  <2>6. FlattenSeq(ss) = h[Len(ss)]  BY <1>1, <2>1, <2>2, <2>4
  <2> QED  BY <2>5, <2>6
<1>2. CASE n # 0
  <2>1. FlattenSeq(ss) = (CHOOSE f : Joins(f))[n]  BY <1>2, Zenon DEF FlattenSeq
  <2>2. \E f : Joins(f)
    <3> DEFINE Eqn(f, m) ==
                 \A k \in 1 .. m : f[k] = IF k = 1 THEN ss[k] ELSE f[k-1] \o ss[k]
               T == {m \in Nat : \E f : Eqn(f, m)}
    <3>1. 0 \in T  OBVIOUS
    <3>2. ASSUME NEW m \in Nat, m \in T PROVE m + 1 \in T
      <4>1. PICK f : Eqn(f, m)  BY <3>2
      <4> DEFINE e == [k \in 1 .. m + 1 |-> IF k # m + 1 THEN f[k] ELSE
                         IF m = 0 THEN ss[k] ELSE f[m] \o ss[k]]
      <4>2. ASSUME NEW k \in 1 .. m + 1
            PROVE  e[k] = IF k = 1 THEN ss[k] ELSE e[k-1] \o ss[k]
        <5>1. CASE k # m + 1
          <6>1. k \in 1 .. m /\ (k # 1 => k - 1 \in 1 .. m /\ k - 1 # m + 1)  BY <5>1
          <6>2. e[k] = f[k] /\ (k # 1 => e[k-1] = f[k-1])  BY <5>1, <6>1
          <6>3. f[k] = IF k = 1 THEN ss[k] ELSE f[k-1] \o ss[k]  BY <4>1, <6>1
          <6> HIDE DEF e, Eqn
          <6> QED  BY <6>2, <6>3
        <5>2. CASE k = m + 1 /\ m = 0
          <6>1. e[k] = ss[k]  BY <5>2
          <6> QED  BY <5>2, <6>1
        <5>3. CASE k = m + 1 /\ m # 0
          <6>1. k # 1 /\ k - 1 = m  BY <5>3
          <6>2. e[k] = IF k # m + 1 THEN f[k] ELSE IF m = 0 THEN ss[k] ELSE f[m] \o ss[k]
            BY Zenon
          <6>3. m \in 1 .. m + 1 /\ m # m + 1  BY <5>3
          <6>4. e[m] = f[m]  BY <6>3
          <6> HIDE DEF e
          <6> QED  BY <5>3, <6>1, <6>2, <6>4
        <5> QED  BY <5>1, <5>2, <5>3
      <4>3. Eqn(e, m + 1)  BY <4>2
      <4> HIDE DEF e, Eqn
      <4> QED  BY <4>3
    <3> HIDE DEF T
    <3>3. n \in T
      <4>1. Nat \subseteq T  BY <3>1, <3>2, InductionOn
      <4> QED  BY <1>0, <4>1
    <3>4. PICK f : Eqn(f, n)  BY <3>3 DEF T
    <3> DEFINE h == [k \in 1 .. n |-> f[k]]
    <3>5. ASSUME NEW k \in 1 .. n  PROVE h[k] = IF k = 1 THEN ss[k] ELSE h[k-1] \o ss[k]
      <4>1. f[k] = IF k = 1 THEN ss[k] ELSE f[k-1] \o ss[k]  BY <3>4
      <4>2. k # 1 => k - 1 \in 1 .. n  BY <1>0
      <4> QED  BY <4>1, <4>2
    <3>6. h = [k \in 1 .. n |-> h[k]]  OBVIOUS
    <3> HIDE DEF h
    <3>7. Joins(h)  BY <3>5, <3>6
    <3> QED  BY <3>7
  <2> DEFINE g == CHOOSE f : Joins(f)
  <2>3. Joins(g)  BY <2>2
  <2> DEFINE U == {k \in Nat : k + 1 <= n => g[k+1] \in Seq(S)}
  <2> HIDE DEF g
  <2>4. \A k \in 1 .. n : g[k] = IF k = 1 THEN ss[k] ELSE g[k-1] \o ss[k]  BY <2>3
  <2>5. 0 \in U  BY <1>0, <2>4
  <2>6. ASSUME NEW k \in Nat, k \in U PROVE k + 1 \in U
    <3> SUFFICES ASSUME k + 2 <= n PROVE g[k+2] \in Seq(S)  OBVIOUS
    <3>1. g[k+1] \in Seq(S) /\ k + 2 \in 1 .. n /\ k + 2 # 1 /\ (k + 2) - 1 = k + 1
      BY <1>0, <2>6
    <3>2. g[k+2] = g[k+1] \o ss[k+2]  BY <2>4, <3>1
    <3> QED  BY <1>0, <3>1, <3>2
  <2> HIDE DEF U
  <2>8. \A k \in 1 .. n : g[k] \in Seq(S)
    <3> TAKE k \in 1 .. n
    <3>1. k - 1 \in Nat /\ (k - 1) + 1 = k /\ k <= n  BY <1>0
    <3>2. k - 1 \in U  BY <2>5, <2>6, <3>1, InductionOn
    <3> QED  BY <3>1, <3>2 DEF U
  <2> DEFINE h == [k \in 0 .. n |-> IF k = 0 THEN <<>> ELSE g[k]]
  <2>9. h \in [0 .. n -> Seq(S)] /\ h[0] = <<>> /\ \A k \in 1 .. n : h[k] = g[k]
    <3>1. <<>> \in Seq(S) /\ 0 \in 0 .. n /\ \A k \in 0 .. n : k # 0 => k \in 1 .. n  BY <1>0
    <3>2. \A k \in 1 .. n : k \in 0 .. n /\ k # 0  BY <1>0
    <3> QED  BY <2>8, <3>1, <3>2
  <2>10. \A k \in 1 .. n : h[k] = h[k-1] \o ss[k]
    <3> TAKE k \in 1 .. n
    <3> HIDE DEF h
    <3>1. CASE k = 1
      <4>1. g[1] = ss[1] /\ h[1] = g[1] /\ h[1-1] = <<>>  BY <2>4, <2>9, <3>1
      <4>2. <<>> \o ss[1] = ss[1]  BY <1>0, <3>1, ConcatEmptySeq
      <4> QED  BY <3>1, <4>1, <4>2
    <3>2. CASE k # 1
      <4>1. k - 1 \in 1 .. n  BY <1>0, <3>2
      <4>2. g[k] = g[k-1] \o ss[k]  BY <2>4, <3>2
      <4> QED  BY <2>9, <4>1, <4>2
    <3> QED  BY <3>1, <3>2
  <2>11. h[n] = g[n]
    <3>1. n \in 1 .. n  BY <1>0, <1>2
    <3> HIDE DEF h
    <3> QED  BY <2>9, <3>1
  <2> HIDE DEF h
  <2>12. Joining(h, ss, S)  BY <2>9, <2>10 DEF Joining
  <2>13. FlattenSeq(ss) = h[Len(ss)]  BY <2>1, <2>11 DEF g
  <2> QED  BY <2>12, <2>13
<1> QED  BY <1>1, <1>2

LEMMA FlattenedIsSeq ==
  ASSUME NEW S, NEW ss \in Seq(Seq(S))
  PROVE  FlattenSeq(ss) \in Seq(S)
<1>1. PICK h : Joining(h, ss, S) /\ FlattenSeq(ss) = h[Len(ss)]  BY FlattenPrefixes
<1>2. Len(ss) \in 0 .. Len(ss)  OBVIOUS
<1> QED  BY <1>1, <1>2 DEF Joining

LEMMA WrittenIsSeq ==
  ASSUME NEW f \in Formats \cup {<<>>}  PROVE Written(f) \in Seq(STRING)
<1> DEFINE ss == [k \in DOMAIN f |-> f[k].chars]
<1>1. f \in Seq(Piece)
  <2>1. <<>> \in Seq(Piece)  OBVIOUS
  <2> QED  BY <2>1, ConsoleConstants, Zenon
<1>2. \A k \in DOMAIN f : f[k].chars \in Seq(STRING)
  <2>1. \A k \in DOMAIN f : f[k] \in Piece  BY <1>1
  <2>2. \A t \in Piece : t.chars \in Seq(STRING)  BY DEF Piece
  <2> QED  BY <2>1, <2>2
<1>3. DOMAIN f = 1 .. Len(f) /\ Len(f) \in Nat  BY <1>1
<1>4. ss \in Seq(Seq(STRING))
  <2>1. ss \in [1 .. Len(f) -> Seq(STRING)]  BY <1>2, <1>3
  <2> HIDE DEF ss
  <2> QED  BY <1>3, <2>1
<1> HIDE DEF ss
<1> QED  BY <1>4, FlattenedIsSeq DEF Written, ss

(* A colour that p stands before ends in the characters of its format.     *)
ColorEnds(w, q) ==
  \/ q = Len(w) + 1
  \/ w[q] \in Ends
  \/ q + 6 <= Len(w) /\ w[q+6] \in Ends

ParserOK ==
  /\ pieces \in Formats \cup {<<>>}
  /\ p \in Nat \ {0} /\ p <= Len(fmt) + 1
  /\ pc \in {"format", "number", "chars"} => pieces \in Formats
  /\ pc \in {"number", "chars"} => p <= Len(fmt) /\ state = "format"
  /\ pc \notin {"format", "number", "chars"} => p = 1 /\ state = "normal"
  /\ state = "color" => ColorEnds(fmt, p)

LEMMA Reading ==
  ASSUME ParserOK
  PROVE  fmt \in Seq(STRING) /\ Len(fmt) \in Nat /\ DOMAIN fmt = 1 .. Len(fmt)
<1>1. fmt \in Seq(STRING)  BY WrittenIsSeq DEF ParserOK, fmt
<1> QED  BY <1>1

LEMMA ColorBegins ==
  ASSUME ColorsEnd, ParserOK, pieces \in Formats, p <= Len(fmt), fmt[p] = "#"
  PROVE  ColorEnds(fmt, p + 1)
<1>1. Len(fmt) \in Nat /\ DOMAIN fmt = 1 .. Len(fmt)  BY Reading
<1>2. p \in DOMAIN fmt  BY <1>1 DEF ParserOK
<1>3. \/ p = Len(fmt)
      \/ fmt[p+1] \in Ends
      \/ p + 7 <= Len(fmt) /\ fmt[p+7] \in Ends
  BY <1>2 DEF ColorsEnd, fmt
<1>4. p \in Nat /\ (p + 1) + 6 = p + 7  BY DEF ParserOK
<1> QED  BY <1>1, <1>3, <1>4 DEF ColorEnds

LEMMA StepReads ==
  ASSUME ColorsEnd, ParserOK, [Next]_vars
  PROVE  ParserOK'
<1>1. Len(fmt) \in Nat /\ p \in Nat \ {0} /\ p <= Len(fmt) + 1
  BY Reading DEF ParserOK
<1>2. pc \in {"format", "number", "chars"} => pieces \in Formats  BY DEF ParserOK
<1>3. ASSUME UNCHANGED <<pc, pieces, p, state>>  PROVE ParserOK'
  BY <1>3 DEF ParserOK, fmt
<1>4. ASSUME pc' = "format", UNCHANGED pieces, pieces \in Formats,
             p <= Len(fmt), p' = p + 1, state' # "color"
      PROVE  ParserOK'
  <2>1. fmt' = fmt  BY <1>4 DEF fmt
  <2> QED  BY <1>1, <1>4, <2>1 DEF ParserOK
<1>5. CASE Normal
  <2>1. pc = "format" /\ p <= Len(fmt) /\ \E s \in {"normal", "format"} : Go(s)
    BY <1>5 DEF Normal, Visit
  <2> QED  BY <1>4, <1>2, <2>1 DEF Go
<1>6. CASE Format
  <2>1. pc = "format" /\ p <= Len(fmt)  BY <1>6 DEF Format, Visit
  <2>2. CASE fmt[p] = "#" /\ Go("color")
    <3>1. ColorEnds(fmt, p + 1)  BY <1>2, <2>1, <2>2, ColorBegins
    <3>2. fmt' = fmt /\ pc' = "format" /\ p' = p + 1 /\ pieces' = pieces
      BY <2>1, <2>2 DEF Go, fmt
    <3> QED  BY <1>1, <1>2, <2>1, <3>1, <3>2 DEF ParserOK
  <2>3. CASE \E s \in {"normal", "format"} : Go(s)  BY <1>4, <1>2, <2>1, <2>3 DEF Go
  <2> QED  BY <1>6, <2>2, <2>3 DEF Format, Visit
<1>7. CASE Directive
  <2>1. /\ pc = "format" /\ p <= Len(fmt) /\ state = "format"
        /\ pc' \in {"number", "chars"} /\ UNCHANGED <<pieces, p, state>>
    BY <1>7 DEF Directive, Visit
  <2>2. fmt' = fmt  BY <2>1 DEF fmt
  <2> QED  BY <1>1, <1>2, <2>1, <2>2 DEF ParserOK
<1>8. CASE Color
  <2>1. pc = "format" /\ p <= Len(fmt) /\ state = "color"  BY <1>8 DEF Color, Visit
  <2>2. CASE \E ch : Go(AfterColor(ch))
    <3>1. \A ch : AfterColor(ch) \in {"normal", "format"}  BY DEF AfterColor
    <3> QED  BY <1>4, <1>2, <2>1, <2>2, <3>1 DEF Go
  <2>3. CASE fmt[p] \notin Ends /\ p' = PastColor /\ UNCHANGED <<pc, pieces, state>>
    <3>1. p + 6 <= Len(fmt) /\ fmt[p+6] \in Ends
      BY <1>1, <2>1, <2>3 DEF ParserOK, ColorEnds
    <3>2. fmt' = fmt /\ p' = p + 6  BY <2>3 DEF fmt, PastColor
    <3> QED  BY <1>1, <2>1, <1>2, <2>3, <3>1, <3>2 DEF ParserOK, ColorEnds
  <2> QED  BY <1>8, <2>2, <2>3 DEF Color, Visit, Ends
<1>9. ASSUME pc' = "idle", Return  PROVE ParserOK'
  <2>1. pieces' = <<>> /\ p' = 1 /\ state' = "normal"  BY <1>9 DEF Return
  <2>2. Written(<<>>) \in Seq(STRING)  BY WrittenIsSeq
  <2>3. Len(Written(<<>>)) \in Nat  BY <2>2
  <2>4. fmt' = Written(<<>>)  BY <2>1 DEF fmt
  <2> QED  BY <1>9, <2>1, <2>3, <2>4 DEF ParserOK
<1>10. CASE EndOfFormat  BY <1>9, <1>10 DEF EndOfFormat, Return
<1>11. CASE EndOfText
  <2>1. CASE /\ pc \in {"number", "chars"} /\ pc' = "format" /\ p' = p + 1
             /\ UNCHANGED <<pieces, state>>
    BY <1>4, <1>2, <2>1 DEF ParserOK
  <2>2. CASE Return  BY <1>9, <2>2 DEF Return
  <2> QED  BY <1>11, <2>1, <2>2 DEF EndOfText
<1>12. CASE \E f \in Formats : \E a \in ArgumentsOf(f) : PrintFormat(f, a)
  <2>1. PICK f \in Formats : /\ pc = "idle" /\ pc' = "format" /\ pieces' = f
                             /\ UNCHANGED <<p, state>>
    BY <1>12 DEF PrintFormat, CanBegin
  <2>2. Written(f) \in Seq(STRING)  BY WrittenIsSeq
  <2>3. fmt' = Written(f) /\ Len(Written(f)) \in Nat  BY <2>1, <2>2 DEF fmt
  <2>4. p = 1 /\ state = "normal"  BY <2>1 DEF ParserOK
  <2> QED  BY <2>1, <2>3, <2>4 DEF ParserOK
<1>13. ASSUME pc = "idle", pc' \in {"string", "label"}, UNCHANGED parser  PROVE ParserOK'
  BY <1>13 DEF ParserOK, parser, fmt
<1>14. CASE \/ \E s \in Strings : printStr(s)
            \/ \E s \in Labels, place \in Places : tPrintStr(s, place)
  BY <1>13, <1>14 DEF printStr, tPrintStr, CanBegin
<1>15. Character \/ LineBreak \/ LineFull \/ Glyph \/ LabelBreak \/ LabelGlyph \/ ClearScreen
         \/ Transmitted \/ UNCHANGED vars => UNCHANGED <<pc, pieces, p, state>>
  BY DEF Character, LineBreak, LineFull, Glyph, LabelBreak, LabelGlyph, ClearScreen,
         Transmitted, vars, parser
<1> QED
  BY <1>3, <1>5, <1>6, <1>7, <1>8, <1>10, <1>11, <1>12, <1>14, <1>15 DEF Next, Run, Calls

(* print.c:335, 374: Print() stops at the end of its format, although it   *)
(* steps over a colour without looking, if each # begins a colour that is  *)
(* complete.                                                               *)
THEOREM ParserStops == ColorsEnd => (Spec => []NeverPastEnd)
<1> SUFFICES ASSUME ColorsEnd PROVE Spec => []NeverPastEnd  OBVIOUS
<1>1. Init => ParserOK
  <2> SUFFICES ASSUME Init PROVE ParserOK  OBVIOUS
  <2>1. pc = "idle" /\ pieces = <<>> /\ p = 1 /\ state = "normal"  BY DEF Init
  <2>2. Written(<<>>) \in Seq(STRING)  BY WrittenIsSeq
  <2>3. Len(Written(<<>>)) \in Nat  BY <2>2
  <2> QED  BY <2>1, <2>3 DEF ParserOK, fmt
<1>2. ParserOK /\ [Next]_vars => ParserOK'  BY StepReads
<1>3. ParserOK => NeverPastEnd  BY DEF ParserOK, NeverPastEnd
<1> QED  BY <1>1, <1>2, <1>3, PTL DEF Spec

----------------------------------------------------------------------------
(* PrintsWhatIsMeant.                                                      *)

(* A part of what comes of joining sequences stands where the parts before *)
(* it end.                                                                 *)
Stands(h, ss, k) ==
  /\ Len(h[k]) = Len(h[k-1]) + Len(ss[k]) /\ Len(h[k]) <= Len(h[Len(ss)])
  /\ \A q \in 1 .. Len(ss[k]) : h[Len(ss)][Len(h[k-1]) + q] = ss[k][q]

LEMMA PartStands ==
  ASSUME NEW S, NEW ss \in Seq(Seq(S)), NEW h, Joining(h, ss, S), NEW k \in 1 .. Len(ss)
  PROVE  /\ h[k] \in Seq(S) /\ h[k-1] \in Seq(S) /\ ss[k] \in Seq(S)
         /\ Stands(h, ss, k)
<1> DEFINE n == Len(ss)
<1>1. n \in Nat /\ k \in 0 .. n /\ k - 1 \in 0 .. n /\ k \in Nat /\ k <= n  OBVIOUS
<1>2. \A m \in 0 .. n : h[m] \in Seq(S)  BY DEF Joining
<1>3. ss[k] \in Seq(S) /\ h[k] = h[k-1] \o ss[k]  BY DEF Joining
<1>4. /\ Len(h[k]) = Len(h[k-1]) + Len(ss[k]) /\ Len(h[k-1]) \in Nat /\ Len(ss[k]) \in Nat
      /\ \A q \in 1 .. Len(h[k-1]) + Len(ss[k]) :
           h[k][q] = IF q <= Len(h[k-1]) THEN h[k-1][q] ELSE ss[k][q - Len(h[k-1])]
  <2> DEFINE a == h[k-1]
             b == ss[k]
  <2>1. a \in Seq(S) /\ b \in Seq(S) /\ h[k] = a \o b  BY <1>1, <1>2, <1>3
  <2> HIDE DEF a, b
  <2>2. /\ Len(a \o b) = Len(a) + Len(b) /\ Len(a) \in Nat /\ Len(b) \in Nat
        /\ \A q \in 1 .. Len(a) + Len(b) : (a \o b)[q] = IF q <= Len(a) THEN a[q] ELSE b[q - Len(a)]
    BY <2>1, ConcatProperties, LenProperties
  <2> QED  BY <2>1, <2>2 DEF a, b
<1> DEFINE T == {m \in Nat : k + m <= n =>
                   /\ Len(h[k]) <= Len(h[k+m])
                   /\ \A q \in 1 .. Len(h[k]) : h[k+m][q] = h[k][q]}
<1>5. 0 \in T
  <2>1. k + 0 = k /\ Len(h[k]) \in Nat  BY <1>1, <1>2
  <2> QED  BY <2>1
<1>6. ASSUME NEW m \in Nat, m \in T PROVE m + 1 \in T
  <2> SUFFICES ASSUME k + (m + 1) <= n
               PROVE  /\ Len(h[k]) <= Len(h[k+(m+1)])
                      /\ \A q \in 1 .. Len(h[k]) : h[k+(m+1)][q] = h[k][q]
    OBVIOUS
  <2> DEFINE l == k + m
             g == h[l]
             x == ss[l+1]
  <2>1. l + 1 \in 1 .. n /\ k + (m + 1) = l + 1 /\ (l + 1) - 1 = l /\ l \in 0 .. n /\ l <= n
    BY <1>1
  <2>2. h[l+1] = g \o x  BY <2>1 DEF Joining
  <2>3. g \in Seq(S) /\ x \in Seq(S) /\ h[k] \in Seq(S)  BY <1>1, <1>2, <2>1
  <2>4. Len(h[k]) <= Len(g) /\ \A q \in 1 .. Len(h[k]) : g[q] = h[k][q]  BY <1>6, <2>1
  <2> HIDE DEF l, g, x
  <2>5. /\ Len(h[k]) \in Nat /\ Len(g) \in Nat /\ Len(x) \in Nat /\ Len(g \o x) = Len(g) + Len(x)
        /\ \A q \in 1 .. Len(g) + Len(x) : (g \o x)[q] = IF q <= Len(g) THEN g[q] ELSE x[q - Len(g)]
    BY <2>3, ConcatProperties, LenProperties
  <2>6. \A q \in 1 .. Len(h[k]) : (g \o x)[q] = h[k][q]
    <3> TAKE q \in 1 .. Len(h[k])
    <3>1. q <= Len(g) /\ q \in 1 .. Len(g) + Len(x)  BY <2>4, <2>5
    <3> QED  BY <2>4, <2>5, <3>1
  <2>7. h[k+(m+1)] = g \o x  BY <2>1, <2>2
  <2>8. Len(h[k]) <= Len(g \o x)  BY <2>4, <2>5
  <2> QED  BY <2>6, <2>7, <2>8
<1> HIDE DEF T
<1>7. n - k \in T
  <2>1. n - k \in Nat  BY <1>1
  <2> QED  BY <1>5, <1>6, <2>1, InductionOn
<1>8. Len(h[k]) <= Len(h[n]) /\ \A q \in 1 .. Len(h[k]) : h[n][q] = h[k][q]
  <2>1. k + (n - k) = n /\ n <= n  BY <1>1
  <2> HIDE DEF n
  <2> QED  BY <1>7, <2>1 DEF T
<1>9. \A q \in 1 .. Len(ss[k]) : h[n][Len(h[k-1]) + q] = ss[k][q]
  <2> TAKE q \in 1 .. Len(ss[k])
  <2> DEFINE a == Len(h[k-1])
  <2> HIDE DEF a, n
  <2>1. a \in Nat /\ Len(ss[k]) \in Nat /\ Len(h[k]) = a + Len(ss[k])  BY <1>4 DEF a
  <2>2. /\ a + q \in 1 .. Len(h[k]) /\ a + q \in 1 .. a + Len(ss[k]) /\ ~(a + q <= a)
        /\ (a + q) - a = q
    BY <2>1
  <2> QED  BY <1>4, <1>8, <2>2 DEF a
<1> QED  BY <1>1, <1>2, <1>3, <1>4, <1>8, <1>9 DEF Stands

LEMMA TakenGrows ==
  ASSUME NEW f, NEW k \in Nat
  PROVE  /\ Taken(f, 0) = 0 /\ Taken(f, k) \in Nat
         /\ Taken(f, k + 1) = IF f[k+1].kind = "argument" THEN Taken(f, k) + 1 ELSE Taken(f, k)
<1> DEFINE A(m) == {q \in 1 .. m : f[q].kind = "argument"}
<1>1. IsFiniteSet(A(k)) /\ k + 1 \notin A(k)
  <2>1. IsFiniteSet(1 .. k) /\ A(k) \in SUBSET (1 .. k)  BY FS_Interval
  <2>2. k + 1 \notin 1 .. k  OBVIOUS
  <2> QED  BY <2>1, <2>2, FS_Subset
<1>2. A(0) = {}  OBVIOUS
<1>3. A(k + 1) = IF f[k+1].kind = "argument" THEN A(k) \cup {k + 1} ELSE A(k)
  <2>1. \A q : q \in 1 .. k + 1 <=> q \in 1 .. k \/ q = k + 1  OBVIOUS
  <2> QED  BY <2>1
<1>4. Taken(f, 0) = Cardinality(A(0)) /\ Taken(f, k) = Cardinality(A(k))
      /\ Taken(f, k + 1) = Cardinality(A(k + 1))
  BY DEF Taken
<1> HIDE DEF A
<1>5. Cardinality(A(0)) = 0 /\ Cardinality(A(k)) \in Nat
  BY <1>1, <1>2, FS_EmptySet, FS_CardinalityType
<1>6. Cardinality(A(k) \cup {k + 1}) = Cardinality(A(k)) + 1
  BY <1>1, FS_AddElement
<1> QED  BY <1>3, <1>4, <1>5, <1>6

CallOK == pieces \in Formats /\ args \in ArgumentsOf(pieces)

Texts    == [k \in DOMAIN pieces |-> pieces[k].chars]
Meanings == [k \in DOMAIN pieces |-> Meaning(k)]

(* After m pieces, w[m] is what Print() has read, t[m] what it has printed *)
(* and open[m] says whether it is within braces.                           *)
Reads(w, t, open) ==
  /\ Joining(w, Texts, STRING) /\ fmt = w[Len(pieces)]
  /\ Joining(t, Meanings, STRING) /\ Meant = t[Len(pieces)]
  /\ Legible(pieces, open)

LEMMA FunctionIsSeq ==
  ASSUME NEW S, NEW n \in Nat, NEW f \in [1 .. n -> S]  PROVE f \in Seq(S) /\ Len(f) = n
OBVIOUS

LEMMA PiecesTyped ==
  ASSUME CallOK
  PROVE  /\ Len(pieces) \in Nat /\ DOMAIN pieces = 1 .. Len(pieces)
         /\ Texts \in Seq(Seq(STRING)) /\ Len(Texts) = Len(pieces)
         /\ Meanings \in Seq(Seq(STRING)) /\ Len(Meanings) = Len(pieces)
         /\ \A k \in 1 .. Len(pieces) :
              /\ Texts[k] = pieces[k].chars /\ Meanings[k] = Meaning(k)
              /\ pieces[k].kind \in Kinds
<1>1. pieces \in Seq(Piece)  BY ConsoleConstants DEF CallOK
<1>2. Len(pieces) \in Nat /\ DOMAIN pieces = 1 .. Len(pieces)  BY <1>1
<1>3. \A k \in 1 .. Len(pieces) :
        /\ pieces[k].chars \in Seq(STRING) /\ pieces[k].kind \in Kinds
        /\ pieces[k].args \subseteq Seq(STRING)
  <2> TAKE k \in 1 .. Len(pieces)
  <2>1. pieces[k] \in Piece  BY <1>1, ElementOfSeq
  <2> QED  BY <2>1 DEF Piece
<1>4. \A k \in 1 .. Len(pieces) :
        pieces[k].kind = "argument" => args[Taken(pieces, k)] \in Seq(STRING)
  <2> TAKE k \in 1 .. Len(pieces)
  <2> SUFFICES ASSUME pieces[k].kind = "argument" PROVE args[Taken(pieces, k)] \in Seq(STRING)
    OBVIOUS
  <2>1. args[Taken(pieces, k)] \in pieces[k].args  BY <1>2 DEF CallOK, ArgumentsOf
  <2> QED  BY <1>3, <2>1
<1>5. \A k \in 1 .. Len(pieces) : Meaning(k) \in Seq(STRING)
  <2> TAKE k \in 1 .. Len(pieces)
  <2>1. <<>> \in Seq(STRING)  BY EmptySeq
  <2> QED  BY <1>3, <1>4, <2>1 DEF Meaning, Kinds
<1>6. Texts \in [1 .. Len(pieces) -> Seq(STRING)] /\ \A k \in 1 .. Len(pieces) : Texts[k] = pieces[k].chars
  BY <1>2, <1>3 DEF Texts
<1>7. Meanings \in [1 .. Len(pieces) -> Seq(STRING)] /\ \A k \in 1 .. Len(pieces) : Meanings[k] = Meaning(k)
  BY <1>2, <1>5 DEF Meanings
<1>8. /\ Texts \in Seq(Seq(STRING)) /\ Len(Texts) = Len(pieces)
      /\ Meanings \in Seq(Seq(STRING)) /\ Len(Meanings) = Len(pieces)
  BY <1>2, <1>6, <1>7, FunctionIsSeq
<1> QED  BY <1>2, <1>3, <1>6, <1>7, <1>8

LEMMA CanRead ==
  ASSUME FormatsLegible, CallOK
  PROVE  \E w, t, open : Reads(w, t, open)
<1>1. PICK w : Joining(w, Texts, STRING) /\ FlattenSeq(Texts) = w[Len(pieces)]
  BY PiecesTyped, FlattenPrefixes
<1>2. PICK t : Joining(t, Meanings, STRING) /\ FlattenSeq(Meanings) = t[Len(pieces)]
  BY PiecesTyped, FlattenPrefixes
<1>3. fmt = FlattenSeq(Texts) /\ Meant = FlattenSeq(Meanings)
  BY DEF fmt, Written, Meant, Texts, Meanings
<1>4. PICK open : Legible(pieces, open)  BY DEF FormatsLegible, CallOK
<1> QED  BY <1>1, <1>2, <1>3, <1>4 DEF Reads

(* What the parser meets behind m pieces.                                  *)
Meets(w, t, open, m) ==
  LET q == pieces[m+1]
  IN  /\ Len(w[m]) \in Nat /\ Len(q.chars) \in Nat /\ Len(fmt) \in Nat
      /\ Len(w[m+1]) = Len(w[m]) + Len(q.chars) /\ Len(w[m+1]) <= Len(fmt)
      /\ \A k \in 1 .. Len(q.chars) : fmt[Len(w[m]) + k] = q.chars[k]
      /\ t[m] \in Seq(STRING) /\ Meaning(m+1) \in Seq(STRING)
      /\ t[m+1] = t[m] \o Meaning(m+1)
      /\ q.kind = "text" => Meaning(m+1) = q.chars /\ Taken(pieces, m+1) = Taken(pieces, m)
      /\ q.kind = "nothing" => Meaning(m+1) = <<>> /\ Taken(pieces, m+1) = Taken(pieces, m)
      /\ q.kind = "argument" => /\ Meaning(m+1) = args[Taken(pieces, m+1)]
                                /\ Taken(pieces, m+1) = Taken(pieces, m) + 1
      /\ open[m] \in BOOLEAN /\ open[m+1] \in BOOLEAN
      /\ IF open[m] THEN Inside(q, open[m+1]) ELSE Outside(q, open[m+1])

LEMMA NextOne ==
  ASSUME CallOK, NEW w, NEW t, NEW open, Reads(w, t, open),
         NEW m \in Nat, m < Len(pieces)
  PROVE  Meets(w, t, open, m)
<1> DEFINE n == Len(pieces)
<1>1. n \in Nat /\ m + 1 \in 1 .. n /\ (m + 1) - 1 = m /\ m \in 0 .. n /\ m + 1 \in 0 .. n
  BY PiecesTyped
<1>2. /\ w[m] \in Seq(STRING) /\ Texts[m+1] \in Seq(STRING) /\ Texts[m+1] = pieces[m+1].chars
      /\ Len(w[m+1]) = Len(w[m]) + Len(Texts[m+1]) /\ Len(w[m+1]) <= Len(w[n])
      /\ \A k \in 1 .. Len(Texts[m+1]) : w[n][Len(w[m]) + k] = Texts[m+1][k]
  <2>1. /\ Texts \in Seq(Seq(STRING)) /\ Joining(w, Texts, STRING) /\ m + 1 \in 1 .. Len(Texts)
        /\ Len(Texts) = n /\ Texts[m+1] = pieces[m+1].chars
    BY <1>1, PiecesTyped DEF Reads
  <2> HIDE DEF n
  <2>2. \A k \in 1 .. Len(Texts) :
           /\ w[k] \in Seq(STRING) /\ w[k-1] \in Seq(STRING) /\ Texts[k] \in Seq(STRING)
           /\ Len(w[k]) = Len(w[k-1]) + Len(Texts[k]) /\ Len(w[k]) <= Len(w[Len(Texts)])
           /\ \A q \in 1 .. Len(Texts[k]) : w[Len(Texts)][Len(w[k-1]) + q] = Texts[k][q]
    <3> TAKE k \in 1 .. Len(Texts)
    <3>1. w[k] \in Seq(STRING) /\ w[k-1] \in Seq(STRING) /\ Texts[k] \in Seq(STRING)
      BY <2>1, PartStands
    <3>2. Stands(w, Texts, k)  BY <2>1, PartStands
    <3> QED  BY <3>1, <3>2, Zenon DEF Stands
  <2> QED  BY <1>1, <2>1, <2>2
<1>3. fmt = w[n] /\ w[n] \in Seq(STRING)
  <2>1. n \in 0 .. Len(Texts)  BY <1>1, PiecesTyped
  <2> QED  BY <2>1 DEF Reads, Joining
<1>4. /\ t[m] \in Seq(STRING) /\ Meanings[m+1] \in Seq(STRING) /\ Meanings[m+1] = Meaning(m+1)
  <2>1. /\ Meanings \in Seq(Seq(STRING)) /\ Joining(t, Meanings, STRING)
        /\ m + 1 \in 1 .. Len(Meanings) /\ Meanings[m+1] = Meaning(m+1)
    BY <1>1, PiecesTyped DEF Reads
  <2> HIDE DEF n
  <2>2. \A k \in 1 .. Len(Meanings) : t[k-1] \in Seq(STRING) /\ Meanings[k] \in Seq(STRING)
    BY <2>1, PartStands
  <2> QED  BY <1>1, <2>1, <2>2
<1>5. t[m+1] = t[m] \o Meanings[m+1]  BY <1>1, PiecesTyped DEF Reads, Joining
<1>6. /\ open[m] \in BOOLEAN /\ open[m+1] \in BOOLEAN
      /\ IF open[m] THEN Inside(pieces[m+1], open[m+1]) ELSE Outside(pieces[m+1], open[m+1])
  BY <1>1 DEF Reads, Legible
<1>7. Taken(pieces, m+1) = IF pieces[m+1].kind = "argument" THEN Taken(pieces, m) + 1 ELSE Taken(pieces, m)
  BY TakenGrows
<1>8. /\ pieces[m+1].kind = "text" => Meaning(m+1) = pieces[m+1].chars
      /\ pieces[m+1].kind = "nothing" => Meaning(m+1) = <<>>
      /\ pieces[m+1].kind = "argument" => Meaning(m+1) = args[Taken(pieces, m+1)]
  BY DEF Meaning
<1>9. Len(w[m]) \in Nat /\ Len(pieces[m+1].chars) \in Nat /\ Len(fmt) \in Nat
  BY <1>2, <1>3, LenProperties
<1>10. \A k \in 1 .. Len(pieces[m+1].chars) : fmt[Len(w[m]) + k] = pieces[m+1].chars[k]
  BY <1>2, <1>3
<1> HIDE DEF n
<1> QED  BY <1>2, <1>3, <1>4, <1>5, <1>6, <1>7, <1>8, <1>9, <1>10 DEF Meets

(* The places of the parser: behind m pieces, within a colour behind them, *)
(* or printing the argument of a directive behind them.                    *)
Between(w, t, open, m) ==
  /\ pc = "format" /\ p = Len(w[m]) + 1
  /\ state = (IF open[m] THEN "format" ELSE "normal")
  /\ shown = t[m] /\ arg = Taken(pieces, m)

InColour(w, t, open, m) ==
  LET q == pieces[m+1]
  IN  /\ pc = "format" /\ state = "color" /\ m < Len(pieces) /\ Colour(q, open[m+1])
      /\ \/ Len(q.chars) = 8 /\ q.chars[2] \notin Ends /\ p = Len(w[m]) + 2
         \/ p = Len(w[m]) + Len(q.chars)
      /\ shown = t[m] /\ arg = Taken(pieces, m)

InText(w, t, open, m) ==
  LET q == pieces[m+1]
  IN  /\ pc \in {"number", "chars"} /\ state = "format" /\ m < Len(pieces)
      /\ Len(q.chars) = 1 /\ q.kind = "argument" /\ open[m+1] /\ p = Len(w[m]) + 1
      /\ text = Meaning(m+1) /\ i \in 1 .. Len(text) + 1
      /\ shown = t[m] \o SubSeq(text, 1, i - 1) /\ arg = Taken(pieces, m+1)

Place(w, t, open, m) ==
  Between(w, t, open, m) \/ InColour(w, t, open, m) \/ InText(w, t, open, m)

Printing == {"format", "number", "chars"}

PrintOK ==
  /\ pc \in Printing \cup {"idle", "string", "label"}
  /\ pc = "idle" => shown = <<>>
  /\ pc \notin Printing => pieces = <<>> /\ p = 1 /\ state = "normal" /\ arg = 0
  /\ pc \in Printing =>
       /\ CallOK
       /\ \E w, t, open : \E m \in 0 .. Len(pieces) : Reads(w, t, open) /\ Place(w, t, open, m)

LEMMA Letters ==
  /\ LeftBrace # RightBrace
  /\ {LeftBrace, RightBrace} \cap (Directives \cup {"#", "."}) = {}
  /\ "#" \notin Directives
  /\ Ends = {RightBrace, "."}
<1>1. Directives = {"d", "o", "x", "u", "y", "X", "s", "c"}  BY DEF Directives, Numbers
<1>2. "#" \notin Directives  BY <1>1
<1>3. LeftBrace # RightBrace  BY Zenon DEF LeftBrace, RightBrace
<1>4. {LeftBrace, RightBrace} \cap (Directives \cup {"#", "."}) = {}
  BY <1>1, Zenon DEF LeftBrace, RightBrace
<1> QED  BY <1>2, <1>3, <1>4 DEF Ends

(* What the parser does of a character.                                    *)
LEMMA Parse ==
  ASSUME Run, pc = "format", p <= Len(fmt), Len(fmt) \in Nat
  PROVE  /\ UNCHANGED <<pieces, args>>
         /\ state = "normal" =>
              \/ fmt[p] = LeftBrace /\ Go("format") /\ UNCHANGED shown
              \/ fmt[p] # LeftBrace /\ Go("normal") /\ shown' = Append(shown, fmt[p])
         /\ state = "format" =>
              \/ /\ fmt[p] \in Directives /\ pc' \in {"number", "chars"}
                 /\ arg' = arg + 1 /\ text' = args[arg+1] /\ i' = 1
                 /\ UNCHANGED <<p, state, shown>>
              \/ fmt[p] = "#" /\ Go("color") /\ UNCHANGED shown
              \/ fmt[p] = RightBrace /\ Go("normal") /\ UNCHANGED shown
              \/ /\ fmt[p] \notin Directives \cup {"#", RightBrace}
                 /\ Go("format") /\ shown' = Append(shown, fmt[p])
         /\ state = "color" =>
              \/ fmt[p] \in Ends /\ Go(AfterColor(fmt[p])) /\ UNCHANGED shown
              \/ /\ fmt[p] \notin Ends /\ p' = p + 6
                 /\ UNCHANGED <<pc, state, arg, shown>>
<1>1. Normal \/ Directive \/ Format \/ Color
  BY DEF Run, EndOfFormat, Character, Counting, LineBreak, LineFull, Glyph, EndOfText,
         Labelling, LabelBreak, LabelGlyph
<1>2. ASSUME NEW ch, printChar(ch) PROVE shown' = Append(shown, ch)
  BY <1>2 DEF printChar, Draw
<1>3. CASE Normal  BY <1>2, <1>3 DEF Normal, Visit, Go
<1>4. CASE Directive  BY <1>4 DEF Directive, Visit, Take
<1>5. CASE Format  BY <1>2, <1>5 DEF Format, Visit, Go
<1>6. CASE Color  BY <1>6 DEF Color, Visit, Go, Ends, PastColor
<1> QED  BY <1>1, <1>3, <1>4, <1>5, <1>6

LEMMA SameCall ==
  ASSUME UNCHANGED <<pieces, args>>
  PROVE  /\ fmt' = fmt /\ \A k : Meaning(k)' = Meaning(k) /\ Taken(pieces, k)' = Taken(pieces, k)
         /\ CallOK => CallOK'
         /\ \A w, t, open : Reads(w, t, open) => Reads(w, t, open)'
<1>1. fmt' = fmt  BY DEF fmt
<1>2. \A k : Meaning(k)' = Meaning(k) /\ Taken(pieces, k)' = Taken(pieces, k)
  BY DEF Meaning, Taken
<1>3. CallOK => CallOK'  BY DEF CallOK
<1>4. Texts' = Texts /\ Meanings' = Meanings /\ Meant' = Meant
  BY <1>2 DEF Texts, Meanings, Meant
<1>5. \A w, t, open : Reads(w, t, open) => Reads(w, t, open)'  BY <1>1, <1>4 DEF Reads
<1> QED  BY <1>1, <1>2, <1>3, <1>5

(* The parser has not come to the end: a piece is left.                    *)
LEMMA PieceLeft ==
  ASSUME CallOK, NEW w, NEW t, NEW open, Reads(w, t, open), NEW m \in 0 .. Len(pieces),
         p = Len(w[m]) + 1, p <= Len(fmt)
  PROVE  m \in Nat /\ m < Len(pieces)
<1>1. Len(pieces) \in Nat  BY PiecesTyped
<1>2. fmt = w[Len(pieces)] /\ w[Len(pieces)] \in Seq(STRING)
  <2>1. Len(pieces) \in 0 .. Len(Texts)  BY <1>1, PiecesTyped
  <2> QED  BY <2>1 DEF Reads, Joining
<1>3. Len(fmt) \in Nat  BY <1>2, LenProperties
<1>4. m # Len(pieces)  BY <1>2, <1>3
<1> QED  BY <1>1, <1>4

LEMMA Arrive ==
  ASSUME CallOK, NEW w, NEW t, NEW open, Reads(w, t, open), NEW m \in Nat, m < Len(pieces),
         UNCHANGED <<pieces, args>>, pc' = "format",
         p' = Len(w[m]) + Len(pieces[m+1].chars) + 1,
         state' = (IF open[m+1] THEN "format" ELSE "normal"),
         shown' = t[m] \o Meaning(m+1), arg' = Taken(pieces, m+1)
  PROVE  \E l \in 0 .. Len(pieces) : Place(w, t, open, l)'
<1>1. Len(w[m+1]) = Len(w[m]) + Len(pieces[m+1].chars) /\ t[m+1] = t[m] \o Meaning(m+1)
  <2>1. Meets(w, t, open, m)  BY NextOne
  <2> QED  BY <2>1 DEF Meets
<1>2. Len(pieces) \in Nat  BY PiecesTyped
<1>3. m + 1 \in 0 .. Len(pieces)  BY <1>2
<1>4. PICK l : l = m + 1  OBVIOUS
<1>5. p' = Len(w[l]) + 1 /\ shown' = t[l] /\ arg' = Taken(pieces, l)
  BY <1>1, <1>4
<1>6. Between(w, t, open, l)'  BY <1>4, <1>5, SameCall DEF Between
<1> QED  BY <1>3, <1>4, <1>6 DEF Place

LEMMA OneLetter ==
  ASSUME NEW S, NEW s \in Seq(S), NEW t \in Seq(S), Len(s) = 1
  PROVE  t \o s = Append(t, s[1])
<1>1. s = <<s[1]>>
  <2>1. <<s[1]>> \in Seq({s[1]}) /\ Len(<<s[1]>>) = 1 /\ <<s[1]>>[1] = s[1]  OBVIOUS
  <2>2. s = [k \in 1 .. 1 |-> s[k]]  OBVIOUS
  <2>3. <<s[1]>> = [k \in 1 .. 1 |-> s[k]]  OBVIOUS
  <2> QED  BY <2>2, <2>3
<1>2. s[1] \in S  BY ElementOfSeq
<1>3. Append(t, s[1]) = t \o <<s[1]>>  BY <1>2, AppendIsConcat
<1> QED  BY <1>1, <1>3

(* The parser meets a piece.                                               *)
LEMMA FromBetween ==
  ASSUME CallOK, NEW w, NEW t, NEW open, Reads(w, t, open), NEW m \in 0 .. Len(pieces),
         Between(w, t, open, m), Run, p <= Len(fmt)
  PROVE  /\ UNCHANGED <<pieces, args>> /\ pc' \in Printing
         /\ \E l \in 0 .. Len(pieces) : Place(w, t, open, l)'
<1> DEFINE q == pieces[m+1]
           a == Len(w[m])
<1>1. m \in Nat /\ m < Len(pieces)  BY PieceLeft DEF Between
<1>2. Meets(w, t, open, m)  BY <1>1, NextOne
<1>3. /\ a \in Nat /\ Len(q.chars) \in Nat /\ Len(fmt) \in Nat /\ p = a + 1 /\ pc = "format"
      /\ \A k \in 1 .. Len(q.chars) : fmt[a + k] = q.chars[k]
      /\ shown = t[m] /\ t[m] \in Seq(STRING) /\ Meaning(m+1) \in Seq(STRING)
      /\ open[m] \in BOOLEAN /\ open[m+1] \in BOOLEAN
      /\ state = (IF open[m] THEN "format" ELSE "normal") /\ arg = Taken(pieces, m)
  BY <1>2 DEF Meets, Between
<1>4. /\ q.kind = "text" => Meaning(m+1) = q.chars /\ Taken(pieces, m+1) = Taken(pieces, m)
      /\ q.kind = "nothing" => Meaning(m+1) = <<>> /\ Taken(pieces, m+1) = Taken(pieces, m)
      /\ q.kind = "argument" => /\ Meaning(m+1) = args[Taken(pieces, m+1)]
                                /\ Taken(pieces, m+1) = Taken(pieces, m) + 1
  BY <1>2 DEF Meets
<1>5. IF open[m] THEN Inside(q, open[m+1]) ELSE Outside(q, open[m+1])
  BY <1>2 DEF Meets
<1>6. UNCHANGED <<pieces, args>>  BY <1>3, Parse
<1>7. q.chars = <<LeftBrace>> \/ q.chars = <<RightBrace>> => Len(q.chars) = 1
  <2>1. \A b : Len(<<b>>) = 1  OBVIOUS
  <2> HIDE DEF q
  <2> QED  BY <2>1
<1>8. 1 <= Len(q.chars) => fmt[p] = q.chars[1]
  BY <1>3
<1>9. /\ q.chars = <<LeftBrace>> => q.chars[1] = LeftBrace
      /\ q.chars = <<RightBrace>> => q.chars[1] = RightBrace
  OBVIOUS
<1> HIDE DEF q, a
<1>10. ASSUME NEW s, Go(s), s = IF open[m+1] THEN "format" ELSE "normal",
              Len(q.chars) = 1, shown' = t[m] \o Meaning(m+1), q.kind # "argument",
              q.kind \in {"text", "nothing"}
       PROVE  pc' \in Printing /\ \E l \in 0 .. Len(pieces) : Place(w, t, open, l)'
  <2>1. /\ pc' = "format" /\ p' = a + Len(q.chars) + 1 /\ state' = s
        /\ arg' = Taken(pieces, m+1)
    BY <1>3, <1>4, <1>10 DEF Go
  <2> QED  BY <1>1, <1>6, <1>10, <2>1, Arrive DEF q, a, Printing
<1>11. t[m] \o <<>> = t[m]  BY <1>3, ConcatEmptySeq
<1>12. Len(q.chars) = 1 /\ q.kind = "text" => t[m] \o Meaning(m+1) = Append(shown, fmt[p])
  <2> SUFFICES ASSUME Len(q.chars) = 1, q.kind = "text"
               PROVE  t[m] \o Meaning(m+1) = Append(shown, fmt[p])
    OBVIOUS
  <2>1. q.chars \in Seq(STRING) /\ fmt[p] = q.chars[1]  BY <1>3, <1>4, <1>8
  <2> QED  BY <1>3, <1>4, <2>1, OneLetter
<1>13. CASE ~open[m]
  <2>1. state = "normal" /\ Outside(q, open[m+1])  BY <1>3, <1>5, <1>13
  <2>2. CASE q.chars = <<LeftBrace>> /\ q.kind = "nothing" /\ open[m+1]
    <3>1. fmt[p] = LeftBrace  BY <1>7, <1>8, <1>9, <2>2
    <3>2. Go("format") /\ UNCHANGED shown  BY <1>3, <2>1, <3>1, Parse
    <3> QED  BY <1>3, <1>4, <1>6, <1>7, <1>10, <1>11, <2>2, <3>2
  <2>3. CASE Len(q.chars) = 1 /\ q.chars[1] # LeftBrace /\ q.kind = "text" /\ ~open[m+1]
    <3>1. fmt[p] # LeftBrace  BY <1>8, <2>3
    <3>2. Go("normal") /\ shown' = Append(shown, fmt[p])  BY <1>3, <2>1, <3>1, Parse
    <3> QED  BY <1>3, <1>6, <1>10, <1>12, <2>3, <3>2
  <2> QED  BY <2>1, <2>2, <2>3 DEF Outside
<1>14. CASE open[m]
  <2>1. state = "format" /\ Inside(q, open[m+1])  BY <1>3, <1>5, <1>14
  <2>2. CASE Len(q.chars) = 1 /\ q.chars[1] \in Directives /\ q.kind = "argument" /\ open[m+1]
    <3>1. fmt[p] \in Directives  BY <1>8, <2>2
    <3>2. /\ pc' \in {"number", "chars"} /\ arg' = arg + 1 /\ text' = args[arg+1] /\ i' = 1
          /\ UNCHANGED <<p, state, shown>>
      BY <1>3, <2>1, <3>1, Parse, Letters
    <3>3. text' = Meaning(m+1) /\ arg' = Taken(pieces, m+1)  BY <1>3, <1>4, <2>2, <3>2
    <3>4. PICK x : x = Meaning(m+1)  OBVIOUS
    <3>5. text' = x /\ Meaning(m+1)' = x /\ x \in Seq(STRING) /\ Len(x) \in Nat
      BY <1>3, <1>6, <3>3, <3>4, SameCall, LenProperties
    <3>6. shown' = t[m] \o SubSeq(x, 1, i' - 1)
      <4>1. SubSeq(x, 1, 0) = <<>>  BY SubSeqEmpty
      <4>2. i' - 1 = 0  BY <3>2
      <4> QED  BY <1>3, <1>11, <3>2, <4>1, <4>2
    <3>7. i' \in 1 .. Len(x) + 1  BY <3>2, <3>5
    <3>8. InText(w, t, open, m)'
      BY <1>1, <1>3, <1>6, <2>1, <2>2, <3>2, <3>3, <3>5, <3>6, <3>7, SameCall DEF InText, q, a
    <3> QED  BY <1>6, <3>2, <3>8 DEF Place, Printing
  <2>3. CASE /\ Len(q.chars) = 1 /\ q.chars[1] \notin Directives \cup {"#", RightBrace}
             /\ q.kind = "text" /\ open[m+1]
    <3>1. fmt[p] \notin Directives \cup {"#", RightBrace}  BY <1>8, <2>3
    <3>2. Go("format") /\ shown' = Append(shown, fmt[p])  BY <1>3, <2>1, <3>1, Parse
    <3> QED  BY <1>3, <1>6, <1>10, <1>12, <2>3, <3>2
  <2>4. CASE q.chars = <<RightBrace>> /\ q.kind = "nothing" /\ ~open[m+1]
    <3>1. fmt[p] = RightBrace  BY <1>7, <1>8, <1>9, <2>4
    <3>2. Go("normal") /\ UNCHANGED shown  BY <1>3, <2>1, <3>1, Parse, Letters
    <3> QED  BY <1>3, <1>4, <1>6, <1>7, <1>10, <1>11, <2>4, <3>2
  <2>5. CASE Colour(q, open[m+1])
    <3>1. fmt[p] = "#" /\ Len(q.chars) \in {2, 8}  BY <1>8, <2>5 DEF Colour
    <3>2. Go("color") /\ UNCHANGED shown  BY <1>3, <2>1, <3>1, Parse, Letters
    <3>3. /\ pc' = "format" /\ state' = "color" /\ p' = a + 2 /\ UNCHANGED <<shown, arg>>
      BY <1>3, <3>2 DEF Go
    <3>4. InColour(w, t, open, m)'
      BY <1>1, <1>3, <1>6, <2>5, <3>1, <3>3, SameCall DEF InColour, Colour, q, a
    <3> QED  BY <1>6, <3>3, <3>4 DEF Place, Printing
  <2> QED  BY <2>1, <2>2, <2>3, <2>4, <2>5 DEF Inside
<1> QED  BY <1>3, <1>6, <1>13, <1>14

(* A colour is read, its six digits in one step, and printed nowhere.      *)
LEMMA FromColour ==
  ASSUME CallOK, NEW w, NEW t, NEW open, Reads(w, t, open), NEW m \in 0 .. Len(pieces),
         InColour(w, t, open, m), Run
  PROVE  /\ UNCHANGED <<pieces, args>> /\ pc' \in Printing
         /\ \E l \in 0 .. Len(pieces) : Place(w, t, open, l)'
<1> DEFINE q == pieces[m+1]
           a == Len(w[m])
<1>1. m \in Nat /\ m < Len(pieces)  BY DEF InColour
<1>2. Meets(w, t, open, m)  BY <1>1, NextOne
<1>3. /\ a \in Nat /\ Len(fmt) \in Nat /\ a + Len(q.chars) <= Len(fmt)
      /\ \A k \in 1 .. Len(q.chars) : fmt[a + k] = q.chars[k]
      /\ t[m] \in Seq(STRING) /\ open[m+1] \in BOOLEAN
      /\ q.kind = "nothing" => Meaning(m+1) = <<>> /\ Taken(pieces, m+1) = Taken(pieces, m)
  BY <1>2 DEF Meets
<1>4. /\ pc = "format" /\ state = "color" /\ Colour(q, open[m+1])
      /\ shown = t[m] /\ arg = Taken(pieces, m)
      /\ \/ Len(q.chars) = 8 /\ q.chars[2] \notin Ends /\ p = a + 2
         \/ p = a + Len(q.chars)
  BY DEF InColour
<1> HIDE DEF q, a
<1>5. Len(q.chars) \in {2, 8} /\ q.kind = "nothing"  BY <1>4 DEF Colour
<1>6. p <= Len(fmt)  BY <1>3, <1>4, <1>5
<1>7. UNCHANGED <<pieces, args>>  BY <1>3, <1>4, <1>6, Parse
<1>8. CASE Len(q.chars) = 8 /\ q.chars[2] \notin Ends /\ p = a + 2
  <2>1. fmt[p] \notin Ends
    <3>1. 2 \in 1 .. Len(q.chars)  BY <1>8
    <3>2. fmt[a + 2] = q.chars[2]  BY <1>3, <3>1
    <3> QED  BY <1>8, <3>2
  <2>2. p' = p + 6 /\ UNCHANGED <<pc, state, arg, shown>>  BY <1>3, <1>4, <1>6, <2>1, Parse
  <2>3. p' = a + Len(q.chars)  BY <1>3, <1>8, <2>2
  <2>4. InColour(w, t, open, m)'
    BY <1>1, <1>4, <1>7, <2>2, <2>3, SameCall DEF InColour, Colour, q, a
  <2> QED  BY <1>4, <1>7, <2>2, <2>4 DEF Place, Printing
<1>9. CASE p = a + Len(q.chars)
  <2>1. fmt[p] = q.chars[Len(q.chars)] /\ fmt[p] \in Ends
    <3>1. Len(q.chars) \in 1 .. Len(q.chars)
      <4>1. \A n \in {2, 8} : n \in 1 .. n  OBVIOUS
      <4> QED  BY <1>5, <4>1
    <3>2. fmt[a + Len(q.chars)] = q.chars[Len(q.chars)]  BY <1>3, <3>1
    <3>3. q.chars[Len(q.chars)] \in Ends  BY <1>4 DEF Colour
    <3> QED  BY <1>9, <3>2, <3>3
  <2>2. Go(AfterColor(fmt[p])) /\ UNCHANGED shown  BY <1>3, <1>4, <1>6, <2>1, Parse
  <2>3. AfterColor(fmt[p]) = IF open[m+1] THEN "format" ELSE "normal"
    BY <1>4, <2>1 DEF Colour, AfterColor
  <2>4. /\ pc' = "format" /\ p' = a + Len(q.chars) + 1 /\ arg' = Taken(pieces, m+1)
        /\ state' = IF open[m+1] THEN "format" ELSE "normal"
    BY <1>3, <1>4, <1>5, <1>9, <2>2, <2>3 DEF Go
  <2>5. shown' = t[m] \o Meaning(m+1)
    <3>1. t[m] \o <<>> = t[m]  BY <1>3, ConcatEmptySeq
    <3> QED  BY <1>3, <1>4, <1>5, <2>2, <3>1
  <2> QED  BY <1>1, <1>7, <2>4, <2>5, Arrive DEF q, a, Printing
<1> QED  BY <1>4, <1>8, <1>9

(* What the loops over a text do.                                          *)
LEMMA Loops ==
  ASSUME Run, pc \in {"number", "chars"}
  PROVE  \/ /\ i <= Len(text) /\ shown' = Append(shown, text[i]) /\ i' = i + 1
            /\ UNCHANGED <<pc, pieces, args, p, state, arg, text>>
         \/ UNCHANGED <<pc, pieces, args, p, state, arg, text, i, shown>>
         \/ /\ i > Len(text) /\ pc' = "format" /\ p' = p + 1
            /\ UNCHANGED <<pieces, args, state, arg, shown>>
<1>1. Character \/ LineBreak \/ LineFull \/ Glyph \/ EndOfText
  BY DEF Run, Normal, Directive, Format, Color, Visit, EndOfFormat, Labelling, LabelBreak,
         LabelGlyph
<1>2. ASSUME NEW ch, printChar(ch) PROVE shown' = Append(shown, ch)
  BY <1>2 DEF printChar, Draw
<1>3. CASE Character  BY <1>2, <1>3 DEF Character, parser
<1>4. CASE LineBreak  BY <1>4 DEF LineBreak, Counting, parser
<1>5. CASE LineFull  BY <1>5 DEF LineFull, parser
<1>6. CASE Glyph  BY <1>6 DEF Glyph, Draw, Counting, parser
<1>7. CASE EndOfText  BY <1>7 DEF EndOfText
<1> QED  BY <1>1, <1>3, <1>4, <1>5, <1>6, <1>7

LEMMA FromText ==
  ASSUME CallOK, NEW w, NEW t, NEW open, Reads(w, t, open), NEW m \in 0 .. Len(pieces),
         InText(w, t, open, m), Run
  PROVE  /\ UNCHANGED <<pieces, args>> /\ pc' \in Printing
         /\ \E l \in 0 .. Len(pieces) : Place(w, t, open, l)'
<1> DEFINE q == pieces[m+1]
           a == Len(w[m])
<1>1. m \in Nat /\ m < Len(pieces) /\ pc \in {"number", "chars"}  BY DEF InText
<1>2. Meets(w, t, open, m)  BY <1>1, NextOne
<1>3. PICK x : x = Meaning(m+1)  OBVIOUS
<1>4. x \in Seq(STRING) /\ Len(x) \in Nat /\ t[m] \in Seq(STRING) /\ a \in Nat
  BY <1>2, <1>3, LenProperties DEF Meets
<1>5. /\ text = x /\ i \in 1 .. Len(x) + 1 /\ shown = t[m] \o SubSeq(x, 1, i - 1)
      /\ state = "format" /\ p = a + 1 /\ Len(q.chars) = 1 /\ open[m+1]
      /\ arg = Taken(pieces, m+1)
  BY <1>3 DEF InText
<1> HIDE DEF q, a
<1>6. CASE /\ i <= Len(text) /\ shown' = Append(shown, text[i]) /\ i' = i + 1
           /\ UNCHANGED <<pc, pieces, args, p, state, arg, text>>
  <2>1. i \in 1 .. Len(x) /\ i' - 1 = i /\ i' \in 1 .. Len(x) + 1  BY <1>4, <1>5, <1>6
  <2>2. SubSeq(x, 1, i) = SubSeq(x, 1, i - 1) \o <<x[i]>>
    <3>1. 1 \in 1 .. Len(x) /\ i \in 1 .. Len(x)  BY <2>1
    <3> QED  BY <1>4, <3>1, SubSeqRecursiveSecond
  <2>3. shown' = t[m] \o SubSeq(x, 1, i' - 1)
    <3> DEFINE z == SubSeq(x, 1, i - 1)
    <3>1. z \in Seq(STRING) /\ x[i] \in STRING
      <4>1. \A k \in 1 .. i - 1 : x[k] \in STRING
        <5>1. \A k \in 1 .. i - 1 : k \in 1 .. Len(x)  BY <1>4, <2>1
        <5> QED  BY <1>4, <5>1, ElementOfSeq
      <4>2. 1 \in Int /\ i - 1 \in Int  BY <2>1
      <4>3. z \in Seq(STRING)  BY <4>1, <4>2, SubSeqProperties
      <4> QED  BY <1>4, <2>1, <4>3, ElementOfSeq
    <3> HIDE DEF z
    <3>2. t[m] \o z \in Seq(STRING) /\ <<x[i]>> \in Seq(STRING)
      BY <1>4, <3>1, ConcatProperties
    <3>3. Append(t[m] \o z, x[i]) = (t[m] \o z) \o <<x[i]>>
      BY <3>1, <3>2, AppendIsConcat
    <3>4. (t[m] \o z) \o <<x[i]>> = t[m] \o (z \o <<x[i]>>)
      <4>1. \A b, c, d \in Seq(STRING) : (b \o c) \o d = b \o (c \o d)  BY ConcatAssociative
      <4> QED  BY <1>4, <3>1, <3>2, <4>1, Zenon
    <3>5. shown = t[m] \o z /\ SubSeq(x, 1, i) = z \o <<x[i]>>  BY <1>5, <2>2 DEF z
    <3> QED  BY <1>5, <1>6, <2>1, <3>3, <3>4, <3>5
  <2>4. Meaning(m+1)' = x  BY <1>3, <1>6, SameCall
  <2>5. InText(w, t, open, m)'
    BY <1>1, <1>5, <1>6, <2>1, <2>3, <2>4, SameCall DEF InText, q, a
  <2> QED  BY <1>1, <1>6, <2>5 DEF Place, Printing
<1>7. CASE UNCHANGED <<pc, pieces, args, p, state, arg, text, i, shown>>
  <2>1. Meaning(m+1)' = x  BY <1>3, <1>7, SameCall
  <2>2. InText(w, t, open, m)'
    BY <1>1, <1>5, <1>7, <2>1, SameCall DEF InText, q, a
  <2> QED  BY <1>1, <1>7, <2>2 DEF Place, Printing
<1>8. CASE /\ i > Len(text) /\ pc' = "format" /\ p' = p + 1
           /\ UNCHANGED <<pieces, args, state, arg, shown>>
  <2>1. i - 1 = Len(x)  BY <1>4, <1>5, <1>8
  <2>2. SubSeq(x, 1, Len(x)) = x  BY <1>4, SubSeqFull
  <2>3. shown' = t[m] \o Meaning(m+1)  BY <1>3, <1>5, <1>8, <2>1, <2>2
  <2>4. p' = a + Len(q.chars) + 1 /\ state' = (IF open[m+1] THEN "format" ELSE "normal")
    BY <1>4, <1>5, <1>8
  <2>5. \E l \in 0 .. Len(pieces) : Place(w, t, open, l)'
    BY <1>1, <1>5, <1>8, <2>3, <2>4, Arrive DEF q, a
  <2> QED  BY <1>8, <2>5 DEF Printing
<1> QED  BY <1>1, <1>6, <1>7, <1>8, Loops

(* Whatever is called: its format can be read.                             *)
Readable == CallOK => \E w, t, open : Reads(w, t, open)

(* At the end of the format no piece is left.                              *)
LEMMA AtTheEnd ==
  ASSUME CallOK, NEW w, NEW t, NEW open, Reads(w, t, open), NEW m \in 0 .. Len(pieces),
         Place(w, t, open, m)
  PROVE  /\ p \in Nat \ {0} /\ p <= Len(fmt) + 1 /\ Len(fmt) \in Nat
         /\ pc = "format" /\ p = Len(fmt) + 1 => Between(w, t, open, m) /\ m = Len(pieces)
<1> DEFINE n == Len(pieces)
           a == Len(w[m])
           q == pieces[m+1]
<1>1. n \in Nat /\ m \in Nat /\ m <= n  BY PiecesTyped
<1>2. CASE m = n
  <2>1. fmt = w[n] /\ w[n] \in Seq(STRING)
    <3>1. n \in 0 .. Len(Texts)  BY <1>1, PiecesTyped
    <3> QED  BY <3>1 DEF Reads, Joining
  <2>2. Len(fmt) \in Nat /\ a = Len(fmt)  BY <1>2, <2>1, LenProperties
  <2>3. ~(m < Len(pieces))  BY <1>1, <1>2
  <2>4. ~InColour(w, t, open, m)  BY <2>3 DEF InColour
  <2>5. ~InText(w, t, open, m)  BY <2>3 DEF InText
  <2>6. Between(w, t, open, m)  BY <2>4, <2>5 DEF Place
  <2> QED  BY <1>2, <2>2, <2>6 DEF Between
<1>3. CASE m # n
  <2>1. m < Len(pieces)  BY <1>1, <1>3
  <2>2. Meets(w, t, open, m)  BY <1>1, <2>1, NextOne
  <2>3. /\ a \in Nat /\ Len(q.chars) \in Nat /\ Len(fmt) \in Nat
        /\ a + Len(q.chars) <= Len(fmt)
        /\ IF open[m] THEN Inside(q, open[m+1]) ELSE Outside(q, open[m+1])
    BY <2>2 DEF Meets
  <2>4. q.chars = <<LeftBrace>> \/ q.chars = <<RightBrace>> => Len(q.chars) = 1
    <3>1. \A b : Len(<<b>>) = 1  OBVIOUS
    <3> HIDE DEF q
    <3> QED  BY <3>1
  <2>5. Colour(q, open[m+1]) => Len(q.chars) \in {2, 8}  BY DEF Colour
  <2>6. Len(q.chars) \in {1, 2, 8}  BY <2>3, <2>4, <2>5 DEF Inside, Outside
  <2>7. Between(w, t, open, m) => p = a + 1  BY DEF Between
  <2>8. InText(w, t, open, m) => p = a + 1  BY DEF InText
  <2>9. InColour(w, t, open, m) => /\ Len(q.chars) \in {2, 8}
                                   /\ (p = a + 2 /\ Len(q.chars) = 8) \/ p = a + Len(q.chars)
    BY <2>5 DEF InColour
  <2>10. Between(w, t, open, m) \/ InColour(w, t, open, m) \/ InText(w, t, open, m)
    BY DEF Place
  <2>11. p = a + 1 \/ (p = a + 2 /\ Len(q.chars) = 8) \/ p = a + Len(q.chars)
    BY <2>7, <2>8, <2>9, <2>10
  <2> HIDE DEF a, q
  <2>12. p \in Nat \ {0} /\ p <= Len(fmt)
    <3>1. \A k, l, n0 \in Nat : l \in {1, 2, 8} /\ k + l <= n0 =>
            /\ k + 1 \in Nat \ {0} /\ k + 1 <= n0 /\ k + l \in Nat \ {0}
            /\ l = 8 => k + 2 \in Nat \ {0} /\ k + 2 <= n0
      OBVIOUS
    <3> QED  BY <2>3, <2>6, <2>11, <3>1
  <2> QED  BY <2>3, <2>12
<1> QED  BY <1>2, <1>3

(* Print() goes from place to place, or returns.                           *)
LEMMA RunPrints ==
  ASSUME PrintOK, Run, pc \in Printing
  PROVE  PrintOK'
<1>1. CallOK  BY DEF PrintOK
<1>2. PICK w, t, open : \E m \in 0 .. Len(pieces) : Reads(w, t, open) /\ Place(w, t, open, m)
  BY DEF PrintOK
<1>3. PICK m \in 0 .. Len(pieces) : Reads(w, t, open) /\ Place(w, t, open, m)
  BY <1>2
<1>4. ASSUME UNCHANGED <<pieces, args>>, pc' \in Printing,
             \E l \in 0 .. Len(pieces) : Place(w, t, open, l)'
      PROVE  PrintOK'
  <2>1. CallOK' /\ Reads(w, t, open)'  BY <1>1, <1>3, <1>4, SameCall
  <2>2. PICK l \in 0 .. Len(pieces) : Place(w, t, open, l)'  BY <1>4
  <2>3. Len(pieces)' = Len(pieces)  BY <1>4
  <2> QED  BY <1>4, <2>1, <2>2, <2>3 DEF PrintOK, Printing
<1>5. CASE InColour(w, t, open, m)  BY <1>1, <1>3, <1>4, <1>5, FromColour
<1>6. CASE InText(w, t, open, m)  BY <1>1, <1>3, <1>4, <1>6, FromText
<1>7. CASE Between(w, t, open, m) /\ p <= Len(fmt)
  BY <1>1, <1>3, <1>4, <1>7, FromBetween
<1>8. CASE Between(w, t, open, m) /\ ~(p <= Len(fmt))
  <2>1. pc = "format"  BY <1>8 DEF Between
  <2>2. EndOfFormat
    BY <1>8, <2>1 DEF Run, Normal, Directive, Format, Color, Visit, Character, Counting,
       LineBreak, LineFull, Glyph, EndOfText, Labelling, LabelBreak, LabelGlyph
  <2> QED  BY <2>2 DEF EndOfFormat, Return, PrintOK, Printing
<1> QED  BY <1>3, <1>5, <1>6, <1>7, <1>8 DEF Place

LEMMA CallPrints ==
  ASSUME PrintOK, Readable', NEW f \in Formats, NEW a \in ArgumentsOf(f), PrintFormat(f, a)
  PROVE  PrintOK'
<1>1. /\ pc = "idle" /\ pc' = "format" /\ pieces' = f /\ args' = a
      /\ UNCHANGED <<p, state, arg, shown>>
  BY DEF PrintFormat, CanBegin
<1>2. p = 1 /\ state = "normal" /\ arg = 0 /\ shown = <<>>
  BY <1>1 DEF PrintOK, Printing
<1>3. CallOK'  BY <1>1 DEF CallOK
<1>4. PICK w, t, open : Reads(w, t, open)'  BY <1>3 DEF Readable
<1>5. w[0] = <<>> /\ t[0] = <<>> /\ open[0] = FALSE
  BY <1>4 DEF Reads, Joining, Legible
<1>6. Taken(f, 0) = 0  BY TakenGrows
<1>7. Len(<<>>) = 0  OBVIOUS
<1>8. Between(w, t, open, 0)'  BY <1>1, <1>2, <1>5, <1>6, <1>7 DEF Between
<1>9. 0 \in 0 .. Len(f)
  <2>1. f \in Seq(Piece)  BY ConsoleConstants
  <2> QED  BY <2>1
<1> QED  BY <1>1, <1>3, <1>4, <1>8, <1>9 DEF PrintOK, Place, Printing

LEMMA StepPrints ==
  ASSUME PrintOK, Readable', [Next]_vars
  PROVE  PrintOK'
<1>1. CASE Run /\ pc \in Printing  BY <1>1, RunPrints
<1>2. ASSUME UNCHANGED <<pc, pieces, args, p, state, arg, text, i, shown>>  PROVE PrintOK'
  <2>1. CASE pc \notin Printing  BY <1>2, <2>1 DEF PrintOK, Printing
  <2>2. CASE pc \in Printing
    <3>1. PICK w, t, open : \E m \in 0 .. Len(pieces) : Reads(w, t, open) /\ Place(w, t, open, m)
      BY <2>2 DEF PrintOK
    <3>2. PICK m \in 0 .. Len(pieces) : Reads(w, t, open) /\ Place(w, t, open, m)
      BY <3>1
    <3>3. CallOK  BY <2>2 DEF PrintOK
    <3>4. CallOK' /\ Reads(w, t, open)' /\ Len(pieces)' = Len(pieces)
      BY <1>2, <3>2, <3>3, SameCall
    <3>5. Meaning(m+1)' = Meaning(m+1)  BY <1>2, SameCall
    <3>6. Between(w, t, open, m) => Between(w, t, open, m)'  BY <1>2 DEF Between
    <3>7. InColour(w, t, open, m) => InColour(w, t, open, m)'  BY <1>2 DEF InColour
    <3>8. InText(w, t, open, m) => InText(w, t, open, m)'  BY <1>2, <3>5 DEF InText
    <3>9. Place(w, t, open, m)'  BY <3>2, <3>6, <3>7, <3>8 DEF Place
    <3> QED  BY <1>2, <2>2, <3>4, <3>9 DEF PrintOK, Printing
  <2> QED  BY <2>1, <2>2
<1>3. ASSUME pc \notin Printing, pc' \in {"string", "label"}, UNCHANGED <<pieces, p, state, arg>>
      PROVE  PrintOK'
  BY <1>3 DEF PrintOK, Printing
<1>4. CASE Run /\ pc \notin Printing
  <2>1. LineBreak \/ LineFull \/ Glyph \/ EndOfText \/ LabelBreak \/ LabelGlyph
    BY <1>4 DEF Run, Normal, Directive, Format, Color, Visit, EndOfFormat, Character, Printing
  <2>2. CASE Return  BY <2>2 DEF Return, PrintOK, Printing
  <2>3. EndOfText => Return  BY <1>4 DEF EndOfText, Printing
  <2>4. LineBreak \/ LineFull \/ Glyph
          => pc = "string" /\ pc' = pc /\ UNCHANGED <<pieces, p, state, arg>>
    BY <1>4 DEF LineBreak, LineFull, Glyph, Counting, Printing, parser
  <2>5. LabelBreak \/ LabelGlyph => pc = "label" /\ pc' = pc /\ UNCHANGED <<pieces, p, state, arg>>
    BY DEF LabelBreak, LabelGlyph, Labelling, parser
  <2> QED  BY <1>3, <1>4, <2>1, <2>2, <2>3, <2>4, <2>5
<1>5. CASE \E f \in Formats : \E a \in ArgumentsOf(f) : PrintFormat(f, a)
  BY <1>5, CallPrints
<1>6. CASE \/ \E s \in Strings : printStr(s)
           \/ \E s \in Labels, place \in Places : tPrintStr(s, place)
  BY <1>3, <1>6 DEF printStr, tPrintStr, CanBegin, Printing, parser
<1>7. ClearScreen \/ Transmitted \/ UNCHANGED vars
        => UNCHANGED <<pc, pieces, args, p, state, arg, text, i, shown>>
  BY DEF ClearScreen, Transmitted, vars, parser, loop
<1> QED  BY <1>1, <1>2, <1>4, <1>5, <1>6, <1>7 DEF Next, Calls

(* print.c:335-449: for every format that is made of the pieces of the     *)
(* language, with braces that open and close, and for all its arguments:   *)
(* Print() prints what the format means, character by character, whatever  *)
(* the port, the screen and the other texts do meanwhile; and it never     *)
(* leaves its format.                                                      *)
THEOREM PrintIsFaithful ==
  FormatsLegible => (Spec => [](PrintsWhatIsMeant /\ NeverPastEnd))
<1> SUFFICES ASSUME FormatsLegible PROVE Spec => [](PrintsWhatIsMeant /\ NeverPastEnd)  OBVIOUS
<1>1. Readable  BY CanRead DEF Readable
<1>2. Init => PrintOK  BY DEF Init, PrintOK, Printing
<1>3. PrintOK /\ Readable' /\ [Next]_vars => PrintOK'  BY StepPrints
<1>4. PrintOK => PrintsWhatIsMeant /\ NeverPastEnd
  <2> SUFFICES ASSUME PrintOK PROVE PrintsWhatIsMeant /\ NeverPastEnd  OBVIOUS
  <2>1. CASE pc \in Printing
    <3>1. CallOK  BY <2>1 DEF PrintOK
    <3>2. PICK w, t, open : \E m \in 0 .. Len(pieces) : Reads(w, t, open) /\ Place(w, t, open, m)
      BY <2>1 DEF PrintOK
    <3>3. PICK m \in 0 .. Len(pieces) : Reads(w, t, open) /\ Place(w, t, open, m)  BY <3>2
    <3>4. /\ p <= Len(fmt) + 1
          /\ pc = "format" /\ p = Len(fmt) + 1 => Between(w, t, open, m) /\ m = Len(pieces)
      BY <3>1, <3>3, AtTheEnd
    <3>5. Between(w, t, open, m) => shown = t[m]  BY DEF Between
    <3>6. Meant = t[Len(pieces)]  BY <3>3 DEF Reads
    <3> QED  BY <3>4, <3>5, <3>6 DEF PrintsWhatIsMeant, NeverPastEnd
  <2>2. CASE pc \notin Printing
    <3>1. pieces = <<>> /\ p = 1 /\ pc # "format"  BY <2>2 DEF PrintOK, Printing
    <3>2. fmt \in Seq(STRING)  BY <3>1, WrittenIsSeq DEF fmt
    <3>3. Len(fmt) \in Nat  BY <3>2, LenProperties
    <3> QED  BY <3>1, <3>3 DEF PrintsWhatIsMeant, NeverPastEnd
  <2> QED  BY <2>1, <2>2
<1> QED  BY <1>1, <1>2, <1>3, <1>4, PTL DEF Spec

----------------------------------------------------------------------------
(* ReadingOrder.                                                           *)

(* Where c is, the glyph at g has been left behind.                         *)
IsPast(g, c) == \/ c.y = g.y /\ c.x >= g.x + CellWidth
                \/ c.y >= g.y + CellHeight

(* The cursor has left the last glyph.                                     *)
OrderOK ==
  /\ cursor \in Cursors /\ last \subseteq Cursors
  /\ \A g, h \in last : g = h
  /\ \A g \in last : IsPast(g, cursor)

LEMMA NextLineIsBehind ==
  ASSUME RoomBelow, OrderOK, NEW c \in Cursors, c.y = cursor.y + CellHeight
  PROVE  \A g \in last \cup {cursor} : IsPast(g, c)
<1> SUFFICES ASSUME NEW g \in last \cup {cursor} PROVE c.y >= g.y + CellHeight
  BY DEF IsPast
<1>1. /\ cursor.y \in Nat /\ CellHeight \in Nat /\ g.y \in Nat
      /\ g \in last => IsPast(g, cursor)
  BY Dimensions DEF OrderOK, Cursors
<1>2. cursor.y >= g.y  BY <1>1 DEF IsPast
<1> QED  BY <1>1, <1>2

LEMMA FartherIsBehind ==
  ASSUME OrderOK, NEW c \in Cursors, c.y = cursor.y, c.x >= cursor.x
  PROVE  /\ \A g \in last : IsPast(g, c)
         /\ c.x >= cursor.x + CellWidth => IsPast(cursor, c)
<1>1. cursor.x \in Nat /\ CellWidth \in Nat /\ c.x \in Nat
  BY Dimensions DEF OrderOK, Cursors
<1>2. ASSUME NEW g \in last  PROVE IsPast(g, c)
  <2>1. IsPast(g, cursor) /\ g.x \in Nat  BY DEF OrderOK, Cursors
  <2> QED  BY <1>1, <2>1 DEF IsPast
<1> QED  BY <1>2 DEF IsPast

LEMMA LinesBelow ==
  ASSUME RoomBelow, cursor \in Cursors
  PROVE  /\ NewLine(cursor) \in Cursors /\ NewLine(cursor).y = cursor.y + CellHeight
         /\ NextLine \in Cursors /\ NextLine.y = cursor.y + CellHeight
<1>1. cursor.y \in Nat /\ cursor.jumped \in BOOLEAN /\ CellHeight \in Nat /\ Margin \in Nat
  BY Dimensions DEF Cursors
<1>2. Below(cursor.y) = cursor.y + CellHeight  BY <1>1, Dimensions DEF Below, RoomBelow
<1>3. NewLine(cursor) = [x |-> Margin, y |-> cursor.y + CellHeight, jumped |-> FALSE]
  BY <1>2 DEF NewLine
<1>4. NextLine = [x |-> Margin, y |-> cursor.y + CellHeight,
                  jumped |-> (cursor.jumped /\ pc = "number")]
  BY <1>3 DEF NextLine
<1> QED  BY <1>1, <1>3, <1>4 DEF Cursors

LEMMA FartherRight ==
  ASSUME cursor \in Cursors, NEW n \in Nat
  PROVE  LET c == [cursor EXCEPT !.x = @ + n, !.jumped = TRUE]
             e == [cursor EXCEPT !.x = @ + n]
             d == [cursor EXCEPT !.jumped = TRUE]
         IN  /\ c \in Cursors /\ c.y = cursor.y /\ c.x = cursor.x + n /\ c.x >= cursor.x
             /\ e \in Cursors /\ e.y = cursor.y /\ e.x = cursor.x + n /\ e.x >= cursor.x
             /\ d \in Cursors /\ d.y = cursor.y /\ d.x = cursor.x /\ d.x >= cursor.x
<1>1. /\ cursor = [x |-> cursor.x, y |-> cursor.y, jumped |-> cursor.jumped]
      /\ cursor.x \in Nat /\ cursor.y \in Nat /\ cursor.jumped \in BOOLEAN
  BY DEF Cursors
<1> DEFINE c == [cursor EXCEPT !.x = @ + n, !.jumped = TRUE]
           e == [cursor EXCEPT !.x = @ + n]
           d == [cursor EXCEPT !.jumped = TRUE]
<1>2. ASSUME NEW r, r = c  PROVE r = [x |-> cursor.x + n, y |-> cursor.y, jumped |-> TRUE]
  BY <1>2 DEF Cursors
<1>3. e = [x |-> cursor.x + n, y |-> cursor.y, jumped |-> cursor.jumped]  BY <1>1
<1>4. ASSUME NEW r, r = d  PROVE r = [x |-> cursor.x, y |-> cursor.y, jumped |-> TRUE]
  BY <1>4 DEF Cursors
<1> HIDE DEF c, e, d
<1>5. c \in Cursors /\ c.y = cursor.y /\ c.x = cursor.x + n /\ c.x >= cursor.x
  <2>1. c = [x |-> cursor.x + n, y |-> cursor.y, jumped |-> TRUE]  BY <1>2
  <2>2. cursor.x + n \in Nat /\ cursor.x + n >= cursor.x /\ TRUE \in BOOLEAN  BY <1>1
  <2>3. c \in Cursors  BY <1>1, <2>1, <2>2, Zenon DEF Cursors
  <2> QED  BY <2>1, <2>2, <2>3
<1>6. e \in Cursors /\ e.y = cursor.y /\ e.x = cursor.x + n /\ e.x >= cursor.x
  BY <1>1, <1>3 DEF Cursors
<1>7. d \in Cursors /\ d.y = cursor.y /\ d.x = cursor.x /\ d.x >= cursor.x
  <2>1. d = [x |-> cursor.x, y |-> cursor.y, jumped |-> TRUE]  BY <1>4
  <2>2. TRUE \in BOOLEAN  OBVIOUS
  <2>3. d \in Cursors  BY <1>1, <2>1, <2>2, Zenon DEF Cursors
  <2> QED  BY <1>1, <2>1, <2>3
<1> QED  BY <1>5, <1>6, <1>7 DEF c, e, d

(* fillScreen() wipes every glyph.                                         *)
LEMMA FillWipes ==
  ASSUME OrderOK
  PROVE  AfterFill(last) = {}
<1> SUFFICES ASSUME NEW g \in AfterFill(last) PROVE FALSE  OBVIOUS
<1> DEFINE edge(n, limit) == IF n < limit THEN n ELSE limit - 1
<1>1. /\ g \in last
      /\ \/ g.x + 1 < 0 \/ edge(g.x + FontWidth, Width) >= 0 + Pitch
         \/ g.y < 0     \/ edge(g.y + FontHeight - 1, Height) >= 0 + Height
  BY DEF AfterFill, printRectangle
<1>2. g.x \in Nat /\ g.y \in Nat  BY <1>1 DEF OrderOK, Cursors
<1>3. Pitch \in Nat /\ Width \in Nat \ {0} /\ Height \in Nat \ {0} /\ Pitch >= Width
  <2>1. Width * PixelBytes >= Width  BY Dimensions
  <2> QED  BY <2>1, Dimensions
<1>4. FontWidth \in Nat /\ FontHeight \in Nat \ {0}  BY Dimensions DEF FontWidth, FontHeight
<1>5. edge(g.x + FontWidth, Width) < Width /\ edge(g.y + FontHeight - 1, Height) < Height
  BY <1>2, <1>3, <1>4
<1> QED  BY <1>1, <1>2, <1>3, <1>4, <1>5

(* What a step does to the cursor and the glyphs.                          *)
LEMMA StepMoves ==
  ASSUME RoomBelow, OrderOK, [Next]_vars
  PROVE  /\ cursor' \in Cursors
         /\ \/ last' = last /\ \A g \in last : IsPast(g, cursor')
            \/ last' = {cursor} /\ IsPast(cursor, cursor')
            \/ last' = {}
<1>0. cursor \in Cursors /\ \A g \in last : IsPast(g, cursor)  BY DEF OrderOK
<1> DEFINE Goal == /\ cursor' \in Cursors
                   /\ \/ last' = last /\ \A g \in last : IsPast(g, cursor')
                      \/ last' = {cursor} /\ IsPast(cursor, cursor')
                      \/ last' = {}
<1>1. ASSUME UNCHANGED <<cursor, last>>  PROVE Goal  BY <1>0, <1>1
<1>2. ASSUME cursor' \in Cursors, cursor'.y = cursor.y + CellHeight, last' \in {last, {cursor}}
      PROVE  Goal
  <2>1. PICK c \in Cursors : c = cursor'  BY <1>2
  <2>2. \A g \in last \cup {cursor} : IsPast(g, c)  BY <1>2, <2>1, NextLineIsBehind
  <2> QED  BY <1>2, <2>1, <2>2
<1>3. ASSUME cursor' \in Cursors, cursor'.y = cursor.y, cursor'.x >= cursor.x, UNCHANGED last
      PROVE  Goal
  <2>1. PICK c \in Cursors : c = cursor'  BY <1>3
  <2>2. \A g \in last : IsPast(g, c)  BY <1>3, <2>1, FartherIsBehind
  <2> QED  BY <1>3, <2>1, <2>2
<1>4. ASSUME cursor' = [cursor EXCEPT !.x = @ + CellWidth], last' = {cursor}  PROVE Goal
  <2>1. CellWidth \in Nat  BY Dimensions
  <2>2. PICK c : c = [cursor EXCEPT !.x = @ + CellWidth]  OBVIOUS
  <2>3. c \in Cursors /\ c.y = cursor.y /\ c.x = cursor.x + CellWidth /\ c.x >= cursor.x
    BY <1>0, <2>1, <2>2, FartherRight
  <2>4. c.x >= cursor.x + CellWidth  BY <1>0, <2>1, <2>3 DEF Cursors
  <2>5. IsPast(cursor, c)  BY <2>3, <2>4, FartherIsBehind
  <2> QED  BY <1>4, <2>2, <2>3, <2>5
<1>5. ASSUME cursor' = [cursor EXCEPT !.jumped = TRUE], UNCHANGED last  PROVE Goal
  BY <1>0, <1>3, <1>5, FartherRight
<1> HIDE DEF Goal
<1>6. ASSUME NEW ch, printChar(ch)  PROVE Goal
  <2>1. CASE cursor' = NewLine(cursor) /\ UNCHANGED last  BY <1>0, <1>2, <2>1, LinesBelow
  <2>2. CASE cursor' = [cursor EXCEPT !.x = @ + TabSize * CellWidth, !.jumped = TRUE]
             /\ UNCHANGED last
    <3>1. PICK n : n = TabSize * CellWidth  OBVIOUS
    <3>2. n \in Nat  BY <3>1, Dimensions
    <3> QED  BY <1>0, <1>3, <2>2, <3>1, <3>2, FartherRight
  <2>3. CASE Draw(ch, AfterGlyph(cursor))
    <3>1. cursor' \in {NewLine(cursor), [cursor EXCEPT !.x = @ + CellWidth]} /\ last' = {cursor}
      BY <2>3 DEF Draw, AfterGlyph
    <3> QED  BY <1>0, <1>2, <1>4, <3>1, LinesBelow
  <2> QED  BY <1>6, <2>1, <2>2, <2>3 DEF printChar
<1>7. ASSUME fillScreen  PROVE Goal
  <2>1. Home \in Cursors  BY DEF Home, Cursors
  <2> QED  BY <1>7, <2>1, FillWipes DEF fillScreen, Goal
<1>8. Normal \/ Format => UNCHANGED <<cursor, last>> \/ \E ch : printChar(ch)
  BY DEF Normal, Format
<1>9. Directive \/ Color \/ EndOfFormat => UNCHANGED <<cursor, last>>
  BY DEF Directive, Color, EndOfFormat
<1>10. Character => \E ch : printChar(ch)  BY DEF Character
<1>11. LineBreak \/ LineFull => cursor' = NextLine /\ UNCHANGED last
  BY DEF LineBreak, LineFull
<1>12. ASSUME cursor' = NextLine, UNCHANGED last  PROVE Goal
  BY <1>0, <1>2, <1>12, LinesBelow
<1>13. Glyph => cursor' = [cursor EXCEPT !.x = @ + CellWidth] /\ last' = {cursor}
  BY DEF Glyph, Draw
<1>14. EndOfText => UNCHANGED <<cursor, last>>
                    \/ (cursor' = [cursor EXCEPT !.jumped = TRUE] /\ UNCHANGED last)
  BY DEF EndOfText
<1>15. LabelBreak \/ LabelGlyph => UNCHANGED <<cursor, last>> \/ fillScreen
  BY DEF LabelBreak, LabelGlyph
<1>16. Run => Goal
  BY <1>1, <1>4, <1>5, <1>6, <1>7, <1>8, <1>9, <1>10, <1>11, <1>12, <1>13, <1>14, <1>15 DEF Run
<1>17. (\E f \in Formats : \E a \in ArgumentsOf(f) : PrintFormat(f, a))
         => UNCHANGED <<cursor, last>>
  BY DEF PrintFormat
<1>18. (\E s \in Strings : printStr(s))
         => cursor' = [cursor EXCEPT !.jumped = TRUE] /\ UNCHANGED last
  BY DEF printStr
<1>19. (\E s \in Labels, place \in Places : tPrintStr(s, place)) => UNCHANGED <<cursor, last>>
  BY DEF tPrintStr
<1>20. ClearScreen => fillScreen  BY DEF ClearScreen
<1>21. Transmitted \/ UNCHANGED vars => UNCHANGED <<cursor, last>>  BY DEF Transmitted, vars
<1>22. Goal
  BY <1>1, <1>5, <1>7, <1>16, <1>17, <1>18, <1>19, <1>20, <1>21 DEF Next, Calls
<1> QED  BY <1>22 DEF Goal

(* print.c:44-58, 86-110, printbasic.c:33-37: in every order of calls, and *)
(* whichever loops draw, each glyph stands right of the one before or on a *)
(* lower line, as long as the cursor does not come to the model's bound.   *)
THEOREM GlyphsInReadingOrder == Spec /\ []RoomBelow => ReadingOrder
<1> DEFINE Ordered == \A g \in last, h \in last' :
                        \/ h = g
                        \/ h.y = g.y /\ h.x >= g.x + CellWidth
                        \/ h.y >= g.y + CellHeight
<1>1. Init => OrderOK
  <2>1. Home \in Cursors  BY DEF Home, Cursors
  <2> QED  BY <2>1 DEF Init, OrderOK
<1>2. OrderOK /\ RoomBelow /\ [Next]_vars => OrderOK'
  <2> SUFFICES ASSUME OrderOK, RoomBelow, [Next]_vars PROVE OrderOK'  OBVIOUS
  <2>1. /\ cursor' \in Cursors
        /\ \/ last' = last /\ \A g \in last : IsPast(g, cursor')
           \/ last' = {cursor} /\ IsPast(cursor, cursor')
           \/ last' = {}
    BY StepMoves
  <2>2. PICK c : c = cursor'  OBVIOUS
  <2>3. (last' = last /\ \A g \in last : IsPast(g, c)) \/ (last' = {cursor} /\ IsPast(cursor, c))
        \/ last' = {}
    BY <2>1, <2>2
  <2>4. last' \subseteq Cursors /\ \A g, h \in last' : g = h  BY <2>1 DEF OrderOK
  <2>5. \A g \in last' : IsPast(g, c)  BY <2>3
  <2> QED  BY <2>1, <2>2, <2>4, <2>5 DEF OrderOK
<1>3. OrderOK /\ RoomBelow /\ [Next]_vars => [Ordered]_vars
  <2> SUFFICES ASSUME OrderOK, RoomBelow, [Next]_vars PROVE Ordered  OBVIOUS
  <2>1. last' = last \/ last' = {cursor} \/ last' = {}  BY StepMoves
  <2> QED  BY <2>1 DEF OrderOK, IsPast
<1> QED  BY <1>1, <1>2, <1>3, PTL DEF Spec, ReadingOrder
=============================================================================
