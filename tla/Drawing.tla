------------------------------ MODULE Drawing ------------------------------
(* kernel/print/printbasic.c: which bytes of the framebuffer are written.  *)
(* Positions are so small that where, a uint32, does not wrap.             *)
EXTENDS Integers

CONSTANTS
  Width, Height,  (* of the framebuffer, in pixels                         *)
  PixelBytes,     (* bpp / 8                                               *)
  Pitch,          (* bytes from one row to the next                        *)
  CellWidth,      (* font->width + 1                                       *)
  CellHeight      (* font->height + 1                                      *)

ASSUME DrawingConstants ==
  /\ {Width, Height, PixelBytes, Pitch} \subseteq Nat \ {0}
  /\ {CellWidth, CellHeight} \subseteq Nat \ {0, 1}
  /\ Pitch >= Width * PixelBytes /\ Height >= CellHeight

FontWidth  == CellWidth - 1
FontHeight == CellHeight - 1

(* The first byte of a pixel; its last one is two further, its blue, green *)
(* and red come in this order.                                             *)
where(x, y) == x * PixelBytes + y * Pitch
LastByte(x, y) == where(x, y) + 2

(* tPrintChar() sets pixels in the columns x + 1 to x + width.  A position *)
(* is a record of an x and a y.                                            *)
CharInside(g) ==
  LastByte(g.x + FontWidth, g.y + FontHeight - 1) < Height * Pitch

(* printRectangle() of that many rows and columns leaves a glyph if it has *)
(* a visible pixel outside of them.                                        *)
printRectangle(rows, columns, x, y, glyphs) ==
  LET last(edge, limit) == IF edge < limit THEN edge ELSE limit - 1
  IN  { g \in glyphs :
          \/ g.x + 1 < x \/ last(g.x + FontWidth, Width) >= x + columns
          \/ g.y < y     \/ last(g.y + FontHeight - 1, Height) >= y + rows }

(* fillScreen() passes the rows as width and the bytes of a row as height. *)
AfterFill(glyphs) == printRectangle(Height, Pitch, 0, 0, glyphs)
=============================================================================
