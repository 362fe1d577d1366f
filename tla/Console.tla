------------------------------- MODULE Console -------------------------------
(***************************************************************************)
(* The text screen of the kernel (kernel/text), down to what the frame     *)
(* buffer shows (kernel/vesa, kernel/graphics).  The system calls about    *)
(* text run with interrupts off and one program makes them, so they are    *)
(* functions from a console to a console, and a caller composes them.      *)
(*                                                                         *)
(* A character cell is the unit of drawing.  The arrays are not checked:   *)
(* a cell left of the screen is at the other end of its pixel lines, the   *)
(* character left of a row is the last of the row above.                   *)
(***************************************************************************)
EXTENDS Integers, SequencesExt

CONSTANTS
  Width, Height,   \* text_width, text_height
  Glyphs,          \* characters with an image
  Blank,           \* a space; a byte nobody has written looks the same
  Block,           \* the white rectangle of the cursor
  NewLine          \* '\n'

ASSUME ScreenAssumption ==
  /\ Width \in Nat \ {0} /\ Height \in Nat \ {0, 1}
  /\ Blank \in Glyphs /\ Block \notin Glyphs /\ NewLine \notin Glyphs

VARIABLE console   \* the statics of text.cpp and vesa.cpp

Row == 0 .. Height - 1
\* Cells are numbered as the characters of text_buffer are, which has one row
\* more than the screen.
Cell == 0 .. Width * Height - 1
TextIndex == 0 .. Width * (Height + 1) - 1

Cleared(row) ==
  [text_buffer |-> [i \in TextIndex |-> Blank],
   cursor_x |-> 0, cursor_y |-> row, prev_x |-> 0, prev_y |-> row,
   buffer |-> [c \in Cell |-> Blank],        \* what is drawn
   changed_lines |-> {},
   shown |-> [c \in Cell |-> Blank]]         \* the frame buffer

-----------------------------------------------------------------------------
\* drawChar and drawRect of gfx: pixels and the lines they are in.
CellAt(x, y) == (x % Width) + y * Width

Draw(con, x, y, image) ==
  [con EXCEPT !.buffer[CellAt(x, y)] = image,
              !.changed_lines = @ \cup {y}]

updateChar(con, x, y) == Draw(con, x, y, con.text_buffer[x + y * Width])

swapBuffers(con) ==
  [con EXCEPT !.shown = [c \in Cell |-> IF c \div Width \in con.changed_lines
                                          THEN con.buffer[c] ELSE @[c]],
              !.changed_lines = {}]

newLineUnblanked(con) ==                      \* mutant: the last row stays
  IF con.cursor_y < Height - 1
    THEN [con EXCEPT !.cursor_x = 0, !.cursor_y = @ + 1]
    ELSE LET scrolled == [i \in TextIndex |-> IF i < Width * (Height - 1)
                                                THEN con.text_buffer[i + Width]
                                                ELSE con.text_buffer[i]]
         IN  [con EXCEPT !.cursor_x = 0, !.text_buffer = scrolled,
                         !.buffer = [c \in Cell |-> scrolled[c]],
                         !.changed_lines = Row, !.prev_x = -1]
newLine(con) ==
  IF con.cursor_y < Height - 1
    THEN [con EXCEPT !.cursor_x = 0, !.cursor_y = @ + 1]
    ELSE LET scrolled == [i \in TextIndex |-> IF i < Width * (Height - 1)
                                                THEN con.text_buffer[i + Width]
                                              ELSE IF i < Width * Height THEN Blank
                                              ELSE con.text_buffer[i]]
         IN  [con EXCEPT !.cursor_x = 0, !.text_buffer = scrolled,
                         !.buffer = [c \in Cell |-> scrolled[c]],
                         !.changed_lines = Row, !.prev_x = -1]

flushTextUnmoved(con) ==                      \* mutant: forgets where the block is
  IF con.prev_x # con.cursor_x \/ con.prev_y # con.cursor_y
    THEN LET off == updateChar(con, con.prev_x, con.prev_y)
         IN  swapBuffers(Draw(off, con.cursor_x, con.cursor_y, Block))
    ELSE swapBuffers(con)
flushText(con) ==
  IF con.prev_x # con.cursor_x \/ con.prev_y # con.cursor_y
    THEN LET off == updateChar(con, con.prev_x, con.prev_y)
             on == Draw(off, con.cursor_x, con.cursor_y, Block)
         IN  swapBuffers([on EXCEPT !.prev_x = con.cursor_x, !.prev_y = con.cursor_y])
    ELSE swapBuffers(con)

putChar(con, character) ==
  IF character = NewLine THEN newLine(con)
  ELSE LET written == [con EXCEPT !.text_buffer[con.cursor_x + con.cursor_y * Width] = character]
           put == [updateChar(written, con.cursor_x, con.cursor_y) EXCEPT !.cursor_x = @ + 1]
       IN  IF put.cursor_x >= Width THEN newLine(put) ELSE put

TextOutString(con, string) == FoldLeft(putChar, con, string)

SetCursorPos(con, x, y) == flushText([con EXCEPT !.cursor_x = x, !.cursor_y = y])

-----------------------------------------------------------------------------
\* The frame buffer shows one cursor, where it is, and on its row the text that
\* leads up to it: the old image of the cursor is taken away whatever has
\* happened since, a line break, a scroll or an erasure included.  Nothing is
\* promised of other rows, where what was erased across the left margin stays
\* drawn until the text scrolls.
LineShown ==
  LET row == console.cursor_y * Width
  IN  /\ {c \in Cell : console.shown[c] = Block} = {CellAt(console.cursor_x, console.cursor_y)}
      /\ \A c \in row .. row + console.cursor_x - 1 :
           console.shown[c] = console.text_buffer[c]
=============================================================================
