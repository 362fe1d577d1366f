---------------------------- MODULE TerminalProofs ----------------------------
(***************************************************************************)
(* The screen and the shell, for every size of the screen, every prompt    *)
(* and every report: what is shown is the command that Enter will run, and *)
(* the cursor is drawn once, where it is.                                  *)
(***************************************************************************)
EXTENDS Terminal, SequenceTheorems, WellFoundedInduction, TLAPS

-----------------------------------------------------------------------------
(* Rows, columns and cells.                                                *)

LEMMA Sizes ==
  /\ Width \in Nat /\ Width >= 1 /\ Height \in Nat /\ Height >= 2 /\ Width * Height \in Nat
  /\ Width * (Height - 1) = Width * Height - Width
  /\ Width * (Height - 2) = Width * Height - Width - Width
  /\ Width * (Height + 1) = Width * Height + Width
<1>1. Width \in Nat /\ Width >= 1 /\ Height \in Nat /\ Height >= 2
  BY ScreenAssumption
<1>2. \A v, w \in Int : /\ v * w \in Int /\ (v >= 0 /\ w >= 0 => v * w >= 0)
                        /\ v * (w - 1) = v * w - v /\ v * (w - 2) = v * w - v - v
                        /\ v * (w + 1) = v * w + v
  OBVIOUS
<1>3. Width \in Int /\ Height \in Int
  BY <1>1
<1>4. Width * Height \in Int /\ Width * Height >= 0
  BY <1>1, <1>2, <1>3
<1> QED BY <1>1, <1>2, <1>3, <1>4

\* Where a row begins.
LEMMA Begin ==
  ASSUME NEW y \in Nat
  PROVE  /\ y * Width \in Nat /\ (y + 1) * Width = y * Width + Width
         /\ y >= 1 => y * Width >= Width
<1>1. Width \in Nat
  BY Sizes
<1> DEFINE w == Width
<1>2. y * w \in Int /\ y * w >= 0 /\ (y + 1) * w = y * w + w
  <2> HIDE DEF w
  <2>1. w \in Nat
    BY <1>1 DEF w
  <2> QED BY <2>1
<1>3. ASSUME y >= 1 PROVE y * w >= w
  <2> DEFINE z == y - 1
  <2>1. z \in Nat /\ y = z + 1
    BY <1>3
  <2> HIDE DEF w, z
  <2>2. w \in Nat
    BY <1>1 DEF w
  <2>3. (z + 1) * w = z * w + w /\ z * w >= 0 /\ z * w \in Int
    BY <2>1, <2>2
  <2> QED BY <2>1, <2>2, <2>3
<1> QED BY <1>2, <1>3

LEMMA Above ==
  ASSUME NEW a \in Nat, NEW b \in Nat, a < b
  PROVE  a * Width + Width <= b * Width
<1> DEFINE d == b - a - 1
           w == Width
<1>1. d \in Nat /\ b = a + 1 + d /\ w \in Nat
  BY Sizes
<1> HIDE DEF d, w
<1>2. (a + 1 + d) * w = a * w + w + d * w /\ d * w >= 0 /\ d * w \in Int /\ a * w \in Int
  BY <1>1
<1>3. a * w + w <= b * w
  BY <1>1, <1>2
<1> QED BY <1>3 DEF w

LEMMA RowIs ==
  ASSUME NEW y \in Row
  PROVE  /\ y \in Nat /\ y * Width \in Nat /\ y * Width + Width <= Width * Height
         /\ y < Height - 1 => /\ y + 1 \in Row /\ (y + 1) * Width = y * Width + Width
                              /\ y * Width + Width + Width <= Width * Height
         /\ ~(y < Height - 1) => y = Height - 1 /\ y * Width = Width * Height - Width
         /\ y >= 1 => y * Width >= Width
<1>1. y \in Nat /\ y <= Height - 1
  BY Sizes DEF Row
<1>2. y * Width \in Nat /\ (y + 1) * Width = y * Width + Width /\ (y >= 1 => y * Width >= Width)
  BY <1>1, Begin
<1> DEFINE last == Height - 1
<1>3. last \in Nat /\ last * Width = Width * Height - Width /\ last >= 1
  <2>1. (Height - 1) * Width = Width * (Height - 1)
    BY Sizes
  <2> QED BY <2>1, Sizes
<1>4. ASSUME y < last PROVE y * Width + Width + Width <= Width * Height /\ y + 1 \in Row
  <2>1. y * Width + Width <= last * Width
    BY <1>1, <1>3, <1>4, Above
  <2>2. y + 1 \in Row
    BY <1>1, <1>4, Sizes DEF Row
  <2> HIDE DEF last
  <2> DEFINE yw == y * Width
             lw == last * Width
             wh == Width * Height
  <2>3. wh \in Nat /\ yw \in Nat /\ lw = wh - Width /\ yw + Width <= lw /\ Width \in Nat
    BY <1>2, <1>3, <2>1, Sizes
  <2> HIDE DEF yw, lw, wh
  <2>4. yw + Width + Width <= wh
    BY <2>3
  <2> QED BY <2>2, <2>4 DEF yw, wh
<1>5. ASSUME ~(y < last) PROVE y = last /\ y * Width = Width * Height - Width
  BY <1>1, <1>3, <1>5
<1>6. y * Width + Width <= Width * Height
  <2> HIDE DEF last
  <2> DEFINE yw == y * Width
             wh == Width * Height
  <2>1. wh \in Nat /\ yw \in Nat /\ Width \in Nat
    BY <1>2, Sizes
  <2>2. y < last \/ ~(y < last)
    OBVIOUS
  <2>3. y < last => yw + Width + Width <= wh
    BY <1>4
  <2>4. ~(y < last) => yw = wh - Width
    BY <1>5
  <2> HIDE DEF yw, wh
  <2>5. yw + Width <= wh
    BY <2>1, <2>2, <2>3, <2>4
  <2> QED BY <2>5 DEF yw, wh
<1> HIDE DEF last
<1>7. (y < Height - 1 <=> y < last) /\ (y = last <=> y = Height - 1)
  BY DEF last
<1> QED BY <1>1, <1>2, <1>4, <1>5, <1>6, <1>7

LEMMA CellIs ==
  ASSUME NEW x \in Int, NEW y \in Row
  PROVE  /\ CellAt(x, y) \in Cell
         /\ y * Width <= CellAt(x, y) /\ CellAt(x, y) < y * Width + Width
         /\ x >= 0 /\ x < Width => CellAt(x, y) = x + y * Width
         /\ x = -1 => CellAt(x, y) = y * Width + Width - 1
<1> DEFINE w == Width
           r == x % w
<1>1. w \in Nat /\ w >= 1
  BY Sizes
<1>2. /\ r \in Int /\ r >= 0 /\ r < w
      /\ x >= 0 /\ x < w => r = x
      /\ x = -1 => r = w - 1
  <2> HIDE DEF w
  <2> HIDE DEF r
  <2>1. r \in Int /\ r >= 0 /\ r < w
    BY ONLY x \in Int, <1>1 DEF r
  <2>2. x >= 0 /\ x < w => r = x
    BY ONLY x \in Int, <1>1 DEF r
  <2>3. x = -1 => r = w - 1
    BY ONLY x \in Int, <1>1 DEF r
  <2> QED BY <2>1, <2>2, <2>3
<1>3. y * w \in Nat /\ y * w + w <= w * Height /\ w * Height \in Nat
  BY RowIs, Sizes
<1> DEFINE yw == y * w
           wh == w * Height
<1>4. CellAt(x, y) = r + yw /\ Cell = 0 .. wh - 1
  BY DEF CellAt, Cell
<1>5. yw \in Nat /\ yw + w <= wh /\ wh \in Nat
  BY <1>3
<1> HIDE DEF r, yw, wh, w
<1>6. /\ r + yw \in 0 .. wh - 1 /\ yw <= r + yw /\ r + yw < yw + w
      /\ x >= 0 /\ x < w => r + yw = x + yw
      /\ x = -1 => r + yw = yw + w - 1
  BY <1>1, <1>2, <1>5
<1> QED BY <1>4, <1>6 DEF yw, w

LEMMA LineIs ==
  ASSUME NEW c \in Cell
  PROVE  /\ c \div Width \in Row
         /\ \A y \in Row : y * Width <= c /\ c < y * Width + Width => c \div Width = y
<1> DEFINE w == Width
           q == c \div w
           wh == w * Height
<1>1. w \in Nat /\ w >= 1 /\ Height \in Nat /\ wh \in Nat /\ c \in Nat /\ c < wh
  BY Sizes DEF Cell
<1>2. q \in Nat /\ q * w <= c /\ c < q * w + w
  <2> HIDE DEF w, wh
  <2>1. \A v \in Nat \ {0} : c \div v \in Nat
    BY <1>1
  <2>2. \A v \in Nat \ {0} : (c \div v) * v <= c
    BY <1>1
  <2>3. \A v \in Nat \ {0} : c < (c \div v) * v + v
    BY <1>1
  <2> QED BY <1>1, <2>1, <2>2, <2>3
<1> HIDE DEF q
<1>3. ASSUME NEW y \in Nat, y * w <= c, c < y * w + w PROVE q = y
  <2>1. q < y => q * w + w <= y * w
    BY <1>2, Above
  <2>2. y < q => y * w + w <= q * w
    BY <1>2, Above
  <2> DEFINE qw == q * w
             yw == y * w
  <2>3. qw \in Nat /\ yw \in Nat
    BY <1>2, Begin
  <2> HIDE DEF w, wh
  <2>4. qw <= c /\ c < qw + w /\ yw <= c /\ c < yw + w
    BY <1>2, <1>3
  <2>5. (q < y => qw + w <= yw) /\ (y < q => yw + w <= qw)
    BY <2>1, <2>2
  <2> HIDE DEF qw, yw
  <2> QED BY <1>1, <1>2, <2>3, <2>4, <2>5
<1>4. q \in Row
  <2>1. ~(Height - 1 < q)
    <3> SUFFICES ASSUME Height - 1 < q PROVE FALSE
      OBVIOUS
    <3>1. Height - 1 \in Nat /\ (Height - 1) * w = wh - w
      BY Sizes
    <3>2. (Height - 1) * w + w <= q * w
      BY <1>2, <3>1, Above
    <3> HIDE DEF w, wh
    <3> DEFINE qw == q * w
               lw == (Height - 1) * w
    <3>3. qw <= c /\ lw = wh - w /\ lw + w <= qw
      BY <1>2, <3>1, <3>2
    <3>4. qw \in Int
      BY <1>1, <1>2
    <3> HIDE DEF qw, lw
    <3> QED BY <1>1, <3>3, <3>4
  <2> QED BY <1>1, <1>2, <2>1 DEF Row
<1> QED BY <1>3, <1>4, Sizes DEF q, Row

-----------------------------------------------------------------------------
(* What holds of the console between any two calls.                        *)

Images == Glyphs \cup {Block}
Consoles ==
  [text_buffer : [TextIndex -> Glyphs], cursor_x : Int, cursor_y : Row,
   prev_x : Int, prev_y : Row, buffer : [Cell -> Images],
   changed_lines : SUBSET Row, shown : [Cell -> Images]]

\* The places in the text of the cursor and of the block that was drawn for it.
At(con) == con.cursor_x + con.cursor_y * Width
Was(con) == con.prev_x + con.prev_y * Width

\* Both are inside the text, and in order of rows.
Placed(con) ==
  /\ con.cursor_x < Width /\ At(con) >= 0
  /\ con.prev_x < Width /\ Was(con) >= 0
  /\ con.prev_y <= con.cursor_y

\* The rows that have not changed are shown; the block is where it was drawn;
\* and left of the cursor the text is drawn.
Drawn(con) ==
  /\ \A c \in Cell : c \div Width \notin con.changed_lines => con.shown[c] = con.buffer[c]
  /\ \A c \in Cell : con.buffer[c] = Block => c = CellAt(con.prev_x, con.prev_y)
  /\ \A c \in Cell : con.cursor_y * Width <= c /\ c < At(con) => con.buffer[c] = con.text_buffer[c]

Sound(con) == con \in Consoles /\ Placed(con) /\ Drawn(con)

\* Nothing is written behind the cursor, but for the place it stands on.
Behind(con) == \A i \in TextIndex : i > At(con) => con.text_buffer[i] = Blank
Clean(con) == \A i \in TextIndex : i >= At(con) => con.text_buffer[i] = Blank

\* The cursor has moved on from the block.
Moved(con) ==
  con.prev_y < con.cursor_y \/ (con.prev_y = con.cursor_y /\ con.prev_x < con.cursor_x)
Stands(con) == con.prev_x = con.cursor_x /\ con.prev_y = con.cursor_y

\* What the screen shows is what is drawn, and the block is at the cursor.
Flushed(con) ==
  /\ Sound(con) /\ Stands(con) /\ con.shown = con.buffer
  /\ con.buffer[CellAt(con.cursor_x, con.cursor_y)] = Block

\* The block can be taken away without an image of the text left of the cursor
\* going with it.
Apart(con) == con.prev_y < con.cursor_y \/ con.prev_x >= -1 \/ con.cursor_x <= 0

Same(con, new) ==
  /\ new.text_buffer = con.text_buffer
  /\ new.cursor_x = con.cursor_x /\ new.cursor_y = con.cursor_y

LEMMA TextIndexIs ==
  ASSUME NEW x \in Int, NEW y \in Row, x < Width, x + y * Width >= 0
  PROVE  x + y * Width \in TextIndex /\ x + y * Width < Width * Height
<1> DEFINE yw == y * Width
           wh == Width * Height
<1>1. yw \in Nat /\ yw + Width <= wh /\ wh \in Nat /\ Width \in Nat
  BY RowIs, Sizes
<1>2. TextIndex = 0 .. wh + Width - 1
  BY Sizes DEF TextIndex
<1> HIDE DEF yw, wh
<1>3. x + yw >= 0 => x + yw \in 0 .. wh + Width - 1 /\ x + yw < wh
  BY <1>1
<1> QED BY <1>2, <1>3 DEF yw, wh

\* Drawing at one cell.
Drew(con, new, x, y, image) ==
  /\ new \in Consoles /\ Same(con, new)
  /\ new.prev_x = con.prev_x /\ new.prev_y = con.prev_y
  /\ new.shown = con.shown /\ new.changed_lines = con.changed_lines \cup {y}
  /\ \A c \in Cell : new.buffer[c] = IF c = CellAt(x, y) THEN image ELSE con.buffer[c]

LEMMA DrawIs ==
  ASSUME NEW con \in Consoles, NEW x \in Int, NEW y \in Row, NEW image \in Images
  PROVE  Drew(con, Draw(con, x, y, image), x, y, image)
<1> DEFINE b == [con.buffer EXCEPT ![CellAt(x, y)] = image]
           l == con.changed_lines \cup {y}
           new == Draw(con, x, y, image)
<1>1. /\ b \in [Cell -> Images]
      /\ \A c \in Cell : b[c] = IF c = CellAt(x, y) THEN image ELSE con.buffer[c]
  BY CellIs DEF Consoles
<1>2. l \in SUBSET Row
  BY DEF Consoles
<1>3. new = [con EXCEPT !.buffer = b, !.changed_lines = l]
  BY DEF Draw
<1> HIDE DEF b, l, new
<1>4. new \in Consoles
  BY <1>1, <1>2, <1>3 DEF Consoles
<1>5. /\ new.text_buffer = con.text_buffer /\ new.cursor_x = con.cursor_x
      /\ new.cursor_y = con.cursor_y /\ new.prev_x = con.prev_x /\ new.prev_y = con.prev_y
      /\ new.shown = con.shown /\ new.changed_lines = l /\ new.buffer = b
  BY <1>3 DEF Consoles
<1>6. Drew(con, new, x, y, image)
  BY <1>1, <1>4, <1>5 DEF Drew, Same, l
<1> QED BY <1>6 DEF new

\* The rows that have not changed are shown.
Shown(con) == \A c \in Cell : c \div Width \notin con.changed_lines => con.shown[c] = con.buffer[c]

LEMMA DrawShown ==
  ASSUME NEW con \in Consoles, NEW x \in Int, NEW y \in Row, NEW image \in Images, Shown(con)
  PROVE  Shown(Draw(con, x, y, image))
<1> DEFINE new == Draw(con, x, y, image)
<1>1. Drew(con, new, x, y, image)
  BY DrawIs
<1>2. CellAt(x, y) \div Width = y
  <2>1. CellAt(x, y) \in Cell /\ y * Width <= CellAt(x, y) /\ CellAt(x, y) < y * Width + Width
    BY CellIs
  <2> QED BY <2>1, LineIs
<1> HIDE DEF new
<1>4. Shown(new)
  BY <1>1, <1>2 DEF Shown, Drew
<1> QED BY <1>4 DEF new

LEMMA UpdateIs ==
  ASSUME NEW con \in Consoles, NEW x \in Int, NEW y \in Row, x < Width, x + y * Width >= 0
  PROVE  /\ con.text_buffer[x + y * Width] \in Glyphs
         /\ con.text_buffer[x + y * Width] \in Images
         /\ con.text_buffer[x + y * Width] # Block
         /\ updateChar(con, x, y) = Draw(con, x, y, con.text_buffer[x + y * Width])
<1>1. x + y * Width \in TextIndex
  BY TextIndexIs
<1>2. con.text_buffer[x + y * Width] \in Glyphs
  BY <1>1 DEF Consoles
<1> QED BY <1>2, ScreenAssumption DEF Images, updateChar

Swapped(con, new) ==
  /\ new \in Consoles /\ Same(con, new)
  /\ new.prev_x = con.prev_x /\ new.prev_y = con.prev_y
  /\ new.buffer = con.buffer /\ new.shown = con.buffer /\ new.changed_lines = {}

LEMMA SwapIs ==
  ASSUME NEW con \in Consoles, Shown(con)
  PROVE  Swapped(con, swapBuffers(con))
<1> DEFINE s == [c \in Cell |-> IF c \div Width \in con.changed_lines
                                  THEN con.buffer[c] ELSE con.shown[c]]
           new == swapBuffers(con)
<1>1. s = [c \in Cell |-> con.buffer[c]]
  BY DEF Shown
<1>2. con.buffer = [c \in Cell |-> con.buffer[c]] /\ con.buffer \in [Cell -> Images]
  BY DEF Consoles
<1>3. s = con.buffer
  BY <1>1, <1>2
<1>4. new = [con EXCEPT !.shown = s, !.changed_lines = {}]
  BY DEF swapBuffers
<1> HIDE DEF s, new
<1>5. new \in Consoles
  BY <1>2, <1>3, <1>4 DEF Consoles
<1>6. /\ new.text_buffer = con.text_buffer /\ new.cursor_x = con.cursor_x
      /\ new.cursor_y = con.cursor_y /\ new.prev_x = con.prev_x /\ new.prev_y = con.prev_y
      /\ new.shown = s /\ new.changed_lines = {} /\ new.buffer = con.buffer
  BY <1>4 DEF Consoles
<1>7. Swapped(con, new)
  BY <1>3, <1>5, <1>6 DEF Swapped, Same
<1> QED BY <1>7 DEF new

-----------------------------------------------------------------------------
(* flushText.                                                              *)

\* The text left of the cursor is drawn.
LineDrawn(con) ==
  \A c \in Cell : con.cursor_y * Width <= c /\ c < At(con) => con.buffer[c] = con.text_buffer[c]

LEMMA SoundIs ==
  ASSUME NEW con
  PROVE  Sound(con) <=> /\ con \in Consoles /\ Placed(con) /\ Shown(con) /\ LineDrawn(con)
                        /\ \A c \in Cell : con.buffer[c] = Block => c = CellAt(con.prev_x, con.prev_y)
BY DEF Sound, Drawn, Shown, LineDrawn

LEMMA Fields ==
  ASSUME NEW con \in Consoles
  PROVE  /\ con.cursor_x \in Int /\ con.cursor_y \in Row
         /\ con.prev_x \in Int /\ con.prev_y \in Row
         /\ con.cursor_y \in Int /\ con.prev_y \in Int
BY Sizes DEF Consoles, Row

\* The cell of the block, if it is left of the cursor, is that of its character.
LEMMA BlockApart ==
  ASSUME NEW con, Sound(con), Apart(con),
         NEW c \in Cell, con.cursor_y * Width <= c, c < At(con),
         c = CellAt(con.prev_x, con.prev_y)
  PROVE  c = Was(con)
<1> DEFINE x == con.cursor_x
           y == con.cursor_y
           px == con.prev_x
           py == con.prev_y
           yw == y * Width
<1>1. con \in Consoles /\ Placed(con)
  BY SoundIs
<1>2. x \in Int /\ y \in Row /\ px \in Int /\ py \in Row /\ y \in Int /\ py \in Int
  BY <1>1, Fields
<1>3. x < Width /\ px < Width /\ py <= y
  BY <1>1 DEF Placed
<1> HIDE DEF x, y, px, py
<1>4. /\ py * Width <= c /\ c < py * Width + Width
      /\ px >= 0 /\ px < Width => c = px + py * Width
      /\ px = -1 => c = py * Width + Width - 1
  <2>1. c = CellAt(px, py)
    BY DEF px, py
  <2> QED BY <1>2, <2>1, CellIs
<1>5. yw \in Nat /\ Width \in Nat
  BY <1>2, RowIs, Sizes
<1>6. c \in Int /\ yw <= c /\ c < x + yw
  BY Sizes DEF At, x, y, Cell
<1>7. py = y
  <2>1. yw <= c /\ c < yw + Width
    BY <1>2, <1>3, <1>5, <1>6
  <2>2. c \div Width = y
    BY <1>2, <2>1, LineIs
  <2>3. c \div Width = py
    BY <1>2, <1>4, LineIs
  <2> QED BY <2>2, <2>3
<1>8. px >= -1 \/ x <= 0
  BY <1>2, <1>7 DEF Apart, x, y, px, py
<1>9. px >= 0
  <2>1. ~(x <= 0)
    BY <1>2, <1>5, <1>6
  <2>2. px # -1
    <3> SUFFICES ASSUME px = -1 PROVE FALSE
      OBVIOUS
    <3>1. c = yw + Width - 1
      BY <1>4, <1>7
    <3> HIDE DEF yw
    <3> QED BY <1>2, <1>3, <1>5, <1>6, <3>1
  <2> QED BY <1>2, <1>8, <2>1, <2>2
<1>10. c = px + py * Width
  BY <1>3, <1>4, <1>9
<1> QED BY <1>10 DEF Was, px, py

\* The block is taken away.
LEMMA OffIs ==
  ASSUME NEW con, Sound(con), Apart(con),
         NEW off, off = updateChar(con, con.prev_x, con.prev_y)
  PROVE  /\ off \in Consoles /\ Same(con, off) /\ Shown(off) /\ LineDrawn(off)
         /\ \A c \in Cell : off.buffer[c] # Block
<1> DEFINE image == con.text_buffer[Was(con)]
<1>1. /\ con \in Consoles /\ Placed(con) /\ Shown(con) /\ LineDrawn(con)
      /\ \A c \in Cell : con.buffer[c] = Block => c = CellAt(con.prev_x, con.prev_y)
  BY SoundIs
<1>2. con.prev_x \in Int /\ con.prev_y \in Row
  BY <1>1, Fields
<1>3. /\ image \in Images /\ image # Block
      /\ off = Draw(con, con.prev_x, con.prev_y, image)
  <2>1. con.prev_x < Width /\ con.prev_x + con.prev_y * Width >= 0
    BY <1>1 DEF Placed, Was
  <2> QED BY <1>1, <1>2, <2>1, UpdateIs DEF Was
<1> HIDE DEF image
<1>4. Drew(con, off, con.prev_x, con.prev_y, image)
  BY <1>1, <1>2, <1>3, DrawIs
<1>5. Shown(off)
  BY <1>1, <1>2, <1>3, DrawShown
<1>6. \A c \in Cell : off.buffer[c] # Block
  BY <1>1, <1>3, <1>4 DEF Drew
<1>7. LineDrawn(off)
  <2> SUFFICES ASSUME NEW c \in Cell, con.cursor_y * Width <= c, c < At(con)
               PROVE  off.buffer[c] = con.text_buffer[c]
    BY <1>4 DEF LineDrawn, Drew, Same, At
  <2>1. con.buffer[c] = con.text_buffer[c]
    BY <1>1 DEF LineDrawn
  <2>2. c = CellAt(con.prev_x, con.prev_y) => c = Was(con)
    BY BlockApart
  <2>3. off.buffer[c] = IF c = CellAt(con.prev_x, con.prev_y) THEN image ELSE con.buffer[c]
    BY <1>4 DEF Drew
  <2> QED BY <2>1, <2>2, <2>3 DEF image
<1> QED BY <1>4, <1>5, <1>6, <1>7 DEF Drew

\* The block is drawn where the cursor is.
LEMMA OnIs ==
  ASSUME NEW off \in Consoles, Shown(off), LineDrawn(off),
         \A c \in Cell : off.buffer[c] # Block, off.cursor_x < Width,
         NEW on, on = Draw(off, off.cursor_x, off.cursor_y, Block)
  PROVE  /\ on \in Consoles /\ Same(off, on) /\ Shown(on) /\ LineDrawn(on)
         /\ \A c \in Cell : on.buffer[c] = Block <=> c = CellAt(on.cursor_x, on.cursor_y)
<1> DEFINE x == off.cursor_x
           y == off.cursor_y
<1>1. x \in Int /\ y \in Row /\ Block \in Images
  BY Fields DEF Images
<1>2. Drew(off, on, x, y, Block)
  BY <1>1, DrawIs
<1>3. Shown(on)
  BY <1>1, DrawShown
<1>4. \A c \in Cell : on.buffer[c] = Block <=> c = CellAt(x, y)
  BY <1>2 DEF Drew
<1>5. LineDrawn(on)
  <2> SUFFICES ASSUME NEW c \in Cell, y * Width <= c, c < At(off)
               PROVE  on.buffer[c] = off.text_buffer[c]
    BY <1>2 DEF LineDrawn, Drew, Same, At
  <2>1. off.buffer[c] = off.text_buffer[c]
    BY DEF LineDrawn
  <2>2. c # CellAt(x, y)
    <3>1. c < x + y * Width /\ c \in Int
      BY Sizes DEF At, Cell
    <3>2. y * Width \in Nat
      BY <1>1, RowIs
    <3>3. x >= 0 => CellAt(x, y) = x + y * Width
      BY <1>1, CellIs
    <3> DEFINE yw == y * Width
    <3> HIDE DEF x, y, yw
    <3>4. yw <= c /\ c < x + yw /\ yw \in Nat /\ (x >= 0 => CellAt(x, y) = x + yw)
      BY <3>1, <3>2, <3>3 DEF y, yw
    <3> QED BY <1>1, <3>1, <3>4
  <2> QED BY <1>2, <2>1, <2>2 DEF Drew
<1> QED BY <1>2, <1>3, <1>4, <1>5 DEF Drew, Same

LEMMA FlushMoves ==
  ASSUME NEW con, Sound(con), Apart(con), ~Stands(con)
  PROVE  Flushed(flushText(con)) /\ Same(con, flushText(con))
<1> DEFINE off == updateChar(con, con.prev_x, con.prev_y)
           on == Draw(off, con.cursor_x, con.cursor_y, Block)
           moved == [on EXCEPT !.prev_x = con.cursor_x, !.prev_y = con.cursor_y]
           new == swapBuffers(moved)
<1>1. flushText(con) = new
  BY DEF flushText, Stands
<1>2. con \in Consoles /\ Placed(con)
  BY SoundIs
<1>3. con.cursor_x \in Int /\ con.cursor_y \in Row /\ con.cursor_y \in Int
  BY <1>2, Fields
<1>4. /\ off \in Consoles /\ Same(con, off) /\ Shown(off) /\ LineDrawn(off)
      /\ \A c \in Cell : off.buffer[c] # Block
  BY OffIs
<1> HIDE DEF off
<1>5. on = Draw(off, off.cursor_x, off.cursor_y, Block) /\ off.cursor_x < Width
  BY <1>2, <1>4 DEF Same, Placed
<1> HIDE DEF on
<1>6. /\ on \in Consoles /\ Same(off, on) /\ Shown(on) /\ LineDrawn(on)
      /\ \A c \in Cell : on.buffer[c] = Block <=> c = CellAt(on.cursor_x, on.cursor_y)
  BY <1>4, <1>5, OnIs
<1>7. Same(con, on)
  BY <1>4, <1>6 DEF Same
<1>8. moved \in Consoles
  BY <1>3, <1>6 DEF Consoles
<1>9. /\ Same(on, moved) /\ moved.buffer = on.buffer /\ moved.shown = on.shown
      /\ moved.changed_lines = on.changed_lines
      /\ moved.prev_x = con.cursor_x /\ moved.prev_y = con.cursor_y
  BY <1>6 DEF Consoles, Same
<1> HIDE DEF moved
<1>10. Shown(moved)
  BY <1>6, <1>9 DEF Shown
<1>11. Swapped(moved, new)
  BY <1>8, <1>10, SwapIs
<1> HIDE DEF new
<1>12. Same(con, new)
  BY <1>7, <1>9, <1>11 DEF Same, Swapped
<1>13. /\ new \in Consoles /\ new.buffer = on.buffer /\ new.shown = new.buffer
       /\ new.prev_x = new.cursor_x /\ new.prev_y = new.cursor_y
  BY <1>9, <1>11, <1>12 DEF Swapped, Same
<1>14. Placed(new)
  <2>1. con.cursor_x < Width /\ At(con) >= 0
    BY <1>2 DEF Placed
  <2> QED BY <1>3, <1>12, <1>13, <2>1 DEF Placed, At, Was, Same
<1>15. Shown(new)
  BY <1>13 DEF Shown
<1>16. LineDrawn(new)
  BY <1>6, <1>7, <1>12, <1>13 DEF LineDrawn, Same, At
<1>17. \A c \in Cell : new.buffer[c] = Block <=> c = CellAt(new.cursor_x, new.cursor_y)
  BY <1>6, <1>7, <1>12, <1>13 DEF Same
<1>18. Sound(new)
  BY <1>13, <1>14, <1>15, <1>16, <1>17, SoundIs
<1>19. CellAt(new.cursor_x, new.cursor_y) \in Cell
  BY <1>3, <1>12, CellIs DEF Same
<1>20. Flushed(new)
  BY <1>13, <1>17, <1>18, <1>19 DEF Flushed, Stands
<1> QED BY <1>1, <1>12, <1>20

LEMMA FlushStands ==
  ASSUME NEW con, Flushed(con)
  PROVE  Flushed(flushText(con)) /\ Same(con, flushText(con))
<1> DEFINE new == swapBuffers(con)
<1>1. flushText(con) = new
  BY DEF flushText, Flushed, Stands
<1>2. con \in Consoles /\ Placed(con) /\ Shown(con) /\ LineDrawn(con)
      /\ \A c \in Cell : con.buffer[c] = Block => c = CellAt(con.prev_x, con.prev_y)
  BY SoundIs DEF Flushed
<1>3. Swapped(con, new)
  BY <1>2, SwapIs
<1> HIDE DEF new
<1>4. Placed(new) /\ LineDrawn(new) /\ Shown(new)
  BY <1>2, <1>3 DEF Placed, LineDrawn, Shown, Swapped, Same, At, Was
<1>5. Sound(new)
  BY <1>2, <1>3, <1>4, SoundIs DEF Swapped
<1>6. Flushed(new)
  BY <1>3, <1>5 DEF Flushed, Swapped, Same, Stands
<1> QED BY <1>1, <1>3, <1>6 DEF Swapped

-----------------------------------------------------------------------------
(* newLine and putChar.                                                    *)

Scrolled(text) ==
  [i \in TextIndex |-> IF i < Width * (Height - 1) THEN text[i + Width]
                       ELSE IF i < Width * Height THEN Blank ELSE text[i]]

LEMMA ScrolledIs ==
  ASSUME NEW text \in [TextIndex -> Glyphs]
  PROVE  Scrolled(text) \in [TextIndex -> Glyphs]
<1> SUFFICES ASSUME NEW i \in TextIndex, i < Width * (Height - 1)
             PROVE  i + Width \in TextIndex
  BY ScreenAssumption DEF Scrolled
<1> DEFINE wh == Width * Height
<1>1. wh \in Nat /\ Width \in Nat /\ TextIndex = 0 .. wh + Width - 1 /\ i < wh - Width
  BY Sizes DEF TextIndex
<1> HIDE DEF wh
<1> QED BY <1>1

LEMMA CellsInText == Cell \subseteq TextIndex
<1> DEFINE wh == Width * Height
<1>1. wh \in Nat /\ Width \in Nat /\ TextIndex = 0 .. wh + Width - 1 /\ Cell = 0 .. wh - 1
  BY Sizes DEF TextIndex, Cell
<1> HIDE DEF wh
<1> QED BY <1>1

\* No block but where it was drawn.
Blocked(con) == \A c \in Cell : con.buffer[c] = Block => c = CellAt(con.prev_x, con.prev_y)

NewLined(con, new) ==
  /\ Sound(new) /\ Moved(new) /\ new.cursor_x = 0 /\ new.prev_y = con.prev_y
  /\ con.cursor_y < Height - 1 =>
       /\ new.cursor_y = con.cursor_y + 1 /\ new.prev_x = con.prev_x
       /\ new.text_buffer = con.text_buffer
  /\ ~(con.cursor_y < Height - 1) =>
       /\ new.cursor_y = con.cursor_y /\ new.prev_x = -1
       /\ new.text_buffer = Scrolled(con.text_buffer)

LEMMA NewLineSteps ==
  ASSUME NEW con \in Consoles, Shown(con), Blocked(con),
         con.prev_x < Width, Was(con) >= 0, con.prev_y <= con.cursor_y,
         con.cursor_y < Height - 1
  PROVE  NewLined(con, newLine(con))
<1> DEFINE new == newLine(con)
           y == con.cursor_y
           z == y + 1
<1>1. new = [con EXCEPT !.cursor_x = 0, !.cursor_y = z]
  BY DEF newLine
<1>2. y \in Row /\ con.prev_y \in Int /\ y \in Int /\ con.prev_x \in Int
  BY Fields
<1>3. z \in Row /\ z \in Int /\ z * Width \in Nat /\ z = y + 1
  BY <1>2, RowIs
<1> HIDE DEF new, z
<1>4. new \in Consoles
  <2> DEFINE x == 0
  <2>1. x \in Int /\ new = [con EXCEPT !.cursor_x = x, !.cursor_y = z]
    BY <1>1
  <2> HIDE DEF x
  <2> QED BY <1>3, <2>1 DEF Consoles
<1>5. /\ new.cursor_x = 0 /\ new.cursor_y = z /\ new.prev_x = con.prev_x
      /\ new.prev_y = con.prev_y /\ new.buffer = con.buffer /\ new.shown = con.shown
      /\ new.changed_lines = con.changed_lines /\ new.text_buffer = con.text_buffer
  BY <1>1 DEF Consoles
<1>6. At(new) = z * Width
  BY <1>3, <1>5 DEF At
<1>7. Placed(new)
  BY <1>2, <1>3, <1>5, <1>6, Sizes DEF Placed, Was
<1>8. Shown(new) /\ Blocked(new)
  BY <1>5 DEF Shown, Blocked
<1>9. LineDrawn(new)
  <2> SUFFICES ASSUME NEW c \in Cell, z * Width <= c, c < z * Width PROVE FALSE
    BY <1>5, <1>6 DEF LineDrawn
  <2> DEFINE yw == z * Width
  <2>1. yw \in Nat /\ c \in Int /\ yw <= c /\ c < yw
    BY <1>3, Sizes DEF Cell
  <2> HIDE DEF yw
  <2> QED BY <2>1
<1>10. Sound(new)
  BY <1>4, <1>7, <1>8, <1>9, SoundIs DEF Blocked
<1>11. Moved(new)
  BY <1>2, <1>3, <1>5 DEF Moved
<1>12. NewLined(con, new)
  BY <1>3, <1>5, <1>10, <1>11 DEF NewLined
<1> QED BY <1>12 DEF new

LEMMA NewLineScrolls ==
  ASSUME NEW con \in Consoles, con.prev_y <= con.cursor_y, con.prev_y >= 1,
         ~(con.cursor_y < Height - 1)
  PROVE  NewLined(con, newLine(con))
<1> DEFINE new == newLine(con)
           y == con.cursor_y
           scrolled == Scrolled(con.text_buffer)
           drawn == [c \in Cell |-> scrolled[c]]
<1>1. new = [con EXCEPT !.cursor_x = 0, !.text_buffer = scrolled, !.buffer = drawn,
                        !.changed_lines = Row, !.prev_x = -1]
  BY DEF newLine, Scrolled
<1>2. /\ y \in Row /\ con.prev_y \in Row /\ con.prev_y \in Int /\ y \in Int
      /\ y * Width \in Nat /\ con.prev_y * Width \in Nat /\ con.prev_y * Width >= Width
  BY Fields, RowIs
<1>3. scrolled \in [TextIndex -> Glyphs]
  BY ScrolledIs DEF Consoles
<1>4. drawn \in [Cell -> Images] /\ \A c \in Cell : drawn[c] = scrolled[c] /\ drawn[c] # Block
  BY <1>3, CellsInText, ScreenAssumption DEF Images
<1> HIDE DEF new, scrolled, drawn
<1>5. new \in Consoles
  <2>1. /\ con \in [text_buffer : [TextIndex -> Glyphs], cursor_x : Int, cursor_y : Row,
                     prev_x : Int, prev_y : Row, buffer : [Cell -> Images],
                     changed_lines : SUBSET Row, shown : [Cell -> Images]]
        /\ 0 \in Int /\ -1 \in Int /\ Row \in SUBSET Row
    BY DEF Consoles
  <2> DEFINE T == [TextIndex -> Glyphs]
             B == [Cell -> Images]
             L == SUBSET Row
  <2>2. scrolled \in T /\ drawn \in B /\ Row \in L
    BY <1>3, <1>4
  <2> HIDE DEF T, B, L
  <2>3. new \in [text_buffer : T, cursor_x : Int, cursor_y : Row, prev_x : Int,
                 prev_y : Row, buffer : B, changed_lines : L, shown : B]
    BY <1>1, <2>1, <2>2 DEF T, B, L
  <2> QED BY <2>3 DEF Consoles, T, B, L
<1>6. /\ new.cursor_x = 0 /\ new.cursor_y = y /\ new.prev_x = -1
      /\ new.prev_y = con.prev_y /\ new.buffer = drawn /\ new.shown = con.shown
      /\ new.changed_lines = Row /\ new.text_buffer = scrolled
  BY <1>1 DEF Consoles
<1>7. At(new) = y * Width /\ Was(new) = con.prev_y * Width - 1
  BY <1>2, <1>6 DEF At, Was
<1>8. Placed(new)
  BY <1>2, <1>6, <1>7, Sizes DEF Placed
<1>9. Shown(new) /\ Blocked(new)
  BY <1>4, <1>6, LineIs DEF Shown, Blocked
<1>10. LineDrawn(new)
  BY <1>4, <1>6 DEF LineDrawn
<1>11. Sound(new)
  BY <1>5, <1>8, <1>9, <1>10, SoundIs DEF Blocked
<1>12. Moved(new)
  BY <1>2, <1>6 DEF Moved
<1>13. NewLined(con, new)
  BY <1>6, <1>11, <1>12 DEF NewLined, scrolled
<1> QED BY <1>13 DEF new

\* There is room below, or the block is not in the first row.
Low(con) == con.prev_y >= 1 \/ con.cursor_y < Height - 1

LEMMA NewLineIs ==
  ASSUME NEW con, Sound(con), Low(con)
  PROVE  NewLined(con, newLine(con))
<1>1. con \in Consoles /\ Placed(con) /\ Shown(con) /\ Blocked(con)
  BY SoundIs DEF Blocked
<1>2. con.prev_x < Width /\ Was(con) >= 0 /\ con.prev_y <= con.cursor_y
  BY <1>1 DEF Placed
<1>3. con.cursor_y < Height - 1 => NewLined(con, newLine(con))
  BY <1>1, <1>2, NewLineSteps
<1>4. ~(con.cursor_y < Height - 1) => NewLined(con, newLine(con))
  BY <1>1, <1>2, NewLineScrolls DEF Low
<1> QED BY <1>3, <1>4

Written(con, character) == [con.text_buffer EXCEPT ![At(con)] = character]

\* A character in its place, before the end of the row is looked at.
Putting(con, put, character) ==
  /\ put \in Consoles /\ Shown(put) /\ Blocked(put) /\ LineDrawn(put)
  /\ put.text_buffer = Written(con, character)
  /\ put.cursor_x = con.cursor_x + 1 /\ put.cursor_y = con.cursor_y
  /\ put.prev_x = con.prev_x /\ put.prev_y = con.prev_y

LEMMA PuttingIs ==
  ASSUME NEW con, Sound(con), NEW character \in Glyphs,
         NEW written, written = [con EXCEPT !.text_buffer[con.cursor_x + con.cursor_y * Width] = character],
         NEW put, put = [updateChar(written, con.cursor_x, con.cursor_y) EXCEPT !.cursor_x = @ + 1]
  PROVE  Putting(con, put, character)
<1> DEFINE x == con.cursor_x
           y == con.cursor_y
           yw == y * Width
           text == Written(con, character)
           d == Draw(written, x, y, character)
<1>1. con \in Consoles /\ Placed(con) /\ Shown(con) /\ Blocked(con) /\ LineDrawn(con)
  BY SoundIs DEF Blocked
<1>2. /\ x \in Int /\ y \in Row /\ yw \in Nat /\ x < Width
      /\ At(con) = x + yw /\ At(con) \in TextIndex /\ At(con) \in Int
  <2>1. x \in Int /\ y \in Row /\ x < Width /\ At(con) >= 0
    BY <1>1, Fields DEF Placed
  <2>2. yw \in Nat
    BY <2>1, RowIs
  <2>3. x + y * Width \in TextIndex
    BY <2>1, TextIndexIs DEF At
  <2> QED BY <2>1, <2>2, <2>3 DEF At
<1>3. text \in [TextIndex -> Glyphs] /\ text[At(con)] = character
      /\ \A i \in TextIndex : i # At(con) => text[i] = con.text_buffer[i]
  BY <1>1, <1>2 DEF Consoles, Written
<1>4. written = [con EXCEPT !.text_buffer = text]
  BY DEF Written, At
<1> HIDE DEF text, x, y, yw
<1>5. written \in Consoles
  BY <1>1, <1>3, <1>4 DEF Consoles
<1>6. /\ written.text_buffer = text /\ written.cursor_x = con.cursor_x
      /\ written.cursor_y = con.cursor_y /\ written.prev_x = con.prev_x
      /\ written.prev_y = con.prev_y /\ written.buffer = con.buffer
      /\ written.shown = con.shown /\ written.changed_lines = con.changed_lines
  BY <1>1, <1>4 DEF Consoles
<1>7. updateChar(written, x, y) = d
  BY <1>3, <1>6 DEF updateChar, At, x, y
<1>8. character \in Images /\ character # Block
  BY ScreenAssumption DEF Images
<1>9. Drew(written, d, x, y, character)
  BY <1>2, <1>5, <1>8, DrawIs
<1>10. Shown(d)
  <2>1. Shown(written)
    BY <1>1, <1>6 DEF Shown
  <2> QED BY <1>2, <1>5, <1>8, <2>1, DrawShown
<1> HIDE DEF d
<1>11. put = [d EXCEPT !.cursor_x = x + 1]
  <2>1. put = [d EXCEPT !.cursor_x = d.cursor_x + 1]
    BY <1>7, <1>9 DEF x, y, Drew, Consoles
  <2> QED BY <1>6, <1>9, <2>1 DEF Drew, Same, x
<1>12. put \in Consoles
  BY <1>2, <1>9, <1>11 DEF Drew, Consoles
<1>13. /\ put.text_buffer = text /\ put.cursor_x = x + 1 /\ put.cursor_y = y
       /\ put.prev_x = con.prev_x /\ put.prev_y = con.prev_y /\ put.buffer = d.buffer
       /\ put.shown = d.shown /\ put.changed_lines = d.changed_lines
  BY <1>6, <1>9, <1>11 DEF Drew, Same, Consoles, y
<1>14. \A c \in Cell : put.buffer[c] = IF c = CellAt(x, y) THEN character ELSE con.buffer[c]
  BY <1>6, <1>9, <1>13 DEF Drew
<1>15. Shown(put)
  BY <1>10, <1>13 DEF Shown
<1>16. Blocked(put)
  BY <1>1, <1>8, <1>13, <1>14 DEF Blocked
<1>17. LineDrawn(put)
  <2>1. At(put) = x + 1 + yw
    BY <1>13 DEF At, yw
  <2> SUFFICES ASSUME NEW c \in Cell, yw <= c, c < x + 1 + yw
               PROVE  put.buffer[c] = text[c]
    BY <1>13, <2>1 DEF LineDrawn, yw
  <2>2. c \in Int /\ c \in TextIndex
    BY CellsInText, Sizes DEF Cell
  <2>3. x >= 0
    BY <1>2, <2>2
  <2>4. CellAt(x, y) = x + yw
    BY <1>2, <2>3, CellIs DEF yw
  <2>5. CASE c = x + yw
    BY <1>2, <1>3, <1>14, <2>4, <2>5
  <2>6. CASE c # x + yw
    <3>1. c < x + yw
      BY <1>2, <2>2, <2>6
    <3>2. con.buffer[c] = con.text_buffer[c]
      <4>1. con.cursor_y * Width <= c /\ c < At(con)
        BY <1>2, <3>1 DEF y, yw
      <4> QED BY <1>1, <4>1 DEF LineDrawn
    <3> QED BY <1>2, <1>3, <1>14, <2>2, <2>4, <2>6, <3>2
  <2> QED BY <2>5, <2>6
<1> QED BY <1>12, <1>13, <1>15, <1>16, <1>17 DEF Putting, text, x, y

Advanced(con) == Stands(con) \/ Moved(con)

Placing(con, new, character) ==
  LET x == con.cursor_x
      y == con.cursor_y
  IN  \/ /\ x + 1 < Width /\ new.cursor_x = x + 1 /\ new.cursor_y = y
         /\ new.prev_x = con.prev_x /\ new.text_buffer = Written(con, character)
      \/ /\ x + 1 = Width /\ y < Height - 1 /\ new.cursor_x = 0 /\ new.cursor_y = y + 1
         /\ new.prev_x = con.prev_x /\ new.text_buffer = Written(con, character)
      \/ /\ x + 1 = Width /\ ~(y < Height - 1) /\ new.cursor_x = 0 /\ new.cursor_y = y
         /\ new.prev_x = -1 /\ new.text_buffer = Scrolled(Written(con, character))

LEMMA PutGlyph ==
  ASSUME NEW con, Sound(con), Low(con), NEW character \in Glyphs,
         NEW new, new = putChar(con, character)
  PROVE  /\ Sound(new) /\ new.prev_y = con.prev_y /\ Placing(con, new, character)
         /\ Advanced(con) => Moved(new)
<1> DEFINE written == [con EXCEPT !.text_buffer[con.cursor_x + con.cursor_y * Width] = character]
           put == [updateChar(written, con.cursor_x, con.cursor_y) EXCEPT !.cursor_x = @ + 1]
           x == con.cursor_x
           y == con.cursor_y
<1>1. new = IF put.cursor_x >= Width THEN newLine(put) ELSE put
  <2>1. character # NewLine
    BY ScreenAssumption
  <2> QED BY <2>1, Zenon DEF putChar
<1>2. Putting(con, put, character)
  BY PuttingIs
<1> HIDE DEF put
<1>3. con \in Consoles /\ Placed(con)
  BY SoundIs
<1>4. /\ x \in Int /\ y \in Row /\ y \in Int /\ con.prev_x \in Int /\ con.prev_y \in Int
      /\ x < Width /\ con.prev_x < Width /\ Was(con) >= 0 /\ con.prev_y <= y /\ At(con) >= 0
      /\ Width \in Int
  BY <1>3, Fields, Sizes DEF Placed
<1>5. CASE x + 1 < Width
  <2>1. new = put
    BY <1>1, <1>2, <1>4, <1>5 DEF Putting
  <2>2. Placed(put)
    <3>1. At(put) = At(con) + 1
      <4> DEFINE yw == y * Width
      <4>1. yw \in Nat /\ At(con) = x + yw /\ At(put) = x + 1 + yw
        BY <1>2, <1>4, RowIs DEF At, Putting
      <4> HIDE DEF yw, x
      <4> QED BY <1>4, <4>1
    <3>2. Was(put) = Was(con)
      BY <1>2 DEF Was, Putting
    <3>3. At(con) \in Int
      <4>1. y * Width \in Nat
        BY <1>4, RowIs
      <4> QED BY <1>4, <4>1 DEF At
    <3>4. At(put) >= 0
      BY <1>4, <3>1, <3>3
    <3> QED BY <1>2, <1>4, <1>5, <3>2, <3>4 DEF Placed, Putting
  <2>3. Sound(put)
    BY <1>2, <2>2, SoundIs DEF Putting, Blocked
  <2>4. Placing(con, put, character)
    BY <1>2, <1>5 DEF Placing, Putting
  <2>5. Advanced(con) => Moved(put)
    BY <1>2, <1>4 DEF Advanced, Stands, Moved, Putting
  <2> QED BY <1>2, <2>1, <2>3, <2>4, <2>5 DEF Putting
<1>6. CASE ~(x + 1 < Width)
  <2>1. x + 1 = Width
    BY <1>4, <1>6
  <2>2. new = newLine(put)
    BY <1>1, <1>2, <1>4, <2>1 DEF Putting
  <2>3. NewLined(put, new)
    <3>1. /\ put \in Consoles /\ Shown(put) /\ Blocked(put) /\ put.prev_x < Width
          /\ Was(put) >= 0 /\ put.prev_y <= put.cursor_y
      BY <1>2, <1>4 DEF Putting, Was
    <3>2. put.cursor_y < Height - 1 => NewLined(put, newLine(put))
      BY <3>1, NewLineSteps
    <3>3. ~(put.cursor_y < Height - 1) => NewLined(put, newLine(put))
      BY <1>2, <3>1, NewLineScrolls DEF Low, Putting
    <3> QED BY <2>2, <3>2, <3>3
  <2>4. Placing(con, new, character)
    BY <1>2, <2>1, <2>3 DEF Placing, Putting, NewLined
  <2> QED BY <1>2, <2>3, <2>4 DEF Putting, NewLined
<1> QED BY <1>5, <1>6

\* The text, and the place of the cursor in it, after a character.
Shifts(con, new, character) ==
  \/ At(new) = At(con) + 1 /\ new.text_buffer = Written(con, character)
  \/ /\ At(con) + 1 = Width * Height /\ At(new) = At(con) + 1 - Width
     /\ new.text_buffer = Scrolled(Written(con, character))

LEMMA AtIs ==
  ASSUME NEW con, Sound(con)
  PROVE  /\ At(con) \in Nat /\ At(con) \in TextIndex /\ At(con) < Width * Height
         /\ con.text_buffer \in [TextIndex -> Glyphs]
<1>1. con \in Consoles /\ Placed(con)
  BY SoundIs
<1>2. con.cursor_x \in Int /\ con.cursor_y \in Row /\ con.cursor_x < Width /\ At(con) >= 0
  BY <1>1, Fields DEF Placed
<1>3. con.cursor_y * Width \in Nat
  BY <1>2, RowIs
<1>4. At(con) \in TextIndex /\ At(con) < Width * Height
  BY <1>2, TextIndexIs DEF At
<1>5. At(con) \in Nat
  BY <1>2, <1>3 DEF At
<1> QED BY <1>1, <1>4, <1>5 DEF Consoles

LEMMA PlacingShifts ==
  ASSUME NEW con, Sound(con), NEW character \in Glyphs, NEW new, Placing(con, new, character)
  PROVE  Shifts(con, new, character)
<1> DEFINE x == con.cursor_x
           y == con.cursor_y
           yw == y * Width
           wh == Width * Height
<1>1. con \in Consoles
  BY SoundIs
<1>2. /\ x \in Int /\ y \in Row /\ yw \in Nat /\ wh \in Nat /\ Width \in Nat /\ y \in Int
      /\ y < Height - 1 => (y + 1) * Width = yw + Width
      /\ ~(y < Height - 1) => yw = wh - Width
  BY <1>1, Fields, RowIs, Sizes
<1>3. At(con) = x + yw
  BY DEF At
<1>4. CASE /\ x + 1 < Width /\ new.cursor_x = x + 1 /\ new.cursor_y = y
           /\ new.prev_x = con.prev_x /\ new.text_buffer = Written(con, character)
  <2>1. At(new) = x + 1 + yw
    BY <1>4 DEF At
  <2> HIDE DEF x, yw
  <2>2. At(new) = At(con) + 1
    BY <1>2, <1>3, <2>1
  <2> QED BY <1>4, <2>2 DEF Shifts
<1>5. CASE /\ x + 1 = Width /\ y < Height - 1 /\ new.cursor_x = 0 /\ new.cursor_y = y + 1
           /\ new.prev_x = con.prev_x /\ new.text_buffer = Written(con, character)
  <2>1. At(new) = 0 + (y + 1) * Width
    BY <1>5 DEF At
  <2>2. (y + 1) * Width = yw + Width
    BY <1>2, <1>5
  <2>3. At(new) = 0 + (yw + Width)
    BY <2>1, <2>2
  <2> HIDE DEF x, yw
  <2>4. At(new) = At(con) + 1
    BY <1>2, <1>3, <1>5, <2>3
  <2> QED BY <1>5, <2>4 DEF Shifts
<1>6. CASE /\ x + 1 = Width /\ ~(y < Height - 1) /\ new.cursor_x = 0 /\ new.cursor_y = y
           /\ new.prev_x = -1 /\ new.text_buffer = Scrolled(Written(con, character))
  <2>1. At(new) = 0 + yw
    BY <1>6 DEF At
  <2>2. yw = wh - Width
    BY <1>2, <1>6
  <2> HIDE DEF x, yw, wh
  <2>3. At(con) + 1 = wh /\ At(new) = At(con) + 1 - Width
    BY <1>2, <1>3, <1>6, <2>1, <2>2
  <2> QED BY <1>6, <2>3 DEF Shifts, wh
<1> QED BY <1>4, <1>5, <1>6 DEF Placing

LEMMA WrittenIs ==
  ASSUME NEW con, Sound(con), NEW character \in Glyphs
  PROVE  /\ Written(con, character) \in [TextIndex -> Glyphs]
         /\ Written(con, character)[At(con)] = character
         /\ \A i \in TextIndex : i # At(con) => Written(con, character)[i] = con.text_buffer[i]
BY AtIs DEF Written

LEMMA CleanAfter ==
  ASSUME NEW con, Sound(con), Behind(con), NEW character \in Glyphs,
         NEW new, Shifts(con, new, character)
  PROVE  Clean(new)
<1> DEFINE text == Written(con, character)
           q == At(con)
           wh == Width * Height
<1>1. /\ q \in Nat /\ wh \in Nat /\ Width \in Nat /\ TextIndex = 0 .. wh + Width - 1
      /\ Width * (Height - 1) = wh - Width
  BY AtIs, Sizes DEF TextIndex
<1>2. \A i \in TextIndex : i > q => text[i] = Blank
  <2> SUFFICES ASSUME NEW i \in TextIndex, i > q PROVE text[i] = Blank
    OBVIOUS
  <2>1. i # q
    BY <1>1
  <2> QED BY <2>1, WrittenIs DEF Behind
<1> HIDE DEF text
<1>3. CASE At(new) = q + 1 /\ new.text_buffer = text
  <2> SUFFICES ASSUME NEW i \in TextIndex, i >= At(new) PROVE text[i] = Blank
    BY <1>3 DEF Clean
  <2> HIDE DEF q, wh
  <2>1. i > q
    BY <1>1, <1>3
  <2> QED BY <1>2, <2>1
<1>4. CASE q + 1 = wh /\ At(new) = q + 1 - Width /\ new.text_buffer = Scrolled(text)
  <2> SUFFICES ASSUME NEW i \in TextIndex, i >= At(new) PROVE Scrolled(text)[i] = Blank
    BY <1>4 DEF Clean
  <2> HIDE DEF q, wh
  <2>1. ~(i < wh - Width)
    BY <1>1, <1>4
  <2>2. ~(i < wh) => i > q
    BY <1>1, <1>4
  <2>3. Scrolled(text)[i] = IF i < wh THEN Blank ELSE text[i]
    BY <1>1, <2>1 DEF Scrolled, wh
  <2> QED BY <1>2, <2>2, <2>3
<1> QED BY <1>3, <1>4 DEF Shifts, text

\* The text that ends at the cursor.
Ends(con, w) ==
  /\ At(con) >= Len(w)
  /\ \A i \in 1 .. Len(w) : con.text_buffer[At(con) - Len(w) + i - 1] = w[i]

LEMMA EndsAfter ==
  ASSUME NEW con, Sound(con), NEW character \in Glyphs,
         NEW new, Shifts(con, new, character), NEW S, NEW w \in Seq(S), NEW v \in Seq(S), Ends(con, w),
         Len(v) = Len(w) + 1, v[Len(v)] = character, \A i \in 1 .. Len(w) : v[i] = w[i],
         Len(v) <= Width * (Height - 1)
  PROVE  Ends(new, v)
<1> DEFINE text == Written(con, character)
           q == At(con)
           n == Len(w)
           wh == Width * Height
<1>1. /\ q \in Nat /\ wh \in Nat /\ Width \in Nat /\ TextIndex = 0 .. wh + Width - 1
      /\ Width * (Height - 1) = wh - Width /\ n \in Nat /\ q < wh
  BY AtIs, Sizes DEF TextIndex
<1>2. Len(v) = n + 1 /\ n + 1 <= wh - Width /\ q >= n
  BY <1>1 DEF Ends
\* The text before the cursor, one place further.
<1>3. ASSUME NEW i \in 1 .. n + 1 PROVE text[q - n + i - 1] = v[i]
  <2>1. CASE i = n + 1
    <3>1. q - n + i - 1 = q
      BY <1>1, <2>1
    <3>2. text[q] = character
      BY WrittenIs
    <3> QED BY <1>2, <2>1, <3>1, <3>2
  <2>2. CASE i # n + 1
    <3> DEFINE j == q - n + i - 1
    <3>1. i \in 1 .. n /\ j \in Int /\ j # q /\ j \in TextIndex
      <4> HIDE DEF q, n, wh
      <4> QED BY <1>1, <1>2, <2>2
    <3>2. con.text_buffer[j] = w[i]
      BY <3>1 DEF Ends
    <3> HIDE DEF j
    <3>3. text[j] = con.text_buffer[j]
      BY <3>1, WrittenIs
    <3>4. v[i] = w[i]
      BY <3>1
    <3> QED BY <3>2, <3>3, <3>4 DEF j
  <2> QED BY <2>1, <2>2
<1> HIDE DEF text, q, n, wh
<1>4. CASE At(new) = q + 1 /\ new.text_buffer = text
  <2>1. At(new) >= n + 1
    BY <1>1, <1>2, <1>4
  <2>2. ASSUME NEW i \in 1 .. n + 1 PROVE new.text_buffer[At(new) - (n + 1) + i - 1] = v[i]
    <3>1. At(new) - (n + 1) + i - 1 = q - n + i - 1
      BY <1>1, <1>4
    <3> QED BY <1>3, <1>4, <3>1
  <2> QED BY <1>2, <2>1, <2>2 DEF Ends
<1>5. CASE q + 1 = wh /\ At(new) = q + 1 - Width /\ new.text_buffer = Scrolled(text)
  <2>1. At(new) >= n + 1
    BY <1>1, <1>2, <1>5
  <2>2. ASSUME NEW i \in 1 .. n + 1 PROVE new.text_buffer[At(new) - (n + 1) + i - 1] = v[i]
    <3> DEFINE j == At(new) - (n + 1) + i - 1
    <3>1. j \in TextIndex /\ j < wh - Width /\ j + Width = q - n + i - 1
      <4> DEFINE p == At(new)
      <4>1. p = q + 1 - Width /\ q \in Nat /\ wh \in Nat /\ Width \in Nat /\ n \in Nat
            /\ q + 1 = wh /\ n + 1 <= wh - Width /\ i \in Nat /\ 1 <= i /\ i <= n + 1
        BY <1>1, <1>2, <1>5
      <4> HIDE DEF p
      <4>2. /\ p - (n + 1) + i - 1 \in 0 .. wh + Width - 1
            /\ p - (n + 1) + i - 1 < wh - Width
            /\ p - (n + 1) + i - 1 + Width = q - n + i - 1
        BY ONLY <4>1
      <4> QED BY <1>1, <4>2 DEF p
    <3> HIDE DEF j
    <3>2. Scrolled(text)[j] = text[j + Width]
      BY <1>1, <3>1 DEF Scrolled
    <3> QED BY <1>3, <1>5, <3>1, <3>2 DEF j
  <2> QED BY <1>2, <2>1, <2>2 DEF Ends
<1> QED BY <1>4, <1>5 DEF Shifts, text, q, wh

-----------------------------------------------------------------------------
(* What is printed in one piece: a fold, and the consoles it goes through. *)

LEMMA LeastNatural ==
  ASSUME NEW S \in SUBSET Nat, S # {}
  PROVE  \E m \in S : \A k \in S : m <= k
<1>1. PICK m \in S : \A k \in S : ~ (<<k, m>> \in OpToRel(<, Nat))
  BY NatLessThanWellFounded, WFMin, Zenon
<1>2. \A k \in S : ~ (k < m)
  <2>1. \A x, y \in Nat : x < y => <<x, y>> \in OpToRel(<, Nat)
    BY Zenon DEF OpToRel
  <2> QED BY <1>1, <2>1, Zenon
<1> QED BY <1>2

\* Induction over a set of numbers.
LEMMA UpTo ==
  ASSUME NEW N \in Nat, NEW P, 0 \in P, \A n \in 0 .. N - 1 : n \in P => n + 1 \in P
  PROVE  N \in P
<1> SUFFICES ASSUME N \notin P PROVE FALSE
  OBVIOUS
<1> DEFINE S == {n \in 0 .. N : n \notin P}
<1>1. S \in SUBSET Nat /\ S # {}
  OBVIOUS
<1> HIDE DEF S
<1>2. PICK m \in S : \A k \in S : m <= k
  BY <1>1, LeastNatural
<1>3. m \in 0 .. N /\ m \notin P /\ m # 0
  BY <1>2 DEF S
<1>4. m - 1 \in 0 .. N - 1 /\ m - 1 \in 0 .. N /\ (m - 1) + 1 = m
  BY <1>3
<1>5. m - 1 \notin S
  BY <1>2, <1>3
<1> QED BY <1>3, <1>4, <1>5 DEF S

LEMMA MaxOf ==
  ASSUME NEW n \in Nat, NEW S \in SUBSET (1 .. n), S # {}
  PROVE  /\ Max(S) \in S /\ Max(S) \in 1 .. n
         /\ \A k \in S : k <= Max(S)
<1> DEFINE D == {d \in 0 .. n : n - d \in S}
<1>1. D \in SUBSET Nat /\ D # {}
  <2>1. PICK k \in S : k \in 1 .. n
    OBVIOUS
  <2>2. n - k \in 0 .. n /\ n - (n - k) = k
    BY <2>1
  <2>3. n - k \in D
    BY <2>1, <2>2
  <2>4. D \in SUBSET Nat
    OBVIOUS
  <2> HIDE DEF D
  <2> QED BY <2>3, <2>4
<1> HIDE DEF D
<1>2. PICK d \in D : \A e \in D : d <= e
  BY <1>1, LeastNatural
<1>3. n - d \in S /\ \A k \in S : n - d >= k
  <2>1. d \in 0 .. n /\ n - d \in S
    BY <1>2 DEF D
  <2>2. \A k \in S : n - k \in D
    BY DEF D
  <2> QED BY <1>2, <2>1, <2>2
<1>4. Max(S) \in S /\ \A k \in S : Max(S) >= k
  BY <1>3 DEF Max
<1> QED BY <1>4

LEMMA Prefix ==
  ASSUME NEW n \in Nat, NEW k \in 1 .. n
  PROVE  /\ k \in Nat /\ k - 1 \in 0 .. n /\ k \in 0 .. n /\ 1 .. k \in SUBSET (1 .. n)
         /\ 1 .. k # {} /\ k \in 1 .. k /\ (1 .. k) \ {k} = 1 .. k - 1
<1>1. k \in Nat /\ k >= 1 /\ k <= n
  OBVIOUS
<1>2. (1 .. k) \ {k} = 1 .. k - 1
  BY ONLY <1>1
<1>3. 1 .. k \in SUBSET (1 .. n)
  BY <1>1
<1>4. k - 1 \in 0 .. n /\ k \in 0 .. n /\ k \in 1 .. k
  BY <1>1
<1> QED BY <1>1, <1>2, <1>3, <1>4

LEMMA Outputs ==
  ASSUME NEW con, NEW S, NEW string \in Seq(S)
  PROVE  \E g : /\ g[0] = con
                /\ \A n \in 1 .. Len(string) : g[n] = putChar(g[n - 1], string[n])
                /\ TextOutString(con, string) = g[Len(string)]
<1> DEFINE n == Len(string)
           Solves(k, f) == f = [T \in SUBSET (1 .. k) |->
                                  IF T = {} THEN con ELSE putChar(f[T \ {Max(T)}], string[Max(T)])]
           P == {k \in 0 .. n : \E f : Solves(k, f)}
<1>1. n \in Nat /\ DOMAIN string = 1 .. n
  OBVIOUS
<1>2. 0 \in P
  <2> DEFINE f == [T \in SUBSET (1 .. 0) |-> con]
  <2>1. \A T \in SUBSET (1 .. 0) : T = {}
    OBVIOUS
  <2>2. Solves(0, f)
    BY <2>1
  <2> HIDE DEF f, Solves
  <2> QED BY <1>1, <2>2
<1>3. ASSUME NEW k \in 0 .. n - 1, k \in P PROVE k + 1 \in P
  <2>1. PICK f : Solves(k, f)
    BY <1>3
  <2> DEFINE h == [T \in SUBSET (1 .. k + 1) |->
                     IF k + 1 \in T THEN putChar(f[T \ {k + 1}], string[k + 1]) ELSE f[T]]
  <2>2. \A T \in SUBSET (1 .. k) :
          f[T] = IF T = {} THEN con ELSE putChar(f[T \ {Max(T)}], string[Max(T)])
    BY <2>1
  <2>3. \A T \in SUBSET (1 .. k + 1) : k + 1 \notin T => T \in SUBSET (1 .. k)
    BY <1>1
  <2>4. \A T \in SUBSET (1 .. k + 1) : k + 1 \notin T => h[T] = f[T]
    OBVIOUS
  <2>5. ASSUME NEW T \in SUBSET (1 .. k + 1)
        PROVE  h[T] = IF T = {} THEN con ELSE putChar(h[T \ {Max(T)}], string[Max(T)])
    <3>1. CASE k + 1 \in T
      <4>1. Max(T) \in T /\ Max(T) \in 1 .. k + 1 /\ k + 1 <= Max(T)
        <5>1. k + 1 \in Nat
          BY <1>1
        <5> DEFINE m == k + 1
        <5> HIDE DEF m
        <5>2. m \in Nat /\ T \in SUBSET (1 .. m) /\ T # {} /\ m \in T
          BY <3>1, <5>1 DEF m
        <5>3. Max(T) \in T /\ Max(T) \in 1 .. m /\ m <= Max(T)
          BY <5>2, MaxOf
        <5> QED BY <5>3 DEF m
      <4>2. Max(T) = k + 1
        BY <1>1, <4>1
      <4>3. h[T \ {k + 1}] = f[T \ {k + 1}]
        BY <2>4
      <4>4. h[T] = putChar(f[T \ {k + 1}], string[k + 1])
        BY <3>1
      <4> HIDE DEF h
      <4> QED BY <3>1, <4>2, <4>3, <4>4
    <3>2. CASE k + 1 \notin T
      <4>1. h[T] = f[T] /\ T \in SUBSET (1 .. k)
        BY <2>3, <2>4, <3>2
      <4>2. h[T \ {Max(T)}] = f[T \ {Max(T)}]
        BY <2>4, <3>2
      <4> HIDE DEF h
      <4> QED BY <2>2, <4>1, <4>2
    <3> QED BY <3>1, <3>2
  <2>6. Solves(k + 1, h)
    <3> DEFINE D == SUBSET (1 .. k + 1)
               F(T) == IF T = {} THEN con ELSE putChar(h[T \ {Max(T)}], string[Max(T)])
    <3>1. h = [T \in D |-> h[T]]
      OBVIOUS
    <3>2. \A T \in D : h[T] = F(T)
      BY <2>5
    <3>3. [T \in D |-> h[T]] = [T \in D |-> F(T)]
      BY ONLY <3>2
    <3> QED BY ONLY <3>1, <3>3
  <2> HIDE DEF h, Solves
  <2> QED BY <1>1, <2>6
<1>4. n \in P
  <2> HIDE DEF P, n
  <2> QED BY <1>1, <1>2, <1>3, UpTo
<1> DEFINE iter == CHOOSE f : Solves(n, f)
           g == [k \in 0 .. n |-> iter[1 .. k]]
<1>5. Solves(n, iter)
  BY <1>4
<1>6. \A T \in SUBSET (1 .. n) :
        iter[T] = IF T = {} THEN con ELSE putChar(iter[T \ {Max(T)}], string[Max(T)])
  BY <1>5
<1>7. TextOutString(con, string) = iter[1 .. n]
  BY <1>1 DEF TextOutString, FoldLeft, MapThenFoldSet
<1> HIDE DEF iter
<1>8. g[0] = con /\ g[n] = iter[1 .. n]
  <2>1. 0 \in 0 .. n /\ n \in 0 .. n /\ 1 .. 0 = {} /\ {} \in SUBSET (1 .. n)
    BY <1>1
  <2>2. iter[{}] = con
    BY <1>6, <2>1
  <2> QED BY <2>1, <2>2
<1>9. ASSUME NEW k \in 1 .. n PROVE g[k] = putChar(g[k - 1], string[k])
  <2>1. /\ k \in Nat /\ k - 1 \in 0 .. n /\ k \in 0 .. n /\ 1 .. k \in SUBSET (1 .. n)
        /\ 1 .. k # {} /\ k \in 1 .. k /\ (1 .. k) \ {k} = 1 .. k - 1
    <3>1. n \in Nat /\ k \in 1 .. n
      BY <1>1
    <3> HIDE DEF n
    <3> QED BY ONLY <3>1, Prefix
  <2> DEFINE T == 1 .. k
  <2>2. T \in SUBSET (1 .. k) /\ k \in T /\ T # {}
    BY <2>1
  <2> HIDE DEF T
  <2>3. Max(T) \in 1 .. k /\ k <= Max(T)
    BY <2>1, <2>2, MaxOf
  <2>4. Max(T) = k
    BY <2>1, <2>3
  <2>5. iter[T] = putChar(iter[T \ {k}], string[k])
    BY <1>6, <2>1, <2>2, <2>4 DEF T
  <2> QED BY <2>1, <2>5 DEF T
<1> HIDE DEF g
<1> QED BY <1>7, <1>8, <1>9

\* g is the console after each line.
Printing(con, lines, g) ==
  /\ g[0] = con
  /\ \A n \in 1 .. Len(lines) : g[n] = PrintLine(g[n - 1], lines[n])
  /\ FoldLeft(PrintLine, con, lines) = g[Len(lines)]

LEMMA Printouts ==
  ASSUME NEW con, NEW S, NEW lines \in Seq(S)
  PROVE  \E g : Printing(con, lines, g)
<1> DEFINE n == Len(lines)
           Solves(k, f) == f = [T \in SUBSET (1 .. k) |->
                                  IF T = {} THEN con ELSE PrintLine(f[T \ {Max(T)}], lines[Max(T)])]
           P == {k \in 0 .. n : \E f : Solves(k, f)}
<1>1. n \in Nat /\ DOMAIN lines = 1 .. n
  OBVIOUS
<1>2. 0 \in P
  <2> DEFINE f == [T \in SUBSET (1 .. 0) |-> con]
  <2>1. \A T \in SUBSET (1 .. 0) : T = {}
    OBVIOUS
  <2>2. Solves(0, f)
    BY <2>1
  <2> HIDE DEF f, Solves
  <2> QED BY <1>1, <2>2
<1>3. ASSUME NEW k \in 0 .. n - 1, k \in P PROVE k + 1 \in P
  <2>1. PICK f : Solves(k, f)
    BY <1>3
  <2> DEFINE h == [T \in SUBSET (1 .. k + 1) |->
                     IF k + 1 \in T THEN PrintLine(f[T \ {k + 1}], lines[k + 1]) ELSE f[T]]
  <2>2. \A T \in SUBSET (1 .. k) :
          f[T] = IF T = {} THEN con ELSE PrintLine(f[T \ {Max(T)}], lines[Max(T)])
    BY <2>1
  <2>3. \A T \in SUBSET (1 .. k + 1) : k + 1 \notin T => T \in SUBSET (1 .. k)
    BY <1>1
  <2>4. \A T \in SUBSET (1 .. k + 1) : k + 1 \notin T => h[T] = f[T]
    OBVIOUS
  <2>5. ASSUME NEW T \in SUBSET (1 .. k + 1)
        PROVE  h[T] = IF T = {} THEN con ELSE PrintLine(h[T \ {Max(T)}], lines[Max(T)])
    <3>1. CASE k + 1 \in T
      <4>1. Max(T) \in T /\ Max(T) \in 1 .. k + 1 /\ k + 1 <= Max(T)
        <5>1. k + 1 \in Nat
          BY <1>1
        <5> DEFINE m == k + 1
        <5> HIDE DEF m
        <5>2. m \in Nat /\ T \in SUBSET (1 .. m) /\ T # {} /\ m \in T
          BY <3>1, <5>1 DEF m
        <5>3. Max(T) \in T /\ Max(T) \in 1 .. m /\ m <= Max(T)
          BY <5>2, MaxOf
        <5> QED BY <5>3 DEF m
      <4>2. Max(T) = k + 1
        BY <1>1, <4>1
      <4>3. h[T \ {k + 1}] = f[T \ {k + 1}]
        BY <2>4
      <4>4. h[T] = PrintLine(f[T \ {k + 1}], lines[k + 1])
        BY <3>1
      <4> HIDE DEF h
      <4> QED BY <3>1, <4>2, <4>3, <4>4
    <3>2. CASE k + 1 \notin T
      <4>1. h[T] = f[T] /\ T \in SUBSET (1 .. k)
        BY <2>3, <2>4, <3>2
      <4>2. h[T \ {Max(T)}] = f[T \ {Max(T)}]
        BY <2>4, <3>2
      <4> HIDE DEF h
      <4> QED BY <2>2, <4>1, <4>2
    <3> QED BY <3>1, <3>2
  <2>6. Solves(k + 1, h)
    <3> DEFINE D == SUBSET (1 .. k + 1)
               F(T) == IF T = {} THEN con ELSE PrintLine(h[T \ {Max(T)}], lines[Max(T)])
    <3>1. h = [T \in D |-> h[T]]
      OBVIOUS
    <3>2. \A T \in D : h[T] = F(T)
      BY <2>5
    <3>3. [T \in D |-> h[T]] = [T \in D |-> F(T)]
      BY ONLY <3>2
    <3> QED BY ONLY <3>1, <3>3
  <2> HIDE DEF h, Solves
  <2> QED BY <1>1, <2>6
<1>4. n \in P
  <2> HIDE DEF P, n
  <2> QED BY <1>1, <1>2, <1>3, UpTo
<1> DEFINE iter == CHOOSE f : Solves(n, f)
           g == [k \in 0 .. n |-> iter[1 .. k]]
<1>5. Solves(n, iter)
  BY <1>4
<1>6. \A T \in SUBSET (1 .. n) :
        iter[T] = IF T = {} THEN con ELSE PrintLine(iter[T \ {Max(T)}], lines[Max(T)])
  BY <1>5
<1>7. FoldLeft(PrintLine, con, lines) = iter[1 .. n]
  BY <1>1 DEF FoldLeft, MapThenFoldSet
<1> HIDE DEF iter
<1>8. g[0] = con /\ g[n] = iter[1 .. n]
  <2>1. 0 \in 0 .. n /\ n \in 0 .. n /\ 1 .. 0 = {} /\ {} \in SUBSET (1 .. n)
    BY <1>1
  <2>2. iter[{}] = con
    BY <1>6, <2>1
  <2> QED BY <2>1, <2>2
<1>9. ASSUME NEW k \in 1 .. n PROVE g[k] = PrintLine(g[k - 1], lines[k])
  <2>1. /\ k \in Nat /\ k - 1 \in 0 .. n /\ k \in 0 .. n /\ 1 .. k \in SUBSET (1 .. n)
        /\ 1 .. k # {} /\ k \in 1 .. k /\ (1 .. k) \ {k} = 1 .. k - 1
    <3>1. n \in Nat /\ k \in 1 .. n
      BY <1>1
    <3> HIDE DEF n
    <3> QED BY ONLY <3>1, Prefix
  <2> DEFINE T == 1 .. k
  <2>2. T \in SUBSET (1 .. k) /\ k \in T /\ T # {}
    BY <2>1
  <2> HIDE DEF T
  <2>3. Max(T) \in 1 .. k /\ k <= Max(T)
    BY <2>1, <2>2, MaxOf
  <2>4. Max(T) = k
    BY <2>1, <2>3
  <2>5. iter[T] = PrintLine(iter[T \ {k}], lines[k])
    BY <1>6, <2>1, <2>2, <2>4 DEF T
  <2> QED BY <2>1, <2>5 DEF T
<1> HIDE DEF g
<1>10. Printing(con, lines, g)
  BY <1>7, <1>8, <1>9 DEF Printing
<1> QED BY ONLY <1>10

-----------------------------------------------------------------------------
(* Text that is put out between two flushes.                               *)

Margin(con) == con.cursor_x >= 0 /\ (con.prev_y < con.cursor_y \/ con.prev_x >= -1)
Ready(con) == Sound(con) /\ Clean(con) /\ Margin(con)

\* n characters leave the block on the screen, should the text scroll.
Room(con, n) == con.prev_y >= 1 \/ At(con) + n <= Width * (Height - 1)

LEMMA RoomIsLow ==
  ASSUME NEW con, Sound(con), con.cursor_x >= 0, NEW n \in Nat, n >= 1, Room(con, n)
  PROVE  Low(con)
<1> SUFFICES ASSUME At(con) + n <= Width * (Height - 1), ~(con.cursor_y < Height - 1)
             PROVE  FALSE
  BY DEF Room, Low
<1> DEFINE x == con.cursor_x
           yw == con.cursor_y * Width
           wh == Width * Height
<1>1. con \in Consoles
  BY SoundIs
<1>2. x \in Int /\ yw = wh - Width /\ wh \in Nat /\ Width \in Nat /\ yw \in Nat
  BY <1>1, Fields, RowIs, Sizes
<1>3. x + yw + n <= wh - Width
  BY Sizes DEF At
<1> HIDE DEF x, yw, wh
<1>4. x >= 0
  BY DEF x
<1> QED BY <1>2, <1>3, <1>4

LEMMA RoomAfter ==
  ASSUME NEW con, Sound(con), NEW new, new.prev_y = con.prev_y,
         NEW character, Shifts(con, new, character), NEW n \in Nat, Room(con, n + 1)
  PROVE  Room(new, n)
<1> SUFFICES ASSUME At(con) + (n + 1) <= Width * (Height - 1)
             PROVE  At(new) + n <= Width * (Height - 1)
  BY DEF Room
<1> DEFINE q == At(con)
           p == At(new)
           b == Width * (Height - 1)
<1>1. q \in Nat /\ Width \in Nat /\ b \in Int
  BY AtIs, Sizes
<1>2. p = q + 1 \/ p = q + 1 - Width
  BY DEF Shifts
<1> HIDE DEF q, p, b
<1>3. q + (n + 1) <= b
  BY DEF q, b
<1>4. p + n <= b
  BY <1>1, <1>2, <1>3
<1> QED BY <1>4 DEF p, b

\* One character.
Putout(con, new, character) ==
  /\ Ready(new) /\ new.prev_y = con.prev_y /\ new.cursor_y >= con.cursor_y
  /\ Shifts(con, new, character)
  /\ Advanced(con) => Moved(new)

LEMMA PutStep ==
  ASSUME NEW con, Ready(con), NEW n \in Nat, Room(con, n + 1), NEW character \in Glyphs,
         NEW new, new = putChar(con, character)
  PROVE  Putout(con, new, character)
<1>1. Sound(con) /\ Clean(con) /\ Margin(con)
  BY DEF Ready
<1>2. Low(con)
  BY <1>1, RoomIsLow DEF Margin
<1>3. /\ Sound(new) /\ new.prev_y = con.prev_y /\ Placing(con, new, character)
      /\ Advanced(con) => Moved(new)
  BY <1>1, <1>2, PutGlyph
<1>4. Shifts(con, new, character)
  BY <1>1, <1>3, PlacingShifts
<1>5. Behind(con)
  <2> SUFFICES ASSUME NEW i \in TextIndex, i > At(con) PROVE i >= At(con)
    BY <1>1 DEF Behind, Clean
  <2>1. At(con) \in Nat /\ i \in Int
    BY <1>1, AtIs DEF TextIndex
  <2> QED BY <2>1
<1>6. Clean(new)
  BY <1>1, <1>4, <1>5, CleanAfter
<1>7. con \in Consoles
  BY <1>1, SoundIs
<1>8. con.cursor_x \in Int /\ con.cursor_y \in Int /\ con.prev_y \in Int /\ con.prev_x \in Int
  BY <1>7, Fields
<1>9. Margin(new) /\ new.cursor_y >= con.cursor_y
  BY <1>1, <1>3, <1>8 DEF Placing, Margin
<1> QED BY <1>3, <1>4, <1>6, <1>9 DEF Putout, Ready

\* The consoles that a string goes through.
Goes(con, string, g) ==
  g[0] = con /\ \A n \in 1 .. Len(string) : g[n] = putChar(g[n - 1], string[n])

Printed(con, new, n, k) ==
  /\ Ready(new) /\ new.cursor_y >= con.cursor_y
  /\ Room(new, k)
  /\ Advanced(con) => Advanced(new)
  /\ Advanced(con) /\ n >= 1 => Moved(new)

LEMMA Prints ==
  ASSUME NEW con, Ready(con), NEW S, NEW string \in Seq(S), NEW g, Goes(con, string, g),
         NEW m \in 0 .. Len(string), \A i \in 1 .. m : string[i] \in Glyphs,
         NEW r \in Nat, Room(con, m + r)
  PROVE  Printed(con, g[m], m, r)
<1> DEFINE P == {k \in 0 .. m : Printed(con, g[k], k, (m - k) + r)}
<1>1. m \in Nat /\ m <= Len(string) /\ Len(string) \in Nat
  OBVIOUS
<1>2. con.cursor_y \in Int
  <2>1. con \in Consoles
    BY SoundIs DEF Ready
  <2> QED BY <2>1, Fields
<1>3. 0 \in P
  <2>1. g[0] = con /\ (m - 0) + r = m + r
    BY <1>1 DEF Goes
  <2>2. Printed(con, con, 0, m + r)
    BY <1>2 DEF Printed
  <2> QED BY <1>1, <2>1, <2>2
<1>4. ASSUME NEW k \in 0 .. m - 1, k \in P PROVE k + 1 \in P
  <2> DEFINE j == k + 1
             n == (m - j) + r
  <2>1. j \in 1 .. m /\ j \in 1 .. Len(string) /\ j - 1 = k /\ n \in Nat /\ (m - k) + r = n + 1
        /\ j \in 0 .. m /\ k \in Nat
    BY <1>1
  <2>2. Printed(con, g[k], k, n + 1)
    BY <1>4, <2>1
  <2> HIDE DEF j, n
  <2>3. g[j] = putChar(g[k], string[j]) /\ string[j] \in Glyphs
    BY <2>1 DEF Goes
  <2>4. Putout(g[k], g[j], string[j])
    BY <2>1, <2>2, <2>3, PutStep DEF Printed
  <2>5. Sound(g[k]) /\ Sound(g[j])
    BY <2>2, <2>4 DEF Printed, Putout, Ready
  <2>6. Room(g[j], n)
    BY <2>1, <2>2, <2>4, <2>5, RoomAfter DEF Printed, Putout
  <2>7. g[j].cursor_y >= con.cursor_y
    <3>1. g[k] \in Consoles /\ g[j] \in Consoles
      BY <2>5, SoundIs
    <3>2. g[k].cursor_y \in Int /\ g[j].cursor_y \in Int
      BY <3>1, Fields
    <3>3. g[k].cursor_y >= con.cursor_y /\ g[j].cursor_y >= g[k].cursor_y
      BY <2>2, <2>4 DEF Printed, Putout
    <3> QED BY <1>2, <3>2, <3>3
  <2>8. Printed(con, g[j], j, n)
    BY <2>2, <2>4, <2>6, <2>7 DEF Printed, Putout, Advanced
  <2>9. j \in P
    BY <2>1, <2>8 DEF n
  <2> QED BY <2>9 DEF j
<1>5. m \in P
  <2> HIDE DEF P
  <2> QED BY <1>1, <1>3, <1>4, UpTo
<1>6. Printed(con, g[m], m, (m - m) + r)
  BY <1>5
<1>7. (m - m) + r = r
  BY <1>1
<1> QED BY <1>6, <1>7

\* The text that ends at the cursor, printed from any place.
LEMMA PrintsText ==
  ASSUME NEW con, Ready(con), NEW string \in Seq(Glyphs), NEW g, Goes(con, string, g),
         Room(con, Len(string)), Len(string) <= Width * (Height - 1)
  PROVE  Ends(g[Len(string)], string)
<1> DEFINE m == Len(string)
           w(k) == SubSeq(string, 1, k)
           P == {k \in 0 .. m : Ends(g[k], w(k))}
<1>1. m \in Nat /\ \A i \in 1 .. m : string[i] \in Glyphs
  OBVIOUS
<1>2. \A k \in 0 .. m : w(k) \in Seq(Glyphs) /\ Len(w(k)) = k /\ \A i \in 1 .. k : w(k)[i] = string[i]
  OBVIOUS
<1>3. 0 \in P
  <2>1. g[0] = con /\ At(con) \in Nat
    BY AtIs DEF Goes, Ready
  <2>2. Len(w(0)) = 0 /\ 0 \in 0 .. m
    BY <1>1, <1>2
  <2> HIDE DEF w
  <2>3. Ends(con, w(0))
    BY <2>1, <2>2 DEF Ends
  <2> QED BY <2>1, <2>2, <2>3
<1>4. ASSUME NEW k \in 0 .. m - 1, k \in P PROVE k + 1 \in P
  <2> DEFINE j == k + 1
             n == m - j
  <2>1. /\ j \in 1 .. m /\ j - 1 = k /\ j \in 0 .. m /\ k \in 0 .. m /\ k \in Nat /\ k <= m
        /\ n \in Nat /\ m - k = n + 1 /\ k + (n + 1) = m
    BY <1>1
  <2>2. /\ Len(w(k)) = k /\ Len(w(j)) = k + 1 /\ w(k) \in Seq(Glyphs) /\ w(j) \in Seq(Glyphs)
        /\ \A i \in 1 .. k : w(j)[i] = w(k)[i]
        /\ w(j)[j] = string[j]
    <3>1. \A i \in 1 .. k : i \in 1 .. j
      BY <2>1
    <3>2. j \in 1 .. j
      BY <2>1
    <3>3. \A i \in 1 .. k : w(j)[i] = string[i] /\ w(k)[i] = string[i]
      BY <1>2, <2>1, <3>1
    <3>4. w(j)[j] = string[j]
      BY <1>2, <2>1, <3>2
    <3> QED BY <1>2, <2>1, <3>3, <3>4
  <2>3. Ends(g[k], w(k))
    BY <1>4
  <2> HIDE DEF j, n, w
  <2>4. g[j] = putChar(g[k], string[j]) /\ string[j] \in Glyphs
    BY <1>1, <2>1 DEF Goes
  <2>5. Printed(con, g[k], k, n + 1)
    <3>1. n + 1 \in Nat /\ \A i \in 1 .. k : string[i] \in Glyphs
      BY <1>1, <2>1
    <3> DEFINE r == n + 1
    <3> HIDE DEF r
    <3>2. r \in Nat /\ Room(con, k + r) /\ k \in 0 .. Len(string)
      BY <2>1, <3>1 DEF r
    <3>3. Printed(con, g[k], k, r)
      BY <3>1, <3>2, Prints
    <3> QED BY <3>3 DEF r
  <2>6. Putout(g[k], g[j], string[j])
    BY <2>1, <2>4, <2>5, PutStep DEF Printed
  <2>7. Sound(g[k])
    BY <2>5 DEF Printed, Ready
  <2>8. Len(w(j)) = j /\ j <= Width * (Height - 1)
    <3>1. Width * (Height - 1) \in Int
      BY Sizes
    <3> QED BY <2>1, <2>2, <3>1
  <2>9. Ends(g[j], w(j))
    <3>1. w(j)[Len(w(j))] = string[j] /\ Len(w(j)) = Len(w(k)) + 1
      BY <2>1, <2>2, <2>8
    <3>2. \A i \in 1 .. Len(w(k)) : w(j)[i] = w(k)[i]
      BY <2>2
    <3>3. Len(w(j)) <= Width * (Height - 1) /\ Shifts(g[k], g[j], string[j])
      BY <2>6, <2>8 DEF Putout
    <3> QED BY ONLY <2>2, <2>3, <2>4, <2>7, <3>1, <3>2, <3>3, EndsAfter
  <2>10. j \in P
    BY <2>1, <2>9
  <2> QED BY <2>10 DEF j
<1>5. m \in P
  <2> HIDE DEF P, m
  <2> QED BY <1>1, <1>3, <1>4, UpTo
<1>6. Ends(g[m], w(m)) /\ w(m) = string
  BY <1>5
<1> QED BY <1>6

LEMMA NewLineClean ==
  ASSUME NEW con, Sound(con), Clean(con), NEW new, NewLined(con, new)
  PROVE  Clean(new) /\ new.cursor_y >= 1
<1> DEFINE x == con.cursor_x
           y == con.cursor_y
           q == At(con)
           yw == y * Width
           wh == Width * Height
           text == con.text_buffer
<1>1. con \in Consoles /\ Placed(con)
  BY SoundIs
<1>2. x \in Int /\ y \in Row /\ y \in Nat /\ x < Width /\ yw \in Nat
  BY <1>1, Fields, RowIs DEF Placed
<1>3. /\ q \in Nat /\ wh \in Nat /\ Width \in Nat /\ TextIndex = 0 .. wh + Width - 1
      /\ Width * (Height - 1) = wh - Width /\ q < wh
  BY AtIs, Sizes DEF TextIndex
<1>4. q = x + yw
  BY DEF At
<1>5. CASE y < Height - 1
  <2>1. new.cursor_x = 0 /\ new.cursor_y = y + 1 /\ new.text_buffer = text
    BY <1>5 DEF NewLined
  <2>2. At(new) = 0 + (y + 1) * Width
    BY <2>1 DEF At
  <2>3. (y + 1) * Width = yw + Width
    BY <1>2, <1>5, RowIs
  <2> DEFINE p == At(new)
  <2> HIDE DEF q, yw, wh, x, text
  <2>4. p = 0 + (yw + Width)
    BY <2>2, <2>3
  <2> HIDE DEF p
  <2>5. \A i \in TextIndex : i >= p => i >= q
    BY <1>2, <1>3, <1>4, <2>4
  <2>6. \A i \in TextIndex : i >= q => text[i] = Blank
    BY DEF Clean, q, text
  <2>7. Clean(new)
    BY <2>1, <2>5, <2>6 DEF Clean, p
  <2> QED BY <1>2, <2>1, <2>7
<1>6. CASE ~(y < Height - 1)
  <2>1. /\ new.cursor_x = 0 /\ new.cursor_y = y /\ new.text_buffer = Scrolled(text)
    BY <1>6 DEF NewLined
  <2>2. At(new) = 0 + yw /\ yw = wh - Width /\ y = Height - 1
    BY <1>2, <1>6, <2>1, RowIs DEF At
  <2> DEFINE p == At(new)
  <2>3. p = wh - Width
    <3> HIDE DEF yw, wh
    <3> QED BY <1>2, <1>3, <2>2
  <2> HIDE DEF q, yw, wh, x, text, p
  <2>4. ASSUME NEW i \in TextIndex, i >= p PROVE Scrolled(text)[i] = Blank
    <3>1. ~(i < wh - Width) /\ i \in Int
      BY <1>3, <2>3, <2>4
    <3>2. Scrolled(text)[i] = IF i < wh THEN Blank ELSE text[i]
      BY <1>3, <3>1 DEF Scrolled, wh
    <3>3. ~(i < wh) => i >= q
      BY <1>3, <3>1
    <3>4. i >= q => text[i] = Blank
      BY DEF Clean, q, text
    <3> QED BY <3>2, <3>3, <3>4
  <2>5. Clean(new)
    BY <2>1, <2>4 DEF Clean, p
  <2>6. new.cursor_y >= 1
    BY <2>1, <2>2, Sizes
  <2> QED BY <2>5, <2>6
<1> QED BY <1>5, <1>6

\* A new line, the cursor at its beginning, and below the first row.
OnNewLine(con) ==
  /\ Ready(con) /\ Advanced(con) /\ con.cursor_x = 0 /\ con.cursor_y >= 1
  /\ Room(con, Width * (Height - 2))

LEMMA FlushedIs ==
  ASSUME NEW con, Flushed(con)
  PROVE  /\ Sound(con) /\ Stands(con) /\ Advanced(con)
         /\ con.prev_x = con.cursor_x /\ con.prev_y = con.cursor_y
BY DEF Flushed, Stands, Advanced

LEMMA MovedNotStands ==
  ASSUME NEW con, Sound(con), Moved(con)
  PROVE  ~Stands(con)
<1>1. con \in Consoles
  BY SoundIs
<1>2. con.cursor_x \in Int /\ con.cursor_y \in Int
  BY <1>1, Fields
<1> QED BY <1>2 DEF Moved, Stands

\* Blank lines begin wherever Enter is pressed.
LEMMA Entered ==
  ASSUME NEW con, Flushed(con), Clean(con)
  PROVE  OnNewLine(putChar(con, NewLine))
<1> DEFINE new == putChar(con, NewLine)
<1>1. new = newLine(con)
  BY DEF putChar
<1>2. Sound(con) /\ Stands(con) /\ con.prev_y = con.cursor_y /\ con.prev_x = con.cursor_x
  BY FlushedIs
<1>3. con \in Consoles
  BY <1>2, SoundIs
<1>4. con.cursor_y \in Row /\ con.cursor_y \in Nat
  BY <1>3, Fields, RowIs
<1>5. Low(con)
  BY <1>2, <1>4, Sizes DEF Low
<1> HIDE DEF new
<1>6. NewLined(con, new)
  BY <1>1, <1>2, <1>5, NewLineIs
<1>7. Clean(new) /\ new.cursor_y >= 1
  BY <1>2, <1>6, NewLineClean
<1>8. new.prev_y < new.cursor_y \/ new.prev_x >= -1
  BY <1>2, <1>4, <1>6 DEF NewLined
<1>9. new.cursor_x = 0 /\ Sound(new) /\ Moved(new) /\ new.prev_y = con.prev_y
  BY <1>6 DEF NewLined
<1>10. Room(new, Width * (Height - 2))
  <2> SUFFICES ASSUME ~(con.prev_y >= 1) PROVE At(new) + Width * (Height - 2) <= Width * (Height - 1)
    BY <1>9 DEF Room
  <2>1. con.cursor_y = 0 /\ con.cursor_y < Height - 1
    BY <1>2, <1>4, Sizes
  <2>2. new.cursor_y = 1
    BY <1>6, <2>1 DEF NewLined
  <2>3. At(new) = 0 + 1 * Width
    BY <1>9, <2>2 DEF At
  <2>4. At(new) = Width
    BY <2>3, Sizes
  <2> DEFINE wh == Width * Height
  <2>5. Width * (Height - 2) = wh - Width - Width /\ Width * (Height - 1) = wh - Width /\ wh \in Nat /\ Width \in Nat
    BY Sizes
  <2> HIDE DEF wh
  <2> QED BY <2>4, <2>5
<1>11. Margin(new)
  BY <1>8, <1>9 DEF Margin
<1> QED BY <1>7, <1>9, <1>10, <1>11 DEF OnNewLine, Ready, Advanced, new

LEMMA FlushedOnNewLine ==
  ASSUME NEW con, Flushed(con), Clean(con), con.cursor_x = 0, con.cursor_y >= 1
  PROVE  OnNewLine(con)
<1>1. Sound(con) /\ Advanced(con) /\ con.prev_x = 0 /\ con.prev_y >= 1
  BY FlushedIs
<1> QED BY <1>1 DEF OnNewLine, Ready, Margin, Room

\* Flushing after some output.
LEMMA FlushOutput ==
  ASSUME NEW con, Sound(con), Clean(con), Apart(con), Moved(con), NEW new, new = flushText(con)
  PROVE  Flushed(new) /\ Clean(new) /\ Same(con, new)
<1>1. Flushed(new) /\ Same(con, new)
  BY FlushMoves, MovedNotStands
<1>2. Clean(new)
  BY <1>1 DEF Clean, Same, At
<1> QED BY <1>1, <1>2

\* out << line << endl.
LEMMA PrintLineIs ==
  ASSUME NEW con, OnNewLine(con), NEW line \in Seq(Glyphs), Len(line) < Width * (Height - 2),
         NEW new, new = PrintLine(con, line)
  PROVE  OnNewLine(new)
<1> DEFINE string == line \o <<NewLine>>
           m == Len(line)
           S == Glyphs \cup {NewLine}
           out == TextOutString(con, string)
<1>1. string \in Seq(S) /\ Len(string) = m + 1 /\ m \in Nat /\ string[m + 1] = NewLine
      /\ \A i \in 1 .. m : string[i] \in Glyphs
  OBVIOUS
<1>2. new = flushText(out)
  BY DEF PrintLine
<1> HIDE DEF string, S, out
<1>3. PICK g : /\ g[0] = con
               /\ \A n \in 1 .. Len(string) : g[n] = putChar(g[n - 1], string[n])
               /\ TextOutString(con, string) = g[Len(string)]
  BY <1>1, Outputs
<1>4. Goes(con, string, g)
  BY <1>3 DEF Goes
<1>5. Room(con, m + 1)
  <2> DEFINE b == Width * (Height - 2)
             c == Width * (Height - 1)
             wh == Width * Height
  <2>1. b = wh - Width - Width /\ c = wh - Width /\ wh \in Nat /\ Width \in Nat
    BY Sizes
  <2>2. Sound(con) /\ (con.prev_y >= 1 \/ At(con) + b <= c)
    BY DEF OnNewLine, Ready, Room
  <2>3. At(con) \in Nat
    BY <2>2, AtIs
  <2> DEFINE q == At(con)
  <2> HIDE DEF b, c, wh, q
  <2>4. con.prev_y >= 1 \/ q + (m + 1) <= c
    <3>1. m < b /\ b \in Int /\ c \in Int /\ q \in Nat
      BY <2>1, <2>3 DEF b, q
    <3>2. con.prev_y >= 1 \/ q + b <= c
      BY <2>2 DEF b, c, q
    <3> QED BY <1>1, <3>1, <3>2
  <2> QED BY <2>4 DEF Room, q, c
<1> DEFINE last == g[m]
<1>6. Printed(con, last, m, 1)
  <2> DEFINE r == 1
  <2>1. r \in Nat /\ Room(con, m + r) /\ m \in 0 .. Len(string)
    BY <1>1, <1>5
  <2> HIDE DEF r, m
  <2>2. Ready(con)
    BY DEF OnNewLine
  <2>3. Printed(con, g[m], m, r)
    BY <1>1, <1>4, <2>1, <2>2, Prints
  <2> QED BY <2>3 DEF r
<1> HIDE DEF last
<1>7. Sound(last) /\ Clean(last) /\ Low(last) /\ Advanced(last)
  <2>1. Ready(last) /\ Room(last, 1)
    BY <1>6 DEF Printed
  <2>2. Sound(last) /\ Clean(last) /\ last.cursor_x >= 0
    BY <2>1 DEF Ready, Margin
  <2> DEFINE r == 1
  <2>3. r \in Nat /\ r >= 1 /\ Room(last, r)
    BY <2>1
  <2> HIDE DEF r
  <2>4. Low(last)
    BY <2>2, <2>3, RoomIsLow
  <2> QED BY <1>6, <2>2, <2>4 DEF Printed, OnNewLine
<1>8. out = newLine(last)
  <2>1. g[m + 1] = putChar(g[(m + 1) - 1], string[m + 1])
    BY <1>1, <1>3
  <2>2. (m + 1) - 1 = m
    BY <1>1
  <2>3. out = g[m + 1]
    BY <1>1, <1>3 DEF out
  <2> QED BY <1>1, <2>1, <2>2, <2>3 DEF putChar, last
<1>9. NewLined(last, out)
  BY <1>7, <1>8, NewLineIs
<1>10. Clean(out) /\ out.cursor_y >= 1
  BY <1>7, <1>9, NewLineClean
<1>11. Sound(out) /\ Moved(out) /\ out.cursor_x = 0
  BY <1>9 DEF NewLined
<1>12. Apart(out)
  BY <1>11 DEF Apart
<1>13. Flushed(new) /\ Clean(new) /\ Same(out, new)
  BY <1>2, <1>10, <1>11, <1>12, FlushOutput
<1>14. new.cursor_x = 0 /\ new.cursor_y >= 1
  BY <1>10, <1>11, <1>13 DEF Same
<1>15. Flushed(new) /\ Clean(new)
  BY <1>13
<1> QED BY ONLY <1>14, <1>15, FlushedOnNewLine

LEMMA ReportsAre ==
  ASSUME NEW con, OnNewLine(con), NEW lines \in Seq(Seq(Glyphs)),
         \A i \in 1 .. Len(lines) : Len(lines[i]) < Width * (Height - 2)
  PROVE  OnNewLine(FoldLeft(PrintLine, con, lines))
<1>0. PICK g : Printing(con, lines, g)
  BY Printouts
<1>1. /\ g[0] = con
      /\ \A n \in 1 .. Len(lines) : g[n] = PrintLine(g[n - 1], lines[n])
      /\ FoldLeft(PrintLine, con, lines) = g[Len(lines)]
  BY ONLY <1>0 DEF Printing
<1> DEFINE n == Len(lines)
           P == {k \in 0 .. n : OnNewLine(g[k])}
<1>2. n \in Nat
  OBVIOUS
<1>3. 0 \in P
  BY <1>1, <1>2
<1>4. ASSUME NEW k \in 0 .. n - 1, k \in P PROVE k + 1 \in P
  <2> DEFINE j == k + 1
  <2>1. j \in 1 .. n /\ j - 1 = k /\ j \in 0 .. n
    BY <1>2
  <2>2. OnNewLine(g[k])
    BY <1>4
  <2> HIDE DEF j
  <2>3. g[j] = PrintLine(g[k], lines[j]) /\ lines[j] \in Seq(Glyphs)
        /\ Len(lines[j]) < Width * (Height - 2)
    BY <1>1, <2>1
  <2>4. OnNewLine(g[j])
    BY <2>2, <2>3, PrintLineIs
  <2>5. j \in P
    BY <2>1, <2>4
  <2> QED BY <2>5 DEF j
<1>5. n \in P
  <2> HIDE DEF P, n
  <2> QED BY <1>2, <1>3, <1>4, UpTo
<1> QED BY <1>1, <1>5

\* The prompt, on a new line or on the screen of the start.
LEMMA PromptIs ==
  ASSUME NEW con, Ready(con), Advanced(con), Room(con, Len(Prompt)),
         NEW new, new = resetCommand(con)
  PROVE  Flushed(new) /\ Clean(new) /\ Ends(new, Prompt)
<1> DEFINE m == Len(Prompt)
           out == TextOutString(con, Prompt)
<1>1. /\ Prompt \in Seq(Glyphs) /\ m \in Nat /\ m >= 1 /\ m <= Width * (Height - 1)
      /\ \A i \in 1 .. m : Prompt[i] \in Glyphs
  <2>1. Prompt \in Seq(Glyphs) /\ Prompt # <<>> /\ MaxCommand \in Nat
        /\ m + MaxCommand <= Width * (Height - 2)
    BY TerminalAssumption, CommandAssumption
  <2>2. m \in Nat /\ m >= 1 /\ \A i \in 1 .. m : Prompt[i] \in Glyphs
    BY <2>1
  <2> DEFINE wh == Width * Height
  <2>3. /\ Width * (Height - 2) = wh - Width - Width /\ Width * (Height - 1) = wh - Width
        /\ wh \in Nat /\ Width \in Nat
    BY Sizes
  <2> HIDE DEF wh, m
  <2>4. m <= Width * (Height - 1)
    BY <2>1, <2>2, <2>3
  <2> QED BY <2>1, <2>2, <2>4 DEF m
<1>2. PICK g : /\ g[0] = con
               /\ \A n \in 1 .. Len(Prompt) : g[n] = putChar(g[n - 1], Prompt[n])
               /\ TextOutString(con, Prompt) = g[Len(Prompt)]
  BY <1>1, Outputs
<1>3. Goes(con, Prompt, g) /\ out = g[m]
  BY <1>2 DEF Goes
<1> HIDE DEF out
<1>4. Printed(con, g[m], m, 0)
  <2> DEFINE r == 0
  <2>1. r \in Nat /\ m + r = m /\ m \in 0 .. Len(Prompt)
    BY <1>1
  <2> HIDE DEF r, m
  <2>2. Room(con, m + r)
    BY <2>1 DEF m
  <2>3. Printed(con, g[m], m, r)
    BY <1>1, <1>3, <2>1, <2>2, Prints
  <2> QED BY <2>3 DEF r
<1>5. Sound(out) /\ Clean(out) /\ Margin(out) /\ Moved(out)
  BY <1>1, <1>3, <1>4 DEF Printed, Ready
<1>6. Ends(out, Prompt)
  BY <1>1, <1>3, PrintsText
<1>7. Apart(out)
  BY <1>5 DEF Apart, Margin
<1>8. new = flushText(out)
  BY DEF resetCommand, out
<1>9. Flushed(new) /\ Clean(new) /\ Same(out, new)
  BY <1>5, <1>7, <1>8, FlushOutput
<1>10. Ends(new, Prompt)
  BY <1>6, <1>9 DEF Ends, Same, At
<1> QED BY <1>9, <1>10

-----------------------------------------------------------------------------
(* One step back.                                                          *)

Back(con) == [con EXCEPT !.cursor_x = con.cursor_x - 1, !.cursor_y = con.cursor_y]

LEMMA BackIs ==
  ASSUME NEW con, Flushed(con), At(con) >= 1, NEW b, b = Back(con)
  PROVE  /\ Sound(b) /\ Apart(b) /\ ~Stands(b)
         /\ b.text_buffer = con.text_buffer
         /\ b.cursor_x = con.cursor_x - 1 /\ b.cursor_y = con.cursor_y
         /\ At(b) = At(con) - 1
<1> DEFINE x == con.cursor_x
           y == con.cursor_y
           v == x - 1
           yw == y * Width
<1>1. /\ con \in Consoles /\ Placed(con) /\ Shown(con) /\ LineDrawn(con) /\ Blocked(con)
      /\ con.prev_x = x /\ con.prev_y = y
  BY FlushedIs, SoundIs DEF Blocked
<1>2. /\ x \in Int /\ v \in Int /\ y \in Row /\ y \in Int /\ x < Width /\ yw \in Nat
      /\ At(con) = x + yw /\ Width \in Nat
  BY <1>1, Fields, RowIs, Sizes DEF Placed, At
<1>3. b = [con EXCEPT !.cursor_x = v, !.cursor_y = y]
  BY DEF Back
<1> HIDE DEF v
<1>4. b \in Consoles
  BY <1>1, <1>2, <1>3 DEF Consoles
<1>5. /\ b.text_buffer = con.text_buffer /\ b.cursor_x = v /\ b.cursor_y = y
      /\ b.prev_x = x /\ b.prev_y = y /\ b.buffer = con.buffer /\ b.shown = con.shown
      /\ b.changed_lines = con.changed_lines
  BY <1>1, <1>3 DEF Consoles
<1>6. At(b) = v + yw /\ Was(b) = x + yw
  BY <1>5 DEF At, Was
<1> HIDE DEF x, y, yw
<1>7. At(b) = At(con) - 1 /\ v < Width /\ At(b) >= 0 /\ Was(b) >= 0 /\ v < x
  BY <1>2, <1>6 DEF v
<1>8. Placed(b)
  BY <1>2, <1>5, <1>7 DEF Placed
<1>9. Shown(b) /\ Blocked(b)
  BY <1>1, <1>5 DEF Shown, Blocked, x, y
<1>10. LineDrawn(b)
  <2> SUFFICES ASSUME NEW c \in Cell, yw <= c, c < At(b)
               PROVE  con.buffer[c] = con.text_buffer[c]
    BY <1>5 DEF LineDrawn, yw
  <2>1. c \in Int /\ At(con) \in Int
    BY <1>2, Sizes DEF Cell
  <2>2. c < At(con)
    BY <1>7, <2>1
  <2> QED BY <1>1, <2>2 DEF LineDrawn, yw, y
<1>11. Sound(b)
  BY <1>4, <1>8, <1>9, <1>10, SoundIs DEF Blocked
<1>12. Apart(b)
  BY <1>2, <1>5 DEF Apart, v
<1>13. ~Stands(b)
  BY <1>2, <1>5, <1>7 DEF Stands
<1> QED BY <1>5, <1>7, <1>11, <1>12, <1>13 DEF v, x, y

LEMMA CursorBack ==
  ASSUME NEW con, Flushed(con), At(con) >= 1,
         NEW new, new = SetCursorPos(con, con.cursor_x - 1, con.cursor_y)
  PROVE  /\ Flushed(new) /\ new.text_buffer = con.text_buffer
         /\ new.cursor_x = con.cursor_x - 1 /\ new.cursor_y = con.cursor_y
         /\ At(new) = At(con) - 1
<1> DEFINE b == Back(con)
<1>1. new = flushText(b)
  BY DEF SetCursorPos, Back
<1> HIDE DEF b
<1>2. /\ Sound(b) /\ Apart(b) /\ ~Stands(b) /\ b.text_buffer = con.text_buffer
      /\ b.cursor_x = con.cursor_x - 1 /\ b.cursor_y = con.cursor_y /\ At(b) = At(con) - 1
  BY BackIs DEF b
<1>3. Flushed(new) /\ Same(b, new)
  BY <1>1, <1>2, FlushMoves
<1> QED BY <1>2, <1>3 DEF Same, At

\* Behind the cursor of a console that shows everything, there is room for one more.
LEMMA FlushedLow ==
  ASSUME NEW con, Flushed(con)
  PROVE  Low(con)
<1>1. con \in Consoles /\ con.prev_y = con.cursor_y
  BY FlushedIs, SoundIs
<1>2. con.cursor_y \in Nat
  BY <1>1, Fields, RowIs
<1> QED BY <1>1, <1>2, Sizes DEF Low

\* A character that is typed, or written over.
LEMMA TypedIs ==
  ASSUME NEW con, Flushed(con), Behind(con), NEW c \in Glyphs,
         NEW mid, mid = putChar(con, c), NEW new, new = flushText(mid)
  PROVE  /\ Flushed(new) /\ Clean(new) /\ Same(mid, new) /\ Placing(con, mid, c)
         /\ Shifts(con, mid, c)
<1>1. /\ Sound(con) /\ Advanced(con) /\ Low(con) /\ con.prev_x = con.cursor_x
      /\ con.prev_y = con.cursor_y
  BY FlushedIs, FlushedLow
<1>2. Sound(mid) /\ mid.prev_y = con.prev_y /\ Placing(con, mid, c) /\ Moved(mid)
  BY <1>1, PutGlyph
<1>3. Shifts(con, mid, c)
  BY <1>1, <1>2, PlacingShifts
<1>4. Clean(mid)
  BY <1>1, <1>3, CleanAfter
<1>5. Apart(mid)
  <2>1. con \in Consoles
    BY <1>1, SoundIs
  <2>2. con.cursor_x \in Int /\ con.cursor_y \in Int
    BY <2>1, Fields
  <2> QED BY <1>1, <1>2, <2>2 DEF Apart, Placing
<1>6. Flushed(new) /\ Clean(new) /\ Same(mid, new)
  BY <1>2, <1>4, <1>5, FlushOutput
<1> QED BY <1>2, <1>3, <1>6

LEMMA CleanIsBehind ==
  ASSUME NEW con, Sound(con), Clean(con)
  PROVE  Behind(con)
<1> SUFFICES ASSUME NEW i \in TextIndex, i > At(con) PROVE i >= At(con)
  BY DEF Behind, Clean
<1>1. At(con) \in Nat /\ i \in Int
  BY AtIs DEF TextIndex
<1> QED BY <1>1

\* What erasing leaves: the text up to the character, and blanks.
LEMMA Erased ==
  ASSUME NEW con, Flushed(con), Clean(con), At(con) >= 1, NEW new, new = EraseOnScreen(con)
  PROVE  /\ Flushed(new) /\ Clean(new) /\ At(new) = At(con) - 1
         /\ \A i \in TextIndex : i < At(new) => new.text_buffer[i] = con.text_buffer[i]
<1> DEFINE back == SetCursorPos(con, con.cursor_x - 1, con.cursor_y)
           mid == putChar(back, Blank)
           over == flushText(mid)
           last == SetCursorPos(over, over.cursor_x - 1, over.cursor_y)
           q == At(con)
           x == con.cursor_x
<1>1. new = flushText(last)
  BY DEF EraseOnScreen
<1>2. /\ Sound(con) /\ q \in Nat /\ TextIndex \subseteq Int /\ x \in Int /\ x < Width
      /\ Width \in Nat
  <2>1. Sound(con)
    BY FlushedIs
  <2>2. con \in Consoles /\ Placed(con)
    BY <2>1, SoundIs
  <2> QED BY <2>1, <2>2, AtIs, Fields, Sizes DEF TextIndex, Placed
<1>3. /\ Flushed(back) /\ back.text_buffer = con.text_buffer /\ At(back) = q - 1
      /\ back.cursor_x = x - 1 /\ back.cursor_y = con.cursor_y
  BY CursorBack
<1> HIDE DEF back
<1>4. Behind(back)
  <2> SUFFICES ASSUME NEW i \in TextIndex, i > q - 1 PROVE con.text_buffer[i] = Blank
    BY <1>3 DEF Behind
  <2>1. i >= q
    BY <1>2
  <2> QED BY <2>1 DEF Clean
<1>5. Blank \in Glyphs
  BY ScreenAssumption
<1>6. /\ Flushed(over) /\ Clean(over) /\ Same(mid, over) /\ Placing(back, mid, Blank)
  BY <1>3, <1>4, <1>5, TypedIs
<1> HIDE DEF mid
<1>7. /\ mid.cursor_x = x /\ mid.cursor_y = con.cursor_y
      /\ mid.text_buffer = Written(back, Blank)
  BY <1>2, <1>3, <1>6 DEF Placing
<1>8. /\ At(over) = q /\ over.text_buffer = Written(back, Blank)
  BY <1>6, <1>7 DEF Same, At
<1> HIDE DEF over
<1>9. Flushed(last) /\ last.text_buffer = over.text_buffer /\ At(last) = q - 1
  BY <1>6, <1>8, CursorBack
<1> HIDE DEF last
<1>10. Flushed(new) /\ Same(last, new)
  BY <1>1, <1>9, FlushStands
<1>11. At(new) = q - 1 /\ new.text_buffer = Written(back, Blank)
  BY <1>8, <1>9, <1>10 DEF Same, At
<1>12. /\ Written(back, Blank)[q - 1] = Blank
       /\ \A i \in TextIndex : i # q - 1 => Written(back, Blank)[i] = con.text_buffer[i]
  <2>1. Sound(back)
    BY <1>3, FlushedIs
  <2> QED BY <1>3, <1>5, <2>1, WrittenIs
<1> HIDE DEF q
<1>13. Clean(new)
  <2> SUFFICES ASSUME NEW i \in TextIndex, i >= q - 1
               PROVE  Written(back, Blank)[i] = Blank
    BY <1>11 DEF Clean
  <2>1. CASE i = q - 1
    BY <1>12, <2>1
  <2>2. CASE i # q - 1
    <3>1. i >= q
      BY <1>2, <2>2
    <3>2. con.text_buffer[i] = Blank
      BY <3>1 DEF Clean, q
    <3> QED BY <1>12, <2>2, <3>2
  <2> QED BY <2>1, <2>2
<1>14. ASSUME NEW i \in TextIndex, i < q - 1 PROVE new.text_buffer[i] = con.text_buffer[i]
  <2>1. i # q - 1
    BY <1>2, <1>14
  <2> QED BY <1>11, <1>12, <2>1
<1> QED BY <1>10, <1>11, <1>13, <1>14 DEF q

-----------------------------------------------------------------------------
(* The shell.                                                              *)

\* A string of n characters that can be typed, with its terminator.
Holds(n, cmd) ==
  /\ n \in 0 .. MaxCommand - 1
  /\ cmd \in [0 .. MaxCommand - 1 -> Characters \cup {Terminator}]
  /\ \A i \in 0 .. n - 1 : cmd[i] \in Characters
  /\ cmd[n] = Terminator

LineOf(n, cmd) == Prompt \o [i \in 1 .. n |-> cmd[i - 1]]
Line == LineOf(cmd_length, curr_shell_cmd)

TerminalInv ==
  /\ Holds(cmd_length, curr_shell_cmd)
  /\ Flushed(console) /\ Clean(console) /\ Ends(console, Line)

LEMMA LineIsText ==
  ASSUME NEW n, NEW cmd, Holds(n, cmd)
  PROVE  /\ LineOf(n, cmd) \in Seq(Glyphs) /\ Len(LineOf(n, cmd)) = Len(Prompt) + n
         /\ Len(Prompt) \in Nat /\ n \in Nat /\ n < MaxCommand
         /\ \A i \in 1 .. Len(Prompt) : LineOf(n, cmd)[i] = Prompt[i]
         /\ \A i \in 1 .. n : LineOf(n, cmd)[Len(Prompt) + i] = cmd[i - 1]
<1> DEFINE w == [i \in 1 .. n |-> cmd[i - 1]]
           line == LineOf(n, cmd)
<1>1. n \in Nat /\ n < MaxCommand
  BY CommandAssumption DEF Holds
<1>2. \A i \in 1 .. n : cmd[i - 1] \in Glyphs
  <2> SUFFICES ASSUME NEW i \in 1 .. n PROVE cmd[i - 1] \in Glyphs
    OBVIOUS
  <2>1. i - 1 \in 0 .. n - 1
    BY <1>1
  <2> QED BY <2>1, TerminalAssumption DEF Holds
<1>3. w \in Seq(Glyphs) /\ Len(w) = n
  BY <1>1, <1>2
<1>4. \A i \in 1 .. n : w[i] = cmd[i - 1]
  OBVIOUS
<1>5. Prompt \in Seq(Glyphs) /\ Len(Prompt) \in Nat
  BY TerminalAssumption
<1> HIDE DEF w
<1>6. line = Prompt \o w
  BY DEF LineOf, w
<1> HIDE DEF line
<1>7. /\ Len(Prompt \o w) = Len(Prompt) + Len(w) /\ Prompt \o w \in Seq(Glyphs)
      /\ \A i \in 1 .. Len(Prompt) + Len(w) :
           (Prompt \o w)[i] = IF i <= Len(Prompt) THEN Prompt[i] ELSE w[i - Len(Prompt)]
  BY <1>3, <1>5, ConcatProperties
<1> DEFINE m == Len(Prompt)
<1>8. m \in Nat /\ Len(line) = m + n /\ line \in Seq(Glyphs)
      /\ \A i \in 1 .. m + n : line[i] = IF i <= m THEN Prompt[i] ELSE w[i - m]
  BY <1>3, <1>5, <1>6, <1>7
<1> HIDE DEF m
<1>9. \A i \in 1 .. m : i \in 1 .. m + n /\ i <= m
  BY <1>1, <1>8
<1>10. \A i \in 1 .. n : m + i \in 1 .. m + n /\ ~(m + i <= m) /\ (m + i) - m = i
  BY <1>1, <1>8
<1>11. \A i \in 1 .. m : line[i] = Prompt[i]
  BY <1>8, <1>9
<1>12. ASSUME NEW i \in 1 .. n PROVE line[m + i] = cmd[i - 1]
  <2>1. line[m + i] = w[(m + i) - m]
    BY <1>8, <1>10
  <2> QED BY <1>4, <1>10, <2>1
<1> QED BY <1>1, <1>8, <1>11, <1>12 DEF m, line

\* A line and its first characters.
LEMMA LineGrows ==
  ASSUME NEW n, NEW cmd, Holds(n, cmd), NEW new, Holds(n + 1, new),
         \A i \in 0 .. n - 1 : new[i] = cmd[i]
  PROVE  /\ Len(LineOf(n + 1, new)) = Len(LineOf(n, cmd)) + 1
         /\ LineOf(n + 1, new)[Len(LineOf(n + 1, new))] = new[n]
         /\ \A i \in 1 .. Len(LineOf(n, cmd)) : LineOf(n + 1, new)[i] = LineOf(n, cmd)[i]
<1> DEFINE m == Len(Prompt)
           k == n + 1
           v == LineOf(n, cmd)
           w == LineOf(k, new)
<1>1. /\ Len(v) = m + n /\ m \in Nat /\ n \in Nat
      /\ \A i \in 1 .. m : v[i] = Prompt[i]
      /\ \A i \in 1 .. n : v[m + i] = cmd[i - 1]
  BY LineIsText
<1>2. k \in Nat /\ k = n + 1
  BY <1>1
<1> HIDE DEF k, m, v
<1>3. Holds(k, new)
  BY DEF k
<1> HIDE DEF w
<1>4. /\ Len(w) = m + k
      /\ \A i \in 1 .. m : w[i] = Prompt[i]
      /\ \A i \in 1 .. k : w[m + i] = new[i - 1]
  BY <1>3, LineIsText DEF m, w
<1>5. Len(w) = Len(v) + 1
  BY <1>1, <1>2, <1>4
<1>6. w[Len(w)] = new[n]
  <2>1. k \in 1 .. k /\ k - 1 = n /\ m + k = Len(w)
    BY <1>1, <1>2, <1>4
  <2>2. w[m + k] = new[k - 1]
    BY <1>4, <2>1
  <2> QED BY <2>1, <2>2
<1>7. ASSUME NEW i \in 1 .. Len(v) PROVE w[i] = v[i]
  <2>1. CASE i <= m
    <3>1. i \in 1 .. m
      BY <1>1, <2>1
    <3> QED BY <1>1, <1>4, <3>1
  <2>2. CASE ~(i <= m)
    <3> DEFINE j == i - m
    <3>1. j \in 1 .. n /\ j \in 1 .. k /\ m + j = i /\ j - 1 \in 0 .. n - 1
      BY <1>1, <1>2, <2>2
    <3> HIDE DEF j
    <3>2. v[m + j] = cmd[j - 1] /\ w[m + j] = new[j - 1]
      BY <1>1, <1>4, <3>1
    <3> QED BY <3>1, <3>2
  <2> QED BY <2>1, <2>2
<1> QED BY <1>5, <1>6, <1>7 DEF w, v, k

LEMMA LineLength ==
  ASSUME NEW n, NEW cmd, Holds(n, cmd)
  PROVE  Len(LineOf(n, cmd)) + 1 <= Width * (Height - 1)
<1> DEFINE m == Len(Prompt)
           wh == Width * Height
<1>1. /\ Len(LineOf(n, cmd)) = m + n /\ m \in Nat /\ n \in Nat /\ n < MaxCommand
      /\ MaxCommand \in Nat
  BY LineIsText, CommandAssumption
<1>2. m + MaxCommand <= wh - Width - Width /\ wh \in Nat /\ Width \in Nat
      /\ Width * (Height - 1) = wh - Width /\ Width * (Height - 2) = wh - Width - Width
  BY TerminalAssumption, Sizes
<1> HIDE DEF m, wh
<1>3. m + n + 1 <= wh - Width
  BY <1>1, <1>2
<1> QED BY <1>1, <1>2, <1>3

-----------------------------------------------------------------------------
LEMMA TypeKeeps ==
  ASSUME TerminalInv, NEW c \in Characters, Type(c)
  PROVE  TerminalInv'
<1> DEFINE n == cmd_length
           cmd == curr_shell_cmd
           new == curr_shell_cmd'
           k == n + 1
           mid == putChar(console, c)
           v == LineOf(n, cmd)
           w == LineOf(k, new)
<1>1. Holds(n, cmd) /\ Flushed(console) /\ Clean(console) /\ Ends(console, v)
  BY DEF TerminalInv, Line
<1>2. /\ n < MaxCommand - 1 /\ cmd_length' = k
      /\ new = [cmd EXCEPT ![n] = c, ![k] = Terminator]
      /\ console' = flushText(mid) /\ c \in Glyphs
  BY TerminalAssumption DEF Type, AppendCharacter
<1> HIDE DEF n, cmd, new, mid
<1>3. /\ n \in Nat /\ MaxCommand \in Nat /\ n \in 0 .. MaxCommand - 1
      /\ k \in 0 .. MaxCommand - 1 /\ k = n + 1
  BY <1>1, <1>2, CommandAssumption DEF Holds
<1> HIDE DEF k
<1>4. /\ new \in [0 .. MaxCommand - 1 -> Characters \cup {Terminator}]
      /\ new[n] = c /\ new[k] = Terminator
      /\ \A i \in 0 .. MaxCommand - 1 : i # n /\ i # k => new[i] = cmd[i]
  <2>1. n # k
    BY <1>3
  <2>2. cmd \in [0 .. MaxCommand - 1 -> Characters \cup {Terminator}]
    BY <1>1 DEF Holds
  <2> QED BY <1>2, <1>3, <2>1, <2>2
<1>5. \A i \in 0 .. n - 1 : new[i] = cmd[i]
  <2> SUFFICES ASSUME NEW i \in 0 .. n - 1 PROVE new[i] = cmd[i]
    OBVIOUS
  <2>1. i \in 0 .. MaxCommand - 1 /\ i # n /\ i # k
    BY <1>3
  <2> QED BY <1>4, <2>1
<1>6. Holds(k, new)
  <2>1. ASSUME NEW i \in 0 .. k - 1 PROVE new[i] \in Characters
    <3>1. i = n \/ i \in 0 .. n - 1
      BY <1>3
    <3>2. i \in 0 .. n - 1 => new[i] \in Characters
      BY <1>1, <1>5 DEF Holds
    <3> QED BY <1>4, <3>1, <3>2
  <2> QED BY <1>3, <1>4, <2>1 DEF Holds
<1>7. Behind(console) /\ Sound(console)
  BY <1>1, CleanIsBehind, FlushedIs
<1>8. /\ Flushed(console') /\ Clean(console') /\ Same(mid, console') /\ Shifts(console, mid, c)
  BY <1>1, <1>2, <1>7, TypedIs DEF mid
<1>9. Len(w) = Len(v) + 1 /\ w[Len(w)] = c /\ \A i \in 1 .. Len(v) : w[i] = v[i]
  <2>1. Holds(n + 1, new)
    BY <1>3, <1>6
  <2>2. /\ Len(LineOf(n + 1, new)) = Len(v) + 1
        /\ LineOf(n + 1, new)[Len(LineOf(n + 1, new))] = new[n]
        /\ \A i \in 1 .. Len(v) : LineOf(n + 1, new)[i] = v[i]
    BY <1>1, <1>5, <2>1, LineGrows
  <2> QED BY <1>3, <1>4, <2>2
<1>10. w \in Seq(Glyphs) /\ v \in Seq(Glyphs) /\ Len(v) + 1 <= Width * (Height - 1)
  BY <1>1, <1>6, LineIsText, LineLength
<1> HIDE DEF v, w
<1>11. Ends(mid, w)
  BY ONLY <1>1, <1>2, <1>7, <1>8, <1>9, <1>10, EndsAfter
<1>12. Ends(console', w)
  BY <1>8, <1>11 DEF Ends, Same, At
<1>13. Line' = w
  BY <1>2 DEF Line, w, new
<1> QED BY <1>2, <1>6, <1>8, <1>12, <1>13 DEF TerminalInv, new

\* A second flush changes nothing.
LEMMA FlushedTwice ==
  ASSUME NEW con, Flushed(con), Clean(con), NEW new, new = flushText(con)
  PROVE  Flushed(new) /\ Clean(new) /\ Same(con, new)
<1>1. Flushed(new) /\ Same(con, new)
  BY FlushStands
<1> QED BY <1>1 DEF Same, Clean, At

LEMMA EraseKeeps ==
  ASSUME TerminalInv, Erase
  PROVE  TerminalInv'
<1> DEFINE n == cmd_length
           cmd == curr_shell_cmd
           new == curr_shell_cmd'
           k == n - 1
           mid == EraseOnScreen(console)
           v == LineOf(n, cmd)
           w == LineOf(k, new)
<1>1. Holds(n, cmd) /\ Flushed(console) /\ Clean(console) /\ Ends(console, v)
  BY DEF TerminalInv, Line
<1>2. /\ n > 0 /\ cmd_length' = k /\ new = [cmd EXCEPT ![k] = Terminator]
      /\ console' = flushText(mid)
  BY DEF Erase, EraseCharacter
<1> HIDE DEF n, cmd, new, mid
<1>3. /\ n \in Nat /\ MaxCommand \in Nat /\ n \in 0 .. MaxCommand - 1
      /\ k \in 0 .. MaxCommand - 1 /\ n = k + 1 /\ k \in Nat
  BY <1>1, <1>2, CommandAssumption DEF Holds
<1> HIDE DEF k
<1>4. /\ new \in [0 .. MaxCommand - 1 -> Characters \cup {Terminator}]
      /\ new[k] = Terminator
      /\ \A i \in 0 .. MaxCommand - 1 : i # k => new[i] = cmd[i]
  <2>1. cmd \in [0 .. MaxCommand - 1 -> Characters \cup {Terminator}]
    BY <1>1 DEF Holds
  <2> QED BY <1>2, <1>3, <2>1
<1>5. \A i \in 0 .. k - 1 : cmd[i] = new[i] /\ i \in 0 .. n - 1
  <2> SUFFICES ASSUME NEW i \in 0 .. k - 1 PROVE cmd[i] = new[i] /\ i \in 0 .. n - 1
    OBVIOUS
  <2>1. i \in 0 .. MaxCommand - 1 /\ i # k /\ i \in 0 .. n - 1
    BY <1>3
  <2> QED BY <1>4, <2>1
<1>6. Holds(k, new)
  BY <1>1, <1>3, <1>4, <1>5 DEF Holds
<1>7. Len(v) = Len(w) + 1 /\ \A i \in 1 .. Len(w) : v[i] = w[i]
  <2>1. Holds(k + 1, cmd)
    BY <1>1, <1>3
  <2>2. /\ Len(LineOf(k + 1, cmd)) = Len(w) + 1
        /\ \A i \in 1 .. Len(w) : LineOf(k + 1, cmd)[i] = w[i]
    BY <1>5, <1>6, <2>1, LineGrows
  <2> QED BY <1>3, <2>2
<1>8. Len(w) \in Nat
  BY <1>6, LineIsText
<1> DEFINE q == At(console)
           m == Len(w)
<1>9. q \in Nat /\ TextIndex = 0 .. Width * (Height + 1) - 1
      /\ q < Width * (Height + 1) /\ Width * (Height + 1) \in Nat
  <2>1. Sound(console)
    BY <1>1, FlushedIs
  <2>2. q \in Nat /\ q < Width * Height
    BY <2>1, AtIs
  <2> DEFINE wh == Width * Height
  <2>3. Width * (Height + 1) = wh + Width /\ Width \in Nat /\ wh \in Nat
    BY Sizes
  <2> HIDE DEF q, wh
  <2> QED BY <2>2, <2>3 DEF TextIndex, wh
<1> HIDE DEF v, w, q, m
<1>10. q >= m + 1 /\ m \in Nat
       /\ \A i \in 1 .. m + 1 : console.text_buffer[q - (m + 1) + i - 1] = v[i]
  BY <1>1, <1>7, <1>8 DEF Ends, q, m
<1>11. q >= 1
  BY <1>9, <1>10
<1>12. /\ Flushed(mid) /\ Clean(mid) /\ At(mid) = q - 1
       /\ \A i \in TextIndex : i < At(mid) => mid.text_buffer[i] = console.text_buffer[i]
  BY <1>1, <1>11, Erased DEF q, mid
<1>13. Ends(mid, w)
  <2> SUFFICES /\ q - 1 >= m
               /\ \A i \in 1 .. m : mid.text_buffer[(q - 1) - m + i - 1] = w[i]
    BY <1>12 DEF Ends, m
  <2>1. q - 1 >= m
    BY <1>9, <1>10
  <2>2. ASSUME NEW i \in 1 .. m PROVE mid.text_buffer[(q - 1) - m + i - 1] = w[i]
    <3> DEFINE j == (q - 1) - m + i - 1
    <3>1. j \in TextIndex /\ j < q - 1 /\ j = q - (m + 1) + i - 1 /\ i \in 1 .. m + 1
      <4> DEFINE b == Width * (Height + 1)
      <4> HIDE DEF b
      <4>1. TextIndex = 0 .. b - 1 /\ q < b /\ b \in Nat
        BY <1>9 DEF b
      <4> QED BY <1>9, <1>10, <4>1
    <3> HIDE DEF j
    <3>2. mid.text_buffer[j] = console.text_buffer[j]
      BY <1>12, <3>1
    <3>3. console.text_buffer[j] = v[i]
      BY <1>10, <3>1
    <3>4. v[i] = w[i]
      BY <1>7 DEF m
    <3> QED BY <3>2, <3>3, <3>4 DEF j
  <2> QED BY <2>1, <2>2
<1>14. Flushed(console') /\ Clean(console') /\ Same(mid, console')
  BY <1>2, <1>12, FlushedTwice
<1>15. Ends(console', w)
  BY <1>13, <1>14 DEF Ends, Same, At
<1>16. Line' = w
  BY <1>2 DEF Line, w, new
<1> QED BY <1>2, <1>6, <1>14, <1>15, <1>16 DEF TerminalInv, new

-----------------------------------------------------------------------------
\* The empty command.
LEMMA EmptyLine ==
  ASSUME NEW cmd, Holds(0, cmd), NEW con, Ends(con, Prompt)
  PROVE  Ends(con, LineOf(0, cmd))
<1> DEFINE z == 0
           w == LineOf(z, cmd)
<1>1. z = 0 /\ Holds(z, cmd)
  OBVIOUS
<1> HIDE DEF z
<1>2. /\ Len(w) = Len(Prompt) + z /\ Len(Prompt) \in Nat
      /\ \A i \in 1 .. Len(Prompt) : w[i] = Prompt[i]
  BY <1>1, LineIsText
<1> HIDE DEF w
<1>3. Len(w) = Len(Prompt)
  BY <1>1, <1>2
<1>4. Ends(con, w)
  BY <1>2, <1>3 DEF Ends
<1> QED BY <1>4 DEF w, z

\* The string that Enter runs is as long as what was typed.
LEMMA TextIs ==
  ASSUME Holds(cmd_length, curr_shell_cmd)
  PROVE  Text \in Seq(Glyphs) /\ Len(Text) < MaxCommand
<1> DEFINE n == cmd_length
           cmd == curr_shell_cmd
           E(e) == cmd[e] = Terminator /\ \A i \in 0 .. e - 1 : cmd[i] # Terminator
           end == CHOOSE e \in 0 .. MaxCommand - 1 : E(e)
<1>1. /\ n \in 0 .. MaxCommand - 1 /\ MaxCommand \in Nat /\ n \in Nat
      /\ \A i \in 0 .. n - 1 : cmd[i] \in Characters
      /\ cmd[n] = Terminator
  BY CommandAssumption DEF Holds
<1>2. Text = [i \in 1 .. end |-> cmd[i - 1]]
  BY DEF Text
<1>3. E(n)
  BY <1>1, TerminalAssumption
<1>4. end \in 0 .. MaxCommand - 1 /\ E(end)
  BY <1>1, <1>3
<1> HIDE DEF end
<1>5. end <= n
  <2>1. n < end => n \in 0 .. end - 1
    BY <1>1, <1>4
  <2>2. ~(n < end)
    BY <1>1, <1>4, <2>1
  <2> QED BY <1>1, <1>4, <2>2
<1> HIDE DEF n, cmd, E
<1>6. end \in Nat /\ end < MaxCommand
  BY <1>1, <1>4
<1>7. \A i \in 1 .. end : cmd[i - 1] \in Glyphs
  <2> SUFFICES ASSUME NEW i \in 1 .. end PROVE cmd[i - 1] \in Glyphs
    OBVIOUS
  <2>1. i - 1 \in 0 .. n - 1
    BY <1>1, <1>5, <1>6
  <2> QED BY <1>1, <2>1, TerminalAssumption
<1>8. Len([i \in 1 .. end |-> cmd[i - 1]]) = end
  BY <1>6
<1>9. [i \in 1 .. end |-> cmd[i - 1]] \in Seq(Glyphs)
  BY <1>6, <1>7
<1> QED BY <1>2, <1>6, <1>8, <1>9

LEMMA Branches ==
  ASSUME NEW t, NEW a, NEW b, NEW c, NEW e, NEW f, NEW g
  PROVE  (CASE t = a -> e [] t = b -> f [] t = c -> e [] OTHER -> g) \in {e, f, g}
<1> DEFINE x == CASE t = a -> e [] t = b -> f [] t = c -> e [] OTHER -> g
<1>1. CASE t # a /\ t # b /\ t # c
  <2>1. x = g
    BY <1>1
  <2> QED BY <2>1
<1>2. CASE t = a \/ t = b \/ t = c
  <2>1. x = e \/ x = f
    BY <1>2
  <2> QED BY <2>1
<1> QED BY <1>1, <1>2

\* Whatever the command prints, its lines end.
LEMMA CommandPrints ==
  ASSUME Holds(cmd_length, curr_shell_cmd), NEW con, OnNewLine(con)
  PROVE  OnNewLine(onCommand(con))
<1>1. Text \in Seq(Glyphs) /\ Len(Text) < MaxCommand
  BY TextIs
<1> DEFINE reports == FoldLeft(PrintLine, con, Report)
           line == Unknown \o Text
           unknown == PrintLine(con, line)
<1>2. OnNewLine(reports)
  <2>1. Report \in Seq(Seq(Glyphs))
    BY TerminalAssumption
  <2>2. \A i \in 1 .. Len(Report) : Len(Report[i]) < Width * (Height - 2)
    BY <2>1, TerminalAssumption
  <2> QED BY <2>1, <2>2, ReportsAre
<1>3. OnNewLine(unknown)
  <2> DEFINE t == Text
             b == Width * (Height - 2)
  <2>1. /\ Unknown \in Seq(Glyphs) /\ Len(Unknown) \in Nat /\ Len(t) \in Nat /\ b \in Int
        /\ Len(Unknown) + MaxCommand <= b /\ MaxCommand \in Nat
    BY <1>1, TerminalAssumption, CommandAssumption, Sizes
  <2>2. line = Unknown \o t
    OBVIOUS
  <2> HIDE DEF t, b, line
  <2>3. t \in Seq(Glyphs) /\ Len(t) < MaxCommand
    BY <1>1 DEF t
  <2>4. line \in Seq(Glyphs) /\ Len(line) = Len(Unknown) + Len(t)
    BY <2>1, <2>2, <2>3, ConcatProperties
  <2>5. Len(line) < b
    BY <2>1, <2>3, <2>4
  <2> QED BY <2>4, <2>5, PrintLineIs DEF b
<1>4. onCommand(con) = CASE Text = <<>> -> con
                         [] Text = MemStat -> reports
                         [] Text = PowerOff -> con
                         [] OTHER -> unknown
  BY DEF onCommand
<1> HIDE DEF reports, unknown
<1>5. onCommand(con) \in {con, reports, unknown}
  BY ONLY <1>4, Branches
<1> QED BY <1>2, <1>3, <1>5

LEMMA PromptFits ==
  Len(Prompt) \in Nat /\ Len(Prompt) <= Width * (Height - 2) /\ Width * (Height - 2) \in Int
  /\ Width * (Height - 2) <= Width * (Height - 1)
<1> DEFINE m == Len(Prompt)
           wh == Width * Height
<1>1. m \in Nat /\ MaxCommand \in Nat /\ m + MaxCommand <= wh - Width - Width
      /\ wh \in Nat /\ Width \in Nat /\ Width * (Height - 1) = wh - Width
      /\ Width * (Height - 2) = wh - Width - Width
  BY TerminalAssumption, CommandAssumption, Sizes
<1> HIDE DEF m, wh
<1>2. m <= wh - Width - Width /\ wh - Width - Width \in Int /\ wh - Width - Width <= wh - Width
  BY <1>1
<1> QED BY <1>1, <1>2 DEF m

LEMMA PromptOnNewLine ==
  ASSUME NEW con, OnNewLine(con), NEW new, new = resetCommand(con)
  PROVE  Flushed(new) /\ Clean(new) /\ Ends(new, Prompt)
<1>1. Ready(con) /\ Advanced(con) /\ Room(con, Width * (Height - 2))
  BY DEF OnNewLine
<1>2. Room(con, Len(Prompt))
  <2> DEFINE b == Width * (Height - 2)
             c == Width * (Height - 1)
             q == At(con)
             m == Len(Prompt)
  <2>1. con.prev_y >= 1 \/ q + b <= c
    BY <1>1 DEF Room
  <2>2. q \in Nat
    BY <1>1, AtIs DEF Ready
  <2>3. m \in Nat /\ b \in Int /\ m <= b /\ c \in Int
    BY PromptFits, Sizes
  <2> HIDE DEF b, c, q, m
  <2>4. con.prev_y >= 1 \/ q + m <= c
    BY <2>1, <2>2, <2>3
  <2> QED BY <2>4 DEF Room, q, m, c
<1> QED BY <1>1, <1>2, PromptIs

LEMMA EnterKeeps ==
  ASSUME TerminalInv, Enter
  PROVE  TerminalInv'
<1> DEFINE cmd == curr_shell_cmd
           new == curr_shell_cmd'
           line == putChar(console, NewLine)
           out == onCommand(line)
           last == resetCommand(out)
<1>1. Holds(cmd_length, cmd) /\ Flushed(console) /\ Clean(console)
  BY DEF TerminalInv
<1>2. /\ cmd_length' = 0 /\ new = [cmd EXCEPT ![0] = Terminator]
      /\ console' = flushText(last)
  BY DEF Enter, RunCommand
<1>3. Holds(0, new)
  <2>1. MaxCommand \in Nat \ {0} /\ cmd \in [0 .. MaxCommand - 1 -> Characters \cup {Terminator}]
    BY <1>1, CommandAssumption DEF Holds
  <2>2. 0 \in 0 .. MaxCommand - 1
    BY <2>1
  <2> HIDE DEF cmd, new
  <2>3. new \in [0 .. MaxCommand - 1 -> Characters \cup {Terminator}] /\ new[0] = Terminator
    BY <1>2, <2>1, <2>2
  <2> QED BY <2>2, <2>3 DEF Holds
<1>4. OnNewLine(line)
  BY <1>1, Entered
<1> HIDE DEF line
<1>5. OnNewLine(out)
  BY <1>1, <1>4, CommandPrints
<1> HIDE DEF out
<1>6. Flushed(last) /\ Clean(last) /\ Ends(last, Prompt)
  BY <1>5, PromptOnNewLine
<1> HIDE DEF last
<1>7. Flushed(console') /\ Clean(console') /\ Same(last, console')
  BY <1>2, <1>6, FlushedTwice
<1>8. Ends(console', Prompt)
  BY <1>6, <1>7 DEF Ends, Same, At
<1>9. Ends(console', LineOf(0, new))
  BY <1>3, <1>8, EmptyLine
<1>10. Line' = LineOf(0, new)
  BY <1>2 DEF Line
<1> QED BY <1>2, <1>3, <1>7, <1>9, <1>10 DEF TerminalInv

-----------------------------------------------------------------------------
\* The screen the shell begins on.
LEMMA ClearedIs ==
  ASSUME NEW row \in Row, NEW con, con = Cleared(row)
  PROVE  Ready(con) /\ Stands(con) /\ con.prev_y = row /\ con.cursor_x = 0 /\ con.cursor_y = row
<1>1. /\ con.cursor_x = 0 /\ con.cursor_y = row /\ con.prev_x = 0 /\ con.prev_y = row
      /\ con.text_buffer = [i \in TextIndex |-> Blank] /\ con.changed_lines = {}
      /\ con.buffer = [c \in Cell |-> Blank] /\ con.shown = [c \in Cell |-> Blank]
  BY DEF Cleared
<1>2. Blank \in Glyphs /\ Blank \in Images /\ Blank # Block
  BY ScreenAssumption DEF Images
<1>3. con \in Consoles
  BY <1>2 DEF Cleared, Consoles
<1>4. row \in Nat /\ row * Width \in Nat /\ Width \in Nat /\ Width >= 1
  BY RowIs, Sizes
<1>5. Placed(con)
  <2>1. At(con) = 0 + row * Width /\ Was(con) = 0 + row * Width
    BY <1>1 DEF At, Was
  <2> DEFINE rw == row * Width
  <2> HIDE DEF rw
  <2>2. rw \in Nat /\ At(con) = 0 + rw /\ Was(con) = 0 + rw
    BY <1>4, <2>1 DEF rw
  <2>3. At(con) >= 0 /\ Was(con) >= 0 /\ 0 < Width /\ row <= row
    BY <1>4, <2>2
  <2> QED BY <1>1, <2>3 DEF Placed
<1>6. Drawn(con)
  <2>1. \A c \in Cell : con.shown[c] = con.buffer[c] /\ con.buffer[c] # Block
    BY <1>1, <1>2
  <2>2. \A c \in Cell : c < At(con) => con.buffer[c] = con.text_buffer[c]
    <3> SUFFICES ASSUME NEW c \in Cell PROVE c \in TextIndex
      BY <1>1
    <3> DEFINE wh == Width * Height
             whh == Width * (Height + 1)
    <3>1. whh = wh + Width /\ wh \in Nat
      BY Sizes
    <3>2. Cell = 0 .. wh - 1 /\ TextIndex = 0 .. whh - 1
      BY DEF Cell, TextIndex
    <3> HIDE DEF wh, whh
    <3>3. c \in 0 .. wh - 1
      BY <3>2
    <3> QED BY <1>4, <3>1, <3>2, <3>3
  <2> QED BY <2>1, <2>2 DEF Drawn
<1>7. Clean(con)
  BY <1>1 DEF Clean
<1>8. Margin(con) /\ Stands(con)
  BY <1>1 DEF Margin, Stands
<1> QED BY <1>1, <1>3, <1>5, <1>6, <1>7, <1>8 DEF Sound, Ready

LEMMA ClearedRoom ==
  ASSUME NEW row \in Row
  PROVE  Room(Cleared(row), Len(Prompt))
<1> DEFINE con == Cleared(row)
           b == Width * (Height - 2)
           c == Width * (Height - 1)
           m == Len(Prompt)
<1>1. con.prev_y = row /\ con.cursor_x = 0 /\ con.cursor_y = row
  BY ClearedIs
<1>2. row \in Nat
  BY RowIs
<1>3. m \in Nat /\ b \in Int /\ m <= b /\ b <= c /\ c \in Int
  BY PromptFits, Sizes
<1>4. row = 0 => At(con) = 0
  BY <1>1, Sizes DEF At
<1> HIDE DEF con, b, c, m
<1>5. row = 0 => At(con) + m <= c
  BY <1>3, <1>4
<1>6. con.prev_y >= 1 \/ At(con) + m <= c
  BY <1>1, <1>2, <1>5
<1>7. Room(con, m)
  BY <1>6 DEF Room, c
<1> QED BY <1>7 DEF con, m

LEMMA InitKeeps ==
  ASSUME Init
  PROVE  TerminalInv
<1>1. PICK row \in Row : console = resetCommand(Cleared(row))
  BY DEF Init
<1>2. cmd_length = 0 /\ curr_shell_cmd = [i \in 0 .. MaxCommand - 1 |-> Terminator]
  BY DEF Init, CommandInit
<1>3. Holds(0, curr_shell_cmd)
  <2>1. 0 \in 0 .. MaxCommand - 1
    BY CommandAssumption
  <2> QED BY <1>2, <2>1 DEF Holds
<1> DEFINE con == Cleared(row)
<1>4. Ready(con) /\ Stands(con) /\ Room(con, Len(Prompt))
  BY ClearedIs, ClearedRoom
<1>5. Advanced(con)
  BY <1>4 DEF Advanced
<1> HIDE DEF con
<1>6. Flushed(console) /\ Clean(console) /\ Ends(console, Prompt)
  BY <1>1, <1>4, <1>5, PromptIs DEF con
<1>7. Ends(console, LineOf(0, curr_shell_cmd))
  BY <1>3, <1>6, EmptyLine
<1> QED BY <1>2, <1>3, <1>6, <1>7 DEF TerminalInv, Line

\* What has not changed still holds.
LEMMA StutterKeeps ==
  ASSUME TerminalInv, UNCHANGED tvars
  PROVE  TerminalInv'
<1>1. curr_shell_cmd' = curr_shell_cmd /\ cmd_length' = cmd_length /\ console' = console
  BY DEF tvars, command
<1>2. Line' = Line
  BY <1>1 DEF Line
<1> QED BY <1>1, <1>2 DEF TerminalInv

-----------------------------------------------------------------------------
(* The theorems.                                                           *)

\* Between two key presses the screen is flushed, the block stands at the
\* cursor and nowhere else, the text buffer ends at the cursor with the prompt
\* and the command, and the command buffer holds cmd_length characters and a
\* terminator: whatever is typed, erased across the left margin, run, or
\* scrolled off the screen by what a command prints (onKeyEvent of the shell,
\* TextOut of the output library, putChar, newLine and flushText of the kernel).
THEOREM TerminalInvariant == Spec => []TerminalInv
<1>1. Init => TerminalInv
  BY InitKeeps
<1>2. TerminalInv /\ [Next]_tvars => TerminalInv'
  <2> SUFFICES ASSUME TerminalInv, [Next]_tvars PROVE TerminalInv'
    OBVIOUS
  <2>1. ASSUME NEW c \in Characters, Type(c) PROVE TerminalInv'
    BY <2>1, TypeKeeps
  <2>2. CASE Erase
    BY <2>2, EraseKeeps
  <2>3. CASE Enter
    BY <2>3, EnterKeeps
  <2>4. CASE UNCHANGED tvars
    BY <2>4, StutterKeeps
  <2> QED BY <2>1, <2>2, <2>3, <2>4 DEF Next
<1> QED BY <1>1, <1>2, PTL DEF Spec

\* What the shell will run on Enter is what ends at the cursor on the screen's
\* text, after the prompt, and behind it the text is blank: the command buffer
\* of the shell and the text buffer of the kernel are never at odds, though
\* only the characters pass between them.
THEOREM CommandAlwaysShown == Spec => []CommandShown
<1>1. TerminalInv => CommandShown
  BY DEF TerminalInv, CommandShown, Line, LineOf, Ends, Clean, At
<1> QED BY <1>1, TerminalInvariant, PTL

\* The frame buffer shows exactly one block, at the cursor, and on the cursor's
\* row the text that leads up to it: flushText finds the old block wherever line
\* breaks, scrolling and steps left of the row have left it.
THEOREM LineAlwaysShown == Spec => []LineShown
<1>1. ASSUME NEW con, Flushed(con)
      PROVE  {c \in Cell : con.shown[c] = Block} = {CellAt(con.cursor_x, con.cursor_y)}
  <2>1. /\ con \in Consoles /\ Blocked(con) /\ con.shown = con.buffer
        /\ con.prev_x = con.cursor_x /\ con.prev_y = con.cursor_y
        /\ con.buffer[CellAt(con.cursor_x, con.cursor_y)] = Block
    <3>1. Sound(con) /\ con.prev_x = con.cursor_x /\ con.prev_y = con.cursor_y
      BY <1>1, FlushedIs
    <3>2. con \in Consoles /\ Blocked(con)
      BY <3>1, SoundIs DEF Blocked
    <3> QED BY <1>1, <3>1, <3>2 DEF Flushed
  <2>2. con.cursor_x \in Int /\ con.cursor_y \in Row
    BY <2>1, Fields
  <2>3. CellAt(con.cursor_x, con.cursor_y) \in Cell
    BY <2>2, CellIs
  <2>4. \A c \in Cell : con.shown[c] = Block => c = CellAt(con.cursor_x, con.cursor_y)
    BY <2>1 DEF Blocked
  <2> QED BY <2>1, <2>3, <2>4
<1>2. ASSUME NEW con, Flushed(con),
             NEW c \in con.cursor_y * Width .. con.cursor_y * Width + con.cursor_x - 1
      PROVE  con.shown[c] = con.text_buffer[c]
  <2>1. con \in Consoles /\ Placed(con) /\ LineDrawn(con) /\ con.shown = con.buffer
    BY <1>2, FlushedIs, SoundIs DEF Flushed
  <2> DEFINE x == con.cursor_x
             yw == con.cursor_y * Width
             wh == Width * Height
  <2>2. x \in Int /\ x < Width /\ yw \in Nat /\ yw + Width <= wh /\ wh \in Nat /\ Width \in Nat
    BY <2>1, Fields, RowIs, Sizes DEF Placed
  <2>3. At(con) = x + yw /\ Cell = 0 .. wh - 1 /\ c \in yw .. yw + x - 1
    BY <1>2 DEF At, Cell
  <2> HIDE DEF x, yw, wh
  <2>4. c \in Cell /\ yw <= c /\ c < At(con)
    BY <2>2, <2>3
  <2> QED BY <2>1, <2>4 DEF LineDrawn, yw
<1>3. TerminalInv => LineShown
  BY <1>1, <1>2 DEF TerminalInv, LineShown
<1> QED BY <1>3, TerminalInvariant, PTL

==============================================================================
