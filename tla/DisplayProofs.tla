---------------------------- MODULE DisplayProofs ----------------------------
(***************************************************************************)
(* What the screen shows: every property of Console, for every screen,     *)
(* character set, clip and length of line, and every property of Pointer,  *)
(* for every size of screen, pointer and character.                        *)
(*                                                                         *)
(* The console's cells are counted through all rows, so that scrolling and *)
(* wrapping become a shift of that count.  Behind the cursor the screen is *)
(* blank; before it, while no command is at work, the line is shown; and   *)
(* what a command still has to print ends at the margin, with a prompt.    *)
(*                                                                         *)
(* Inside the redraw the screen shows the text without, and then with, the *)
(* pointer; nobody else writes there, because interrupts are off from cli  *)
(* to sti.  That the text written outside the pointer keeps the picture is *)
(* shown with the pointer's square as a set of pixels.                     *)
(***************************************************************************)
EXTENDS Console, Pointer, TLAPS

(* The commands that pair every row with an UpdateCursor.                  *)
RowByRow == {"clear", "about", "sysinfo", "ls", "read", "alloc", "free",
             "diskread", "write", "unknown"}

(* Statements of these commands and of a paste.                            *)
Statements ==
  {Line, Field, Return, Clear, Finish} \cup {Copy(t) : t \in Clips} \cup {Echo(c) : c \in Chars}

(* The tail of ExecuteCommand is still to come.                            *)
WillFinish(ops) == \E j \in 1 .. Len(ops) : ops[j].do = "finish"
WillReturn(ops, from) == \E j \in from .. Len(ops) : ops[j].do = "return"

(* It comes last, and at the margin; without it there are only whole lines *)
(* or a paste.                                                             *)
WellFormed(ops) ==
  /\ ops \in Seq(Statements)
  /\ \A j \in 1 .. Len(ops) : /\ ops[j].do = "finish" => j = Len(ops)
                              /\ ops[j].do = "field" => WillReturn(ops, j + 1)
                              /\ ops[j].do = "echo" => ~WillFinish(ops)
  /\ WillFinish(ops) \/ \A j \in 1 .. Len(ops) : ops[j].do \in {"line", "echo"}

OnlyEchoes(ops) == \A j \in 1 .. Len(ops) : ops[j].do = "echo"

(* Nothing is drawn at the cursor or behind it.                            *)
BlankFrom(scr, x, y) ==
  \A r \in 0 .. Rows - 1, c \in 0 .. Cols - 1 :
    r > y \/ (r = y /\ c >= x) => scr[r][c] = {}

(* Cells and cursor counted through all rows.                              *)
At(scr, i) == scr[i \div Cols][i % Cols]
Index(x, y) == y * Cols + x
Cursor == Index(CursorX, CursorY)

(* A prompt and then exactly the line before the cell with number i.       *)
Shows(scr, i, line) ==
  /\ PromptCols + Len(line) <= i
  /\ \A k \in 1 .. Len(line) : At(scr, i - (Len(line) - k + 1)) = {line[k]}
  /\ \A k \in 1 .. PromptCols : At(scr, i - (Len(line) + k)) = {Prompt}

ConsoleTypeOK ==
  /\ CommandBuffer \in Seq(Chars) /\ BufferIndex <= MaxLine
  /\ Clipboard \in Seq(Chars)
  /\ CursorOnScreen

PendingInOrder ==
  /\ WellFormed(pending)
  /\ WillFinish(pending) /\ CursorX # 0 => WillReturn(pending, 1)
  /\ ~stale => OnlyEchoes(pending)

(* Backspace cannot leave the screen at its top.                           *)
LineFits == WillFinish(pending) \/ BufferIndex <= Cursor

LineIsShown == ~stale => Shows(screen, Cursor, CommandBuffer)

ConsoleInv ==
  /\ ConsoleTypeOK /\ PendingInOrder /\ BlankFrom(screen, CursorX, CursorY)
  /\ LineFits /\ LineIsShown

-----------------------------------------------------------------------------
LEMMA ColsRows ==
  /\ Cols \in Nat \ {0} /\ Rows \in Nat /\ Rows >= 3 /\ PromptCols \in Nat /\ PromptCols < Cols
  /\ MaxLine \in Nat /\ FieldCols \in Nat
  /\ PromptCols + MaxLine <= (Rows - 1) * Cols
BY ConsoleAssumption DEF ConsoleAssumption

LEMMA Multiples ==
  /\ \A n, m \in Int : n <= m => n * Cols <= m * Cols
  /\ \A n \in Int : (n + 1) * Cols = n * Cols + Cols /\ (n - 1) * Cols = n * Cols - Cols
                    /\ n * Cols \in Int
BY ColsRows

(* Row and column of a cell.                                               *)
LEMMA RowAndColumn ==
  ASSUME NEW i \in Nat
  PROVE  /\ i \div Cols \in Nat /\ i % Cols \in 0 .. Cols - 1
         /\ i = (i \div Cols) * Cols + (i % Cols)
         /\ i < Rows * Cols => i \div Cols \in 0 .. Rows - 1
<1> DEFINE r == i \div Cols
           c == i % Cols
<1>1. r \in Nat /\ c \in 0 .. Cols - 1 /\ i = Cols * r + c
  BY ColsRows
<1>2. i = r * Cols + c
  BY <1>1, ColsRows
<1> HIDE DEF r, c
<1>3. i < Rows * Cols => r \in 0 .. Rows - 1
  <2>1. Rows <= r => Rows * Cols <= r * Cols
    BY <1>1, ColsRows, Multiples
  <2> QED BY <1>1, <1>2, <2>1, ColsRows, Multiples
<1> QED BY <1>1, <1>2, <1>3 DEF r, c

LEMMA OneRowAndColumn ==
  ASSUME NEW r \in Nat, NEW c \in 0 .. Cols - 1
  PROVE  /\ (r * Cols + c) \div Cols = r /\ (r * Cols + c) % Cols = c
         /\ r * Cols + c \in Nat
         /\ r < Rows => r * Cols + c < Rows * Cols
<1> DEFINE i == r * Cols + c
           q == i \div Cols
           d == i % Cols
<1>1. i \in Nat
  BY ColsRows
<1>2. q \in Nat /\ d \in 0 .. Cols - 1 /\ i = q * Cols + d
  BY <1>1, RowAndColumn
<1> HIDE DEF q, d
<1>3. q = r
  <2>1. q < r => (q + 1) * Cols <= r * Cols
    BY <1>2, Multiples
  <2>2. r < q => (r + 1) * Cols <= q * Cols
    BY <1>2, Multiples
  <2> QED BY <1>2, <2>1, <2>2, ColsRows, Multiples
<1>4. d = c
  BY <1>2, <1>3, ColsRows, Multiples
<1>5. r < Rows => r * Cols + c < Rows * Cols
  <2>1. r < Rows => (r + 1) * Cols <= Rows * Cols
    BY ColsRows, Multiples
  <2> QED BY <2>1, ColsRows, Multiples
<1> QED BY <1>1, <1>3, <1>4, <1>5 DEF q, d

-----------------------------------------------------------------------------
(* The drawing primitives on a screen and a cursor position.               *)
Spot(scr, x, y) == [scr |-> scr, x |-> x, y |-> y]

InRun(r, c, x, y, n) == r = y /\ c \in x .. x + n - 1

Drawn(scr, x, y, n, glyph) ==
  [r \in 0 .. Rows - 1 |-> [c \in 0 .. Cols - 1 |->
     IF InRun(r, c, x, y, n) THEN scr[r][c] \cup {glyph} ELSE scr[r][c]]]

Erased(scr, x, y) ==
  [r \in 0 .. Rows - 1 |-> [c \in 0 .. Cols - 1 |-> IF r = y /\ c = x THEN {} ELSE scr[r][c]]]

Blank == [r \in 0 .. Rows - 1 |-> BlankRow]

LEMMA Fields ==
  ASSUME NEW scr, NEW x, NEW y
  PROVE  Spot(scr, x, y).scr = scr /\ Spot(scr, x, y).x = x /\ Spot(scr, x, y).y = y
BY DEF Spot

WithScreen(s, v) == [s EXCEPT !.scr = v]
WithX(s, v) == [s EXCEPT !.x = v]
WithY(s, v) == [s EXCEPT !.y = v]

LEMMA Changes ==
  ASSUME NEW scr, NEW x, NEW y, NEW v
  PROVE  /\ WithScreen(Spot(scr, x, y), v) = Spot(v, x, y)
         /\ WithX(Spot(scr, x, y), v) = Spot(scr, v, y)
         /\ WithY(Spot(scr, x, y), v) = Spot(scr, x, v)
<1>1. WithScreen(Spot(scr, x, y), v) = Spot(v, x, y)
  BY DEF Spot, WithScreen
<1>2. WithX(Spot(scr, x, y), v) = Spot(scr, v, y)
  BY DEF Spot, WithX
<1>3. WithY(Spot(scr, x, y), v) = Spot(scr, x, v)
  BY DEF Spot, WithY
<1> QED BY <1>1, <1>2, <1>3

LEMMA DrawIs ==
  ASSUME NEW scr, NEW x, NEW y, NEW n, NEW glyph
  PROVE  Draw(Spot(scr, x, y), n, glyph) = Spot(Drawn(scr, x, y, n, glyph), x, y)
<1>1. \A s : Draw(s, n, glyph) = WithScreen(s, Drawn(s.scr, s.x, s.y, n, glyph))
  BY DEF Draw, Drawn, InRun, WithScreen
<1> QED BY <1>1, Changes, Fields

LEMMA EraseIs ==
  ASSUME NEW scr, NEW x, NEW y
  PROVE  EraseCharBlock(Spot(scr, x, y)) = Spot(Erased(scr, x, y), x, y)
<1>1. \A s : EraseCharBlock(s) = WithScreen(s, Erased(s.scr, s.x, s.y))
  BY DEF EraseCharBlock, Erased, WithScreen
<1> QED BY <1>1, Changes, Fields

LEMMA MovesAre ==
  ASSUME NEW scr, NEW x, NEW y, NEW n
  PROVE  /\ Right(Spot(scr, x, y), n) = Spot(scr, x + n, y)
         /\ Down(Spot(scr, x, y), n) = Spot(scr, x, y + n)
<1>1. Right(Spot(scr, x, y), n) = WithX(Spot(scr, x, y), Spot(scr, x, y).x + n)
  BY DEF Right, WithX
<1>2. Down(Spot(scr, x, y), n) = WithY(Spot(scr, x, y), Spot(scr, x, y).y + n)
  BY DEF Down, WithY
<1> QED BY <1>1, <1>2, Changes, Fields

LEMMA HomeIs ==
  ASSUME NEW scr, NEW x, NEW y
  PROVE  Home(Spot(scr, x, y)) = Spot(scr, 0, y)
<1>1. Home(Spot(scr, x, y)) = WithX(Spot(scr, x, y), 0)
  BY DEF Home, WithX
<1> QED BY <1>1, Changes

(* Backspace in the first column.                                          *)
RowAbove(s) == [s EXCEPT !.x = Cols - 1, !.y = @ - 1]

LEMMA RowAboveIs ==
  ASSUME NEW scr, NEW x, NEW y
  PROVE  RowAbove(Spot(scr, x, y)) = Spot(scr, Cols - 1, y - 1)
<1>1. RowAbove(Spot(scr, x, y)) = WithY(WithX(Spot(scr, x, y), Cols - 1), Spot(scr, x, y).y - 1)
  BY DEF WithX, WithY, RowAbove
<1> QED BY <1>1, Changes, Fields

LEMMA ClearIs == ClearScreen = Spot(Blank, 0, 0)
BY DEF ClearScreen, Spot, Blank

LEMMA ScrollIs ==
  ASSUME NEW scr, NEW x, NEW y
  PROVE  [Spot(scr, x, y) EXCEPT !.scr = ScrollScreen(@), !.y = @ - 1]
           = Spot(ScrollScreen(scr), x, y - 1)
<1>1. [Spot(scr, x, y) EXCEPT !.scr = ScrollScreen(@), !.y = @ - 1]
        = WithY(WithScreen(Spot(scr, x, y), ScrollScreen(Spot(scr, x, y).scr)),
                Spot(scr, x, y).y - 1)
  BY DEF WithScreen, WithY
<1> QED BY <1>1, Changes, Fields

LEMMA UpdateIs ==
  ASSUME NEW scr, NEW x \in Int, NEW y \in Int
  PROVE  /\ x < Cols /\ y < Rows =>
              UpdateCursor(Spot(scr, x, y)) = Spot(scr, x, y)
         /\ x < Cols /\ y >= Rows =>
              UpdateCursor(Spot(scr, x, y)) = Spot(ScrollScreen(scr), x, y - 1)
         /\ x >= Cols /\ y + 1 < Rows =>
              UpdateCursor(Spot(scr, x, y)) = Spot(scr, 0, y + 1)
         /\ x >= Cols /\ y + 1 >= Rows =>
              UpdateCursor(Spot(scr, x, y)) = Spot(ScrollScreen(scr), 0, y)
<1> DEFINE Lifted(s) == [s EXCEPT !.scr = ScrollScreen(@), !.y = @ - 1]
           Scrolls(s) == IF s.y >= Rows THEN Lifted(s) ELSE s
<1>1. \A a, b, c : Lifted(Spot(a, b, c)) = Spot(ScrollScreen(a), b, c - 1)
  BY ScrollIs
<1>2. UpdateCursor(Spot(scr, x, y)) =
        Scrolls(IF Spot(scr, x, y).x >= Cols THEN Down(Home(Spot(scr, x, y)), 1)
                ELSE Spot(scr, x, y))
  BY DEF UpdateCursor
<1> HIDE DEF Lifted
<1>3. \A a, b, c : Scrolls(Spot(a, b, c)) =
                     IF c >= Rows THEN Spot(ScrollScreen(a), b, c - 1) ELSE Spot(a, b, c)
  BY <1>1, Fields
<1> HIDE DEF Scrolls
<1>4. Down(Home(Spot(scr, x, y)), 1) = Spot(scr, 0, y + 1)
  <2>1. Home(Spot(scr, x, y)) = Spot(scr, 0, y)
    BY HomeIs
  <2>2. Down(Spot(scr, 0, y), 1) = Spot(scr, 0, y + 1)
    BY MovesAre
  <2> QED BY <2>1, <2>2
<1>5. UpdateCursor(Spot(scr, x, y)) =
        IF x >= Cols THEN Scrolls(Spot(scr, 0, y + 1)) ELSE Scrolls(Spot(scr, x, y))
  BY <1>2, <1>4, Fields
<1>6. y + 1 - 1 = y /\ (x < Cols <=> ~(x >= Cols)) /\ (y < Rows <=> ~(y >= Rows))
      /\ (y + 1 < Rows <=> ~(y + 1 >= Rows))
  BY ColsRows
<1> QED BY <1>3, <1>5, <1>6

-----------------------------------------------------------------------------
(* Cells.                                                                  *)
LEMMA ErasedCell ==
  ASSUME NEW scr, NEW x, NEW y, NEW r \in 0 .. Rows - 1, NEW c \in 0 .. Cols - 1
  PROVE  Erased(scr, x, y)[r][c] = IF r = y /\ c = x THEN {} ELSE scr[r][c]
BY DEF Erased

LEMMA ScrolledCells ==
  ASSUME NEW scr, NEW r \in 0 .. Rows - 1, NEW c \in 0 .. Cols - 1
  PROVE  /\ r = Rows - 1 => ScrollScreen(scr)[r][c] = {}
         /\ r # Rows - 1 => ScrollScreen(scr)[r][c] = scr[r + 1][c]
         /\ Blank[r][c] = {}
<1>1. ScrollScreen(scr)[r] = IF r = Rows - 1 THEN BlankRow ELSE scr[r + 1]
  BY DEF ScrollScreen
<1>2. BlankRow[c] = {}
  BY DEF BlankRow
<1> QED BY <1>1, <1>2 DEF Blank

(* Scrolling moves every cell one row up.                                  *)
LEMMA ScrolledAt ==
  ASSUME NEW scr, NEW i \in Nat, i + Cols < Rows * Cols
  PROVE  At(ScrollScreen(scr), i) = At(scr, i + Cols)
<1> DEFINE r == i \div Cols
           c == i % Cols
<1>1. r \in Nat /\ c \in 0 .. Cols - 1 /\ i = r * Cols + c
  BY RowAndColumn
<1> HIDE DEF r, c
<1>2. i + Cols = (r + 1) * Cols + c
  BY <1>1, Multiples, ColsRows
<1>3. (i + Cols) \div Cols = r + 1 /\ (i + Cols) % Cols = c
  BY <1>1, <1>2, OneRowAndColumn
<1>4. r + 1 \in 0 .. Rows - 1
  <2>1. i + Cols \in Nat
    BY ColsRows
  <2> QED BY <1>3, <2>1, RowAndColumn
<1>5. r \in 0 .. Rows - 1 /\ r # Rows - 1
  BY <1>1, <1>4, ColsRows
<1>6. ScrollScreen(scr)[r][c] = scr[r + 1][c]
  BY <1>1, <1>5, ScrolledCells
<1> QED BY <1>3, <1>6 DEF At, r, c

-----------------------------------------------------------------------------
(* The cursor on the screen with nothing drawn at it or behind it.         *)
Fine(s) ==
  s.x \in 0 .. Cols - 1 /\ s.y \in 0 .. Rows - 1 /\ BlankFrom(s.scr, s.x, s.y)

(* s stands on cell i of scr, or of scr scrolled by one row.               *)
Keeps(s, scr, i) ==
  \/ s.scr = scr /\ Index(s.x, s.y) = i
  \/ s.scr = ScrollScreen(scr) /\ s.y = Rows - 1 /\ Index(s.x, s.y) = i - Cols

LEMMA UpdateMoves ==
  ASSUME NEW scr, NEW x \in Nat, NEW y \in Nat,
         y < Rows \/ (y = Rows /\ x < Cols),
         BlankFrom(scr, x, y),
         NEW s, s = UpdateCursor(Spot(scr, x, y))
  PROVE  /\ Fine(s)
         /\ s.x = IF x < Cols THEN x ELSE 0
         /\ x <= Cols => Keeps(s, scr, Index(x, y))
<1>1. CASE x < Cols /\ y < Rows
  <2>1. s.scr = scr /\ s.x = x /\ s.y = y
    BY <1>1, UpdateIs, Fields
  <2>2. x \in 0 .. Cols - 1 /\ y \in 0 .. Rows - 1
    BY <1>1, ColsRows
  <2> QED BY <1>1, <2>1, <2>2 DEF Fine, Keeps
<1>2. CASE x < Cols /\ y = Rows
  <2>1. s = Spot(ScrollScreen(scr), x, y - 1)
    BY <1>2, UpdateIs, ColsRows
  <2>2. s.scr = ScrollScreen(scr) /\ s.x = x /\ s.y = Rows - 1
    BY <1>2, <2>1, Fields
  <2>3. x \in 0 .. Cols - 1 /\ Rows - 1 \in 0 .. Rows - 1
    BY <1>2, ColsRows
  <2>4. BlankFrom(ScrollScreen(scr), x, Rows - 1)
    BY <2>3, ScrolledCells, ColsRows DEF BlankFrom
  <2>5. Index(x, Rows - 1) = Index(x, y) - Cols
    BY <1>2, Multiples, ColsRows DEF Index
  <2> QED BY <1>2, <2>2, <2>3, <2>4, <2>5 DEF Fine, Keeps
<1>3. CASE x >= Cols /\ y + 1 < Rows
  <2>1. s.scr = scr /\ s.x = 0 /\ s.y = y + 1
    BY <1>3, UpdateIs, Fields
  <2>2. 0 \in 0 .. Cols - 1 /\ y + 1 \in 0 .. Rows - 1
    BY <1>3, ColsRows
  <2>3. BlankFrom(scr, 0, y + 1)
    BY <2>2, ColsRows DEF BlankFrom
  <2>4. x <= Cols => Index(0, y + 1) = Index(x, y)
    BY <1>3, Multiples, ColsRows DEF Index
  <2>5. ~(x < Cols)
    BY <1>3, ColsRows
  <2> QED BY <2>1, <2>2, <2>3, <2>4, <2>5 DEF Fine, Keeps
<1>4. CASE x >= Cols /\ y + 1 = Rows
  <2>1. s = Spot(ScrollScreen(scr), 0, y)
    BY <1>4, UpdateIs, ColsRows
  <2>2. s.scr = ScrollScreen(scr) /\ s.x = 0 /\ s.y = Rows - 1
    BY <1>4, <2>1, Fields
  <2>3. 0 \in 0 .. Cols - 1 /\ Rows - 1 \in 0 .. Rows - 1
    BY ColsRows
  <2>4. BlankFrom(ScrollScreen(scr), 0, Rows - 1)
    BY <2>3, ScrolledCells, ColsRows DEF BlankFrom
  <2>5. x <= Cols => Index(0, Rows - 1) = Index(x, y) - Cols
    <3>1. y = Rows - 1
      BY <1>4, ColsRows
    <3> QED BY <1>4, <3>1, Multiples, ColsRows DEF Index
  <2>6. ~(x < Cols)
    BY <1>4, ColsRows
  <2> QED BY <2>2, <2>3, <2>4, <2>5, <2>6 DEF Fine, Keeps
<1> QED BY <1>1, <1>2, <1>3, <1>4, ColsRows

(* What is shown stays shown when the screen scrolls.                      *)
LEMMA ShownScrolled ==
  ASSUME NEW scr, NEW line, Len(line) \in Nat, NEW i \in Nat, NEW j \in Nat,
         i <= Rows * Cols, j = i - Cols, PromptCols + Len(line) <= j,
         Shows(scr, i, line)
  PROVE  Shows(ScrollScreen(scr), j, line)
<1>1. ASSUME NEW d \in Nat, 1 <= d, d <= PromptCols + Len(line)
      PROVE  At(ScrollScreen(scr), j - d) = At(scr, i - d)
  <2>1. j - d \in Nat /\ (j - d) + Cols < Rows * Cols /\ (j - d) + Cols = i - d
    <3>1. Rows * Cols \in Int
      BY ColsRows
    <3> HIDE DEF ConsoleAssumption
    <3> QED BY <1>1, <3>1, ColsRows
  <2> QED BY <2>1, ScrolledAt
<1>2. ASSUME NEW k \in 1 .. Len(line)
      PROVE  At(ScrollScreen(scr), j - (Len(line) - k + 1)) = {line[k]}
  <2>1. Len(line) - k + 1 \in Nat /\ 1 <= Len(line) - k + 1
        /\ Len(line) - k + 1 <= PromptCols + Len(line)
    BY ColsRows
  <2> QED BY <1>1, <2>1 DEF Shows
<1>3. ASSUME NEW k \in 1 .. PromptCols
      PROVE  At(ScrollScreen(scr), j - (Len(line) + k)) = {Prompt}
  <2>1. Len(line) + k \in Nat /\ 1 <= Len(line) + k /\ Len(line) + k <= PromptCols + Len(line)
    BY ColsRows
  <2> QED BY <1>1, <2>1 DEF Shows
<1> QED BY <1>2, <1>3 DEF Shows

(* UpdateCursor keeps what is shown, as long as one line fits above the    *)
(* last row.                                                               *)
LEMMA UpdateShows ==
  ASSUME NEW scr, NEW x \in 0 .. Cols, NEW y \in 0 .. Rows - 1,
         BlankFrom(scr, x, y),
         NEW s, s = UpdateCursor(Spot(scr, x, y)),
         NEW line, Len(line) \in 0 .. MaxLine, Shows(scr, Index(x, y), line)
  PROVE  Shows(s.scr, Index(s.x, s.y), line)
<1> DEFINE i == Index(x, y)
           j == Index(s.x, s.y)
<1>1. /\ Fine(s)
      /\ \/ s.scr = scr /\ j = i
         \/ s.scr = ScrollScreen(scr) /\ s.y = Rows - 1 /\ j = i - Cols
  <2>1. x \in Nat /\ y \in Nat /\ y < Rows /\ x <= Cols
    BY ColsRows
  <2>2. Fine(s)
    BY <2>1, UpdateMoves
  <2>3. Keeps(s, scr, Index(x, y))
    BY <2>1, UpdateMoves
  <2> QED BY <2>2, <2>3 DEF Keeps
<1>2. CASE s.scr = scr /\ j = i
  BY <1>2
<1>3. CASE s.scr = ScrollScreen(scr) /\ s.y = Rows - 1 /\ j = i - Cols
  <2>1. i \in Nat /\ i <= Rows * Cols
    <3>1. y * Cols <= (Rows - 1) * Cols
      BY ColsRows, Multiples
    <3>2. (Rows - 1) * Cols = Rows * Cols - Cols /\ Rows * Cols \in Int /\ y * Cols \in Nat
      BY ColsRows, Multiples
    <3> QED BY <3>1, <3>2, ColsRows DEF Index
  <2>2. j \in Nat /\ PromptCols + Len(line) <= j
    <3>1. (Rows - 1) * Cols \in Nat
      BY ColsRows
    <3> QED BY <1>1, <1>3, <3>1, ColsRows DEF Fine, Index
  <2> QED BY <1>3, <2>1, <2>2, ShownScrolled
<1> QED BY <1>1, <1>2, <1>3

LEMMA Positions ==
  ASSUME NEW x \in 0 .. Cols - 1, NEW y \in 0 .. Rows - 1
  PROVE  /\ Index(x, y) \in Nat /\ Index(x, y) < Rows * Cols
         /\ Rows * Cols \in Nat
         /\ \A n \in Int : Index(x + n, y) = Index(x, y) + n
         /\ Index(0, y) <= Index(x, y) /\ Index(x, y) < Index(0, y + 1)
<1>1. y * Cols \in Nat /\ Rows * Cols \in Nat
  BY ColsRows
<1>2. (y + 1) * Cols <= Rows * Cols /\ (y + 1) * Cols = y * Cols + Cols
  BY ColsRows, Multiples
<1> QED BY <1>1, <1>2, ColsRows DEF Index

LEMMA BlankAt ==
  ASSUME NEW scr, NEW x \in 0 .. Cols - 1, NEW y \in 0 .. Rows - 1, BlankFrom(scr, x, y),
         NEW i \in Nat, Index(x, y) <= i, i < Rows * Cols
  PROVE  At(scr, i) = {}
<1> DEFINE r == i \div Cols
           c == i % Cols
<1>1. r \in 0 .. Rows - 1 /\ c \in 0 .. Cols - 1 /\ i = r * Cols + c
  BY RowAndColumn
<1> HIDE DEF r, c
<1>2. r > y \/ (r = y /\ c >= x)
  <2>1. r < y => (r + 1) * Cols <= y * Cols
    BY <1>1, Multiples
  <2>2. r * Cols \in Int /\ y * Cols \in Int /\ (r + 1) * Cols = r * Cols + Cols
    BY <1>1, Multiples
  <2>3. ~(r < y)
    BY <1>1, <2>1, <2>2, ColsRows DEF Index
  <2>4. r = y => c >= x
    BY <1>1, <2>2, ColsRows DEF Index
  <2> QED BY <1>1, <2>3, <2>4
<1>3. scr[r][c] = {}
  BY <1>1, <1>2 DEF BlankFrom
<1> QED BY <1>3 DEF At, r, c

LEMMA UpdateIsSpot ==
  ASSUME NEW scr, NEW x \in Int, NEW y \in Int, NEW s, s = UpdateCursor(Spot(scr, x, y))
  PROVE  s = Spot(s.scr, s.x, s.y)
<1>1. \/ s = Spot(scr, x, y)
      \/ s = Spot(ScrollScreen(scr), x, y - 1)
      \/ s = Spot(scr, 0, y + 1)
      \/ s = Spot(ScrollScreen(scr), 0, y)
  <2>1. (x < Cols \/ x >= Cols) /\ (y < Rows \/ y >= Rows) /\ (y + 1 < Rows \/ y + 1 >= Rows)
    BY ColsRows
  <2> QED BY <2>1, UpdateIs
<1>2. \A a, b, c : s = Spot(a, b, c) => s = Spot(s.scr, s.x, s.y)
  BY Fields
<1> QED BY <1>1, <1>2

LEMMA DrawnBefore ==
  ASSUME NEW scr, NEW x \in 0 .. Cols - 1, NEW y \in 0 .. Rows - 1, NEW n \in Nat, NEW glyph,
         NEW i \in Nat, i < Index(x, y)
  PROVE  At(Drawn(scr, x, y, n, glyph), i) = At(scr, i)
<1> DEFINE r == i \div Cols
           c == i % Cols
<1>1. i < Rows * Cols
  BY Positions
<1>2. r \in 0 .. Rows - 1 /\ c \in 0 .. Cols - 1 /\ i = r * Cols + c
  BY <1>1, RowAndColumn
<1> HIDE DEF r, c
<1>3. Drawn(scr, x, y, n, glyph)[r][c] =
        IF InRun(r, c, x, y, n) THEN scr[r][c] \cup {glyph} ELSE scr[r][c]
  BY <1>2 DEF Drawn
<1>4. ~InRun(r, c, x, y, n)
  BY <1>2, ColsRows, Multiples DEF Index, InRun
<1> QED BY <1>3, <1>4 DEF At, r, c

LEMMA DrawnIn ==
  ASSUME NEW scr, NEW x \in 0 .. Cols - 1, NEW y \in 0 .. Rows - 1, NEW n \in Nat, NEW glyph,
         x + n <= Cols, NEW i \in Nat, Index(x, y) <= i, i < Index(x, y) + n
  PROVE  At(Drawn(scr, x, y, n, glyph), i) = At(scr, i) \cup {glyph}
<1> DEFINE r == i \div Cols
           c == i % Cols
<1>1. y * Cols \in Int /\ (y + 1) * Cols = y * Cols + Cols /\ (y + 1) * Cols <= Rows * Cols
      /\ Rows * Cols \in Int
  BY Multiples, ColsRows
<1>2. i < Rows * Cols
  BY <1>1, ColsRows DEF Index
<1>3. r \in 0 .. Rows - 1 /\ c \in 0 .. Cols - 1 /\ i = r * Cols + c
  BY <1>2, RowAndColumn
<1> HIDE DEF r, c
<1>4. Drawn(scr, x, y, n, glyph)[r][c] =
        IF InRun(r, c, x, y, n) THEN scr[r][c] \cup {glyph} ELSE scr[r][c]
  BY <1>3 DEF Drawn
<1>5. r = y
  <2>1. r < y => (r + 1) * Cols <= y * Cols
    BY <1>3, Multiples
  <2>2. y < r => (y + 1) * Cols <= r * Cols
    BY <1>3, Multiples
  <2>3. r * Cols \in Int /\ (r + 1) * Cols = r * Cols + Cols
    BY <1>3, Multiples
  <2> QED BY <1>1, <1>3, <2>1, <2>2, <2>3, ColsRows DEF Index
<1>6. InRun(r, c, x, y, n)
  BY <1>1, <1>3, <1>5, ColsRows DEF Index, InRun
<1> QED BY <1>4, <1>6 DEF At, r, c

LEMMA ErasedAt ==
  ASSUME NEW scr, NEW x \in 0 .. Cols - 1, NEW y \in 0 .. Rows - 1,
         NEW i \in Nat, i < Index(x, y)
  PROVE  At(Erased(scr, x, y), i) = At(scr, i)
<1> DEFINE r == i \div Cols
           c == i % Cols
<1>1. /\ r \in Nat /\ c \in 0 .. Cols - 1 /\ i = r * Cols + c
      /\ i < Rows * Cols => r \in 0 .. Rows - 1
  BY RowAndColumn
<1> HIDE DEF r, c
<1>2. r * Cols \in Int /\ y * Cols \in Int /\ Rows * Cols \in Int
      /\ (Rows - 1) * Cols = Rows * Cols - Cols /\ y * Cols <= (Rows - 1) * Cols
  BY <1>1, Multiples, ColsRows
<1>3. i < Rows * Cols
  BY <1>2, ColsRows DEF Index
<1>4. ~(r = y /\ c = x)
  BY <1>1, <1>2, ColsRows DEF Index
<1>5. Erased(scr, x, y)[r][c] = scr[r][c]
  BY <1>1, <1>3, <1>4, ErasedCell
<1> QED BY <1>5 DEF At, r, c

LEMMA BlankAfter ==
  ASSUME NEW scr, NEW x \in Int, NEW y \in Int, BlankFrom(scr, x, y)
  PROVE  /\ \A n \in Nat : \A glyph : BlankFrom(Drawn(scr, x, y, n, glyph), x + n, y)
         /\ \A m \in Int : BlankFrom(scr, m, y + 1)
         /\ \A n \in Nat : BlankFrom(scr, x + n, y)
         /\ BlankFrom(Erased(scr, x - 1, y), x - 1, y)
<1>1. ASSUME NEW n \in Nat, NEW glyph
      PROVE  BlankFrom(Drawn(scr, x, y, n, glyph), x + n, y)
  <2> SUFFICES ASSUME NEW r \in 0 .. Rows - 1, NEW c \in 0 .. Cols - 1,
                      r > y \/ (r = y /\ c >= x + n)
               PROVE  Drawn(scr, x, y, n, glyph)[r][c] = {}
    BY DEF BlankFrom
  <2>1. ~InRun(r, c, x, y, n)
    BY ColsRows DEF InRun
  <2>2. r > y \/ (r = y /\ c >= x)
    BY ColsRows
  <2>3. scr[r][c] = {}
    BY <2>2 DEF BlankFrom
  <2> QED BY <2>1, <2>3 DEF Drawn
<1>2. ASSUME NEW m \in Int PROVE BlankFrom(scr, m, y + 1)
  BY ColsRows DEF BlankFrom
<1>3. ASSUME NEW n \in Nat PROVE BlankFrom(scr, x + n, y)
  BY ColsRows DEF BlankFrom
<1>4. BlankFrom(Erased(scr, x - 1, y), x - 1, y)
  <2> SUFFICES ASSUME NEW r \in 0 .. Rows - 1, NEW c \in 0 .. Cols - 1,
                      r > y \/ (r = y /\ c >= x - 1)
               PROVE  Erased(scr, x - 1, y)[r][c] = {}
    BY DEF BlankFrom
  <2>1. Erased(scr, x - 1, y)[r][c] = IF r = y /\ c = x - 1 THEN {} ELSE scr[r][c]
    BY ErasedCell
  <2>2. ~(r = y /\ c = x - 1) => r > y \/ (r = y /\ c >= x)
    BY ColsRows
  <2>3. ~(r = y /\ c = x - 1) => scr[r][c] = {}
    BY <2>2 DEF BlankFrom
  <2> QED BY <2>1, <2>3
<1> QED BY <1>1, <1>2, <1>3, <1>4

(* Scrolling never leaves the line above the first row.                    *)
LEMMA CursorFits ==
  ASSUME NEW s, Fine(s), NEW scr, NEW i \in Nat, Keeps(s, scr, i),
         NEW n \in Nat, n <= i, n <= PromptCols + MaxLine
  PROVE  n <= Index(s.x, s.y)
<1>1. CASE Index(s.x, s.y) = i
  BY <1>1
<1>2. CASE s.y = Rows - 1
  <2>1. Index(s.x, s.y) = (Rows - 1) * Cols + s.x
    BY <1>2 DEF Index
  <2>2. s.x \in Nat
    BY ColsRows DEF Fine
  <2>3. (Rows - 1) * Cols \in Nat /\ n <= (Rows - 1) * Cols
    BY ColsRows
  <2> QED BY <2>1, <2>2, <2>3
<1> QED BY <1>1, <1>2 DEF Keeps

-----------------------------------------------------------------------------
(* Statements from a fine position.                                        *)
Echoed(scr, x, y, c) == UpdateCursor(Right(Draw(Spot(scr, x, y), 1, c), 1))

LEMMA EchoMoves ==
  ASSUME NEW scr, NEW x \in 0 .. Cols - 1, NEW y \in 0 .. Rows - 1, BlankFrom(scr, x, y),
         NEW c, NEW s, s = Echoed(scr, x, y, c)
  PROVE  Fine(s) /\ Keeps(s, Drawn(scr, x, y, 1, c), Index(x, y) + 1)
<1> DEFINE drawn == Drawn(scr, x, y, 1, c)
<1>1. s = UpdateCursor(Spot(drawn, x + 1, y))
  BY DrawIs, MovesAre DEF Echoed
<1>2. BlankFrom(drawn, x + 1, y)
  BY BlankAfter
<1> HIDE DEF drawn
<1>3. x + 1 \in Nat /\ y \in Nat /\ y < Rows /\ x + 1 <= Cols
  BY ColsRows
<1>4. Fine(s) /\ Keeps(s, drawn, Index(x + 1, y))
  BY <1>1, <1>2, <1>3, UpdateMoves
<1>5. Index(x + 1, y) = Index(x, y) + 1
  BY Positions
<1> QED BY <1>4, <1>5 DEF drawn

(* A character typed at the end of the line shows up behind it.            *)
LEMMA EchoShows ==
  ASSUME NEW scr, NEW x \in 0 .. Cols - 1, NEW y \in 0 .. Rows - 1, BlankFrom(scr, x, y),
         NEW c \in Chars, NEW s, s = Echoed(scr, x, y, c),
         NEW line \in Seq(Chars), Len(line) < MaxLine, Shows(scr, Index(x, y), line)
  PROVE  Shows(s.scr, Index(s.x, s.y), Append(line, c))
<1> DEFINE drawn == Drawn(scr, x, y, 1, c)
           longer == Append(line, c)
           i == Index(x, y)
<1>1. s = UpdateCursor(Spot(drawn, x + 1, y))
  BY DrawIs, MovesAre DEF Echoed
<1>2. BlankFrom(drawn, x + 1, y)
  BY BlankAfter
<1>3. Index(x + 1, y) = i + 1 /\ i \in Nat /\ i < Rows * Cols /\ Rows * Cols \in Nat
  BY Positions
<1>4. /\ Len(line) \in Nat /\ Len(longer) = Len(line) + 1
      /\ longer[Len(line) + 1] = c
      /\ \A k \in 1 .. Len(line) : longer[k] = line[k]
  OBVIOUS
<1>5. At(drawn, i) = {c}
  <2>1. At(scr, i) = {}
    BY <1>3, BlankAt
  <2>2. At(drawn, i) = At(scr, i) \cup {c}
    <3>1. Index(x, y) <= i /\ i < Index(x, y) + 1
      BY <1>3
    <3>2. x + 1 <= Cols /\ 1 \in Nat
      BY ColsRows
    <3> QED BY <1>3, <3>1, <3>2, DrawnIn
  <2> QED BY <2>1, <2>2
<1>6. ASSUME NEW d \in Nat, d < i PROVE At(drawn, d) = At(scr, d)
  BY <1>6, DrawnBefore
<1> HIDE DEF drawn, longer, i
<1>7. Shows(drawn, i + 1, longer)
  <2>1. PromptCols + Len(longer) <= i + 1
    BY <1>3, <1>4, ColsRows DEF Shows, i
  <2>2. ASSUME NEW k \in 1 .. Len(longer)
        PROVE  At(drawn, (i + 1) - (Len(longer) - k + 1)) = {longer[k]}
    <3>1. CASE k = Len(line) + 1
      <4>1. (i + 1) - (Len(longer) - k + 1) = i
        BY <1>3, <1>4, <3>1
      <4> QED BY <1>4, <1>5, <3>1, <4>1
    <3>2. CASE k \in 1 .. Len(line)
      <4>1. /\ (i + 1) - (Len(longer) - k + 1) = i - (Len(line) - k + 1)
            /\ i - (Len(line) - k + 1) \in Nat /\ i - (Len(line) - k + 1) < i
        BY <1>3, <1>4, <3>2, ColsRows DEF Shows, i
      <4>2. At(scr, i - (Len(line) - k + 1)) = {line[k]}
        BY <3>2 DEF Shows, i
      <4> QED BY <1>4, <1>6, <3>2, <4>1, <4>2
    <3> QED BY <1>4, <3>1, <3>2
  <2>3. ASSUME NEW k \in 1 .. PromptCols
        PROVE  At(drawn, (i + 1) - (Len(longer) + k)) = {Prompt}
    <3>1. /\ (i + 1) - (Len(longer) + k) = i - (Len(line) + k)
          /\ i - (Len(line) + k) \in Nat /\ i - (Len(line) + k) < i
      BY <1>3, <1>4, ColsRows DEF Shows, i
    <3>2. At(scr, i - (Len(line) + k)) = {Prompt}
      BY DEF Shows, i
    <3> QED BY <1>6, <3>1, <3>2
  <2> QED BY <2>1, <2>2, <2>3, Zenon DEF Shows
<1>8. x + 1 \in 0 .. Cols /\ Len(longer) \in 0 .. MaxLine /\ Shows(drawn, Index(x + 1, y), longer)
  BY <1>3, <1>4, <1>7, ColsRows
<1> QED BY <1>1, <1>2, <1>8, UpdateShows DEF longer

(* A row below, at the margin or not.                                      *)
LEMMA NewLineMoves ==
  ASSUME NEW scr, NEW x \in 0 .. Cols - 1, NEW y \in 0 .. Rows - 1,
         BlankFrom(scr, x + Cols, y),
         NEW s, s = NewLine(Spot(scr, x, y))
  PROVE  Fine(s) /\ s.x = x /\ Keeps(s, scr, Index(x, y + 1))
<1>1. s = UpdateCursor(Spot(scr, x, y + 1))
  BY MovesAre DEF NewLine
<1>2. BlankFrom(scr, x, y + 1)
  BY BlankAfter, ColsRows
<1>3. x \in Nat /\ y + 1 \in Nat /\ (y + 1 < Rows \/ (y + 1 = Rows /\ x < Cols))
      /\ x < Cols /\ x <= Cols
  BY ColsRows
<1> QED BY <1>1, <1>2, <1>3, UpdateMoves

LEMMA PromptMoves ==
  ASSUME NEW scr, NEW y \in 0 .. Rows - 1, BlankFrom(scr, 0, y),
         NEW s, s = PrintPrompt(Spot(scr, 0, y))
  PROVE  Fine(s) /\ Shows(s.scr, Index(s.x, s.y), <<>>)
<1> DEFINE drawn == Drawn(scr, 0, y, PromptCols, Prompt)
           i == Index(0, y)
<1>1. s.scr = drawn /\ s.x = PromptCols /\ s.y = y
  <2>1. s = Spot(drawn, 0 + PromptCols, y)
    BY DrawIs, MovesAre DEF PrintPrompt
  <2>2. 0 + PromptCols = PromptCols
    BY ColsRows
  <2> QED BY <2>1, <2>2, Fields
<1>2. BlankFrom(drawn, PromptCols, y)
  <2>1. BlankFrom(drawn, 0 + PromptCols, y)
    BY BlankAfter, ColsRows
  <2>2. 0 + PromptCols = PromptCols
    BY ColsRows
  <2> QED BY <2>1, <2>2
<1>3. Index(PromptCols, y) = i + PromptCols /\ i \in Nat /\ i + PromptCols < Rows * Cols
      /\ Rows * Cols \in Nat
  <2>1. Index(0 + PromptCols, y) = Index(0, y) + PromptCols /\ 0 + PromptCols = PromptCols
    BY Positions, ColsRows
  <2>2. Index(PromptCols, y) < Rows * Cols /\ i \in Nat /\ Rows * Cols \in Nat
    BY Positions, ColsRows
  <2> QED BY <2>1, <2>2
<1>4. ASSUME NEW k \in 1 .. PromptCols
      PROVE  At(drawn, i + PromptCols - (0 + k)) = {Prompt}
  <2> DEFINE d == i + PromptCols - (0 + k)
  <2>1. d \in Nat /\ d < Rows * Cols /\ i <= d /\ d < i + PromptCols
    BY <1>3, ColsRows
  <2> HIDE DEF d
  <2>2. 0 \in 0 .. Cols - 1 /\ 0 + PromptCols <= Cols
    BY ColsRows
  <2>3. At(drawn, d) = At(scr, d) \cup {Prompt}
    BY <2>1, <2>2, DrawnIn, ColsRows
  <2>4. At(scr, d) = {}
    BY <2>1, <2>2, BlankAt
  <2> QED BY <2>3, <2>4 DEF d
<1> HIDE DEF drawn, i
<1>5. Shows(drawn, i + PromptCols, <<>>)
  <2>1. Len(<<>>) = 0
    OBVIOUS
  <2>2. PromptCols + 0 <= i + PromptCols
    BY <1>3, ColsRows
  <2> QED BY <1>3, <1>4, <2>1, <2>2, ColsRows DEF Shows
<1>6. PromptCols \in 0 .. Cols - 1
  BY ColsRows
<1> QED BY <1>1, <1>2, <1>3, <1>5, <1>6 DEF Fine

LEMMA FieldMoves ==
  ASSUME NEW scr, NEW x \in 0 .. Cols - 1, NEW y \in 0 .. Rows - 1, BlankFrom(scr, x, y),
         NEW s, s = UpdateCursor(Right(Draw(Spot(scr, x, y), FieldCols, Text), FieldCols))
  PROVE  Fine(s)
<1> DEFINE drawn == Drawn(scr, x, y, FieldCols, Text)
<1>1. s = UpdateCursor(Spot(drawn, x + FieldCols, y))
  BY DrawIs, MovesAre
<1>2. BlankFrom(drawn, x + FieldCols, y)
  BY BlankAfter, ColsRows
<1> HIDE DEF drawn
<1>3. x + FieldCols \in Nat /\ y \in Nat /\ y < Rows
  BY ColsRows
<1> QED BY <1>1, <1>2, <1>3, UpdateMoves

(* Backspace one cell back, at the margin into the row above.              *)
LEMMA BackspaceMoves ==
  ASSUME NEW scr, NEW x \in 0 .. Cols - 1, NEW y \in 0 .. Rows - 1, BlankFrom(scr, x, y),
         1 <= Index(x, y), NEW left, left = Right(Spot(scr, x, y), -1),
         NEW s, s = EraseCharBlock(IF left.x < 0 THEN RowAbove(left) ELSE left)
  PROVE  Fine(s) /\ s.scr = Erased(scr, s.x, s.y) /\ Index(s.x, s.y) = Index(x, y) - 1
<1>1. left = Spot(scr, x - 1, y)
  <2>1. left = Spot(scr, x + -1, y)
    BY MovesAre
  <2>2. x + -1 = x - 1
    OBVIOUS
  <2> QED BY <2>1, <2>2
<1>2. left.x = x - 1
  BY <1>1, Fields
<1>3. CASE x = 0
  <2>1. RowAbove(left) = Spot(scr, Cols - 1, y - 1)
    BY <1>1, RowAboveIs
  <2>2. x - 1 < 0
    BY <1>3
  <2>3. s = EraseCharBlock(Spot(scr, Cols - 1, y - 1))
    BY <1>2, <2>1, <2>2
  <2>4. s.scr = Erased(scr, Cols - 1, y - 1) /\ s.x = Cols - 1 /\ s.y = y - 1
    BY <2>3, EraseIs, Fields
  <2>5. Cols - 1 \in 0 .. Cols - 1 /\ y - 1 \in 0 .. Rows - 1
        /\ Index(Cols - 1, y - 1) = Index(x, y) - 1
    <3>1. y # 0
      BY <1>3, ColsRows DEF Index
    <3>2. (y - 1) * Cols = y * Cols - Cols /\ y * Cols \in Int
      BY Multiples
    <3> QED BY <1>3, <3>1, <3>2, ColsRows DEF Index
  <2>6. BlankFrom(scr, Cols, y - 1)
    BY <1>3, ColsRows DEF BlankFrom
  <2>7. BlankFrom(Erased(scr, Cols - 1, y - 1), Cols - 1, y - 1)
    BY <2>6, BlankAfter, ColsRows
  <2> QED BY <2>4, <2>5, <2>7 DEF Fine
<1>4. CASE x # 0
  <2>1. ~(x - 1 < 0) /\ x - 1 \in 0 .. Cols - 1 /\ y \in 0 .. Rows - 1
    BY <1>4, ColsRows
  <2>2. s = EraseCharBlock(Spot(scr, x - 1, y))
    BY <1>1, <1>2, <2>1
  <2>3. s.scr = Erased(scr, x - 1, y) /\ s.x = x - 1 /\ s.y = y
    BY <2>2, EraseIs, Fields
  <2>4. Index(x - 1, y) = Index(x, y) - 1
    BY Multiples, ColsRows DEF Index
  <2>5. BlankFrom(Erased(scr, x - 1, y), x - 1, y)
    BY BlankAfter
  <2> QED BY <2>1, <2>3, <2>4, <2>5 DEF Fine
<1> QED BY <1>3, <1>4

LEMMA BackspaceShows ==
  ASSUME NEW scr, NEW x \in 0 .. Cols - 1, NEW y \in 0 .. Rows - 1,
         NEW i \in Nat, i = Index(x, y) + 1,
         NEW line \in Seq(Chars), line # <<>>, Shows(scr, i, line)
  PROVE  Shows(Erased(scr, x, y), Index(x, y), SubSeq(line, 1, Len(line) - 1))
<1> DEFINE j == Index(x, y)
           shorter == SubSeq(line, 1, Len(line) - 1)
           erased == Erased(scr, x, y)
<1>1. /\ Len(line) \in Nat \ {0} /\ Len(shorter) = Len(line) - 1
      /\ \A k \in 1 .. Len(line) - 1 : shorter[k] = line[k]
  <2> DEFINE n == Len(line) - 1
  <2>1. Len(line) \in Nat \ {0}
    OBVIOUS
  <2>2. n \in Nat /\ n <= Len(line)
    BY <2>1
  <2> HIDE DEF n
  <2>3. Len(SubSeq(line, 1, n)) = n /\ \A k \in 1 .. n : SubSeq(line, 1, n)[k] = line[k]
    BY <2>2
  <2> QED BY <2>1, <2>3 DEF n
<1>2. j \in Nat /\ i = j + 1 /\ PromptCols + Len(line) <= i /\ PromptCols \in Nat
  BY Positions, ColsRows DEF Shows
<1>3. ASSUME NEW d \in Nat, d < j PROVE At(erased, d) = At(scr, d)
  BY <1>3, ErasedAt
<1> HIDE DEF j, shorter, erased
<1>4. PromptCols + Len(shorter) <= j
  BY <1>1, <1>2
<1>5. ASSUME NEW k \in 1 .. Len(shorter)
      PROVE  At(erased, j - (Len(shorter) - k + 1)) = {shorter[k]}
  <2>1. /\ j - (Len(shorter) - k + 1) = i - (Len(line) - k + 1)
        /\ i - (Len(line) - k + 1) \in Nat /\ i - (Len(line) - k + 1) < j
        /\ k \in 1 .. Len(line) /\ k \in 1 .. Len(line) - 1
    <3>1. Len(line) \in Nat /\ Len(shorter) = Len(line) - 1
      BY <1>1
    <3>2. k \in 1 .. Len(line) - 1
      BY <3>1
    <3> QED BY <1>2, <3>1, <3>2
  <2>2. At(scr, i - (Len(line) - k + 1)) = {line[k]}
    BY <2>1 DEF Shows
  <2> QED BY <1>1, <1>3, <2>1, <2>2
<1>6. ASSUME NEW k \in 1 .. PromptCols
      PROVE  At(erased, j - (Len(shorter) + k)) = {Prompt}
  <2>1. /\ j - (Len(shorter) + k) = i - (Len(line) + k)
        /\ i - (Len(line) + k) \in Nat /\ i - (Len(line) + k) < j
    <3>1. Len(line) \in Nat /\ Len(line) >= 1 /\ Len(shorter) = Len(line) - 1
      BY <1>1
    <3>2. k \in Nat /\ 1 <= k /\ k <= PromptCols
      BY <1>2
    <3> QED BY <1>2, <3>1, <3>2
  <2>2. At(scr, i - (Len(line) + k)) = {Prompt}
    BY DEF Shows
  <2> QED BY <1>3, <2>1, <2>2
<1>7. Shows(erased, j, shorter)
  BY <1>4, <1>5, <1>6, Zenon DEF Shows
<1> QED BY <1>7 DEF j, shorter, erased

-----------------------------------------------------------------------------
(* Statement lists.                                                        *)
LEMMA OpFacts ==
  ASSUME NEW op \in Statements
  PROVE  /\ op.do \in {"line", "field", "return", "clear", "finish", "copy", "echo"}
         /\ op.do = "copy" => op.text \in Clips
         /\ op.do = "echo" => op.char \in Chars
<1>1. CASE op \in {Line, Field, Return, Clear, Finish}
  BY <1>1 DEF Line, Field, Return, Clear, Finish
<1>2. CASE op \in {Copy(t) : t \in Clips}
  <2>1. PICK t \in Clips : op = Copy(t)
    BY <1>2
  <2>2. op.do = "copy" /\ op.text = t
    BY <2>1 DEF Copy
  <2> QED BY <2>2
<1>3. CASE op \in {Echo(c) : c \in Chars}
  <2>1. PICK c \in Chars : op = Echo(c)
    BY <1>3
  <2>2. op.do = "echo" /\ op.char = c
    BY <2>1 DEF Echo
  <2> QED BY <2>2
<1> QED BY <1>1, <1>2, <1>3 DEF Statements

LEMMA OpKinds ==
  /\ Line.do = "line" /\ Field.do = "field" /\ Return.do = "return" /\ Clear.do = "clear"
  /\ Finish.do = "finish"
  /\ \A t : Copy(t).do = "copy" /\ Copy(t).text = t
  /\ \A c : Echo(c).do = "echo" /\ Echo(c).char = c
BY DEF Line, Field, Return, Clear, Finish, Copy, Echo

LEMMA Rest ==
  ASSUME NEW ops \in Seq(Statements), ops # <<>>
  PROVE  /\ Len(ops) \in Nat /\ Len(ops) >= 1
         /\ Head(ops) = ops[1] /\ Head(ops) \in Statements
         /\ Tail(ops) \in Seq(Statements) /\ Len(Tail(ops)) = Len(ops) - 1
         /\ \A j \in 1 .. Len(ops) - 1 : Tail(ops)[j] = ops[j + 1]
         /\ Len(ops) = 1 => Tail(ops) = <<>>
<1>1. Len(ops) \in Nat /\ Len(ops) >= 1
  OBVIOUS
<1>2. Head(ops) = ops[1] /\ Head(ops) \in Statements
  OBVIOUS
<1>3. Tail(ops) \in Seq(Statements) /\ Len(Tail(ops)) = Len(ops) - 1
  OBVIOUS
<1>4. \A j \in 1 .. Len(ops) - 1 : Tail(ops)[j] = ops[j + 1]
  BY <1>1, <1>3
<1>5. Len(ops) = 1 => Tail(ops) = <<>>
  <2>1. \A t \in Seq(Statements) : Len(t) = 0 => t = <<>>
    OBVIOUS
  <2>2. Len(ops) = 1 => Len(Tail(ops)) = 0
    BY <1>3
  <2> QED BY <1>3, <2>1, <2>2
<1> QED BY <1>1, <1>2, <1>3, <1>4, <1>5

LEMMA RestInOrder ==
  ASSUME NEW ops, WellFormed(ops), ops # <<>>
  PROVE  /\ WellFormed(Tail(ops))
         /\ WillFinish(Tail(ops)) <=> WillFinish(ops) /\ Head(ops).do # "finish"
         /\ WillReturn(ops, 1) /\ Head(ops).do # "return" => WillReturn(Tail(ops), 1)
         /\ Head(ops).do = "field" => WillReturn(Tail(ops), 1)
         /\ Head(ops).do = "finish" => Tail(ops) = <<>> /\ ~WillReturn(ops, 1)
         /\ OnlyEchoes(ops) => OnlyEchoes(Tail(ops)) /\ Head(ops).do = "echo"
         /\ ~WillFinish(ops) => Head(ops).do \in {"line", "echo"}
         /\ Head(ops).do = "echo" => ~WillFinish(ops)
<1> DEFINE n == Len(ops)
           t == Tail(ops)
<1>1. /\ n \in Nat /\ n >= 1
      /\ Head(ops) = ops[1]
      /\ t \in Seq(Statements) /\ Len(t) = n - 1
      /\ \A j \in 1 .. n - 1 : t[j] = ops[j + 1]
      /\ n = 1 => t = <<>>
  BY Rest DEF WellFormed
<1> HIDE DEF n, t
<1>2. \A j \in 1 .. n : /\ ops[j].do = "finish" => j = n
                        /\ ops[j].do = "field" => WillReturn(ops, j + 1)
                        /\ ops[j].do = "echo" => ~WillFinish(ops)
  BY DEF WellFormed, n
<1>3. \A i \in 1 .. n : WillReturn(ops, i + 1) <=> WillReturn(t, i)
  <2> SUFFICES ASSUME NEW i \in 1 .. n PROVE WillReturn(ops, i + 1) <=> WillReturn(t, i)
    OBVIOUS
  <2>1. ASSUME WillReturn(ops, i + 1) PROVE WillReturn(t, i)
    <3>1. PICK j \in i + 1 .. n : ops[j].do = "return"
      BY <2>1 DEF WillReturn, n
    <3>2. j - 1 \in i .. n - 1 /\ j - 1 \in 1 .. n - 1 /\ (j - 1) + 1 = j
      BY <1>1
    <3> QED BY <1>1, <3>1, <3>2 DEF WillReturn
  <2>2. ASSUME WillReturn(t, i) PROVE WillReturn(ops, i + 1)
    <3>1. PICK j \in i .. n - 1 : t[j].do = "return"
      BY <1>1, <2>2 DEF WillReturn
    <3>2. j + 1 \in i + 1 .. n /\ j \in 1 .. n - 1
      BY <1>1
    <3> QED BY <1>1, <3>1, <3>2 DEF WillReturn, n
  <2> QED BY <2>1, <2>2
<1>4. WillReturn(ops, 1) <=> ops[1].do = "return" \/ WillReturn(ops, 2)
  <2>1. \A j \in 1 .. n : j = 1 \/ j \in 2 .. n
    BY <1>1
  <2>2. 1 \in 1 .. n /\ \A j \in 2 .. n : j \in 1 .. n
    BY <1>1
  <2> QED BY <2>1, <2>2 DEF WillReturn, n
<1>5. WillReturn(ops, 2) <=> WillReturn(t, 1)
  BY <1>1, <1>3
<1>6. Head(ops).do = "finish" => n = 1
  BY <1>1, <1>2
<1>7. WillFinish(t) <=> WillFinish(ops) /\ Head(ops).do # "finish"
  <2>1. ASSUME WillFinish(t) PROVE WillFinish(ops) /\ Head(ops).do # "finish"
    <3>1. PICK j \in 1 .. n - 1 : t[j].do = "finish"
      BY <1>1, <2>1 DEF WillFinish
    <3>2. j + 1 \in 1 .. n /\ ops[j + 1].do = "finish" /\ n # 1
      BY <1>1, <3>1
    <3> QED BY <1>6, <3>2 DEF WillFinish, n
  <2>2. ASSUME WillFinish(ops), Head(ops).do # "finish" PROVE WillFinish(t)
    <3>1. PICK j \in 1 .. n : ops[j].do = "finish"
      BY <2>2 DEF WillFinish, n
    <3>2. j # 1
      BY <1>1, <2>2, <3>1
    <3>3. j - 1 \in 1 .. n - 1 /\ (j - 1) + 1 = j
      BY <1>1, <3>2
    <3> QED BY <1>1, <3>1, <3>3 DEF WillFinish
  <2> QED BY <2>1, <2>2
<1>8. ~WillFinish(ops) => \A j \in 1 .. n : ops[j].do \in {"line", "echo"}
  BY DEF WellFormed, n
<1>9. WellFormed(t)
  <2>1. ASSUME NEW j \in 1 .. n - 1
        PROVE  /\ t[j].do = "finish" => j = n - 1
               /\ t[j].do = "field" => WillReturn(t, j + 1)
               /\ t[j].do = "echo" => ~WillFinish(t)
    <3>1. j + 1 \in 1 .. n /\ t[j] = ops[j + 1] /\ (j + 1 = n => j = n - 1)
      BY <1>1
    <3>2. t[j].do = "finish" => j + 1 = n
      BY <1>2, <3>1
    <3>3. t[j].do = "field" => WillReturn(ops, (j + 1) + 1)
      BY <1>2, <3>1
    <3>4. t[j].do = "echo" => ~WillFinish(t)
      BY <1>2, <1>7, <3>1
    <3> QED BY <1>3, <3>1, <3>2, <3>3, <3>4
  <2>2. WillFinish(t) \/ \A j \in 1 .. n - 1 : t[j].do \in {"line", "echo"}
    <3>1. CASE WillFinish(ops) /\ Head(ops).do # "finish"
      BY <1>7, <3>1
    <3>2. CASE Head(ops).do = "finish"
      <4>1. \A j \in 1 .. n - 1 : FALSE
        BY <1>1, <1>6, <3>2
      <4> QED BY <4>1
    <3>3. CASE ~WillFinish(ops)
      <4>1. \A j \in 1 .. n - 1 : j + 1 \in 1 .. n
        BY <1>1
      <4> QED BY <1>1, <1>8, <3>3, <4>1
    <3> QED BY <3>1, <3>2, <3>3
  <2> QED BY <1>1, <2>1, <2>2 DEF WellFormed
<1>10. Head(ops).do = "field" => WillReturn(t, 1)
  BY <1>1, <1>2, <1>5
<1>11. Head(ops).do = "finish" => t = <<>> /\ ~WillReturn(ops, 1)
  <2>1. n = 1 => ~WillReturn(ops, 2)
    BY DEF WillReturn, n
  <2>2. Head(ops).do = "finish" => ops[1].do # "return"
    BY <1>1
  <2> QED BY <1>1, <1>4, <1>6, <2>1, <2>2
<1>12. OnlyEchoes(ops) => OnlyEchoes(t) /\ Head(ops).do = "echo"
  <2>1. \A j \in 1 .. n - 1 : j + 1 \in 1 .. n
    BY <1>1
  <2>2. 1 \in 1 .. n
    BY <1>1
  <2> QED BY <1>1, <2>1, <2>2 DEF OnlyEchoes, n
<1>13. ~WillFinish(ops) => Head(ops).do \in {"line", "echo"}
  <2>1. 1 \in 1 .. n
    BY <1>1
  <2> QED BY <1>1, <1>8, <2>1
<1>14. WillReturn(ops, 1) /\ Head(ops).do # "return" => WillReturn(t, 1)
  BY <1>1, <1>4, <1>5
<1>15. Head(ops).do = "echo" => ~WillFinish(ops)
  <2>1. 1 \in 1 .. n
    BY <1>1
  <2> QED BY <1>1, <1>2, <2>1
<1> QED BY <1>7, <1>9, <1>10, <1>11, <1>12, <1>13, <1>14, <1>15 DEF t

(* What stands before the tail of a command.                               *)
Body(ops) ==
  /\ ops \in Seq(Statements)
  /\ \A j \in 1 .. Len(ops) : /\ ops[j].do \notin {"finish", "echo"}
                              /\ ops[j].do = "field" => WillReturn(ops, j + 1)

LEMMA FinishedBody ==
  ASSUME NEW ops, Body(ops)
  PROVE  WellFormed(Append(ops, Finish))
<1> DEFINE n == Len(ops)
           f == Append(ops, Finish)
<1>1. Finish \in Statements /\ Finish.do = "finish"
  BY OpKinds DEF Statements
<1>2. ops \in Seq(Statements) /\ n \in Nat
  BY DEF Body
<1>3. /\ f \in Seq(Statements) /\ Len(f) = n + 1 /\ f[n + 1] = Finish
      /\ \A j \in 1 .. n : f[j] = ops[j]
  BY <1>1, <1>2
<1> HIDE DEF f, n
<1>4. ASSUME NEW j \in 1 .. n + 1
      PROVE  /\ f[j].do = "finish" => j = n + 1
             /\ f[j].do = "field" => WillReturn(f, j + 1)
             /\ f[j].do # "echo"
  <2>1. CASE j = n + 1
    BY <1>1, <1>3, <2>1
  <2>2. CASE j \in 1 .. n
    <3>1. f[j] = ops[j] /\ ops[j].do \notin {"finish", "echo"}
      BY <1>3, <2>2 DEF Body, n
    <3>2. ASSUME ops[j].do = "field" PROVE WillReturn(f, j + 1)
      <4>1. WillReturn(ops, j + 1)
        BY <2>2, <3>2 DEF Body, n
      <4>2. PICK i \in j + 1 .. n : ops[i].do = "return"
        BY <4>1 DEF WillReturn, n
      <4>3. i \in 1 .. n /\ i \in j + 1 .. n + 1
        BY <1>2, <2>2
      <4>4. f[i].do = "return"
        BY <1>3, <4>2, <4>3
      <4> QED BY <1>3, <4>3, <4>4 DEF WillReturn
    <3> QED BY <3>1, <3>2
  <2> QED BY <1>2, <2>1, <2>2
<1>5. WillFinish(f)
  <2>1. n + 1 \in 1 .. n + 1
    BY <1>2
  <2> QED BY <1>1, <1>3, <2>1 DEF WillFinish
<1>6. WellFormed(f)
  BY <1>3, <1>4, <1>5 DEF WellFormed
<1> QED BY <1>6 DEF f

(* Whole lines, a cleared screen and texts for the clipboard.              *)
Plain == {Line, Clear} \cup {Copy(t) : t \in Clips}

LEMMA PlainBody ==
  ASSUME NEW ops \in Seq(Plain)
  PROVE  Body(ops)
<1>1. Plain \subseteq Statements
  BY DEF Plain, Statements
<1>2. \A op \in Plain : op.do \notin {"finish", "echo", "field"}
  <2> SUFFICES ASSUME NEW op \in Plain PROVE op.do \notin {"finish", "echo", "field"}
    OBVIOUS
  <2>1. CASE op \in {Line, Clear}
    BY <2>1 DEF Line, Clear
  <2>2. CASE op \in {Copy(t) : t \in Clips}
    <3>1. PICK t \in Clips : op = Copy(t)
      BY <2>2
    <3> QED BY <3>1 DEF Copy
  <2> QED BY <2>1, <2>2 DEF Plain
<1>3. \A j \in 1 .. Len(ops) : ops[j] \in Plain
  OBVIOUS
<1>4. ops \in Seq(Statements)
  BY <1>1, <1>3
<1> QED BY <1>2, <1>3, <1>4 DEF Body

LEMMA TimesOne ==
  ASSUME NEW S, NEW op \in S, NEW n \in Nat
  PROVE  Times(n, <<op>>) \in Seq(S) /\ Len(Times(n, <<op>>)) = n
<1>1. Len(<<op>>) = 1
  OBVIOUS
<1>2. \A i \in 1 .. n * 1 : <<op>>[((i - 1) % 1) + 1] = op
  <2>1. \A i \in 1 .. n * 1 : ((i - 1) % 1) + 1 = 1
    OBVIOUS
  <2> QED BY <2>1
<1>3. Times(n, <<op>>) = [i \in 1 .. n * 1 |-> <<op>>[((i - 1) % 1) + 1]]
  BY <1>1 DEF Times
<1>4. @ = [i \in 1 .. n |-> op]
  BY <1>2
<1>5. [i \in 1 .. n |-> op] \in Seq(S) /\ Len([i \in 1 .. n |-> op]) = n
  OBVIOUS
<1> QED BY <1>3, <1>4, <1>5

LEMMA Joined ==
  ASSUME NEW S, NEW a \in Seq(S), NEW b \in Seq(S)
  PROVE  /\ a \o b \in Seq(S) /\ Len(a \o b) = Len(a) + Len(b)
         /\ Len(b) >= 1 => (a \o b)[Len(a) + 1] = b[1]
OBVIOUS

(* The four fields of a row of diskread, and the end of the row.           *)
DumpedRow == <<Line, Line>> \o Times(4, <<Field>>) \o <<Return>>

LEMMA DumpedRowBody == Body(DumpedRow)
<1> DEFINE Ops == {Line, Field, Return}
           cells == Times(4, <<Field>>)
           front == <<Line, Line>> \o cells
<1>1. Line \in Ops /\ Field \in Ops /\ Return \in Ops /\ Ops \subseteq Statements
  BY DEF Statements
<1>2. \A op \in Ops : op.do \notin {"finish", "echo"} /\ (op.do = "field" => op # Return)
  BY OpKinds
<1>3. Return.do = "return"
  BY OpKinds
<1> HIDE DEF Line, Field, Return, Ops
<1>4. cells \in Seq(Ops) /\ Len(cells) = 4
  BY <1>1, TimesOne
<1> HIDE DEF cells
<1>5. front \in Seq(Ops) /\ Len(front) = 6
  <2> DEFINE two == <<Line, Line>>
  <2>1. two \in Seq(Ops) /\ Len(two) = 2
    BY <1>1
  <2> HIDE DEF two
  <2>2. two \o cells \in Seq(Ops) /\ Len(two \o cells) = Len(two) + Len(cells)
    BY <1>4, <2>1, Joined
  <2>3. front = two \o cells
    BY DEF two
  <2> HIDE DEF front
  <2> QED BY <1>4, <2>1, <2>2, <2>3
<1>6. DumpedRow = front \o <<Return>>
  BY DEF DumpedRow, cells
<1> HIDE DEF front
<1>7. DumpedRow \in Seq(Ops) /\ Len(DumpedRow) = 7 /\ DumpedRow[7] = Return
  <2> DEFINE last == <<Return>>
  <2>1. last \in Seq(Ops) /\ Len(last) = 1 /\ last[1] = Return
    BY <1>1
  <2>2. DumpedRow = front \o last
    BY <1>6
  <2> HIDE DEF last
  <2>3. front \o last \in Seq(Ops) /\ Len(front \o last) = Len(front) + Len(last)
    BY <1>5, <2>1, Joined
  <2>4. (front \o last)[Len(front) + 1] = last[1]
    <3>1. Len(last) >= 1
      BY <2>1
    <3> QED BY <1>5, <2>1, <3>1, Joined
  <2>5. Len(front) + Len(last) = 7 /\ Len(front) + 1 = 7
    BY <1>5, <2>1
  <2> QED BY <2>1, <2>2, <2>3, <2>4, <2>5
<1>8. DumpedRow \in Seq(Statements) /\ \A j \in 1 .. 7 : DumpedRow[j] \in Ops
  <2>1. \A j \in 1 .. 7 : DumpedRow[j] \in Ops
    BY <1>7
  <2> QED BY <1>1, <1>7, <2>1
<1>9. \A j \in 1 .. 6 : WillReturn(DumpedRow, j + 1)
  <2>1. \A j \in 1 .. 6 : 7 \in j + 1 .. 7
    OBVIOUS
  <2> QED BY <1>3, <1>7, <2>1 DEF WillReturn
<1>10. \A j \in 1 .. 7 : /\ DumpedRow[j].do \notin {"finish", "echo"}
                         /\ DumpedRow[j].do = "field" => WillReturn(DumpedRow, j + 1)
  <2> SUFFICES ASSUME NEW j \in 1 .. 7
               PROVE  /\ DumpedRow[j].do \notin {"finish", "echo"}
                      /\ DumpedRow[j].do = "field" => WillReturn(DumpedRow, j + 1)
    OBVIOUS
  <2>1. j = 7 \/ j \in 1 .. 6
    OBVIOUS
  <2>2. DumpedRow[j].do \notin {"finish", "echo"} /\ (DumpedRow[j].do = "field" => j # 7)
    BY <1>2, <1>7, <1>8
  <2> QED BY <1>9, <2>1, <2>2
<1> QED BY <1>7, <1>8, <1>10 DEF Body

LEMMA OutcomesInOrder ==
  ASSUME NEW cmd \in RowByRow, NEW ops \in Outcomes[cmd]
  PROVE  WellFormed(ops)
<1>1. ASSUME NEW S, \A b \in S : Body(b), ops \in Finished(S)
      PROVE  WellFormed(ops)
  BY <1>1, FinishedBody DEF Finished
<1>2. \A S : (\A b \in S : b \in Seq(Plain)) /\ ops \in Finished(S) => WellFormed(ops)
  BY <1>1, PlainBody
<1>3. Line \in Plain /\ Clear \in Plain /\ \A t \in Clips : Copy(t) \in Plain
  BY DEF Plain
<1> HIDE DEF Line, Clear, Copy, Plain
<1>4. /\ <<>> \in Seq(Plain) /\ <<Line>> \in Seq(Plain) /\ <<Line, Line>> \in Seq(Plain)
      /\ <<Clear>> \in Seq(Plain)
  BY <1>3
<1>5. ASSUME NEW t \in Clips
      PROVE  /\ <<Line, Line, Copy(t)>> \in Seq(Plain)
             /\ <<Line, Copy(t)>> \in Seq(Plain) /\ <<Copy(t), Line>> \in Seq(Plain)
  BY <1>3
<1>6. CASE cmd = "clear"
  <2>1. Outcomes[cmd] = Finished({<<Clear>>})
    BY <1>6 DEF Outcomes
  <2> QED BY <1>2, <1>4, <2>1
<1>7. CASE cmd \in {"about", "unknown"}
  <2>1. Outcomes[cmd] = Finished({<<Line>>})
    BY <1>7 DEF Outcomes
  <2> QED BY <1>2, <1>4, <2>1
<1>8. CASE cmd = "sysinfo"
  <2>1. Outcomes[cmd] = Finished({<<Line, Line, Copy(t)>> : t \in Clips})
    BY <1>8 DEF Outcomes
  <2> QED BY <1>2, <1>5, <2>1
<1>9. CASE cmd = "ls"
  <2>1. Outcomes[cmd] = Finished({<<>>} \cup {Times(n, <<Line>>) : n \in 1 .. Repeats + 1})
    BY <1>9 DEF Outcomes
  <2>2. \A n \in 1 .. Repeats + 1 : Times(n, <<Line>>) \in Seq(Plain)
    BY <1>3, TimesOne, ConsoleAssumption DEF ConsoleAssumption
  <2> QED BY <1>2, <1>4, <2>1, <2>2
<1>10. CASE cmd = "read"
  <2>1. Outcomes[cmd] = Finished({<<Line>>} \cup {<<Line, Copy(t)>> : t \in Clips})
    BY <1>10 DEF Outcomes, Usage
  <2> QED BY <1>2, <1>4, <1>5, <2>1
<1>11. CASE cmd = "alloc"
  <2>1. Outcomes[cmd] = Finished({<<Line>>} \cup {<<Copy(t), Line>> : t \in Clips})
    BY <1>11 DEF Outcomes, Usage
  <2> QED BY <1>2, <1>4, <1>5, <2>1
<1>12. CASE cmd = "free"
  <2>1. Outcomes[cmd] = Finished({<<Line>>})
    BY <1>12 DEF Outcomes, Usage
  <2> QED BY <1>2, <1>4, <2>1
<1>13. CASE cmd = "diskread"
  <2>1. Outcomes[cmd] = Finished({<<Line>>, <<Line, Line>>, DumpedRow}) \cup {<<Line>>}
    BY <1>13 DEF Outcomes, Usage, DumpedRow
  <2>2. WellFormed(<<Line>>)
    <3>1. Line \in Statements /\ Line.do = "line"
      BY OpKinds DEF Statements
    <3>2. <<Line>> \in Seq(Statements) /\ Len(<<Line>>) = 1 /\ \A j \in 1 .. 1 : <<Line>>[j] = Line
      BY <3>1
    <3> QED BY <3>1, <3>2 DEF WellFormed
  <2>3. \A b \in {<<Line>>, <<Line, Line>>, DumpedRow} : Body(b)
    BY <1>4, PlainBody, DumpedRowBody
  <2>4. ops \in Finished({<<Line>>, <<Line, Line>>, DumpedRow}) => WellFormed(ops)
    BY <1>1, <2>3
  <2> QED BY <2>1, <2>2, <2>4
<1>14. CASE cmd = "write"
  <2>1. Outcomes[cmd] = Finished({<<Line>>, <<Line, Line>>})
    BY <1>14 DEF Outcomes, Usage
  <2> QED BY <1>2, <1>4, <2>1
<1> QED BY <1>6, <1>7, <1>8, <1>9, <1>10, <1>11, <1>12, <1>13, <1>14 DEF RowByRow

-----------------------------------------------------------------------------
(* The actions.                                                            *)
LEMMA HereIs == Here = Spot(screen, CursorX, CursorY)
BY DEF Here, Spot

LEMMA NothingPending ==
  WellFormed(<<>>) /\ ~WillFinish(<<>>) /\ OnlyEchoes(<<>>)
<1>1. <<>> \in Seq(Statements) /\ Len(<<>>) = 0 /\ \A j \in 1 .. 0 : FALSE
  OBVIOUS
<1> QED BY <1>1 DEF WellFormed, WillFinish, OnlyEchoes

LEMMA FineNow ==
  ASSUME ConsoleInv
  PROVE  /\ CursorX \in 0 .. Cols - 1 /\ CursorY \in 0 .. Rows - 1
         /\ BlankFrom(screen, CursorX, CursorY)
         /\ CommandBuffer \in Seq(Chars) /\ Len(CommandBuffer) \in Nat
         /\ Len(CommandBuffer) <= MaxLine
         /\ Cursor \in Nat
<1>1. CursorX \in 0 .. Cols - 1 /\ CursorY \in 0 .. Rows - 1
  BY DEF ConsoleInv, ConsoleTypeOK, CursorOnScreen
<1>2. Cursor \in Nat
  BY <1>1, Positions DEF Cursor
<1> QED BY <1>1, <1>2 DEF ConsoleInv, ConsoleTypeOK, BufferIndex

(* What EchoChar leaves of the invariant, whatever is pending.             *)
LEMMA EchoKeeps ==
  ASSUME ConsoleInv, NEW c \in Chars, EchoChar(c)
  PROVE  /\ CommandBuffer' \in Seq(Chars) /\ Len(CommandBuffer') <= MaxLine
         /\ CursorX' \in 0 .. Cols - 1 /\ CursorY' \in 0 .. Rows - 1
         /\ BlankFrom(screen', CursorX', CursorY')
         /\ Len(CommandBuffer) <= Cursor => Len(CommandBuffer') <= Cursor'
         /\ Shows(screen, Cursor, CommandBuffer) => Shows(screen', Cursor', CommandBuffer')
<1>1. CASE BufferIndex < MaxLine
  <2> DEFINE s == Echoed(screen, CursorX, CursorY, c)
  <2>1. /\ CommandBuffer' = Append(CommandBuffer, c)
        /\ screen' = s.scr /\ CursorX' = s.x /\ CursorY' = s.y
    BY <1>1, HereIs DEF EchoChar, Becomes, Echoed
  <2> HIDE DEF s
  <2>2. Fine(s) /\ Keeps(s, Drawn(screen, CursorX, CursorY, 1, c), Index(CursorX, CursorY) + 1)
    BY FineNow, EchoMoves DEF s
  <2>3. Len(CommandBuffer') = Len(CommandBuffer) + 1 /\ CommandBuffer' \in Seq(Chars)
    BY <2>1, FineNow
  <2>4. Len(CommandBuffer') <= MaxLine
    BY <1>1, <2>3, FineNow, ColsRows DEF BufferIndex
  <2>5. CursorX' \in 0 .. Cols - 1 /\ CursorY' \in 0 .. Rows - 1
        /\ BlankFrom(screen', CursorX', CursorY')
    BY <2>1, <2>2 DEF Fine
  <2>6. Cursor' = Index(s.x, s.y)
    BY <2>1 DEF Cursor
  <2>7. ASSUME Len(CommandBuffer) <= Cursor PROVE Len(CommandBuffer') <= Cursor'
    <3>1. Cursor \in Nat /\ Cursor + 1 \in Nat
      BY FineNow
    <3>2. Len(CommandBuffer) + 1 \in Nat /\ Len(CommandBuffer) + 1 <= Cursor + 1
          /\ Len(CommandBuffer) + 1 <= PromptCols + MaxLine
      BY <2>3, <2>4, <2>7, <3>1, FineNow, ColsRows
    <3>3. Keeps(s, Drawn(screen, CursorX, CursorY, 1, c), Cursor + 1)
      BY <2>2 DEF Cursor
    <3>4. Len(CommandBuffer) + 1 <= Index(s.x, s.y)
      BY <2>2, <3>1, <3>2, <3>3, CursorFits
    <3> QED BY <2>3, <2>6, <3>4
  <2>8. ASSUME Shows(screen, Cursor, CommandBuffer)
        PROVE  Shows(screen', Cursor', CommandBuffer')
    <3>1. Shows(screen, Index(CursorX, CursorY), CommandBuffer)
      BY <2>8 DEF Cursor
    <3>2. Len(CommandBuffer) < MaxLine
      BY <1>1 DEF BufferIndex
    <3>3. Shows(s.scr, Index(s.x, s.y), Append(CommandBuffer, c))
      BY <3>1, <3>2, FineNow, EchoShows DEF s
    <3> QED BY <2>1, <2>6, <3>3
  <2> QED BY <2>3, <2>4, <2>5, <2>7, <2>8
<1>2. CASE ~(BufferIndex < MaxLine)
  <2>1. UNCHANGED <<CommandBuffer, screen, CursorX, CursorY>>
    BY <1>2 DEF EchoChar
  <2>2. Cursor' = Cursor
    BY <2>1 DEF Cursor
  <2> QED BY <2>1, <2>2, FineNow
<1> QED BY <1>1, <1>2

LEMMA TypeKeeps ==
  ASSUME ConsoleInv, NEW c \in Chars, Type(c)
  PROVE  ConsoleInv'
<1>1. pending = <<>> /\ pending' = <<>> /\ EchoChar(c) /\ Clipboard' = Clipboard /\ stale' = stale
  BY DEF Type
<1>2. /\ CommandBuffer' \in Seq(Chars) /\ Len(CommandBuffer') <= MaxLine
      /\ CursorX' \in 0 .. Cols - 1 /\ CursorY' \in 0 .. Rows - 1
      /\ BlankFrom(screen', CursorX', CursorY')
      /\ Len(CommandBuffer) <= Cursor => Len(CommandBuffer') <= Cursor'
      /\ Shows(screen, Cursor, CommandBuffer) => Shows(screen', Cursor', CommandBuffer')
  BY <1>1, EchoKeeps
<1>3. ConsoleTypeOK'
  BY <1>1, <1>2 DEF ConsoleInv, ConsoleTypeOK, CursorOnScreen, BufferIndex
<1>4. PendingInOrder'
  BY <1>1, NothingPending DEF PendingInOrder
<1>5. LineFits'
  BY <1>1, <1>2, NothingPending DEF ConsoleInv, LineFits, BufferIndex
<1>6. LineIsShown'
  BY <1>1, <1>2 DEF ConsoleInv, LineIsShown
<1> QED BY <1>2, <1>3, <1>4, <1>5, <1>6 DEF ConsoleInv

LEMMA PasteKeeps ==
  ASSUME ConsoleInv, Paste
  PROVE  ConsoleInv'
<1>1. /\ pending = <<>> /\ pending' = [k \in 1 .. Len(Clipboard) |-> Echo(Clipboard[k])]
      /\ UNCHANGED <<screen, CursorX, CursorY, CommandBuffer, Clipboard, stale>>
  BY DEF Paste
<1>2. Clipboard \in Seq(Chars) /\ Len(Clipboard) \in Nat
  BY DEF ConsoleInv, ConsoleTypeOK
<1>3. \A k \in 1 .. Len(Clipboard) : /\ Echo(Clipboard[k]) \in Statements
                                     /\ Echo(Clipboard[k]).do = "echo"
  BY <1>2, OpKinds DEF Statements
<1>4. /\ pending' \in Seq(Statements) /\ Len(pending') = Len(Clipboard)
      /\ \A k \in 1 .. Len(Clipboard) : pending'[k] = Echo(Clipboard[k])
  BY <1>1, <1>2, <1>3
<1>5. \A k \in 1 .. Len(pending') : pending'[k].do = "echo"
  BY <1>3, <1>4
<1>6. OnlyEchoes(pending') /\ ~WillFinish(pending')
  BY <1>5 DEF OnlyEchoes, WillFinish
<1>7. WellFormed(pending')
  BY <1>4, <1>5, <1>6 DEF WellFormed
<1>8. PendingInOrder'
  BY <1>6, <1>7 DEF PendingInOrder
<1>9. ConsoleTypeOK'
  BY <1>1 DEF ConsoleInv, ConsoleTypeOK, CursorOnScreen, BufferIndex
<1>10. BlankFrom(screen, CursorX, CursorY)'
  BY <1>1 DEF ConsoleInv
<1>11. Cursor' = Cursor
  BY <1>1 DEF Cursor
<1>12. LineFits'
  BY <1>1, <1>11, NothingPending DEF ConsoleInv, LineFits, BufferIndex
<1>13. LineIsShown'
  BY <1>1, <1>11 DEF ConsoleInv, LineIsShown
<1> QED BY <1>8, <1>9, <1>10, <1>12, <1>13 DEF ConsoleInv

LEMMA BackspaceKeeps ==
  ASSUME ConsoleInv, Backspace
  PROVE  ConsoleInv'
<1> DEFINE left == Right(Spot(screen, CursorX, CursorY), -1)
           s == EraseCharBlock(IF left.x < 0 THEN RowAbove(left) ELSE left)
           shorter == SubSeq(CommandBuffer, 1, Len(CommandBuffer) - 1)
<1>1. /\ pending = <<>> /\ CommandBuffer # <<>> /\ CommandBuffer' = shorter
      /\ screen' = s.scr /\ CursorX' = s.x /\ CursorY' = s.y
      /\ Clipboard' = Clipboard /\ pending' = pending /\ stale' = stale
  BY HereIs DEF Backspace, Becomes, RowAbove, BufferIndex
<1>2. /\ Len(CommandBuffer) >= 1 /\ shorter \in Seq(Chars)
      /\ Len(shorter) = Len(CommandBuffer) - 1
  <2> DEFINE n == Len(CommandBuffer) - 1
  <2>1. Len(CommandBuffer) >= 1
    BY <1>1, FineNow
  <2>2. n \in Nat /\ n <= Len(CommandBuffer)
    BY <2>1, FineNow
  <2>3. shorter = SubSeq(CommandBuffer, 1, n)
    OBVIOUS
  <2> HIDE DEF n, shorter
  <2>4. SubSeq(CommandBuffer, 1, n) \in Seq(Chars) /\ Len(SubSeq(CommandBuffer, 1, n)) = n
    BY <2>2, FineNow
  <2> QED BY <2>1, <2>3, <2>4 DEF n
<1>3. Len(CommandBuffer) <= Cursor
  BY <1>1, NothingPending DEF ConsoleInv, LineFits, BufferIndex
<1>4. 1 <= Index(CursorX, CursorY)
  BY <1>2, <1>3, FineNow DEF Cursor
<1> HIDE DEF s, shorter
<1>5. Fine(s) /\ s.scr = Erased(screen, s.x, s.y) /\ Index(s.x, s.y) = Cursor - 1
  BY <1>4, FineNow, BackspaceMoves DEF s, Cursor
<1>6. Cursor' = Cursor - 1
  BY <1>1, <1>5 DEF Cursor
<1>7. ConsoleTypeOK'
  <2>1. CommandBuffer' \in Seq(Chars) /\ Len(CommandBuffer') <= MaxLine
    BY <1>1, <1>2, FineNow, ColsRows
  <2>2. CursorX' \in 0 .. Cols - 1 /\ CursorY' \in 0 .. Rows - 1
    BY <1>1, <1>5 DEF Fine
  <2> QED BY <1>1, <2>1, <2>2 DEF ConsoleInv, ConsoleTypeOK, CursorOnScreen, BufferIndex
<1>8. PendingInOrder'
  BY <1>1, NothingPending DEF PendingInOrder
<1>9. BlankFrom(screen', CursorX', CursorY')
  BY <1>1, <1>5 DEF Fine
<1>10. LineFits'
  BY <1>1, <1>2, <1>3, <1>6, FineNow DEF LineFits, BufferIndex
<1>11. LineIsShown'
  <2> SUFFICES ASSUME ~stale PROVE Shows(screen', Cursor', CommandBuffer')
    BY <1>1 DEF LineIsShown
  <2>1. Shows(screen, Cursor, CommandBuffer)
    BY DEF ConsoleInv, LineIsShown
  <2>2. s.x \in 0 .. Cols - 1 /\ s.y \in 0 .. Rows - 1 /\ Cursor = Index(s.x, s.y) + 1
        /\ Cursor \in Nat
    BY <1>5, FineNow, Positions DEF Fine
  <2>3. Shows(Erased(screen, s.x, s.y), Index(s.x, s.y), shorter)
    BY <1>1, <2>1, <2>2, FineNow, BackspaceShows DEF shorter
  <2>4. Cursor' = Index(s.x, s.y)
    BY <1>1 DEF Cursor
  <2> QED BY <1>1, <1>5, <2>3, <2>4
<1> QED BY <1>7, <1>8, <1>9, <1>10, <1>11 DEF ConsoleInv

(* CursorX = 0; CursorY += 8; UpdateCursor: the next row, or the last one. *)
LEMMA NextRow ==
  ASSUME ConsoleInv, NEW s, s = NewLine(Home(Here))
  PROVE  /\ Fine(s) /\ s.x = 0 /\ s = Spot(s.scr, 0, s.y)
         /\ Len(CommandBuffer) <= Cursor => Len(CommandBuffer) <= Index(s.x, s.y)
<1>1. s = NewLine(Spot(screen, 0, CursorY))
  <2>1. Home(Spot(screen, CursorX, CursorY)) = Spot(screen, 0, CursorY)
    BY HomeIs
  <2> QED BY <2>1, HereIs
<1>2. BlankFrom(screen, 0 + Cols, CursorY)
  BY FineNow, ColsRows DEF BlankFrom
<1>3. 0 \in 0 .. Cols - 1
  BY ColsRows
<1>4. Fine(s) /\ s.x = 0 /\ Keeps(s, screen, Index(0, CursorY + 1))
  BY <1>1, <1>2, <1>3, FineNow, NewLineMoves
<1>5. ASSUME Len(CommandBuffer) <= Cursor PROVE Len(CommandBuffer) <= Index(s.x, s.y)
  <2>1. Index(0, CursorY + 1) \in Nat
    BY FineNow, ColsRows DEF Index
  <2>2. Len(CommandBuffer) <= Index(0, CursorY + 1)
    <3>1. Index(CursorX, CursorY) < Index(0, CursorY + 1) /\ Index(CursorX, CursorY) \in Nat
      BY FineNow, Positions
    <3> QED BY <1>5, <2>1, <3>1, FineNow DEF Cursor
  <2>3. Len(CommandBuffer) <= PromptCols + MaxLine
    BY FineNow, ColsRows
  <2> QED BY <1>4, <2>1, <2>2, <2>3, FineNow, CursorFits
<1>6. s = Spot(s.scr, s.x, s.y)
  <2>1. s = UpdateCursor(Spot(screen, 0, CursorY + 1))
    BY <1>1, MovesAre DEF NewLine
  <2>2. 0 \in Int /\ CursorY + 1 \in Int
    BY FineNow
  <2> QED BY <2>1, <2>2, UpdateIsSpot
<1> QED BY <1>4, <1>5, <1>6

LEMMA EnterKeeps ==
  ASSUME ConsoleInv, Commands \subseteq RowByRow, Enter
  PROVE  ConsoleInv'
<1> DEFINE s == NewLine(Home(Here))
           p == PrintPrompt(s)
<1>1. /\ pending = <<>> /\ CommandBuffer' = CommandBuffer /\ Clipboard' = Clipboard
      /\ CommandBuffer = <<>> => Becomes(p) /\ stale' = FALSE /\ pending' = <<>>
      /\ CommandBuffer # <<>> => /\ Becomes(s) /\ stale' = TRUE
                                 /\ \E cmd \in Commands : pending' \in Outcomes[cmd]
  BY DEF Enter
<1> HIDE DEF s
<1>2. Len(CommandBuffer) <= Cursor
  BY <1>1, NothingPending DEF ConsoleInv, LineFits, BufferIndex
<1>3. Fine(s) /\ s.x = 0 /\ s = Spot(s.scr, 0, s.y) /\ Len(CommandBuffer) <= Index(s.x, s.y)
  BY <1>2, NextRow DEF s
<1>4. CASE CommandBuffer = <<>>
  <2>1. Fine(p) /\ Shows(p.scr, Index(p.x, p.y), <<>>)
    <3>1. s.y \in 0 .. Rows - 1 /\ BlankFrom(s.scr, 0, s.y) /\ p = PrintPrompt(Spot(s.scr, 0, s.y))
      BY <1>3 DEF Fine
    <3> HIDE DEF p
    <3> QED BY <3>1, PromptMoves
  <2> HIDE DEF p
  <2>2. screen' = p.scr /\ CursorX' = p.x /\ CursorY' = p.y /\ stale' = FALSE /\ pending' = <<>>
    BY <1>1, <1>4 DEF Becomes
  <2>3. Cursor' = Index(p.x, p.y)
    BY <2>2 DEF Cursor
  <2>4. ConsoleTypeOK'
    BY <1>1, <2>1, <2>2 DEF ConsoleInv, ConsoleTypeOK, CursorOnScreen, BufferIndex, Fine
  <2>5. PendingInOrder'
    BY <2>2, NothingPending DEF PendingInOrder
  <2>6. BlankFrom(screen', CursorX', CursorY')
    BY <2>1, <2>2 DEF Fine
  <2>7. LineFits'
    <3>1. p.x \in 0 .. Cols - 1 /\ p.y \in 0 .. Rows - 1
      BY <2>1 DEF Fine
    <3>2. Cursor' \in Nat
      BY <2>3, <3>1, Positions
    <3>3. Len(CommandBuffer') = 0
      BY <1>1, <1>4
    <3> QED BY <3>2, <3>3 DEF LineFits, BufferIndex
  <2>8. LineIsShown'
    BY <1>1, <1>4, <2>1, <2>2, <2>3 DEF LineIsShown
  <2> QED BY <2>4, <2>5, <2>6, <2>7, <2>8 DEF ConsoleInv
<1>5. CASE CommandBuffer # <<>>
  <2>1. screen' = s.scr /\ CursorX' = s.x /\ CursorY' = s.y /\ stale' = TRUE
    BY <1>1, <1>5 DEF Becomes
  <2>2. WellFormed(pending')
    <3>1. PICK cmd \in Commands : pending' \in Outcomes[cmd]
      BY <1>1, <1>5
    <3>2. cmd \in RowByRow
      BY <3>1
    <3> QED BY <3>1, <3>2, OutcomesInOrder
  <2>3. Cursor' = Index(s.x, s.y)
    BY <2>1 DEF Cursor
  <2>4. ConsoleTypeOK'
    BY <1>1, <1>3, <2>1 DEF ConsoleInv, ConsoleTypeOK, CursorOnScreen, BufferIndex, Fine
  <2>5. PendingInOrder'
    BY <1>3, <2>1, <2>2 DEF PendingInOrder
  <2>6. BlankFrom(screen', CursorX', CursorY')
    BY <1>3, <2>1 DEF Fine
  <2>7. LineFits'
    BY <1>1, <1>3, <2>3 DEF LineFits, BufferIndex
  <2>8. LineIsShown'
    BY <2>1 DEF LineIsShown
  <2> QED BY <2>4, <2>5, <2>6, <2>7, <2>8 DEF ConsoleInv
<1> QED BY <1>4, <1>5

(* What a drawing statement does to the cursor and to the cells behind it. *)
LEMMA StatementMoves ==
  ASSUME ConsoleInv, NEW op \in Statements, op.do # "echo", NEW s, s = Draws(op),
         op.do = "finish" => CursorX = 0
  PROVE  /\ Fine(s)
         /\ op.do \in {"line", "copy"} => s.x = CursorX
         /\ op.do \in {"return", "clear"} => s.x = 0
         /\ op.do = "line" /\ Len(CommandBuffer) <= Cursor =>
              Len(CommandBuffer) <= Index(s.x, s.y)
         /\ op.do = "finish" => Shows(s.scr, Index(s.x, s.y), <<>>)
<1>1. CASE op.do = "line"
  <2> DEFINE drawn == Drawn(screen, CursorX, CursorY, Cols, Text)
  <2>1. s = NewLine(Spot(drawn, CursorX, CursorY))
    <3>1. s = NewLine(DrawText(Here))
      BY <1>1 DEF Draws
    <3>2. DrawText(Here) = Spot(drawn, CursorX, CursorY)
      BY HereIs, DrawIs DEF DrawText
    <3> QED BY <3>1, <3>2
  <2>2. BlankFrom(drawn, CursorX + Cols, CursorY)
    BY FineNow, BlankAfter, ColsRows
  <2> HIDE DEF drawn
  <2>3. Fine(s) /\ s.x = CursorX /\ Keeps(s, drawn, Index(CursorX, CursorY + 1))
    BY <2>1, <2>2, FineNow, NewLineMoves
  <2>4. ASSUME Len(CommandBuffer) <= Cursor PROVE Len(CommandBuffer) <= Index(s.x, s.y)
    <3>1. Index(CursorX, CursorY + 1) = Cursor + Cols
      BY FineNow, ColsRows, Multiples DEF Index, Cursor
    <3>2. Cursor + Cols \in Nat /\ Len(CommandBuffer) <= Cursor + Cols
          /\ Len(CommandBuffer) <= PromptCols + MaxLine
      BY <2>4, FineNow, ColsRows
    <3> QED BY <2>3, <3>1, <3>2, FineNow, CursorFits
  <2> QED BY <1>1, <2>3, <2>4
<1>2. CASE op.do = "field"
  <2>1. s = UpdateCursor(Right(Draw(Spot(screen, CursorX, CursorY), FieldCols, Text), FieldCols))
    BY <1>2, HereIs DEF Draws
  <2> QED BY <1>2, <2>1, FineNow, FieldMoves
<1>3. CASE op.do = "return"
  <2>1. s = NewLine(Home(Here))
    BY <1>3 DEF Draws
  <2> QED BY <1>3, <2>1, NextRow
<1>4. CASE op.do = "clear"
  <2>1. s = Spot(Blank, 0, 0)
    BY <1>4, ClearIs DEF Draws
  <2>2. s.scr = Blank /\ s.x = 0 /\ s.y = 0
    BY <2>1, Fields
  <2>3. BlankFrom(Blank, 0, 0)
    BY ScrolledCells DEF BlankFrom
  <2>4. 0 \in 0 .. Cols - 1 /\ 0 \in 0 .. Rows - 1
    BY ColsRows
  <2> QED BY <1>4, <2>2, <2>3, <2>4 DEF Fine
<1>5. CASE op.do = "copy"
  <2>1. s = Spot(screen, CursorX, CursorY)
    BY <1>5, HereIs DEF Draws
  <2>2. s.scr = screen /\ s.x = CursorX /\ s.y = CursorY
    BY <2>1, Fields
  <2> QED BY <1>5, <2>2, FineNow DEF Fine
<1>6. CASE op.do = "finish"
  <2>1. s = PrintPrompt(Spot(screen, 0, CursorY))
    BY <1>6, HereIs DEF Draws
  <2>2. BlankFrom(screen, 0, CursorY)
    BY <1>6, FineNow
  <2> QED BY <1>6, <2>1, <2>2, FineNow, PromptMoves
<1> QED BY <1>1, <1>2, <1>3, <1>4, <1>5, <1>6, OpFacts

LEMMA StepKeeps ==
  ASSUME ConsoleInv, Step
  PROVE  ConsoleInv'
<1> DEFINE op == Head(pending)
           s == Draws(op)
<1>1. /\ pending # <<>> /\ pending' = Tail(pending)
      /\ op.do = "echo" => EchoChar(op.char) /\ UNCHANGED <<Clipboard, stale>>
      /\ op.do # "echo" =>
           /\ Becomes(s)
           /\ Clipboard' = IF op.do = "copy" THEN op.text ELSE Clipboard
           /\ CommandBuffer' = IF op.do = "finish" THEN <<>> ELSE CommandBuffer
           /\ stale' = (stale /\ op.do # "finish")
  BY DEF Step
<1>2. WellFormed(pending) /\ op \in Statements
  BY <1>1, Rest DEF ConsoleInv, PendingInOrder, WellFormed
<1> HIDE DEF op, s
<1>3. /\ WellFormed(pending')
      /\ WillFinish(pending') <=> WillFinish(pending) /\ op.do # "finish"
      /\ WillReturn(pending, 1) /\ op.do # "return" => WillReturn(pending', 1)
      /\ op.do = "field" => WillReturn(pending', 1)
      /\ op.do = "finish" => pending' = <<>> /\ ~WillReturn(pending, 1)
      /\ OnlyEchoes(pending) => OnlyEchoes(pending') /\ op.do = "echo"
      /\ ~WillFinish(pending) => op.do \in {"line", "echo"}
      /\ op.do = "echo" => ~WillFinish(pending)
  BY <1>1, <1>2, RestInOrder DEF op
<1>4. /\ WillFinish(pending) /\ CursorX # 0 => WillReturn(pending, 1)
      /\ ~stale => OnlyEchoes(pending)
      /\ WillFinish(pending) \/ Len(CommandBuffer) <= Cursor
      /\ ~stale => Shows(screen, Cursor, CommandBuffer)
  BY DEF ConsoleInv, PendingInOrder, LineFits, LineIsShown, BufferIndex
<1>5. CASE op.do = "echo"
  <2>1. /\ CommandBuffer' \in Seq(Chars) /\ Len(CommandBuffer') <= MaxLine
        /\ CursorX' \in 0 .. Cols - 1 /\ CursorY' \in 0 .. Rows - 1
        /\ BlankFrom(screen', CursorX', CursorY')
        /\ Len(CommandBuffer) <= Cursor => Len(CommandBuffer') <= Cursor'
        /\ Shows(screen, Cursor, CommandBuffer) => Shows(screen', Cursor', CommandBuffer')
    BY <1>1, <1>2, <1>5, EchoKeeps, OpFacts
  <2>2. Clipboard' = Clipboard /\ stale' = stale /\ ~WillFinish(pending')
    BY <1>1, <1>3, <1>5
  <2>3. ConsoleTypeOK'
    BY <2>1, <2>2 DEF ConsoleInv, ConsoleTypeOK, CursorOnScreen, BufferIndex
  <2>4. PendingInOrder'
    BY <1>3, <1>4, <2>2 DEF PendingInOrder
  <2>5. LineFits'
    BY <1>3, <1>4, <1>5, <2>1 DEF LineFits, BufferIndex
  <2>6. LineIsShown'
    BY <1>4, <2>1, <2>2 DEF LineIsShown
  <2> QED BY <2>1, <2>3, <2>4, <2>5, <2>6 DEF ConsoleInv
<1>6. CASE op.do # "echo"
  <2>1. /\ screen' = s.scr /\ CursorX' = s.x /\ CursorY' = s.y
        /\ Clipboard' = IF op.do = "copy" THEN op.text ELSE Clipboard
        /\ CommandBuffer' = IF op.do = "finish" THEN <<>> ELSE CommandBuffer
        /\ stale' = (stale /\ op.do # "finish")
    BY <1>1, <1>6 DEF Becomes
  <2>2. op.do = "finish" => CursorX = 0
    BY <1>3, <1>4
  <2>3. /\ Fine(s)
        /\ op.do \in {"line", "copy"} => s.x = CursorX
        /\ op.do \in {"return", "clear"} => s.x = 0
        /\ op.do = "line" /\ Len(CommandBuffer) <= Cursor =>
             Len(CommandBuffer) <= Index(s.x, s.y)
        /\ op.do = "finish" => Shows(s.scr, Index(s.x, s.y), <<>>)
    BY <1>2, <1>6, <2>2, StatementMoves DEF s
  <2>4. op.do \in {"line", "field", "return", "clear", "finish", "copy"}
    BY <1>2, <1>6, OpFacts
  <2>5. stale
    BY <1>3, <1>4, <1>6
  <2>6. Cursor' = Index(s.x, s.y)
    BY <2>1 DEF Cursor
  <2>7. ConsoleTypeOK'
    <3>1. CommandBuffer' \in Seq(Chars) /\ Len(CommandBuffer') <= MaxLine
      <4>1. <<>> \in Seq(Chars) /\ Len(<<>>) = 0 /\ 0 <= MaxLine
        BY ColsRows
      <4> QED BY <2>1, <4>1, FineNow
    <3>2. Clipboard' \in Seq(Chars)
      <4>1. op.do = "copy" => op.text \in Seq(Chars)
        BY <1>2, OpFacts, ConsoleAssumption DEF ConsoleAssumption
      <4> QED BY <2>1, <4>1 DEF ConsoleInv, ConsoleTypeOK
    <3>3. CursorX' \in 0 .. Cols - 1 /\ CursorY' \in 0 .. Rows - 1
      BY <2>1, <2>3 DEF Fine
    <3> QED BY <3>1, <3>2, <3>3 DEF ConsoleTypeOK, CursorOnScreen, BufferIndex
  <2>8. PendingInOrder'
    <3>1. WillFinish(pending') /\ CursorX' # 0 => WillReturn(pending', 1)
      BY <1>3, <1>4, <2>1, <2>3, <2>4
    <3>2. ~stale' => OnlyEchoes(pending')
      BY <1>3, <2>1, <2>5, NothingPending
    <3> QED BY <1>3, <3>1, <3>2 DEF PendingInOrder
  <2>9. BlankFrom(screen', CursorX', CursorY')
    BY <2>1, <2>3 DEF Fine
  <2>10. LineFits'
    <3>1. CASE WillFinish(pending')
      BY <3>1 DEF LineFits
    <3>2. CASE op.do = "finish"
      <4>1. Index(s.x, s.y) \in Nat
        BY <2>3, Positions DEF Fine
      <4>2. Len(CommandBuffer') = 0
        BY <2>1, <3>2
      <4> QED BY <2>6, <4>1, <4>2 DEF LineFits, BufferIndex
    <3>3. CASE ~WillFinish(pending) /\ op.do = "line"
      <4>1. CommandBuffer' = CommandBuffer
        BY <2>1, <3>3
      <4> QED BY <1>4, <2>3, <2>6, <3>3, <4>1 DEF LineFits, BufferIndex
    <3> QED BY <1>3, <1>6, <3>1, <3>2, <3>3
  <2>11. LineIsShown'
    <3>1. ASSUME ~stale' PROVE Shows(screen', Cursor', CommandBuffer')
      <4>1. op.do = "finish"
        BY <2>1, <2>5, <3>1
      <4>2. CommandBuffer' = <<>>
        BY <2>1, <4>1
      <4> QED BY <2>1, <2>3, <2>6, <4>1, <4>2
    <3> QED BY <3>1 DEF LineIsShown
  <2> QED BY <2>7, <2>8, <2>9, <2>10, <2>11 DEF ConsoleInv
<1> QED BY <1>5, <1>6

LEMMA BootedInv ==
  ASSUME Init
  PROVE  ConsoleInv
<1> DEFINE drawn == Drawn(Blank, 0, 0, Cols, Text)
           s == PrintPrompt(Spot(drawn, 0, 2))
<1>1. Booted = s
  <2>1. DrawText(ClearScreen) = Spot(drawn, 0, 0)
    BY ClearIs, DrawIs DEF DrawText
  <2>2. Down(Spot(drawn, 0, 0), 2) = Spot(drawn, 0, 0 + 2)
    BY MovesAre
  <2>3. 0 + 2 = 2
    OBVIOUS
  <2> QED BY <2>1, <2>2, <2>3 DEF Booted
<1>2. BlankFrom(drawn, 0, 2)
  <2>1. BlankFrom(Blank, 0, 0)
    BY ScrolledCells DEF BlankFrom
  <2>2. BlankFrom(drawn, 0 + Cols, 0)
    BY <2>1, BlankAfter, ColsRows
  <2> HIDE DEF drawn
  <2> QED BY <2>2, ColsRows DEF BlankFrom
<1> HIDE DEF drawn
<1>3. 2 \in 0 .. Rows - 1
  BY ColsRows
<1>4. Fine(s) /\ Shows(s.scr, Index(s.x, s.y), <<>>)
  BY <1>2, <1>3, PromptMoves
<1> HIDE DEF s
<1>5. /\ screen = s.scr /\ CursorX = s.x /\ CursorY = s.y
      /\ CommandBuffer = <<>> /\ Clipboard = <<>> /\ pending = <<>>
  BY <1>1 DEF Init
<1>6. Cursor = Index(s.x, s.y) /\ Cursor \in Nat
  BY <1>4, <1>5, Positions DEF Cursor, Fine
<1>7. <<>> \in Seq(Chars) /\ Len(<<>>) = 0 /\ 0 <= MaxLine
  BY ColsRows
<1>8. ConsoleTypeOK
  BY <1>4, <1>5, <1>7 DEF ConsoleTypeOK, CursorOnScreen, BufferIndex, Fine
<1>9. PendingInOrder
  BY <1>5, NothingPending DEF PendingInOrder
<1>10. BlankFrom(screen, CursorX, CursorY)
  BY <1>4, <1>5 DEF Fine
<1>11. LineFits
  BY <1>5, <1>6, <1>7 DEF LineFits, BufferIndex
<1>12. LineIsShown
  BY <1>4, <1>5, <1>6 DEF LineIsShown
<1> QED BY <1>8, <1>9, <1>10, <1>11, <1>12 DEF ConsoleInv

LEMMA ConsoleInductive ==
  ASSUME ConsoleInv, Commands \subseteq RowByRow, [Next]_vars
  PROVE  ConsoleInv'
<1>1. ASSUME NEW c \in Chars, Type(c) PROVE ConsoleInv'
  BY <1>1, TypeKeeps
<1>2. CASE Paste
  BY <1>2, PasteKeeps
<1>3. CASE Backspace
  BY <1>3, BackspaceKeeps
<1>4. CASE Enter
  BY <1>4, EnterKeeps
<1>5. CASE Step
  BY <1>5, StepKeeps
<1>6. CASE UNCHANGED vars
  <2>1. /\ screen' = screen /\ CursorX' = CursorX /\ CursorY' = CursorY
        /\ CommandBuffer' = CommandBuffer /\ Clipboard' = Clipboard
        /\ pending' = pending /\ stale' = stale
    BY <1>6 DEF vars
  <2> QED BY <2>1 DEF ConsoleInv, ConsoleTypeOK, CursorOnScreen, BufferIndex, PendingInOrder,
                      LineFits, LineIsShown, Cursor
<1> QED BY <1>1, <1>2, <1>3, <1>4, <1>5, <1>6 DEF Next

(* The invariant: in every state of the shell with any row-by-row commands *)
(* the cursor is on the screen with nothing drawn behind it, the pending   *)
(* statements bring it back to the margin before the prompt, and the line  *)
(* and its prompt stand in front of it (shell.c ExecuteCommand, display.c  *)
(* UpdateCursor, keyboard.c KeyboardHandler).                              *)
THEOREM ConsoleInvariant ==
  ASSUME Commands \subseteq RowByRow
  PROVE  Spec => []ConsoleInv
<1>1. Init => ConsoleInv
  BY BootedInv
<1>2. ConsoleInv /\ [Next]_vars => ConsoleInv'
  BY ConsoleInductive
<1> QED BY <1>1, <1>2, PTL DEF Spec

(* No drawing at the cursor writes outside the frame buffer (display.c:56),*)
(* for every screen size, prompt, buffer and screenful of text.            *)
THEOREM ConsoleCursorOnScreen ==
  ASSUME Commands \subseteq RowByRow
  PROVE  Spec => []CursorOnScreen
<1>1. ConsoleInv => CursorOnScreen
  BY DEF ConsoleInv, ConsoleTypeOK
<1> QED BY <1>1, ConsoleInvariant, PTL

(* Whenever the shell waits for a key the screen shows the prompt and      *)
(* exactly the line Enter will execute (shell.c PrintPrompt, keyboard.c    *)
(* KeyboardHandler).                                                       *)
THEOREM ConsoleLineIsVisible ==
  ASSUME Commands \subseteq RowByRow
  PROVE  Spec => []LineIsVisible
<1>1. ConsoleInv => LineIsVisible
  <2> SUFFICES ASSUME ConsoleInv, ~stale PROVE LineIsVisible
    BY DEF LineIsVisible
  <2>1. Shows(screen, Cursor, CommandBuffer)
    BY DEF ConsoleInv, LineIsShown
  <2>2. \A n \in Int : Behind(n) = At(screen, Cursor - n)
    <3>1. \A n \in Int : CursorY * Cols + (CursorX - n) = Cursor - n
      BY FineNow, ColsRows DEF Cursor, Index
    <3> QED BY <3>1 DEF Behind, At
  <2>3. Len(CommandBuffer) \in Nat /\ PromptCols \in Nat
    BY FineNow, ColsRows
  <2>4. \A k \in 1 .. Len(CommandBuffer) :
          Behind(Len(CommandBuffer) - k + 1) = {CommandBuffer[k]}
    BY <2>1, <2>2, <2>3 DEF Shows
  <2>5. \A k \in 1 .. PromptCols : Behind(Len(CommandBuffer) + k) = {Prompt}
    BY <2>1, <2>2, <2>3 DEF Shows
  <2> QED BY <2>4, <2>5 DEF LineIsVisible, BufferIndex
<1> QED BY <1>1, ConsoleInvariant, PTL

-----------------------------------------------------------------------------
(* The pointer.                                                            *)

Picture(s) == s = [p \in Pixels |-> s[p]]

PointerTypeOK ==
  /\ Picture(framebuffer) /\ Picture(text)
  /\ Mouse \in Int \X Int /\ PrevMouse \in Int \X Int
  /\ at \in {"test", "cli", "restore", "follow", "save", "draw", "sti"}

(* Handlers run only in front of the redraw.                               *)
RedrawIsMasked == interrupts <=> at \in {"test", "cli"}

Painted ==
  at \in {"test", "cli", "restore", "sti"} /\ ~disturbed =>
    framebuffer = Paint(text, Square(PrevMouse), "red")

Bare == at \in {"follow", "save", "draw"} /\ ~disturbed => framebuffer = text

(* What is saved is the text under the pointer.                            *)
CoversText(bg, mouse, t) ==
  \A o \in Offsets : Plus(mouse, o) \in Pixels => bg[o] = t[Plus(mouse, o)]
Saved ==
  at \in {"test", "cli", "restore", "draw", "sti"} /\ ~disturbed =>
    CoversText(MouseBg, PrevMouse, text)

FollowsTheMouse == at \in {"save", "draw"} => PrevMouse = Mouse

PointerInv ==
  PointerTypeOK /\ RedrawIsMasked /\ Painted /\ Bare /\ Saved /\ FollowsTheMouse

LEMMA SquareFacts ==
  ASSUME NEW m \in Int \X Int, NEW p
  PROVE  /\ Square(m) \subseteq Pixels
         /\ p \in Square(m) => /\ p \in Pixels
                               /\ <<p[1] - m[1], p[2] - m[2]>> \in Offsets
                               /\ Plus(m, <<p[1] - m[1], p[2] - m[2]>>) = p
<1>1. Square(m) \subseteq Pixels
  BY DEF Square
<1>2. ASSUME p \in Square(m)
      PROVE  /\ p \in Pixels
             /\ <<p[1] - m[1], p[2] - m[2]>> \in Offsets
             /\ Plus(m, <<p[1] - m[1], p[2] - m[2]>>) = p
  <2>1. PICK o \in Offsets : p = Plus(m, o)
    BY <1>2 DEF Square
  <2>2. /\ o = <<o[1], o[2]>> /\ o[1] \in Int /\ o[2] \in Int
        /\ m[1] \in Int /\ m[2] \in Int
    <3>1. Size \in Int
      BY PointerAssumption DEF PointerAssumption
    <3> QED BY <2>1, <3>1 DEF Offsets
  <2>3. p[1] = m[1] + o[1] /\ p[2] = m[2] + o[2]
    BY <2>1 DEF Plus
  <2>4. p[1] - m[1] = o[1] /\ p[2] - m[2] = o[2]
    BY <2>2, <2>3
  <2>5. <<p[1] - m[1], p[2] - m[2]>> = o
    BY <2>2, <2>4
  <2> QED BY <1>1, <1>2, <2>1, <2>5
<1> QED BY <1>1, <1>2

LEMMA PaintFacts ==
  ASSUME NEW s, NEW area, NEW colour
  PROVE  /\ Picture(Paint(s, area, colour))
         /\ \A p \in Pixels :
              Paint(s, area, colour)[p] = IF p \in area THEN colour ELSE s[p]
BY DEF Picture, Paint

LEMMA SamePicture ==
  ASSUME NEW s, NEW t, Picture(s), Picture(t), \A p \in Pixels : s[p] = t[p]
  PROVE  s = t
BY DEF Picture

LEMMA InitEstablishes == PointerInit => PointerInv
<1> SUFFICES ASSUME PointerInit PROVE PointerInv
  OBVIOUS
<1> DEFINE start == <<Start, Start>>
<1>1. /\ text = Black /\ Mouse = start /\ PrevMouse = start
      /\ MouseBg = SaveMouseBg(Black, start, [o \in Offsets |-> "black"])
      /\ framebuffer = Paint(Black, Square(start), "red")
      /\ interrupts = TRUE /\ at = "test"
  BY DEF PointerInit
<1>2. start \in Int \X Int
  BY PointerAssumption DEF PointerAssumption
<1>3. PointerTypeOK
  <2>1. Picture(Black)
    BY DEF Picture, Black
  <2> QED BY <1>1, <1>2, <2>1, PaintFacts DEF PointerTypeOK
<1>4. RedrawIsMasked /\ Painted /\ Bare /\ FollowsTheMouse
  BY <1>1 DEF RedrawIsMasked, Painted, Bare, FollowsTheMouse
<1>5. Saved
  BY <1>1 DEF Saved, CoversText, SaveMouseBg
<1> QED BY <1>3, <1>4, <1>5 DEF PointerInv

-----------------------------------------------------------------------------
(* The redraw, statement by statement.                                     *)
LEMMA FlagStepsPreserve ==
  ASSUME PointerInv, TestMouseMoved \/ Cli \/ Sti
  PROVE  PointerInv'
<1>1. /\ framebuffer' = framebuffer /\ text' = text /\ MouseBg' = MouseBg /\ PrevMouse' = PrevMouse
      /\ Mouse' = Mouse /\ disturbed' = disturbed
      /\ \/ at = "test" /\ at' = "cli" /\ interrupts' = interrupts
         \/ at = "cli" /\ at' = "restore" /\ interrupts' = FALSE
         \/ at = "sti" /\ at' = "test" /\ interrupts' = TRUE
  BY DEF TestMouseMoved, Cli, Sti, Loop, pointer
<1>2. Square(PrevMouse)' = Square(PrevMouse)
  BY <1>1 DEF Square, Plus
<1> QED BY <1>1, <1>2 DEF PointerInv, PointerTypeOK, RedrawIsMasked, Painted, Bare, Saved,
          FollowsTheMouse, CoversText, Picture, Paint, Plus

LEMMA RestorePreserves ==
  ASSUME PointerInv, RestoreMouseBg
  PROVE  PointerInv'
<1>1. /\ at = "restore" /\ at' = "follow"
      /\ text' = text /\ PrevMouse' = PrevMouse /\ Mouse' = Mouse
      /\ interrupts' = interrupts /\ disturbed' = disturbed
  BY DEF RestoreMouseBg, Loop, pointer
<1>2. framebuffer' = [p \in Pixels |-> IF p \in Square(PrevMouse)
                  THEN MouseBg[<<p[1] - PrevMouse[1], p[2] - PrevMouse[2]>>]
                  ELSE framebuffer[p]]
  BY DEF RestoreMouseBg
<1>3. /\ Picture(text) /\ PrevMouse \in Int \X Int
      /\ ~disturbed => /\ framebuffer = Paint(text, Square(PrevMouse), "red")
                       /\ CoversText(MouseBg, PrevMouse, text)
  BY <1>1 DEF PointerInv, PointerTypeOK, Painted, Saved
<1>4. Picture(framebuffer')
  BY <1>2 DEF Picture
<1>5. ASSUME ~disturbed PROVE framebuffer' = text
  <2>1. ASSUME NEW p \in Pixels PROVE framebuffer'[p] = text[p]
    <3>1. CASE p \in Square(PrevMouse)
      <4> DEFINE o == <<p[1] - PrevMouse[1], p[2] - PrevMouse[2]>>
      <4>1. o \in Offsets /\ Plus(PrevMouse, o) = p
        BY <1>3, <3>1, SquareFacts
      <4>2. MouseBg[o] = text[p]
        BY <1>3, <1>5, <2>1, <4>1 DEF CoversText
      <4> QED BY <1>2, <3>1, <4>2
    <3>2. CASE p \notin Square(PrevMouse)
      <4>1. framebuffer'[p] = framebuffer[p]
        BY <1>2, <3>2
      <4> QED BY <1>3, <1>5, <3>2, <4>1, PaintFacts
    <3> QED BY <3>1, <3>2
  <2> QED BY <1>3, <1>4, <2>1, SamePicture
<1> QED BY <1>1, <1>4, <1>5 DEF PointerInv, PointerTypeOK, RedrawIsMasked, Painted, Bare,
          Saved, FollowsTheMouse, Picture

LEMMA FollowPreserves ==
  ASSUME PointerInv, Follow
  PROVE  PointerInv'
<1>1. /\ at = "follow" /\ at' = "save" /\ PrevMouse' = Mouse
      /\ framebuffer' = framebuffer /\ text' = text /\ Mouse' = Mouse
      /\ interrupts' = interrupts /\ disturbed' = disturbed
  BY DEF Follow, Loop
<1> QED BY <1>1 DEF PointerInv, PointerTypeOK, RedrawIsMasked, Painted, Bare, Saved,
          FollowsTheMouse, Picture

LEMMA SavePreserves ==
  ASSUME PointerInv, Save
  PROVE  PointerInv'
<1>1. /\ at = "save" /\ at' = "draw" /\ MouseBg' = SaveMouseBg(framebuffer, PrevMouse, MouseBg)
      /\ framebuffer' = framebuffer /\ text' = text /\ Mouse' = Mouse /\ PrevMouse' = PrevMouse
      /\ interrupts' = interrupts /\ disturbed' = disturbed
  BY DEF Save, Loop
<1>2. ASSUME ~disturbed PROVE CoversText(MouseBg', PrevMouse, text)
  <2>1. framebuffer = text
    BY <1>1, <1>2 DEF PointerInv, Bare
  <2> QED BY <1>1, <2>1 DEF CoversText, SaveMouseBg
<1>3. Saved'
  BY <1>1, <1>2 DEF Saved, CoversText, Plus
<1> QED BY <1>1, <1>3 DEF PointerInv, PointerTypeOK, RedrawIsMasked, Painted, Bare,
          FollowsTheMouse, Picture

LEMMA DrawPreserves ==
  ASSUME PointerInv, DrawMouseCursor
  PROVE  PointerInv'
<1>1. /\ at = "draw" /\ at' = "sti" /\ framebuffer' = Paint(framebuffer, Square(Mouse), "red")
      /\ text' = text /\ Mouse' = Mouse /\ PrevMouse' = PrevMouse /\ MouseBg' = MouseBg
      /\ interrupts' = interrupts /\ disturbed' = disturbed
  BY DEF DrawMouseCursor, Loop, pointer
<1>2. PrevMouse = Mouse /\ (~disturbed => framebuffer = text)
  BY <1>1 DEF PointerInv, FollowsTheMouse, Bare
<1>3. Picture(framebuffer')
  BY <1>1, PaintFacts
<1>4. Painted'
  <2>1. Square(PrevMouse)' = Square(PrevMouse)
    BY <1>1 DEF Square, Plus
  <2>2. ~disturbed => framebuffer' = Paint(text, Square(PrevMouse), "red")
    BY <1>1, <1>2
  <2> QED BY <1>1, <2>1, <2>2 DEF Painted, Paint
<1>5. Saved'
  BY <1>1 DEF PointerInv, Saved, CoversText, Plus
<1> QED BY <1>1, <1>3, <1>4, <1>5 DEF PointerInv, PointerTypeOK, RedrawIsMasked, Bare,
          FollowsTheMouse, Picture

-----------------------------------------------------------------------------
LEMMA SignedByteIs ==
  ASSUME NEW m \in -256 .. 255
  PROVE  /\ SignedByte(m) \in -128 .. 127
         /\ m \in -128 .. 127 => SignedByte(m) = m
         /\ m > 127 => SignedByte(m) < 0
         /\ m < -128 => SignedByte(m) >= 0
<1>1. CASE m \in -128 .. 127
  <2>1. m + 128 \in 0 .. 255
    BY <1>1
  <2> QED BY <1>1, <2>1 DEF SignedByte
<1>2. CASE m > 127
  <2>1. m + 128 \in 256 .. 383
    BY <1>2
  <2>2. (m + 128) % 256 = m - 128
    BY <2>1
  <2> QED BY <1>2, <2>2 DEF SignedByte
<1>3. CASE m < -128
  <2>1. m + 128 \in -128 .. -1
    BY <1>3
  <2>2. (m + 128) % 256 = m + 384
    BY <2>1
  <2> QED BY <1>3, <2>2 DEF SignedByte
<1> QED BY <1>1, <1>2, <1>3

LEMMA ClampedType ==
  ASSUME NEW x \in Int, NEW size \in Nat, Size \in 1 .. size
  PROVE  /\ Clamped(x, size) \in 0 .. size - Size
         /\ x \in 0 .. size - Size => Clamped(x, size) = x
         /\ x < 0 => Clamped(x, size) = 0
         /\ x > size - Size => Clamped(x, size) = size - Size
BY DEF Clamped

(* One axis, to the right or, seen from the other edge, upwards.           *)
LEMMA AxisMoves ==
  ASSUME NEW size \in Nat, Size \in 1 .. size, NEW from \in Int, NEW by \in -256 .. 255
  PROVE  LET limit == size - Size
         IN  /\ Moves(from, Clamped(from + SignedByte(by), size), by, limit)
             /\ Moves(limit - from, limit - Clamped(from - SignedByte(by), size), by, limit)
<1> DEFINE step == SignedByte(by)
           limit == size - Size
           forth == Clamped(from + step, size)
           back == Clamped(from - step, size)
<1>1. /\ step \in -128 .. 127
      /\ by \in -128 .. 127 => step = by
      /\ by > 127 => step < 0
      /\ by < -128 => step >= 0
  BY SignedByteIs
<1> HIDE DEF step
<1>2. from + step \in Int /\ from - step \in Int /\ limit \in Nat
  BY <1>1
<1>3. /\ forth \in 0 .. limit
      /\ from + step \in 0 .. limit => forth = from + step
      /\ from + step < 0 => forth = 0
      /\ from + step > limit => forth = limit
  BY <1>2, ClampedType
<1>4. /\ back \in 0 .. limit
      /\ from - step \in 0 .. limit => back = from - step
      /\ from - step < 0 => back = 0
      /\ from - step > limit => back = limit
  BY <1>2, ClampedType
<1> HIDE DEF forth, back, limit
<1>5. Moves(from, forth, by, limit)
  BY <1>1, <1>2, <1>3 DEF Moves
<1>6. Moves(limit - from, limit - back, by, limit)
  BY <1>1, <1>2, <1>4 DEF Moves
<1> QED BY <1>5, <1>6 DEF forth, back, limit, step

(* What one packet does with the coordinates.                              *)
LEMMA HandlerMoves ==
  ASSUME NEW dx \in Deltas, NEW dy \in Deltas, Mouse \in Int \X Int, MouseHandler(dx, dy)
  PROVE  Mouse' \in Pixels /\ Follows(dx, dy)
<1>1. /\ Mouse' = <<Clamped(Mouse[1] + SignedByte(dx), Width),
                    Clamped(Mouse[2] - SignedByte(dy), Height)>>
      /\ dx \in -256 .. 255 /\ dy \in -256 .. 255 /\ Mouse[1] \in Int /\ Mouse[2] \in Int
  BY PointerAssumption DEF PointerAssumption, MouseHandler
<1>2. Mouse[1] + SignedByte(dx) \in Int /\ Mouse[2] - SignedByte(dy) \in Int
  <2>1. \A m \in -256 .. 255 : SignedByte(m) \in Int
    BY DEF SignedByte
  <2>2. SignedByte(dx) \in Int /\ SignedByte(dy) \in Int
    BY <1>1, <2>1
  <2> QED BY <1>1, <2>2
<1>3. Size \in 1 .. Width /\ Size \in 1 .. Height /\ Width \in Nat /\ Height \in Nat
  BY PointerAssumption DEF PointerAssumption
<1>4. Mouse' \in Pixels
  <2>1. /\ Clamped(Mouse[1] + SignedByte(dx), Width) \in 0 .. Width - Size
        /\ Clamped(Mouse[2] - SignedByte(dy), Height) \in 0 .. Height - Size
    BY <1>2, <1>3, ClampedType
  <2>2. 0 .. Width - Size \subseteq 0 .. Width - 1 /\ 0 .. Height - Size \subseteq 0 .. Height - 1
    BY <1>3
  <2> QED BY <1>1, <2>1, <2>2 DEF Pixels
<1>5. Follows(dx, dy)
  BY <1>1, <1>3, AxisMoves DEF Follows
<1> QED BY <1>4, <1>5

LEMMA MouseHandlerPreserves ==
  ASSUME PointerInv, NEW dx \in Deltas, NEW dy \in Deltas, MouseHandler(dx, dy)
  PROVE  PointerInv'
<1>1. /\ interrupts /\ interrupts' = interrupts /\ at' = at /\ disturbed' = disturbed
      /\ framebuffer' = framebuffer /\ text' = text /\ MouseBg' = MouseBg /\ PrevMouse' = PrevMouse
  BY DEF MouseHandler, pointer
<1>2. at \in {"test", "cli"}
  BY <1>1 DEF PointerInv, RedrawIsMasked
<1>3. Mouse' \in Int \X Int
  <2>1. Mouse' \in Pixels
    BY HandlerMoves DEF PointerInv, PointerTypeOK
  <2> QED BY <2>1, PointerAssumption DEF PointerAssumption, Pixels
<1>4. PointerTypeOK' /\ RedrawIsMasked' /\ Bare' /\ FollowsTheMouse'
  BY <1>1, <1>2, <1>3 DEF PointerInv, PointerTypeOK, RedrawIsMasked, Bare, FollowsTheMouse,
    Picture
<1>5. Painted'
  <2>1. Square(PrevMouse)' = Square(PrevMouse)
    BY <1>1 DEF Square, Plus
  <2> QED BY <1>1, <2>1 DEF PointerInv, Painted, Paint
<1>6. Saved'
  BY <1>1 DEF PointerInv, Saved, CoversText, Plus
<1> QED BY <1>4, <1>5, <1>6 DEF PointerInv

(* Text that does not touch the square of the pointer changes the screen   *)
(* and the text alike.                                                     *)
LEMMA TextPreserves ==
  ASSUME PointerInv, interrupts, interrupts' = interrupts, at' = at,
         PrevMouse' = PrevMouse, Mouse' = Mouse, MouseBg' = MouseBg,
         Picture(framebuffer'), Picture(text'),
         ~disturbed' => ~disturbed /\ \A p \in Pixels :
           IF p \in Square(PrevMouse) THEN framebuffer'[p] = framebuffer[p] /\ text'[p] = text[p]
           ELSE framebuffer[p] = text[p] => framebuffer'[p] = text'[p]
  PROVE  PointerInv'
<1>1. at \in {"test", "cli"} /\ PrevMouse \in Int \X Int
  BY DEF PointerInv, RedrawIsMasked, PointerTypeOK
<1>2. Square(PrevMouse)' = Square(PrevMouse)
  BY DEF Square, Plus
<1>3. ASSUME ~disturbed'
      PROVE  framebuffer' = Paint(text', Square(PrevMouse), "red")
  <2>1. framebuffer = Paint(text, Square(PrevMouse), "red")
    BY <1>1, <1>3 DEF PointerInv, Painted
  <2>2. ASSUME NEW p \in Pixels
        PROVE  framebuffer'[p] = IF p \in Square(PrevMouse) THEN "red" ELSE text'[p]
    <3>1. framebuffer[p] = IF p \in Square(PrevMouse) THEN "red" ELSE text[p]
      BY <2>1, <2>2, PaintFacts
    <3>2. CASE p \in Square(PrevMouse)
      BY <1>3, <2>2, <3>1, <3>2
    <3>3. CASE p \notin Square(PrevMouse)
      BY <1>3, <2>2, <3>1, <3>3
    <3> QED BY <3>2, <3>3
  <2>3. \A p \in Pixels : framebuffer'[p] = Paint(text', Square(PrevMouse), "red")[p]
    BY <2>2, PaintFacts
  <2> QED BY <2>3, SamePicture, PaintFacts
<1>4. Painted'
  BY <1>2, <1>3 DEF Painted, Paint
<1>5. Saved'
  <2> SUFFICES ASSUME ~disturbed', NEW o \in Offsets, Plus(PrevMouse, o) \in Pixels
               PROVE  MouseBg[o] = text'[Plus(PrevMouse, o)]
    BY DEF Saved, CoversText, Plus
  <2>1. MouseBg[o] = text[Plus(PrevMouse, o)]
    BY <1>1 DEF PointerInv, Saved, CoversText
  <2>2. Plus(PrevMouse, o) \in Square(PrevMouse)
    BY DEF Square
  <2> QED BY <2>1, <2>2
<1>6. PointerTypeOK' /\ RedrawIsMasked' /\ Bare' /\ FollowsTheMouse'
  BY <1>1 DEF PointerInv, PointerTypeOK, RedrawIsMasked, Bare, FollowsTheMouse, Picture
<1> QED BY <1>4, <1>5, <1>6 DEF PointerInv

LEMMA CharacterPreserves ==
  ASSUME PointerInv, NEW c, NEW colour, Character(c, colour)
  PROVE  PointerInv'
<1>1. /\ interrupts /\ interrupts' = interrupts /\ at' = at
      /\ PrevMouse' = PrevMouse /\ Mouse' = Mouse /\ MouseBg' = MouseBg
      /\ ~disturbed
      /\ text' = Paint(text, CellAt(c), colour)
      /\ framebuffer' = Paint(framebuffer, CellAt(c), colour)
      /\ ~disturbed' => CellAt(c) \cap Square(PrevMouse) = {}
  BY DEF Character, Writes, pointer
<1>2. Picture(framebuffer') /\ Picture(text')
  BY <1>1, PaintFacts
<1>3. ASSUME NEW p \in Pixels
      PROVE  /\ framebuffer'[p] = IF p \in CellAt(c) THEN colour ELSE framebuffer[p]
             /\ text'[p] = IF p \in CellAt(c) THEN colour ELSE text[p]
  BY <1>1, PaintFacts
<1> QED BY <1>1, <1>2, <1>3, TextPreserves

(* Scrolling and clearing leave the pointer undisturbed only where it has  *)
(* no pixel on the screen.                                                 *)
LEMMA ScreenPreserves ==
  ASSUME PointerInv, ScrollText \/ ClearText
  PROVE  PointerInv'
<1>1. /\ interrupts /\ interrupts' = interrupts /\ at' = at
      /\ PrevMouse' = PrevMouse /\ Mouse' = Mouse /\ MouseBg' = MouseBg
      /\ ~disturbed
      /\ \/ text' = Scrolled(text) /\ framebuffer' = Scrolled(framebuffer)
         \/ text' = Black /\ framebuffer' = Black
      /\ ~disturbed' => Pixels \cap Square(PrevMouse) = {}
  BY DEF ScrollText, ClearText, Writes, pointer
<1>2. Picture(framebuffer') /\ Picture(text')
  BY <1>1 DEF Scrolled, Black, Picture
<1>3. ASSUME ~disturbed' PROVE framebuffer' = text' /\ Square(PrevMouse) = {}
  <2>1. Square(PrevMouse) = {}
    BY <1>1, <1>3 DEF Square
  <2>2. framebuffer = Paint(text, Square(PrevMouse), "red") /\ Picture(text)
    BY <1>1 DEF PointerInv, PointerTypeOK, Painted, RedrawIsMasked
  <2>3. framebuffer = text
    BY <2>1, <2>2, SamePicture, PaintFacts
  <2> QED BY <1>1, <2>1, <2>3
<1> QED BY <1>1, <1>2, <1>3, TextPreserves

-----------------------------------------------------------------------------
(* At each statement of the redraw (main.c) the frame buffer is the text   *)
(* with or without the pointer, and the saved background is the text under *)
(* it, until text is written there; interrupts are off from cli to sti.    *)
THEOREM PointerInvariant == PointerSpec => []PointerInv
<1>1. PointerInv /\ [PointerNext]_pointerVars => PointerInv'
  <2> SUFFICES ASSUME PointerInv, [PointerNext]_pointerVars PROVE PointerInv'
    OBVIOUS
  <2>1. CASE Redraw
    BY <2>1, FlagStepsPreserve, RestorePreserves, FollowPreserves, SavePreserves,
      DrawPreserves DEF Redraw
  <2>2. CASE KeyboardHandler
    BY <2>2, CharacterPreserves, ScreenPreserves DEF KeyboardHandler
  <2>3. CASE \E dx, dy \in Deltas : MouseHandler(dx, dy)
    BY <2>3, MouseHandlerPreserves
  <2>4. CASE UNCHANGED pointerVars
    <3>1. /\ framebuffer' = framebuffer /\ text' = text /\ MouseBg' = MouseBg
          /\ PrevMouse' = PrevMouse /\ Mouse' = Mouse /\ interrupts' = interrupts
          /\ at' = at /\ disturbed' = disturbed
      BY <2>4 DEF pointerVars, pointer
    <3>2. Square(PrevMouse)' = Square(PrevMouse)
      BY <3>1 DEF Square, Plus
    <3> QED BY <3>1, <3>2 DEF PointerInv, PointerTypeOK, RedrawIsMasked, Painted, Bare, Saved,
          FollowsTheMouse, CoversText, Picture, Paint, Plus
  <2> QED BY <2>1, <2>2, <2>3, <2>4 DEF PointerNext
<1> QED BY InitEstablishes, <1>1, PTL DEF PointerSpec

(* Between redraws the screen is the text with one pointer over it, for    *)
(* every screen and pointer and whatever packets and keys come in between. *)
THEOREM PointerOverText == PointerSpec => []OnePointerOverText
<1>1. PointerInv => OnePointerOverText
  BY DEF PointerInv, Painted, Saved, CoversText, OnePointerOverText
<1> QED BY <1>1, PointerInvariant, PTL

(* A packet moves the pointer as far as it says or to the edge it would    *)
(* pass, on both axes, for every movement of eight bits; one of nine bits  *)
(* moves it the other way.  For every screen and pointer.                  *)
THEOREM PointerMoves == PointerSpec => PointerFollows
<1>1. PointerInv => Mouse \in Int \X Int
  BY DEF PointerInv, PointerTypeOK
<1>2. Mouse \in Int \X Int =>
        \A dx, dy \in Deltas : MouseHandler(dx, dy) => Follows(dx, dy)
  BY HandlerMoves
<1> QED BY <1>1, <1>2, PointerInvariant, PTL DEF PointerFollows
==============================================================================
