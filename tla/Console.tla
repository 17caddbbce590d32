------------------------------ MODULE Console ------------------------------
(***************************************************************************)
(* The text console: the command line of shell.c, the cursor and the       *)
(* drawing primitives of display.c, and what KeyboardHandler does with a   *)
(* character, Backspace, Ctrl+V and Enter.                                 *)
(*                                                                         *)
(* Every cursor movement of the code is a multiple of 8 pixels, so the     *)
(* screen is a grid of 8x8 cells.  Drawing sets the pixels of a glyph and  *)
(* leaves the others alone: a cell holds the set of glyphs drawn on it     *)
(* since it was last blanked.  Writes below the last row land outside the  *)
(* frame buffer and show nowhere.                                          *)
(*                                                                         *)
(* A command runs inside the keyboard interrupt.  `pending` is the rest of *)
(* its output statements; Step executes one.  Which command the line names *)
(* is left open: Enter on a non-empty line runs any of Commands.           *)
(***************************************************************************)
EXTENDS Integers, Sequences

CONSTANTS
  Cols,         \* GlobalWidth / 8
  Rows,         \* GlobalHeight / 8
  PromptCols,   \* length of "tartarus> " (10)
  MaxLine,      \* the 255 characters CommandBuffer holds before its NUL
  Chars,        \* what the keyboard can type
  Clips,        \* texts the commands copy to Clipboard
  Commands,     \* the commands in use, a subset of DOMAIN Outcomes
  Repeats,      \* bound: entries ls, pci and mem list, bytes autopsy dumps
  FieldCols,    \* the 160 pixels diskread moves per field, in cells
  DumpCols      \* the column behind which autopsy breaks the line (700 / 8)

ASSUME ConsoleAssumption ==
  /\ Cols \in Nat /\ Rows \in Nat /\ PromptCols \in Nat /\ MaxLine \in Nat
  /\ Rows >= 3
  /\ PromptCols < Cols
  /\ PromptCols + MaxLine <= Cols * (Rows - 1)
  /\ FieldCols \in Nat /\ Repeats \in Nat /\ Clips \subseteq Seq(Chars)

VARIABLES
  screen,         \* the frame buffer: row |-> column |-> set of glyphs
  CursorX,        \* in cells
  CursorY,        \* in cells
  CommandBuffer,  \* the characters before BufferIndex
  Clipboard,      \* text of the last sysinfo, read or alloc
  pending,        \* output statements the running handler still executes
  stale           \* the last command left its line in CommandBuffer

vars == <<screen, CursorX, CursorY, CommandBuffer, Clipboard, pending, stale>>

Prompt == "prompt"   \* glyphs that are not typed characters: the shell's prompt
Text   == "text"     \* and whatever the banner and the commands print

BlankRow == [x \in 0 .. Cols - 1 |-> {}]

BufferIndex == Len(CommandBuffer)

-----------------------------------------------------------------------------
(* Cursor and screen after a drawing statement: records [scr, x, y].       *)

Here == [scr |-> screen, x |-> CursorX, y |-> CursorY]

(* DrawChar for n cells in a row; DrawString of text whose length does not *)
(* matter fills the rest of the row.                                       *)
Draw(s, n, glyph) ==
  [s EXCEPT !.scr = [r \in 0 .. Rows - 1 |-> [c \in 0 .. Cols - 1 |->
     IF r = s.y /\ c \in s.x .. s.x + n - 1 THEN @[r][c] \cup {glyph} ELSE @[r][c]]]]

DrawText(s) == Draw(s, Cols, Text)

EraseCharBlock(s) ==
  [s EXCEPT !.scr = [r \in 0 .. Rows - 1 |-> [c \in 0 .. Cols - 1 |->
     IF r = s.y /\ c = s.x THEN {} ELSE @[r][c]]]]

ScrollScreen(scr) ==
  [r \in 0 .. Rows - 1 |-> IF r = Rows - 1 THEN BlankRow ELSE scr[r + 1]]

Right(s, n) == [s EXCEPT !.x = @ + n]
Down(s, n)  == [s EXCEPT !.y = @ + n]
Home(s)     == [s EXCEPT !.x = 0]

WrapNeverScrolls(s) ==   \* mutant: the row is not compared with GlobalHeight
  IF s.x >= Cols THEN Down(Home(s), 1) ELSE s

UpdateCursor(s) ==
  LET w == IF s.x >= Cols THEN Down(Home(s), 1) ELSE s
  IN  IF w.y >= Rows THEN [w EXCEPT !.scr = ScrollScreen(@), !.y = @ - 1] ELSE w

ClearScreen == [scr |-> [r \in 0 .. Rows - 1 |-> BlankRow], x |-> 0, y |-> 0]

PrintPrompt(s) == Right(Draw(s, PromptCols, Prompt), PromptCols)

(* The statement pair `CursorY += 8; UpdateCursor();`                      *)
NewLine(s) == UpdateCursor(Down(s, 1))

Becomes(s) == screen' = s.scr /\ CursorX' = s.x /\ CursorY' = s.y

-----------------------------------------------------------------------------
(* What each command prints, one element per statement group.  A command   *)
(* has several outcomes where its arguments, the heap or the disk decide.  *)

Line == [do |-> "line"]                        \* DrawString; CursorY += 8; UpdateCursor
Put  == [do |-> "put"]                         \* DrawString
Skip(n) == [do |-> "skip", n |-> n]            \* CursorY += 8 * n
Update == [do |-> "update"]
Field == [do |-> "field"]                      \* DrawString; CursorX += 160; UpdateCursor
Dump  == [do |-> "dump"]                       \* autopsy's loop body
Return == [do |-> "return"]                    \* CursorX = 0; CursorY += 8; UpdateCursor
Clear == [do |-> "clear"]
Copy(t) == [do |-> "copy", text |-> t]         \* strcpy_custom(Clipboard, hexBuf)
Echo(c) == [do |-> "echo", char |-> c]
Finish == [do |-> "finish"]                    \* the tail of ExecuteCommand

Times(n, ops) == [i \in 1 .. n * Len(ops) |-> ops[((i - 1) % Len(ops)) + 1]]

Finished(outcomes) == {Append(ops, Finish) : ops \in outcomes}

Usage == <<Line>>

(* ScanPCIBus, per device: a row, CursorY += 8, a row, CursorY += 16.      *)
PciEntry == <<Put, Skip(1), Put, Skip(2), Update>>

(* AnalyzePhysicalMemory behind the list of regions.                       *)
MemTotals == <<Skip(1), Put, Skip(1), Put, Skip(1), Put, Skip(1), Put, Skip(1), Update>>

Outcomes ==
  [clear    |-> Finished({<<Clear>>}),
   about    |-> Finished({<<Line>>}),
   sysinfo  |-> Finished({<<Line, Line, Copy(t)>> : t \in Clips}),
   ls       |-> Finished({<<>>} \cup {Times(n, <<Line>>) : n \in 1 .. Repeats + 1}),
   autopsy  |-> Finished({<<>>, <<Line>>} \cup
                         {<<Line>> \o Times(n, <<Dump>>) \o <<Return>> : n \in 0 .. Repeats}),
   read     |-> Finished({Usage} \cup {<<Line, Copy(t)>> : t \in Clips}),
   alloc    |-> Finished({Usage} \cup {<<Copy(t), Line>> : t \in Clips}),
   free     |-> Finished({Usage}),
   diskread |-> Finished({Usage, <<Line, Line>>,
                          <<Line, Line>> \o Times(4, <<Field>>) \o <<Return>>})
                \cup {<<Line>>},               \* malloc failed: return at once
   write    |-> Finished({Usage, <<Line, Line>>}),
   recon    |-> Finished({<<Put, Skip(1), Put, Skip(1), Put, Skip(1), Update>>}),
   pci      |-> Finished({<<Line>> \o Times(n, PciEntry) \o <<Line>> : n \in 0 .. Repeats}),
   mem      |-> Finished({<<Line>> \o Times(n, <<Line>>) \o MemTotals : n \in 0 .. Repeats}),
   unknown  |-> Finished({<<Line>>})]

-----------------------------------------------------------------------------
(* efi_main: a banner on the first row, CursorY = 16, a prompt.            *)
Booted == PrintPrompt(Down(DrawText(ClearScreen), 2))

Init ==
  /\ screen = Booted.scr /\ CursorX = Booted.x /\ CursorY = Booted.y
  /\ CommandBuffer = <<>>
  /\ Clipboard = <<>>
  /\ pending = <<>>
  /\ stale = FALSE

(* Append c to the line and echo it, unless the buffer is full.            *)
EchoChar(c) ==
  IF BufferIndex < MaxLine
  THEN /\ CommandBuffer' = Append(CommandBuffer, c)
       /\ Becomes(UpdateCursor(Right(Draw(Here, 1, c), 1)))
  ELSE UNCHANGED <<CommandBuffer, screen, CursorX, CursorY>>

Type(c) ==
  /\ pending = <<>>
  /\ EchoChar(c)
  /\ UNCHANGED <<Clipboard, pending, stale>>

(* Ctrl+V echoes the clipboard character by character.                     *)
Paste ==
  /\ pending = <<>>
  /\ pending' = [k \in 1 .. Len(Clipboard) |-> Echo(Clipboard[k])]
  /\ UNCHANGED <<screen, CursorX, CursorY, CommandBuffer, Clipboard, stale>>

BackspaceStaysOnRow ==   \* mutant: CursorX is not wrapped to the row above
  /\ pending = <<>>
  /\ CommandBuffer # <<>>
  /\ CommandBuffer' = SubSeq(CommandBuffer, 1, BufferIndex - 1)
  /\ Becomes(EraseCharBlock(Right(Here, IF CursorX = 0 THEN 0 ELSE -1)))
  /\ UNCHANGED <<Clipboard, pending, stale>>

Backspace ==
  /\ pending = <<>>
  /\ CommandBuffer # <<>>
  /\ CommandBuffer' = SubSeq(CommandBuffer, 1, BufferIndex - 1)
  /\ LET left == Right(Here, -1)
     IN  Becomes(EraseCharBlock(
           IF left.x < 0 THEN [left EXCEPT !.x = Cols - 1, !.y = @ - 1] ELSE left))
  /\ UNCHANGED <<Clipboard, pending, stale>>

(* Enter: ExecuteCommand up to the choice of the command.                  *)
Enter ==
  /\ pending = <<>>
  /\ LET s == NewLine(Home(Here))
     IN  IF CommandBuffer = <<>>
         THEN Becomes(PrintPrompt(s)) /\ stale' = FALSE /\ UNCHANGED pending
         ELSE /\ Becomes(s)
              /\ \E cmd \in Commands : pending' \in Outcomes[cmd]
              /\ stale' = TRUE
  /\ UNCHANGED <<CommandBuffer, Clipboard>>

(* One statement of the running command, or one character of a paste.      *)
Draws(op) ==
  CASE op.do = "line"   -> NewLine(DrawText(Here))
    [] op.do = "put"    -> DrawText(Here)
    [] op.do = "skip"   -> Down(Here, op.n)
    [] op.do = "update" -> UpdateCursor(Here)
    [] op.do = "field"  -> UpdateCursor(Right(Draw(Here, FieldCols, Text), FieldCols))
    [] op.do = "dump"   -> LET s == UpdateCursor(Right(Draw(Here, 1, Text), 1))
                           IN  IF s.x > DumpCols THEN Down(Home(s), 1) ELSE s
    [] op.do = "return" -> NewLine(Home(Here))
    [] op.do = "clear"  -> ClearScreen
    [] op.do = "copy"   -> Here
    [] op.do = "finish" -> PrintPrompt(Here)

Step ==
  /\ pending # <<>>
  /\ pending' = Tail(pending)
  /\ LET op == Head(pending)
     IN  IF op.do = "echo"
         THEN EchoChar(op.char) /\ UNCHANGED <<Clipboard, stale>>
         ELSE /\ Becomes(Draws(op))
              /\ Clipboard' = IF op.do = "copy" THEN op.text ELSE Clipboard
              /\ CommandBuffer' = IF op.do = "finish" THEN <<>> ELSE CommandBuffer
              /\ stale' = (stale /\ op.do # "finish")

Next ==
  \/ \E c \in Chars : Type(c)
  \/ Paste
  \/ Backspace
  \/ Enter
  \/ Step

Spec == Init /\ [][Next]_vars

-----------------------------------------------------------------------------
(* Whatever was typed, pasted, erased or printed, the cursor stands on the *)
(* screen between any two statements: no drawing at the cursor writes      *)
(* outside the frame buffer (display.c:56).  It holds for the commands     *)
(* that pair every row with an UpdateCursor.                               *)
CursorOnScreen == CursorX \in 0 .. Cols - 1 /\ CursorY \in 0 .. Rows - 1

(* The cell n characters before the cursor.                                *)
Behind(n) ==
  LET i == CursorY * Cols + CursorX - n
  IN  screen[i \div Cols][i % Cols]

(* What the user sees is what Enter will execute: whenever the shell waits *)
(* for a key, the cells before the cursor show a prompt and then exactly   *)
(* the characters of CommandBuffer, drawn over nothing else - through line *)
(* wrap, scrolling, Backspace across a wrap, paste into a nearly full line *)
(* and every command.                                                      *)
LineIsVisible ==
  pending = <<>> /\ ~stale =>
    /\ \A k \in 1 .. BufferIndex :
         Behind(BufferIndex - k + 1) = {CommandBuffer[k]}
    /\ \A k \in 1 .. PromptCols : Behind(BufferIndex + k) = {Prompt}

(* pci.c:42 "Scans the entire PCI architecture and prints existing         *)
(* hardware": every row a command draws is on the screen.                  *)
PrintsOnScreen ==
  pending # <<>> /\ Head(pending).do \in {"line", "put", "field", "dump", "finish"} =>
    CursorY \in 0 .. Rows - 1
==============================================================================
