------------------------------ MODULE Pointer ------------------------------
(***************************************************************************)
(* The mouse pointer drawn over the console: SaveMouseBg, RestoreMouseBg   *)
(* and DrawMouseCursor (src/src/display.c), the redraw of the main loop    *)
(* (src/main.c) statement by statement, and MouseHandler's coordinates     *)
(* (src/src/mouse.c).  Between the statements, while interrupts are on,    *)
(* mouse packets arrive and the keyboard handler draws and scrolls text.   *)
(***************************************************************************)
EXTENDS Integers

CONSTANTS
  Width, Height,   \* GlobalWidth, GlobalHeight, in pixels
  Size,            \* side of the pointer (5)
  Cell,            \* side of a character (8)
  Deltas,          \* movements in a packet: nine bits, -256 .. 255
  Start            \* where MouseX and MouseY start (500)

ASSUME PointerAssumption ==
  /\ Width \in Nat /\ Height \in Nat /\ Cell \in Nat \ {0}
  /\ Size \in 1 .. Width /\ Size \in 1 .. Height
  /\ Deltas \subseteq -256 .. 255 /\ Start \in Nat

VARIABLES
  framebuffer,          \* the frame buffer: pixel |-> colour
  text,            \* what it would show without a pointer
  MouseBg,         \* offset in the pointer |-> colour saved
  Mouse, PrevMouse,   \* <<MouseX, MouseY>>, <<PrevMouseX, PrevMouseY>>
  MouseMoved,
  interrupts,      \* the interrupt flag
  at,              \* the main loop's next statement
  disturbed        \* text was drawn or moved under the pointer

pointer == <<MouseBg, PrevMouse>>
pointerVars == <<framebuffer, text, pointer, Mouse, MouseMoved, interrupts, at, disturbed>>

Pixels == (0 .. Width - 1) \X (0 .. Height - 1)
Offsets == (0 .. Size - 1) \X (0 .. Size - 1)
Plus(p, o) == <<p[1] + o[1], p[2] + o[2]>>
Square(p) == {Plus(p, o) : o \in Offsets} \cap Pixels

Paint(s, area, colour) == [p \in Pixels |-> IF p \in area THEN colour ELSE s[p]]

Black == [p \in Pixels |-> "black"]
SaveMouseBg(s, p, bg) ==
  [o \in Offsets |-> IF Plus(p, o) \in Pixels THEN s[Plus(p, o)] ELSE bg[o]]

(* efi_main before its loop.                                               *)
PointerInit ==
  LET start == <<Start, Start>> IN
  /\ text = Black
  /\ Mouse = start /\ PrevMouse = start
  /\ MouseBg = SaveMouseBg(Black, start, [o \in Offsets |-> "black"])
  /\ framebuffer = Paint(Black, Square(start), "red")
  /\ MouseMoved = FALSE /\ interrupts = TRUE /\ at = "test" /\ disturbed = FALSE

-----------------------------------------------------------------------------
Loop(s, t) == at = s /\ at' = t

TestMouseMoved == Loop("test", "cli") /\ MouseMoved
       /\ UNCHANGED <<framebuffer, text, pointer, Mouse, MouseMoved, interrupts, disturbed>>
CliForgotten == Loop("cli", "restore")            \* mutant: interrupts stay on
       /\ UNCHANGED <<framebuffer, text, pointer, Mouse, MouseMoved, interrupts, disturbed>>
Cli == Loop("cli", "restore") /\ interrupts' = FALSE
       /\ UNCHANGED <<framebuffer, text, pointer, Mouse, MouseMoved, disturbed>>
RestoreMouseBg ==
  /\ Loop("restore", "follow")
  /\ framebuffer' = [p \in Pixels |-> IF p \in Square(PrevMouse)
                  THEN MouseBg[<<p[1] - PrevMouse[1], p[2] - PrevMouse[2]>>]
                  ELSE framebuffer[p]]
  /\ UNCHANGED <<text, pointer, Mouse, MouseMoved, interrupts, disturbed>>
Follow == Loop("follow", "save") /\ PrevMouse' = Mouse
          /\ UNCHANGED <<framebuffer, text, MouseBg, Mouse, MouseMoved, interrupts, disturbed>>
Save == Loop("save", "draw") /\ MouseBg' = SaveMouseBg(framebuffer, PrevMouse, MouseBg)
        /\ UNCHANGED <<framebuffer, text, PrevMouse, Mouse, MouseMoved, interrupts, disturbed>>
DrawMouseCursor ==
  /\ Loop("draw", "sti")
  /\ framebuffer' = Paint(framebuffer, Square(Mouse), "red")
  /\ MouseMoved' = FALSE
  /\ UNCHANGED <<text, pointer, Mouse, interrupts, disturbed>>
Sti == Loop("sti", "test") /\ interrupts' = TRUE
       /\ UNCHANGED <<framebuffer, text, pointer, Mouse, MouseMoved, disturbed>>

Redraw == TestMouseMoved \/ Cli \/ RestoreMouseBg \/ Follow \/ Save
          \/ DrawMouseCursor \/ Sti

-----------------------------------------------------------------------------
(* `MouseX < 0` compares signed, `MouseX >= GlobalWidth - 5` as UINT32, in *)
(* which a negative value is a large one: the first test comes first.      *)
HighFirst(x, size) ==                       \* mutant: the tests swapped
  IF x < 0 \/ x >= size - Size THEN size - Size ELSE x
Clamped(x, size) == IF x < 0 THEN 0 ELSE IF x >= size - Size THEN size - Size ELSE x

(* The packet has the low eight bits of a movement in its second and third *)
(* byte and the signs in its first, where the code does not look: it takes *)
(* each of the others for a signed number.                                 *)
SignedByte(m) == ((m + 128) % 256) - 128

(* A packet without an overflow bit is complete.                           *)
MouseHandler(dx, dy) ==
  /\ interrupts
  /\ Mouse' = <<Clamped(Mouse[1] + SignedByte(dx), Width),
                Clamped(Mouse[2] - SignedByte(dy), Height)>>
  /\ MouseMoved' = TRUE
  /\ UNCHANGED <<framebuffer, text, pointer, interrupts, at, disturbed>>

(* The keyboard handler draws a character, erases one, scrolls, clears.    *)
(* Bound: not once it has disturbed the pointer; nothing is stated of      *)
(* later writes.                                                           *)
Writes(f(_), area) ==
  /\ interrupts /\ ~disturbed
  /\ text' = f(text) /\ framebuffer' = f(framebuffer)
  /\ disturbed' = (disturbed \/ area \cap Square(PrevMouse) # {})
  /\ UNCHANGED <<pointer, Mouse, MouseMoved, interrupts, at>>

CellAt(c) == {p \in Pixels : p[1] \div Cell = c[1] /\ p[2] \div Cell = c[2]}
Scrolled(s) == [p \in Pixels |->
  IF p[2] + Cell < Height THEN s[<<p[1], p[2] + Cell>>] ELSE "black"]

Character(c, colour) ==
  LET Glyph(s) == Paint(s, CellAt(c), colour) IN Writes(Glyph, CellAt(c))
ScrollText == Writes(Scrolled, Pixels)
ClearText == LET Clear(s) == Black IN Writes(Clear, Pixels)

KeyboardHandler ==
  \/ \E c \in (0 .. (Width - 1) \div Cell) \X (0 .. (Height - 1) \div Cell),
        colour \in {"white", "black"} : Character(c, colour)
  \/ ScrollText \/ ClearText

PointerNext == Redraw \/ KeyboardHandler \/ \E dx, dy \in Deltas : MouseHandler(dx, dy)

PointerSpec == PointerInit /\ [][PointerNext]_pointerVars

-----------------------------------------------------------------------------
(* Between redraws the screen shows the text and one pointer, whose saved  *)
(* background is the text it covers, until text is written under it        *)
(* (display.c:115 then puts old pixels back).                              *)
OnePointerOverText ==
  at = "test" /\ ~disturbed =>
    /\ framebuffer = Paint(text, Square(PrevMouse), "red")
    /\ \A o \in Offsets : LET p == Plus(PrevMouse, o) IN
         p \in Pixels => MouseBg[o] = text[p]

(* A packet leaves the pointer on the screen, whole.  If it was, it moves  *)
(* on each axis as far as the packet says, or to the edge it would pass    *)
(* and never to the other, in either direction.  Movements that need the   *)
(* ninth bit go the other way: mouse.c:39 does not look at the signs.      *)
Moves(from, to, by, limit) ==
  /\ to \in 0 .. limit
  /\ from \in 0 .. limit =>
       IF by \in -128 .. 127
       THEN \/ to = from + by
            \/ to = 0 /\ from + by < 0
            \/ to = limit /\ from + by > limit
       ELSE (by > 0 => to <= from) /\ (by < 0 => to >= from)

(* The second axis counts upwards in the packet, downwards on the screen.  *)
Follows(dx, dy) ==
  LET right == Width - Size
      bottom == Height - Size
  IN  /\ Moves(Mouse[1], Mouse'[1], dx, right)
      /\ Moves(bottom - Mouse[2], bottom - Mouse'[2], dy, bottom)

PointerFollows ==
  [][\A dx, dy \in Deltas : MouseHandler(dx, dy) => Follows(dx, dy)]_pointerVars
==============================================================================
