------------------------------- MODULE Input --------------------------------
(***************************************************************************)
(* How bytes from the keyboard and the mouse reach their handlers: the     *)
(* 8042 controller with its single output buffer, the two cascaded PICs,   *)
(* KeyboardHandler, MouseHandler, the polling loop of DebuggerEngine and   *)
(* the main loop of efi_main that redraws the mouse cursor.                *)
(*                                                                         *)
(* Interrupt gates clear IF and the wrappers end in `sti; iretq`, so one   *)
(* handler runs at a time; the controller and the PICs act between any two *)
(* of its port accesses.  A payload started by `run` executes inside       *)
(* KeyboardHandler: while it is stopped, DebuggerEngine polls the          *)
(* controller and takes every byte, whichever device sent it.              *)
(***************************************************************************)
EXTENDS Integers, Sequences

CONSTANTS
  Keys,        \* the modifier keys of the keyboard
  Modifier     \* key |-> the flag its scancode sets; E0 prefixes are not looked at

ASSUME InputAssumption == DOMAIN Modifier = Keys

VARIABLES
  obf,          \* the byte in the output buffer, or Empty
  last,         \* what port 0x60 returns when the buffer is empty
  irr, isr,     \* requests and lines in service; the slave's 12 is the master's 2
  handler,      \* what the running handler does next, "none" in the main loop
  pc,           \* the main loop
  mouse_byte,   \* the bytes below mouse_cycle: each one's place in the packet sent
  MouseMoved,
  modifiers,    \* those of LeftShift, RightShift, LeftCtrl that are 1
  held,         \* keys that are physically down
  auxPos,       \* place of the next byte the mouse sends
  strayed,      \* devices whose handler missed a byte of theirs, or was given
                \* one that is not theirs or that it had before
  polled        \* answers were polled, with a keyboard request left over, or
                \* a debugger session has polled

ctlVars   == <<obf, last>>
picVars   == <<irr, isr>>
mouseVars == <<mouse_byte, MouseMoved>>
devVars   == <<held, auxPos>>
vars == <<ctlVars, picVars, handler, pc, mouseVars, modifiers, devVars, strayed, polled>>

Kbd == "kbd"
Aux == "aux"
Irq(src) == IF src = Kbd THEN 1 ELSE 12

Empty == [src |-> "none"]

(* Scancodes, by what their readers do with them: a modifier going down or *)
(* up, a key of the line (Enter, or one that edits it), and the bytes that *)
(* KeyboardHandler ignores: E0 and the release of other keys, Space among  *)
(* them.  A byte of the mouse is a movement, and may look like any of      *)
(* these.                                                                  *)
KbdBytes ==
  [src : {Kbd}, key : Keys, up : BOOLEAN] \cup
  [src : {Kbd}, code : {"line", "release"}]
AuxBytes == [src : {Aux}, pos : 0 .. 2]

Changes(b) == b.src = Kbd /\ "key" \in DOMAIN b
Is(b, code) == b.src = Kbd /\ "code" \in DOMAIN b /\ b.code = code

(* SetupPIC writes the masks 0xF9 and 0xEF.                                *)
KeyboardOnly == {1}                 \* mutant: the slave stays masked
Unmasked == {1, 12}

-----------------------------------------------------------------------------
(* Boot leaves the buffer empty, but InitPS2Mouse polled for its answers   *)
(* with both lines unmasked, so their requests may still be latched.  The  *)
(* last one, 0xFA, looks like a release to KeyboardHandler.                *)
Init ==
  /\ obf = Empty
  /\ last = [src |-> Kbd, code |-> "release"]
  /\ irr \in SUBSET {1, 12}
  /\ isr = {}
  /\ handler = "none"
  /\ pc = "test"
  /\ mouse_byte = <<>>
  /\ MouseMoved = FALSE
  /\ modifiers = {}
  /\ held = {}
  /\ auxPos = 0
  /\ strayed = {}
  /\ polled = (1 \in irr)

-----------------------------------------------------------------------------
(* Devices and controller: a byte enters the empty buffer and its line     *)
(* rises, which the PIC latches.                                           *)
Load(b) ==
  /\ obf = Empty
  /\ obf' = b
  /\ irr' = irr \cup {Irq(b.src)}
  /\ UNCHANGED <<last, isr, handler, pc, mouseVars, modifiers, strayed, polled>>

(* A key goes down, repeats while it is held, or comes up.                *)
KeyEvent(b) ==
  /\ Load(b)
  /\ Changes(b) /\ b.up => b.key \in held
  /\ held' = IF Changes(b) THEN IF b.up THEN held \ {b.key} ELSE held \cup {b.key}
                           ELSE held
  /\ UNCHANGED auxPos

MouseEvent ==
  /\ Load([src |-> Aux, pos |-> auxPos])
  /\ auxPos' = (auxPos + 1) % 3
  /\ UNCHANGED held

(* inb(0x60): the byte in the buffer, or the previous one again.           *)
DataPort == IF obf = Empty THEN last ELSE obf

TakeByte(reader) ==
  /\ obf' = Empty
  /\ last' = DataPort
  /\ LET own == obf # Empty /\ obf.src = reader
         missed == IF obf = Empty \/ own THEN {} ELSE {obf.src}
         given == IF own \/ Is(DataPort, "release") THEN {} ELSE {reader} \cap {Kbd, Aux}
     IN  strayed' = strayed \cup missed \cup given

(* The CPU accepts the most urgent unmasked request that nothing in        *)
(* service holds back.  From `hlt` it goes on to the top of the main loop. *)
InService(i) == IF i = 1 THEN {1} ELSE {2, 12}
HeldBack(i) == isr \cap (IF i = 1 THEN {1} ELSE {1, 2, 12}) # {}

Dispatch ==
  /\ handler = "none"
  /\ \E i \in irr \cap Unmasked :
       /\ ~HeldBack(i)
       /\ \A j \in irr \cap Unmasked : i <= j
       /\ irr' = irr \ {i}
       /\ isr' = isr \cup InService(i)
       /\ handler' = IF i = 1 THEN "kbd" ELSE "mouse"
  /\ pc' = IF pc = "asleep" THEN "test" ELSE pc
  /\ UNCHANGED <<ctlVars, mouseVars, modifiers, devVars, strayed, polled>>

(* outb(0x20, 0x20) ends the master's most urgent line in service,         *)
(* outb(0xA0, 0x20) the slave's; behind the last one the handler returns.  *)
MasterEoi ==
  /\ handler \in {"eoi", "eoi both"}
  /\ isr' = isr \ {IF 1 \in isr THEN 1 ELSE 2}
  /\ handler' = IF handler = "eoi" THEN "none" ELSE "slave eoi"
  /\ UNCHANGED <<ctlVars, irr, pc, mouseVars, modifiers, devVars, strayed, polled>>

SlaveEoi ==
  /\ handler \in {"slave eoi", "slave eoi first"}
  /\ isr' = isr \ {12}
  /\ handler' = IF handler = "slave eoi" THEN "none" ELSE "eoi"
  /\ UNCHANGED <<ctlVars, irr, pc, mouseVars, modifiers, devVars, strayed, polled>>

EndOfInterrupt == MasterEoi \/ SlaveEoi

-----------------------------------------------------------------------------
KeyboardHandlerForgetsRelease ==   \* mutant: a release is not looked at
  /\ handler = "kbd"
  /\ TakeByte(Kbd)
  /\ modifiers' = IF Changes(DataPort) /\ ~DataPort.up
                  THEN modifiers \cup {Modifier[DataPort.key]} ELSE modifiers
  /\ handler' = "eoi"
  /\ UNCHANGED <<picVars, pc, mouseVars, devVars, polled>>

(* A byte of the mouse may set or clear a flag, or be taken for Enter.     *)
Flags == {Modifier[k] : k \in Keys}
Effects(b) ==
  IF Changes(b)
  THEN {IF b.up THEN modifiers \ {Modifier[b.key]} ELSE modifiers \cup {Modifier[b.key]}}
  ELSE {modifiers} \cup
       {g \in SUBSET (modifiers \cup Flags) :
          b.src = Aux /\ \E f \in Flags : g \in {modifiers \cup {f}, modifiers \ {f}}}

KeyboardHandler ==
  /\ handler = "kbd"
  /\ TakeByte(Kbd)
  /\ modifiers' \in Effects(DataPort)
  /\ handler' \in IF Is(DataPort, "line") \/ DataPort.src = Aux THEN {"eoi", "poll"} ELSE {"eoi"}
  /\ polled' = (polled \/ handler' = "poll")
  /\ UNCHANGED <<picVars, pc, mouseVars, devVars>>

(* DebuggerEngine: `if (inb(0x64) & 1) scancode = inb(0x60);`.  The payload *)
(* goes on when Space, W or G is released, or the mouse sends a byte that  *)
(* equals one of these; it stops again or ends.                            *)
Poll ==
  /\ handler = "poll"
  /\ obf # Empty
  /\ TakeByte("debugger")
  /\ handler' \in IF Is(obf, "release") \/ obf.src = Aux THEN {"poll", "eoi"} ELSE {"poll"}
  /\ UNCHANGED <<picVars, pc, mouseVars, modifiers, devVars, polled>>

(* MouseHandler up to its status test, on port 0x64 bit 5.                 *)
AuxFull == obf # Empty /\ obf.src = Aux

MouseHandlerKeepsLine ==   \* mutant: the early return sends no EOI
  /\ handler = "mouse"
  /\ ~AuxFull
  /\ handler' = "none"
  /\ UNCHANGED <<ctlVars, picVars, pc, mouseVars, modifiers, devVars, strayed, polled>>

MouseHandlerMasterOnly ==  \* mutant: it sends the master's only
  /\ handler = "mouse"
  /\ ~AuxFull
  /\ handler' = "eoi"
  /\ UNCHANGED <<ctlVars, picVars, pc, mouseVars, modifiers, devVars, strayed, polled>>

MouseHandlerNotMine ==
  /\ handler = "mouse"
  /\ ~AuxFull
  /\ handler' = "eoi both"
  /\ UNCHANGED <<ctlVars, picVars, pc, mouseVars, modifiers, devVars, strayed, polled>>

mouse_cycle == Len(mouse_byte)

(* mouse_byte[mouse_cycle++], and mouse_cycle = 0 behind the third byte.   *)
CollectTwo(pos) == IF mouse_cycle = 1 THEN <<>> ELSE Append(mouse_byte, pos)   \* mutant
Collect(pos) == IF mouse_cycle = 2 THEN <<>> ELSE Append(mouse_byte, pos)

MouseHandlerUnchecked ==   \* mutant: whatever is in the buffer is taken
  /\ handler = "mouse"
  /\ TakeByte(Aux)
  /\ mouse_byte' = Collect(IF AuxFull THEN obf.pos ELSE 0)
  /\ handler' = "slave eoi first"
  /\ UNCHANGED <<picVars, pc, MouseMoved, modifiers, devVars, polled>>

(* A full packet moves the pointer unless an overflow bit is set.          *)
MouseHandlerByte ==
  /\ handler = "mouse"
  /\ AuxFull
  /\ TakeByte(Aux)
  /\ mouse_byte' = Collect(obf.pos)
  /\ MouseMoved' \in IF mouse_cycle = 2 THEN {MouseMoved, TRUE} ELSE {MouseMoved}
  /\ handler' = "slave eoi first"
  /\ UNCHANGED <<picVars, pc, modifiers, devVars, polled>>

-----------------------------------------------------------------------------
(* The main loop, between interrupts.  The redraw block runs with IF = 0   *)
(* and `sti` takes effect only behind the `hlt` that follows it.           *)
TestMouseMoved ==
  /\ handler = "none"
  /\ pc = "test"
  /\ ~MouseMoved
  /\ pc' = "hlt"
  /\ UNCHANGED <<ctlVars, picVars, handler, mouseVars, modifiers, devVars, strayed, polled>>

RedrawKeepsFlag ==   \* mutant: MouseMoved is not reset
  /\ handler = "none"
  /\ pc = "test"
  /\ MouseMoved
  /\ pc' = "asleep"
  /\ UNCHANGED <<ctlVars, picVars, handler, mouseVars, modifiers, devVars, strayed, polled>>

Redraw ==
  /\ handler = "none"
  /\ pc = "test"
  /\ MouseMoved
  /\ MouseMoved' = FALSE
  /\ pc' = "asleep"
  /\ UNCHANGED <<ctlVars, picVars, handler, mouse_byte, modifiers, devVars, strayed, polled>>

Halt ==
  /\ handler = "none"
  /\ pc = "hlt"
  /\ pc' = "asleep"
  /\ UNCHANGED <<ctlVars, picVars, handler, mouseVars, modifiers, devVars, strayed, polled>>

MainLoop == TestMouseMoved \/ Redraw \/ Halt
Handlers ==
  EndOfInterrupt \/ KeyboardHandler \/ Poll \/ MouseHandlerNotMine \/ MouseHandlerByte

Next ==
  \/ \E b \in KbdBytes : KeyEvent(b)
  \/ MouseEvent
  \/ Dispatch
  \/ Handlers
  \/ MainLoop

Spec == Init /\ [][Next]_vars

(* The CPU executes handlers and takes interrupts.  Bytes arrive at most   *)
(* every few hundred microseconds, so the main loop gets on between them:  *)
(* a step that is ready again and again is taken.                          *)
FairSpec ==
  /\ Spec
  /\ WF_vars(Dispatch)
  /\ WF_vars(Handlers)
  /\ SF_vars(MainLoop)

-----------------------------------------------------------------------------
TypeOK ==
  /\ obf \in {Empty} \cup KbdBytes \cup AuxBytes
  /\ last \in KbdBytes \cup AuxBytes
  /\ irr \subseteq {1, 12} /\ isr \subseteq {1, 2, 12}
  /\ handler \in {"none", "kbd", "mouse", "poll",
                  "eoi", "eoi both", "slave eoi", "slave eoi first"}
  /\ pc \in {"test", "hlt", "asleep"}
  /\ mouse_byte \in Seq(0 .. 2) /\ mouse_cycle < 3
  /\ MouseMoved \in BOOLEAN
  /\ held \subseteq Keys
  /\ auxPos \in 0 .. 2 /\ modifiers \subseteq Flags
  /\ strayed \subseteq {Kbd, Aux} /\ polled \in BOOLEAN

(* No byte is stranded: a full buffer is always announced by a request the *)
(* PIC still holds unmasked, or by the handler that is about to read it -  *)
(* also when the debugger has been taking bytes behind the PIC's back.     *)
FullBufferIsAnnounced ==
  obf # Empty =>
    \/ Irq(obf.src) \in irr \cap Unmasked
    \/ handler = "kbd" /\ obf.src = Kbd
    \/ handler = "mouse" /\ obf.src = Aux

(* The main loop never runs with an interrupt still in service at either   *)
(* controller: every path through the handlers sends its EOIs, whatever    *)
(* is requested between them.                                              *)
EveryPathSendsEoi == handler = "none" <=> isr = {}

(* The bytes MouseHandler has collected are the first ones of one packet,  *)
(* in order, as long as no mouse byte has gone to someone else.            *)
PacketsAligned ==
  Aux \notin strayed =>
    \A i \in 1 .. mouse_cycle : mouse_byte[i] = i - 1

(* Until a debugger session, and with no keyboard request left over from   *)
(* boot, each byte is taken once, by the handler of the device that sent   *)
(* it.  A left-over mouse request is harmless: MouseHandler tests whose    *)
(* byte the buffer holds.  KeyboardHandler does not.                       *)
NothingStrays == ~polled => strayed = {}

(* No stuck modifier: with no byte in flight, none of the keyboard's lost  *)
(* and none of the mouse's taken for one, a flag is 1 only while a key     *)
(* that sets it is down.                                                   *)
NoStuckModifier ==
  obf = Empty /\ handler = "none" /\ Kbd \notin strayed =>
    \A m \in modifiers : \E k \in held : Modifier[k] = m

(* Every byte that reaches the buffer is taken from it.                    *)
BytesAreTaken == obf # Empty ~> obf = Empty

(* The mouse pointer is redrawn after it moved, as long as interrupts keep *)
(* arriving and returning.  (One that arrives between the test of          *)
(* MouseMoved and `hlt` leaves the redraw to the next.)                    *)
PointerIsRedrawn ==
  []<>(isr = {}) /\ []<>(isr # {}) => (MouseMoved ~> ~MouseMoved)
==============================================================================
