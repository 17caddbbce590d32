----------------------------- MODULE InputProofs -----------------------------
(* Proofs about Input, for any keyboard.                                   *)
EXTENDS Input, TLAPS

-----------------------------------------------------------------------------
(* What the bytes are.                                                     *)

LEMMA Bytes ==
  /\ \A b \in KbdBytes : b.src = Kbd
  /\ \A b \in AuxBytes : b.src = Aux /\ b.pos \in 0 .. 2
  /\ Empty.src = "none"
  /\ Empty \notin KbdBytes /\ Empty \notin AuxBytes
BY DEF KbdBytes, AuxBytes, Kbd, Aux, Empty

LEMMA ChangingBytes ==
  \A b \in KbdBytes : Changes(b) => b.key \in Keys /\ b.up \in BOOLEAN
BY DEF KbdBytes, Changes, Kbd

LEMMA ReleaseBytes ==
  \A b \in KbdBytes \cup AuxBytes : Is(b, "release") => ~Changes(b)
BY DEF KbdBytes, AuxBytes, Changes, Is, Kbd, Aux

(* The byte in the buffer, if any, is the one the mouse sent before        *)
(* auxPos, and follows those that MouseHandler has collected.              *)
MouseInStep ==
  Aux \notin strayed =>
    /\ \A i \in 1 .. mouse_cycle : mouse_byte[i] = i - 1
    /\ obf # Empty /\ obf.src = Aux =>
         obf.pos = mouse_cycle /\ auxPos = (mouse_cycle + 1) % 3
    /\ obf = Empty \/ obf.src # Aux => auxPos = mouse_cycle

(* A key whose press is on its way is down, and each modifier flag is      *)
(* explained by a key that is down, or whose release is on its way.        *)
Releases(b, m) == Changes(b) /\ b.up /\ Modifier[b.key] = m

PressIsHeld == obf # Empty /\ Changes(obf) /\ ~obf.up => obf.key \in held

ModifiersExplained ==
  Kbd \notin strayed =>
    \A m \in modifiers :
      (\E k \in held : Modifier[k] = m) \/ (obf # Empty /\ Releases(obf, m))

(* Which lines are in service while a handler runs.                        *)
LinesInService ==
  /\ handler = "none" => isr = {}
  /\ handler \in {"kbd", "poll"} => isr = {1}
  /\ handler \in {"mouse", "eoi both", "slave eoi first"} => isr = {2, 12}
  /\ handler = "slave eoi" => isr = {12}
  /\ handler = "eoi" => isr \in {{1}, {2}}

(* NoStuckModifier is not inductive, nor is PacketsAligned: both need the  *)
(* byte in flight.                                                         *)
IInv ==
  /\ TypeOK
  /\ LinesInService
  /\ FullBufferIsAnnounced
  /\ MouseInStep
  /\ PressIsHeld
  /\ ModifiersExplained

-----------------------------------------------------------------------------
(* Reading port 0x60 empties the buffer, and a byte that its reader's      *)
(* device has not sent is recorded as strayed.                             *)
LEMMA TakeByteEffect ==
  ASSUME TypeOK, NEW reader, TakeByte(reader)
  PROVE  /\ DataPort \in KbdBytes \cup AuxBytes
         /\ obf' = Empty
         /\ last' \in KbdBytes \cup AuxBytes
         /\ strayed' \subseteq {Kbd, Aux}
         /\ strayed \subseteq strayed'
         /\ obf # Empty /\ obf.src # reader => obf.src \in strayed'
         /\ (obf = Empty \/ obf.src # reader) /\ ~Is(DataPort, "release") /\ reader = Kbd
              => Kbd \in strayed'
<1>1. DataPort \in KbdBytes \cup AuxBytes
  BY DEF TypeOK, DataPort
<1>2. DataPort.src \in {Kbd, Aux}
  BY <1>1, Bytes
<1>3. obf # Empty => DataPort = obf
  BY DEF DataPort
<1>4. obf # Empty => obf.src \in {Kbd, Aux}
  BY <1>2, <1>3
<1> QED
  BY <1>1, <1>4 DEF TakeByte, TypeOK

(* MouseHandler collects a packet in order.                                *)
LEMMA CollectInOrder ==
  ASSUME mouse_byte \in Seq(0 .. 2), mouse_cycle < 3
  PROVE  LET new == Collect(mouse_cycle)
         IN  /\ new \in Seq(0 .. 2)
             /\ Len(new) = (mouse_cycle + 1) % 3
             /\ (\A i \in 1 .. mouse_cycle : mouse_byte[i] = i - 1)
                  => \A i \in 1 .. Len(new) : new[i] = i - 1
<1>1. mouse_cycle \in 0 .. 2
  <2>1. mouse_cycle \in Nat
    BY DEF mouse_cycle
  <2> QED
    BY <2>1
<1>2. CASE mouse_cycle = 2
  BY <1>2 DEF Collect
<1>3. CASE mouse_cycle # 2
  <2>1. Collect(mouse_cycle) = Append(mouse_byte, mouse_cycle)
    BY <1>3 DEF Collect
  <2>2. Len(Append(mouse_byte, mouse_cycle)) = mouse_cycle + 1
    BY <1>1 DEF mouse_cycle
  <2>3. \A i \in 1 .. mouse_cycle + 1 :
          Append(mouse_byte, mouse_cycle)[i] =
            IF i <= mouse_cycle THEN mouse_byte[i] ELSE mouse_cycle
    BY <1>1 DEF mouse_cycle
  <2>4. (mouse_cycle + 1) % 3 = mouse_cycle + 1
    BY <1>1, <1>3
  <2>5. Append(mouse_byte, mouse_cycle) \in Seq(0 .. 2)
    BY <1>1
  <2>6. ASSUME \A i \in 1 .. mouse_cycle : mouse_byte[i] = i - 1,
               NEW i \in 1 .. mouse_cycle + 1
        PROVE  Append(mouse_byte, mouse_cycle)[i] = i - 1
    BY <1>1, <2>3, <2>6
  <2> HIDE DEF mouse_cycle
  <2> QED
    BY <2>1, <2>2, <2>4, <2>5, <2>6
<1> QED
  BY <1>2, <1>3

LEMMA InputInit == Init => IInv
<1> SUFFICES ASSUME Init PROVE IInv
  OBVIOUS
<1>1. TypeOK
  <2>1. last \in [src : {Kbd}, code : {"line", "release"}]
    BY DEF Init
  <2>2. mouse_byte \in Seq(0 .. 2) /\ mouse_cycle < 3
    BY DEF Init, mouse_cycle
  <2>3. irr \subseteq {1, 12}
    BY DEF Init
  <2>4. last \in KbdBytes
    BY <2>1 DEF KbdBytes
  <2>5. obf \in {Empty} /\ handler = "none" /\ pc = "test" /\ isr = {} /\ held = {}
        /\ auxPos = 0 /\ strayed = {}
    BY DEF Init
  <2>7. polled \in BOOLEAN
    BY DEF Init
  <2>6. MouseMoved \in BOOLEAN
    BY DEF Init
  <2>8. modifiers \subseteq Flags
    BY DEF Init
  <2> QED
    BY <2>2, <2>3, <2>4, <2>5, <2>6, <2>7, <2>8 DEF TypeOK
<1>2. LinesInService
  BY DEF Init, LinesInService
<1>3. FullBufferIsAnnounced
  BY DEF Init, FullBufferIsAnnounced
<1>4. MouseInStep
  BY DEF Init, MouseInStep, mouse_cycle
<1>5. PressIsHeld /\ ModifiersExplained
  BY DEF Init, PressIsHeld, ModifiersExplained
<1> QED
  BY <1>1, <1>2, <1>3, <1>4, <1>5 DEF IInv

-----------------------------------------------------------------------------
(* A device fills the empty buffer.                                        *)

LEMMA KeyEventStep ==
  ASSUME IInv, NEW b \in KbdBytes, KeyEvent(b)
  PROVE  IInv'
<1> USE DEF IInv, KeyEvent, Load
<1>1. b.src = Kbd /\ b # Empty /\ Irq(b.src) = 1
  BY Bytes DEF Irq
<1>2. TypeOK'
  <2>1. Changes(b) => b.key \in Keys
    BY ChangingBytes
  <2> QED
    BY <1>1, <2>1 DEF TypeOK, mouse_cycle, picVars, mouseVars
<1>3. LinesInService'
  BY DEF LinesInService, picVars
<1>4. FullBufferIsAnnounced'
  BY <1>1 DEF FullBufferIsAnnounced, Unmasked
<1>5. MouseInStep'
  BY <1>1 DEF MouseInStep, mouseVars, mouse_cycle, Kbd, Aux
<1>7. PressIsHeld'
  BY <1>1, ChangingBytes DEF PressIsHeld
<1>6. ModifiersExplained'
  <2> SUFFICES ASSUME Kbd \notin strayed, NEW m \in modifiers
               PROVE  (\E k \in held' : Modifier[k] = m) \/ Releases(b, m)
    BY <1>1 DEF ModifiersExplained, Releases, Changes
  <2>1. PICK k \in held : Modifier[k] = m
    BY DEF ModifiersExplained
  <2>2. CASE k \in held'
    BY <2>1, <2>2
  <2>3. CASE k \notin held'
    <3>1. Changes(b) /\ b.up /\ k = b.key
      BY <2>3, <2>1
    <3> QED
      BY <3>1, <2>1 DEF Releases
  <2> QED
    BY <2>2, <2>3
<1> QED
  BY <1>2, <1>3, <1>4, <1>5, <1>6, <1>7

LEMMA MouseEventStep ==
  ASSUME IInv, MouseEvent
  PROVE  IInv'
<1> DEFINE b == [src |-> Aux, pos |-> auxPos]
<1> USE DEF IInv, MouseEvent, Load
<1>1. b \in AuxBytes /\ b.src = Aux /\ b.pos = auxPos /\ b # Empty /\ Irq(Aux) = 12
  BY DEF TypeOK, AuxBytes, Empty, Irq, Aux, Kbd
<1>2. obf' = b
  OBVIOUS
<1> HIDE DEF b
<1>3. TypeOK'
  <2>1. auxPos' \in 0 .. 2
    <3>1. auxPos \in 0 .. 2 /\ auxPos' = (auxPos + 1) % 3
      BY Zenon DEF TypeOK
    <3> HIDE DEF IInv, MouseEvent, Load
    <3> QED
      BY <3>1
  <2>2. irr' \subseteq {1, 12}
    BY <1>1 DEF TypeOK, b
  <2> QED
    BY <1>1, <1>2, <2>1, <2>2 DEF TypeOK, mouse_cycle, picVars, mouseVars
<1>4. LinesInService'
  BY DEF LinesInService, picVars
<1>5. FullBufferIsAnnounced'
  BY <1>1, <1>2 DEF FullBufferIsAnnounced, Unmasked, b
<1>6. MouseInStep'
  BY <1>1, <1>2 DEF MouseInStep, mouseVars, mouse_cycle
<1>7. PressIsHeld' /\ ModifiersExplained'
  BY <1>1, <1>2 DEF PressIsHeld, ModifiersExplained, Releases, Changes, Kbd, Aux
<1> QED
  BY <1>3, <1>4, <1>5, <1>6, <1>7

-----------------------------------------------------------------------------
(* The interrupt controllers.                                              *)

LEMMA DispatchStep ==
  ASSUME IInv, Dispatch
  PROVE  IInv'
<1> USE DEF IInv, Dispatch
<1>1. PICK i \in irr \cap Unmasked :
        /\ irr' = irr \ {i}
        /\ isr' = isr \cup InService(i)
        /\ handler' = IF i = 1 THEN "kbd" ELSE "mouse"
  OBVIOUS
<1>2. i \in {1, 12}
  BY DEF Unmasked
<1>3. TypeOK'
  BY <1>1, <1>2 DEF TypeOK, InService, ctlVars, mouseVars, devVars, mouse_cycle
<1>4. LinesInService'
  BY <1>1, <1>2 DEF LinesInService, InService
<1>5. FullBufferIsAnnounced'
  <2> SUFFICES ASSUME obf # Empty
               PROVE  \/ Irq(obf.src) \in irr' \cap Unmasked
                      \/ handler' = "kbd" /\ obf.src = Kbd
                      \/ handler' = "mouse" /\ obf.src = Aux
    BY DEF FullBufferIsAnnounced, ctlVars
  <2>1. Irq(obf.src) \in irr \cap Unmasked
    BY DEF FullBufferIsAnnounced
  <2>2. CASE Irq(obf.src) # i
    BY <1>1, <2>1, <2>2
  <2>3. CASE Irq(obf.src) = i
    <3>1. obf.src \in {Kbd, Aux}
      BY Bytes DEF TypeOK
    <3> QED
      BY <1>1, <2>3, <3>1 DEF Irq, Kbd, Aux
  <2> QED
    BY <2>2, <2>3
<1>6. MouseInStep' /\ PressIsHeld' /\ ModifiersExplained'
  BY DEF MouseInStep, PressIsHeld, ModifiersExplained, Releases, Changes,
      ctlVars, mouseVars, devVars, mouse_cycle
<1> QED
  BY <1>3, <1>4, <1>5, <1>6

LEMMA EndOfInterruptStep ==
  ASSUME IInv, EndOfInterrupt
  PROVE  IInv'
<1> USE DEF IInv, ctlVars, mouseVars, devVars
<1>1. /\ handler \in {"eoi", "eoi both", "slave eoi", "slave eoi first"}
      /\ handler' \in {"none", "eoi", "slave eoi"}
      /\ UNCHANGED <<ctlVars, irr, pc, mouseVars, modifiers, devVars, strayed, polled>>
  BY DEF EndOfInterrupt, MasterEoi, SlaveEoi
<1>2. LinesInService' /\ isr' \subseteq {1, 2, 12}
  <2>1. CASE MasterEoi
    <3>1. handler = "eoi" => isr' = {} /\ handler' = "none"
      BY <2>1 DEF MasterEoi, LinesInService
    <3>2. handler = "eoi both" => isr' = {12} /\ handler' = "slave eoi"
      <4>1. {2, 12} \ {2} = {12} /\ 1 \notin {2, 12}
        OBVIOUS
      <4>2. handler = "eoi both" => isr = {2, 12} /\ handler # "eoi"
        BY DEF LinesInService
      <4> HIDE DEF IInv
      <4> QED
        BY <2>1, <4>1, <4>2, Zenon DEF MasterEoi
    <3> QED
      BY <1>1, <2>1, <3>1, <3>2 DEF MasterEoi, LinesInService
  <2>2. CASE SlaveEoi
    <3>1. handler = "slave eoi" => isr' = {} /\ handler' = "none"
      BY <2>2 DEF SlaveEoi, LinesInService
    <3>2. handler = "slave eoi first" => isr' = {2} /\ handler' = "eoi"
      <4>1. {2, 12} \ {12} = {2}
        OBVIOUS
      <4>2. handler = "slave eoi first" => isr = {2, 12} /\ handler # "slave eoi"
        BY DEF LinesInService
      <4> HIDE DEF IInv
      <4> QED
        BY <2>2, <4>1, <4>2, Zenon DEF SlaveEoi
    <3> QED
      BY <1>1, <2>2, <3>1, <3>2 DEF SlaveEoi, LinesInService
  <2> QED
    BY <2>1, <2>2 DEF EndOfInterrupt
<1>3. TypeOK'
  BY <1>1, <1>2 DEF TypeOK, mouse_cycle
<1>4. FullBufferIsAnnounced'
  BY <1>1 DEF FullBufferIsAnnounced
<1>5. MouseInStep' /\ PressIsHeld' /\ ModifiersExplained'
  BY <1>1 DEF MouseInStep, PressIsHeld, ModifiersExplained, Releases, Changes, mouse_cycle
<1> QED
  BY <1>2, <1>3, <1>4, <1>5

-----------------------------------------------------------------------------
(* The handlers and the debugger.                                          *)

LEMMA KeyboardHandlerStep ==
  ASSUME IInv, KeyboardHandler
  PROVE  IInv'
<1> USE DEF IInv
<1> DEFINE b == DataPort
<1>1. TypeOK /\ TakeByte(Kbd)
  BY DEF KeyboardHandler
<1>2. /\ handler = "kbd" /\ handler' \in {"eoi", "poll"}
      /\ UNCHANGED <<picVars, pc, mouseVars, devVars>>
      /\ modifiers' \in Effects(b)
  BY DEF KeyboardHandler
<1>3. /\ obf' = Empty
      /\ last' \in KbdBytes \cup AuxBytes
      /\ strayed' \subseteq {Kbd, Aux} /\ strayed \subseteq strayed'
      /\ obf # Empty /\ obf.src # Kbd => obf.src \in strayed'
      /\ (obf = Empty \/ obf.src # Kbd) /\ ~Is(b, "release") => Kbd \in strayed'
      /\ b \in KbdBytes \cup AuxBytes
  BY <1>1, TakeByteEffect
<1>4. TypeOK'
  <2>1. polled' = (polled \/ handler' = "poll")
    BY DEF KeyboardHandler
  <2>2. polled' \in BOOLEAN
    BY <2>1, Zenon
  <2>3. modifiers' \subseteq Flags
    <3>1. Changes(b) => b.key \in Keys /\ b \in KbdBytes
      BY <1>3, Bytes, ChangingBytes DEF Changes, Kbd, Aux
    <3>2. Changes(b) => Modifier[b.key] \in Flags
      BY <3>1 DEF Flags
    <3> QED
      BY <1>1, <1>2, <3>2 DEF Effects, TypeOK
  <2> QED
    BY <1>1, <1>2, <1>3, <2>2, <2>3 DEF TypeOK, picVars, mouseVars, devVars, mouse_cycle
<1>5. LinesInService' /\ FullBufferIsAnnounced'
  BY <1>2, <1>3 DEF LinesInService, FullBufferIsAnnounced, picVars
<1>6. MouseInStep'
  <2> SUFFICES ASSUME Aux \notin strayed'
               PROVE  /\ \A i \in 1 .. mouse_cycle : mouse_byte[i] = i - 1
                      /\ auxPos = mouse_cycle
    BY <1>2, <1>3 DEF MouseInStep, mouseVars, devVars, mouse_cycle
  <2>1. Aux \notin strayed /\ (obf = Empty \/ obf.src # Aux)
    BY <1>3 DEF Kbd, Aux
  <2> QED
    BY <2>1 DEF MouseInStep
<1>7. PressIsHeld'
  BY <1>3 DEF PressIsHeld
<1>8. ModifiersExplained'
  <2> SUFFICES ASSUME Kbd \notin strayed', NEW m \in modifiers'
               PROVE  \E k \in held : Modifier[k] = m
    BY <1>2 DEF ModifiersExplained, devVars
  <2>1. m \in modifiers =>
          (\E k \in held : Modifier[k] = m) \/ (obf # Empty /\ Releases(obf, m))
    BY <1>3 DEF ModifiersExplained
  <2>2. CASE Is(b, "release")
    <3>1. ~Changes(b) /\ b.src # Aux
      BY <1>3, <2>2, ReleaseBytes DEF Is, Kbd, Aux
    <3>2. modifiers' = modifiers
      BY <1>2, <3>1 DEF Effects
    <3>3. obf # Empty => b = obf
      BY DEF DataPort
    <3> QED
      BY <2>1, <3>1, <3>2, <3>3 DEF Releases
  <2>3. CASE ~Is(b, "release")
    <3>1. obf # Empty /\ obf.src = Kbd
      BY <1>3, <2>3
    <3>2. b = obf /\ b.src # Aux
      BY <3>1 DEF DataPort, Kbd, Aux
    <3>3. Changes(b) =>
            modifiers' = IF b.up THEN modifiers \ {Modifier[b.key]}
                                 ELSE modifiers \cup {Modifier[b.key]}
      BY <1>2 DEF Effects
    <3>4. ~Changes(b) => modifiers' = modifiers
      BY <1>2, <3>2 DEF Effects
    <3> QED
      BY <2>1, <3>1, <3>2, <3>3, <3>4 DEF PressIsHeld, Releases
  <2> QED
    BY <2>2, <2>3
<1> QED
  BY <1>4, <1>5, <1>6, <1>7, <1>8

LEMMA PollStep ==
  ASSUME IInv, Poll
  PROVE  IInv'
<1> USE DEF IInv
<1>1. TypeOK /\ TakeByte("debugger")
  BY DEF Poll
<1>2. /\ handler = "poll" /\ handler' \in {"poll", "eoi"} /\ obf # Empty
      /\ UNCHANGED <<picVars, pc, mouseVars, modifiers, devVars, polled>>
  BY DEF Poll
<1>3. /\ obf' = Empty
      /\ last' \in KbdBytes \cup AuxBytes
      /\ strayed' \subseteq {Kbd, Aux} /\ strayed \subseteq strayed'
      /\ obf.src # "debugger" => obf.src \in strayed'
  BY <1>1, <1>2, TakeByteEffect
<1>4. obf.src \in strayed' /\ obf.src \in {Kbd, Aux}
  BY <1>2, <1>3, Bytes DEF TypeOK, Kbd, Aux
<1>5. TypeOK'
  BY <1>1, <1>2, <1>3 DEF TypeOK, picVars, mouseVars, devVars, mouse_cycle
<1>6. LinesInService' /\ FullBufferIsAnnounced'
  BY <1>2, <1>3 DEF LinesInService, FullBufferIsAnnounced, picVars
<1>7. MouseInStep'
  <2> SUFFICES ASSUME Aux \notin strayed'
               PROVE  /\ \A i \in 1 .. mouse_cycle : mouse_byte[i] = i - 1
                      /\ auxPos = mouse_cycle
    BY <1>2, <1>3 DEF MouseInStep, mouseVars, devVars, mouse_cycle
  <2> QED
    BY <1>3, <1>4 DEF MouseInStep
<1>8. PressIsHeld'
  BY <1>3 DEF PressIsHeld
<1>9. ModifiersExplained'
  BY <1>2, <1>3, <1>4 DEF ModifiersExplained, Releases, Changes, devVars
<1> QED
  BY <1>5, <1>6, <1>7, <1>8, <1>9

LEMMA MouseHandlerNotMineStep ==
  ASSUME IInv, MouseHandlerNotMine
  PROVE  IInv'
<1> USE DEF IInv, MouseHandlerNotMine, ctlVars, picVars, mouseVars, devVars
<1>1. TypeOK'
  BY DEF TypeOK, mouse_cycle
<1>2. LinesInService' /\ FullBufferIsAnnounced'
  BY DEF LinesInService, FullBufferIsAnnounced, AuxFull
<1>3. MouseInStep' /\ PressIsHeld' /\ ModifiersExplained'
  BY DEF MouseInStep, PressIsHeld, ModifiersExplained, Releases, Changes, mouse_cycle
<1> QED
  BY <1>1, <1>2, <1>3

LEMMA MouseHandlerByteStep ==
  ASSUME IInv, MouseHandlerByte
  PROVE  IInv'
<1> USE DEF IInv
<1>1. TypeOK /\ TakeByte(Aux)
  BY DEF MouseHandlerByte
<1>2. /\ handler = "mouse" /\ handler' = "slave eoi first" /\ obf # Empty /\ obf.src = Aux
      /\ UNCHANGED <<picVars, pc, modifiers, devVars, polled>>
      /\ mouse_byte' = Collect(obf.pos)
      /\ MouseMoved' \in {MouseMoved, TRUE}
  BY DEF MouseHandlerByte, AuxFull
<1>3. /\ obf' = Empty
      /\ last' \in KbdBytes \cup AuxBytes
      /\ strayed' \subseteq {Kbd, Aux} /\ strayed \subseteq strayed'
  BY <1>1, TakeByteEffect
<1>4. obf \in AuxBytes /\ obf.pos \in 0 .. 2
  BY <1>2, Bytes DEF TypeOK, Kbd, Aux
<1>5. mouse_byte' \in Seq(0 .. 2) /\ mouse_cycle' < 3
  <2>1. mouse_byte \in Seq(0 .. 2) /\ mouse_cycle \in Nat /\ mouse_cycle < 3
    <3>1. mouse_byte \in Seq(0 .. 2) /\ mouse_cycle < 3
      BY Zenon DEF TypeOK
    <3> HIDE DEF IInv
    <3> QED
      BY <3>1 DEF mouse_cycle
  <2>2. CASE mouse_cycle = 2
    <3>1. mouse_byte' = <<>>
      BY <1>2, <2>2 DEF Collect
    <3> HIDE DEF IInv
    <3> QED
      BY <3>1 DEF mouse_cycle
  <2>3. CASE mouse_cycle # 2
    <3>1. mouse_byte' = Append(mouse_byte, obf.pos)
      BY <1>2, <2>3 DEF Collect
    <3>2. mouse_byte' \in Seq(0 .. 2)
      BY <1>4, <2>1, <3>1
    <3>3. Len(mouse_byte') = Len(mouse_byte) + 1
      BY <1>4, <2>1, <3>1
    <3>4. mouse_cycle' = mouse_cycle + 1
      BY <3>3 DEF mouse_cycle
    <3> QED
      BY <2>1, <2>3, <3>2, <3>4
  <2> QED
    BY <2>2, <2>3
<1>6. TypeOK'
  BY <1>1, <1>2, <1>3, <1>5 DEF TypeOK, picVars, devVars
<1>7. LinesInService' /\ FullBufferIsAnnounced'
  BY <1>2, <1>3 DEF LinesInService, FullBufferIsAnnounced, picVars
<1>8. MouseInStep'
  <2> SUFFICES ASSUME Aux \notin strayed'
               PROVE  /\ \A i \in 1 .. Len(mouse_byte') : mouse_byte'[i] = i - 1
                      /\ auxPos = Len(mouse_byte')
    BY <1>2, <1>3 DEF MouseInStep, devVars, mouse_cycle
  <2>1. /\ \A i \in 1 .. mouse_cycle : mouse_byte[i] = i - 1
        /\ obf.pos = mouse_cycle /\ auxPos = (mouse_cycle + 1) % 3
    BY <1>2, <1>3 DEF MouseInStep
  <2>2. mouse_byte' = Collect(mouse_cycle)
    BY <1>2, <2>1
  <2>3. mouse_byte \in Seq(0 .. 2) /\ mouse_cycle < 3
    BY DEF TypeOK
  <2> QED
    BY <2>1, <2>2, <2>3, CollectInOrder
<1>9. PressIsHeld'
  BY <1>3 DEF PressIsHeld
<1>10. ModifiersExplained'
  BY <1>2, <1>3 DEF ModifiersExplained, Releases, Changes, devVars, Kbd, Aux
<1> QED
  BY <1>6, <1>7, <1>8, <1>9, <1>10

(* The main loop touches neither the controller nor the handlers.          *)
LEMMA MainLoopStep ==
  ASSUME IInv, MainLoop
  PROVE  IInv'
<1> USE DEF IInv, MainLoop, TestMouseMoved, Redraw, Halt, ctlVars, picVars, mouseVars, devVars
<1>1. TypeOK'
  BY DEF TypeOK, mouse_cycle
<1>2. LinesInService' /\ FullBufferIsAnnounced'
  BY DEF LinesInService, FullBufferIsAnnounced
<1>3. MouseInStep' /\ PressIsHeld' /\ ModifiersExplained'
  BY DEF MouseInStep, PressIsHeld, ModifiersExplained, Releases, Changes, mouse_cycle
<1> QED
  BY <1>1, <1>2, <1>3

LEMMA InputStep == IInv /\ [Next]_vars => IInv'
<1> SUFFICES ASSUME IInv, [Next]_vars PROVE IInv'
  OBVIOUS
<1>1. ASSUME NEW b \in KbdBytes, KeyEvent(b) PROVE IInv'
  BY <1>1, KeyEventStep
<1>2. CASE MouseEvent
  BY <1>2, MouseEventStep
<1>3. CASE Dispatch
  BY <1>3, DispatchStep
<1>4. CASE Handlers
  BY <1>4, EndOfInterruptStep, KeyboardHandlerStep, PollStep, MouseHandlerNotMineStep,
     MouseHandlerByteStep DEF Handlers
<1>5. CASE MainLoop
  BY <1>5, MainLoopStep
<1>6. CASE UNCHANGED vars
  <2> USE <1>6 DEF vars, ctlVars, picVars, mouseVars, devVars, IInv
  <2>1. TypeOK'
    BY DEF TypeOK, mouse_cycle
  <2>2. LinesInService' /\ FullBufferIsAnnounced'
    BY DEF LinesInService, FullBufferIsAnnounced
  <2>3. MouseInStep' /\ PressIsHeld' /\ ModifiersExplained'
    BY DEF MouseInStep, PressIsHeld, ModifiersExplained, Releases, Changes, mouse_cycle
  <2> QED
    BY <2>1, <2>2, <2>3
<1> QED
  BY <1>1, <1>2, <1>3, <1>4, <1>5, <1>6 DEF Next

(* The inductive invariant holds throughout, for any keyboard and whether  *)
(* or not payloads are debugged.                                           *)
THEOREM InputInvariant == Spec => []IInv
<1> QED
  BY InputInit, InputStep, PTL DEF Spec

-----------------------------------------------------------------------------
(* The variables keep their types; mouse_cycle never leaves the packet.    *)
THEOREM InputTypeCorrect == Spec => []TypeOK
<1>1. IInv => TypeOK
  BY DEF IInv
<1> QED
  BY <1>1, InputInvariant, PTL

(* Every path through the two handlers and the debugger sends its EOI      *)
(* before the main loop runs again (keyboard.c, mouse.c).                  *)
THEOREM InputSendsEoi == Spec => []EveryPathSendsEoi
<1>1. IInv => EveryPathSendsEoi
  BY DEF IInv, TypeOK, LinesInService, EveryPathSendsEoi
<1> QED
  BY <1>1, InputInvariant, PTL

(* A byte in the controller is announced to the CPU or about to be read,   *)
(* also after the debugger polled the controller (main.c).                 *)
THEOREM InputAnnounced == Spec => []FullBufferIsAnnounced
<1>1. IInv => FullBufferIsAnnounced
  BY DEF IInv
<1> QED
  BY <1>1, InputInvariant, PTL

(* MouseHandler's packet stays aligned until a mouse byte goes astray.     *)
THEOREM InputPacketsAligned == Spec => []PacketsAligned
<1>1. IInv => PacketsAligned
  BY DEF IInv, MouseInStep, PacketsAligned
<1> QED
  BY <1>1, InputInvariant, PTL

(* No modifier flag of keyboard.c sticks unless a keyboard byte was lost.  *)
THEOREM InputNoStuckModifier == Spec => []NoStuckModifier
<1>1. IInv => NoStuckModifier
  BY DEF IInv, ModifiersExplained, NoStuckModifier
<1> QED
  BY <1>1, InputInvariant, PTL

-----------------------------------------------------------------------------
(* Before anyone polls, nothing strays as long as each keyboard request    *)
(* stands for the keyboard byte in the buffer: then KeyboardHandler, which *)
(* does not test whose byte it reads, reads its own.                       *)
KeyboardReadsItsOwn ==
  ~polled =>
    /\ strayed = {}
    /\ handler # "poll"
    /\ 1 \in irr => obf # Empty /\ obf.src = Kbd /\ handler # "kbd"
    /\ handler = "kbd" => obf # Empty /\ obf.src = Kbd

LEMMA StraysStep == IInv /\ KeyboardReadsItsOwn /\ [Next]_vars => KeyboardReadsItsOwn'
<1> SUFFICES ASSUME IInv, KeyboardReadsItsOwn, [Next]_vars PROVE KeyboardReadsItsOwn'
  OBVIOUS
<1> USE DEF KeyboardReadsItsOwn, ctlVars, picVars, mouseVars, devVars
<1>1. ASSUME NEW b \in KbdBytes, KeyEvent(b) PROVE KeyboardReadsItsOwn'
  <2>1. b.src = Kbd /\ b # Empty
    BY Bytes
  <2> QED
    BY <1>1, <2>1 DEF KeyEvent, Load
<1>2. CASE MouseEvent
  <2>1. Irq(Aux) = 12
    BY DEF Irq, Kbd, Aux
  <2> QED
    BY <1>2, <2>1 DEF MouseEvent, Load
<1>3. CASE Dispatch
  BY <1>3 DEF Dispatch, Unmasked
<1>4. CASE Handlers
  <2>1. CASE EndOfInterrupt
    BY <2>1 DEF EndOfInterrupt, MasterEoi, SlaveEoi
  <2>2. CASE KeyboardHandler
    <3>1. polled' = (polled \/ handler' = "poll") /\ polled \in BOOLEAN
      BY <2>2 DEF KeyboardHandler, IInv, TypeOK
    <3>2. ~polled' => ~polled /\ handler' # "poll"
      BY <3>1, Zenon
    <3> QED
      BY <2>2, <3>2 DEF KeyboardHandler, TakeByte, DataPort
  <2>3. CASE Poll
    BY <2>3 DEF Poll
  <2>4. CASE MouseHandlerNotMine
    BY <2>4 DEF MouseHandlerNotMine
  <2>5. CASE MouseHandlerByte
    <3>1. ~polled => 1 \notin irr
      BY <2>5 DEF MouseHandlerByte, AuxFull, Kbd, Aux
    <3> QED
      BY <2>5, <3>1 DEF MouseHandlerByte, AuxFull, TakeByte
  <2> QED
    BY <1>4, <2>1, <2>2, <2>3, <2>4, <2>5 DEF Handlers
<1>5. CASE MainLoop
  BY <1>5 DEF MainLoop, TestMouseMoved, Redraw, Halt
<1>6. CASE UNCHANGED vars
  BY <1>6 DEF vars
<1> QED
  BY <1>1, <1>2, <1>3, <1>4, <1>5, <1>6 DEF Next

(* Until a debugger session, and with no keyboard request latched at boot, *)
(* each byte is taken once and by the handler it is meant for.             *)
THEOREM InputNothingStrays == Spec => []NothingStrays
<1>1. Init => KeyboardReadsItsOwn
  <2> SUFFICES ASSUME Init PROVE KeyboardReadsItsOwn
    OBVIOUS
  <2>1. polled = (1 \in irr)
    BY DEF Init
  <2>2. 1 \in irr => polled
    BY <2>1, Zenon
  <2> QED
    BY <2>2 DEF Init, KeyboardReadsItsOwn
<1>2. KeyboardReadsItsOwn => NothingStrays
  BY DEF KeyboardReadsItsOwn, NothingStrays
<1> QED
  BY <1>1, <1>2, StraysStep, InputInvariant, PTL DEF Spec
==============================================================================
