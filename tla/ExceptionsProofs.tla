-------------------------- MODULE ExceptionsProofs --------------------------
(***************************************************************************)
(* Every property of Exceptions, for every vector and every set of         *)
(* registers that may be 0.                                                *)
(*                                                                         *)
(* The invariant follows the words of the stack from the fault to the      *)
(* return: the frame of 5 or 6 words, the 15 registers behind it, what     *)
(* the handlers make of either.                                            *)
(***************************************************************************)
EXTENDS Exceptions, TLAPS

FrameWords == IF HasErrorCode(vector) THEN 6 ELSE 5
Stepping == vector = 1
Trapped == vector \in {6, 8, 10, 11, 12, 14}

(* What a register or a word of the stack may hold.                        *)
Words ==
  GPR \cup {Zero, Safe, Junk, Wild, "ss", "rsp", "rflags", "cs", "rip", "low rip", "top rip",
            "handler rsp", "handler rflags", "handler rip", "error_code",
            "return address", "rsp + 8", "rflags with TF", "rflags without TF"}

Types ==
  /\ stack \in Seq(Words) /\ regs \in [GPR -> Words] /\ atFault \in [GPR -> Words]
  /\ vector \in 0 .. 31

(* Only iretq changes what the CPU pushes.                                 *)
AsProgram ==
  rip \in ProgramRips /\ rsp = "rsp" /\ rflags = "rflags" /\ cs = "cs" /\ ss = "ss"
CpuUntouched == mode \notin {"resumed", "lost"} => AsProgram

(* The frame of the program's fault, and that of a handler which could not *)
(* read the instruction at a top address.                                  *)
ProgramFrame(s) ==
  /\ s[1] = "ss" /\ s[2] = "rsp" /\ s[3] = "rflags" /\ s[4] = "cs" /\ s[5] = rip
  /\ rip \in ProgramRips
  /\ rip = "top rip" => vector = 1 \/ (vector = 14 /\ cr2 = "top")
  /\ HasErrorCode(vector) => s[6] = "error_code"
HandlerFrame(s) ==
  /\ s[1] = "ss" /\ s[2] = "handler rsp" /\ s[3] = "handler rflags" /\ s[4] = "cs"
  /\ s[5] = "handler rip" /\ s[6] = "error_code"
  /\ vector = 14 /\ cr2 = "top" /\ rip = "top rip"
Frame(s) == ProgramFrame(s) \/ HandlerFrame(s)

Saved(s) == \A k \in 1 .. 15 : s[FrameWords + k] = atFault[Pushes[k]]
SavedOrPatched(s) ==
  \A k \in 1 .. 15 : s[FrameWords + k] \in {atFault[Pushes[k]], Zero, Safe}

(* A frame iretq can return by; behind vector 6 there is none.             *)
StepFrame(s) ==
  s[1] = "ss" /\ s[2] = "rsp" /\ s[4] = "cs" /\ s[5] \in ProgramRips
TrapFrame(s) ==
  /\ s[3] = "rflags"
  /\ vector # 6 => /\ s[1] = "ss" /\ s[4] = "cs"
                   /\ \/ s[5] = "return address" /\ s[2] = "rsp + 8"
                      \/ s[5] = "rip" /\ s[2] = "rsp"

InWrapper ==
  mode \in {"Isr1Handler", "GPFaultWrapper", "PageFaultWrapper", "FatalWrapper"} =>
    /\ mode = Wrapper(vector) /\ regs = atFault /\ Len(stack) = FrameWords /\ Frame(stack)
    /\ mode = "FatalWrapper" => shown = <<>>

InHandler ==
  mode \in {"DebuggerEngine", "GPFaultHandler", "PageFaultHandler"} =>
    /\ mode = "DebuggerEngine" => Stepping
    /\ mode = "GPFaultHandler" => vector = 13
    /\ mode = "PageFaultHandler" => Trapped
    /\ Len(stack) = FrameWords + 15 /\ Frame(stack) /\ Saved(stack)

Restoring ==
  mode = "RestoreRegisters" =>
    /\ Len(stack) = FrameWords + 15
    /\ \/ Stepping /\ Saved(stack) /\ StepFrame(stack)
       \/ Trapped /\ SavedOrPatched(stack) /\ TrapFrame(stack)

Returning ==
  mode = "iretq" =>
    \/ Stepping /\ regs = atFault /\ Len(stack) = 5 /\ StepFrame(stack)
    \/ /\ Trapped /\ \A r \in GPR : regs[r] \in {atFault[r], Zero, Safe}
       /\ Len(stack) = (IF vector = 6 THEN 4 ELSE 5) /\ TrapFrame(stack)

Resumed == mode = "resumed" => cs = "cs" /\ ss = "ss"

ExceptionsInv ==
  /\ Types /\ CpuUntouched /\ InWrapper /\ InHandler /\ Restoring /\ Returning /\ Resumed
  /\ DebuggerShowsRegisters /\ StepIsTransparent /\ ResumeIsBalanced /\ ReportsNameTheFault

-----------------------------------------------------------------------------
(* Where the structures have their fields.                                 *)

LEMMA OffsetIs ==
  ASSUME NEW struct, NEW field, NEW n \in DOMAIN struct, struct[n] = field,
         \A j \in DOMAIN struct : j # n => struct[j] # field
  PROVE  Offset(struct, field) = n
BY DEF Offset

LEMMA IntRegisters ==
  /\ Offset(INT_REGISTERS, "rax") = 15 /\ Offset(INT_REGISTERS, "rbx") = 14
  /\ Offset(INT_REGISTERS, "rcx") = 13 /\ Offset(INT_REGISTERS, "rdx") = 12
  /\ Offset(INT_REGISTERS, "rsi") = 11 /\ Offset(INT_REGISTERS, "rdi") = 10
  /\ Offset(INT_REGISTERS, "rbp") = 9 /\ Offset(INT_REGISTERS, "error_code") = 16
  /\ Offset(INT_REGISTERS, "rip") = 17 /\ Offset(INT_REGISTERS, "rsp") = 20
<1> DEFINE s == INT_REGISTERS
<1>1. DOMAIN s = 1 .. 21
  BY DEF INT_REGISTERS
<1>2. /\ s[1] = "r15" /\ s[2] = "r14" /\ s[3] = "r13" /\ s[4] = "r12" /\ s[5] = "r11"
      /\ s[6] = "r10" /\ s[7] = "r9" /\ s[8] = "r8" /\ s[9] = "rbp" /\ s[10] = "rdi"
      /\ s[11] = "rsi" /\ s[12] = "rdx" /\ s[13] = "rcx" /\ s[14] = "rbx" /\ s[15] = "rax"
      /\ s[16] = "error_code" /\ s[17] = "rip" /\ s[18] = "cs" /\ s[19] = "rflags"
      /\ s[20] = "rsp" /\ s[21] = "ss"
  BY DEF INT_REGISTERS
<1> HIDE DEF s
<1>3. \A j \in 1 .. 21 : j \in {1, 2, 3, 4, 5, 6, 7, 8, 9, 10, 11, 12, 13, 14, 15, 16, 17,
                                18, 19, 20, 21}
  OBVIOUS
<1>4. \A n, j \in 1 .. 21 : j # n => s[j] # s[n]
  BY <1>2, <1>3
<1>5. \A n \in 1 .. 21 : Offset(s, s[n]) = n
  BY <1>1, <1>4, OffsetIs
<1> QED BY <1>2, <1>5 DEF s

LEMMA CpuState ==
  /\ Offset(CPU_STATE, "rax") = 1 /\ Offset(CPU_STATE, "rbx") = 2
  /\ Offset(CPU_STATE, "rcx") = 3 /\ Offset(CPU_STATE, "rdx") = 4
  /\ Offset(CPU_STATE, "rsi") = 5 /\ Offset(CPU_STATE, "rdi") = 6
  /\ Offset(CPU_STATE, "rip") = 16 /\ Offset(CPU_STATE, "rflags") = 18
<1> DEFINE s == CPU_STATE
<1>1. DOMAIN s = 1 .. 20
  BY DEF CPU_STATE
<1>2. /\ s[1] = "rax" /\ s[2] = "rbx" /\ s[3] = "rcx" /\ s[4] = "rdx" /\ s[5] = "rsi"
      /\ s[6] = "rdi" /\ s[7] = "rbp" /\ s[8] = "r8" /\ s[9] = "r9" /\ s[10] = "r10"
      /\ s[11] = "r11" /\ s[12] = "r12" /\ s[13] = "r13" /\ s[14] = "r14" /\ s[15] = "r15"
      /\ s[16] = "rip" /\ s[17] = "cs" /\ s[18] = "rflags" /\ s[19] = "rsp" /\ s[20] = "ss"
  BY DEF CPU_STATE
<1> HIDE DEF s
<1>3. \A j \in 1 .. 20 : j \in {1, 2, 3, 4, 5, 6, 7, 8, 9, 10, 11, 12, 13, 14, 15, 16, 17,
                                18, 19, 20}
  OBVIOUS
<1>4. \A n, j \in 1 .. 20 : j # n => s[j] # s[n]
  BY <1>2, <1>3
<1>5. \A n \in 1 .. 20 : Offset(s, s[n]) = n
  BY <1>1, <1>4, OffsetIs
<1> QED BY <1>2, <1>5 DEF s

(* The pops undo the pushes.                                               *)
LEMMA PopsReverse ==
  /\ Len(Pushes) = 15 /\ DOMAIN Pushes = 1 .. 15 /\ Len(Reverse(Pushes)) = 15
  /\ \A k \in 1 .. 15 : Pushes[k] \in GPR /\ Offset(Reverse(Pushes), Pushes[k]) = 16 - k
  /\ \A r \in GPR : \E k \in 1 .. 15 : r = Pushes[k]
<1> DEFINE s == Pushes
           t == Reverse(Pushes)
<1>1. DOMAIN s = 1 .. 15 /\ Len(s) = 15
  BY DEF Pushes
<1>2. /\ s[1] = "r15" /\ s[2] = "r14" /\ s[3] = "r13" /\ s[4] = "r12" /\ s[5] = "r11"
      /\ s[6] = "r10" /\ s[7] = "r9" /\ s[8] = "r8" /\ s[9] = "rbp" /\ s[10] = "rdi"
      /\ s[11] = "rsi" /\ s[12] = "rdx" /\ s[13] = "rcx" /\ s[14] = "rbx" /\ s[15] = "rax"
  BY DEF Pushes
<1>3. t = [j \in 1 .. 15 |-> s[15 - j + 1]]
  BY <1>1 DEF Reverse
<1> HIDE DEF s
<1>4. \A j \in 1 .. 15 : j \in {1, 2, 3, 4, 5, 6, 7, 8, 9, 10, 11, 12, 13, 14, 15}
  OBVIOUS
<1>5. \A n, j \in 1 .. 15 : j # n => s[j] # s[n]
  BY <1>2, <1>4
<1> HIDE DEF t
<1>6. ASSUME NEW k \in 1 .. 15 PROVE Offset(t, s[k]) = 16 - k
  <2>1. DOMAIN t = 1 .. 15 /\ 16 - k \in 1 .. 15
    BY <1>3
  <2>2. t[16 - k] = s[k]
    <3>1. 15 - (16 - k) + 1 = k
      OBVIOUS
    <3> QED BY <1>3, <2>1, <3>1
  <2>3. \A j \in 1 .. 15 : j # 16 - k => t[j] # s[k]
    BY <1>3, <1>5
  <2> QED BY <2>1, <2>2, <2>3, OffsetIs
<1>7. Len(t) = 15
  BY <1>3
<1>8. \A k \in 1 .. 15 : s[k] \in GPR
  BY <1>2, <1>4 DEF GPR
<1>9. \A r \in GPR : \E k \in 1 .. 15 : r = s[k]
  BY <1>2 DEF GPR
<1> QED BY <1>1, <1>6, <1>7, <1>8, <1>9 DEF s, t

(* Stacks: a word overwritten, all words looked at, the top taken off, a   *)
(* sequence pushed.                                                        *)
LEMMA StackOf ==
  ASSUME NEW n \in Nat, NEW f \in [1 .. n -> Words]
  PROVE  f \in Seq(Words) /\ Len(f) = n
OBVIOUS

LEMMA EmptyStack == <<>> \in Seq(Words) /\ Len(<<>>) = 0 /\ DOMAIN <<>> = {}
OBVIOUS

LEMMA SixWords ==
  ASSUME NEW w1 \in Words, NEW w2 \in Words, NEW w3 \in Words, NEW w4 \in Words,
         NEW w5 \in Words, NEW w6 \in Words
  PROVE  LET s == <<w1, w2, w3, w4, w5, w6>>
         IN  /\ s \in Seq(Words) /\ Len(s) = 6
             /\ s[1] = w1 /\ s[2] = w2 /\ s[3] = w3 /\ s[4] = w4 /\ s[5] = w5 /\ s[6] = w6
OBVIOUS

LEMMA StoredWord ==
  ASSUME NEW s \in Seq(Words), NEW n \in 1 .. Len(s), NEW v \in Words
  PROVE  LET t == [s EXCEPT ![n] = v]
         IN  /\ t \in Seq(Words) /\ Len(t) = Len(s) /\ t[n] = v
             /\ \A j \in 1 .. Len(s) : j # n => t[j] = s[j]
<1> DEFINE t == [s EXCEPT ![n] = v]
<1>1. DOMAIN s = 1 .. Len(s) /\ Len(s) \in Nat /\ \A j \in 1 .. Len(s) : s[j] \in Words
  OBVIOUS
<1>2. t \in [1 .. Len(s) -> Words]
  BY <1>1
<1>3. t \in Seq(Words) /\ Len(t) = Len(s)
  BY <1>1, <1>2, StackOf
<1> QED BY <1>1, <1>3

LEMMA TakenOff ==
  ASSUME NEW s \in Seq(Words), NEW n \in 0 .. Len(s)
  PROVE  /\ SubSeq(s, 1, n) \in Seq(Words) /\ Len(SubSeq(s, 1, n)) = n
         /\ \A j \in 1 .. n : SubSeq(s, 1, n)[j] = s[j]
OBVIOUS

LEMMA Pushed ==
  ASSUME NEW s \in Seq(Words), NEW t \in Seq(Words)
  PROVE  /\ s \o t \in Seq(Words) /\ Len(s \o t) = Len(s) + Len(t)
         /\ \A j \in 1 .. Len(s) : (s \o t)[j] = s[j]
         /\ \A j \in 1 .. Len(t) : (s \o t)[Len(s) + j] = t[j]
OBVIOUS

LEMMA WrapperIs ==
  ASSUME vector \in 0 .. 31
  PROVE  /\ Wrapper(vector) \in
              {"Isr1Handler", "GPFaultWrapper", "PageFaultWrapper", "FatalWrapper"}
         /\ Wrapper(vector) = "Isr1Handler" <=> Stepping
         /\ Wrapper(vector) = "GPFaultWrapper" <=> vector = 13
         /\ Wrapper(vector) = "PageFaultWrapper" <=> Trapped
         /\ Stepping => ~HasErrorCode(vector)
         /\ Trapped => (HasErrorCode(vector) <=> vector # 6)
         /\ vector = 13 => HasErrorCode(vector)
BY DEF Wrapper, Stepping, Trapped, HasErrorCode

LEMMA FrameWordsIs ==
  /\ FrameWords \in {5, 6}
  /\ HasErrorCode(vector) <=> FrameWords = 6
BY DEF FrameWords

-----------------------------------------------------------------------------
LEMMA InitEstablishes == Init => ExceptionsInv
<1> SUFFICES ASSUME Init PROVE ExceptionsInv
  OBVIOUS
<1>1. /\ mode = "running" /\ vector = 0 /\ atFault = regs
      /\ rip \in ProgramRips
      /\ rsp = "rsp" /\ rflags = "rflags" /\ cs = "cs" /\ ss = "ss"
  BY DEF Init
<1>2. Types
  <2>1. PICK zeros \in ZeroSets : regs = [r \in GPR |-> IF r \in zeros THEN Zero ELSE r]
    BY DEF Init
  <2>2. regs \in [GPR -> Words]
    BY <2>1 DEF Words
  <2>3. stack \in Seq(Words)
    BY EmptyStack DEF Init
  <2>4. vector = 0
    BY <1>1
  <2>5. vector \in 0 .. 31
    BY <2>4
  <2>6. atFault = regs
    BY <1>1
  <2> QED BY <2>2, <2>3, <2>5, <2>6 DEF Types
<1>3. CpuUntouched /\ InWrapper /\ InHandler /\ Restoring /\ Returning /\ Resumed
  BY <1>1 DEF CpuUntouched, AsProgram, InWrapper, InHandler, Restoring, Returning, Resumed
<1>4. DebuggerShowsRegisters /\ StepIsTransparent /\ ResumeIsBalanced
  BY <1>1 DEF DebuggerShowsRegisters, StepIsTransparent, ResumeIsBalanced
<1>5. ReportsNameTheFault
  <2>1. ~HasErrorCode(vector)
    <3>1. vector = 0
      BY <1>1
    <3> QED BY <3>1 DEF HasErrorCode
  <2> QED BY <2>1 DEF ReportsNameTheFault
<1> QED BY <1>2, <1>3, <1>4, <1>5 DEF ExceptionsInv

(* The frame of a fault, or of the same fault again.                       *)
LEMMA RaisePreserves ==
  ASSUME ExceptionsInv, NEW v \in 0 .. 31, AsProgram, Raise(v)
  PROVE  ExceptionsInv'
<1>1. /\ vector' = v /\ atFault' = regs /\ mode' = Wrapper(v)
      /\ regs' = regs /\ rip' = rip /\ rsp' = rsp /\ rflags' = rflags /\ cs' = cs /\ ss' = ss
      /\ rip = "top rip" => v = 1 \/ (v = 14 /\ cr2' = "top")
      /\ stack' = <<ss, rsp, rflags, cs, rip>>
                  \o (IF HasErrorCode(v) THEN <<"error_code">> ELSE <<>>)
  BY DEF Raise
<1>2. vector' \in 0 .. 31
  BY <1>1
<1>3. /\ mode' \in {"Isr1Handler", "GPFaultWrapper", "PageFaultWrapper", "FatalWrapper"}
      /\ mode' = Wrapper(vector')
  BY <1>1, <1>2 DEF Wrapper
<1>4. /\ stack' \in Seq(Words) /\ Len(stack') = (IF HasErrorCode(v) THEN 6 ELSE 5)
      /\ stack'[1] = "ss" /\ stack'[2] = "rsp" /\ stack'[3] = "rflags" /\ stack'[4] = "cs"
      /\ stack'[5] = rip
      /\ HasErrorCode(v) => stack'[6] = "error_code"
  <2> DEFINE five == <<ss, rsp, rflags, cs, rip>>
             code == IF HasErrorCode(v) THEN <<"error_code">> ELSE <<>>
  <2>1. /\ five \in Seq(Words) /\ Len(five) = 5
        /\ five[1] = "ss" /\ five[2] = "rsp" /\ five[3] = "rflags" /\ five[4] = "cs"
        /\ five[5] = rip
    <3>1. /\ ss = "ss" /\ rsp = "rsp" /\ rflags = "rflags" /\ cs = "cs"
          /\ rip \in ProgramRips
      BY DEF AsProgram
    <3>2. ss \in Words /\ rsp \in Words /\ rflags \in Words /\ cs \in Words /\ rip \in Words
      BY <3>1 DEF Words, ProgramRips
    <3>3. five \in Seq(Words) /\ Len(five) = 5
      BY <3>2
    <3> QED BY <3>1, <3>3
  <2>2. /\ code \in Seq(Words) /\ Len(code) = (IF HasErrorCode(v) THEN 1 ELSE 0)
        /\ HasErrorCode(v) => code[1] = "error_code"
    <3>1. "error_code" \in Words
      BY DEF Words
    <3>2. <<"error_code">> \in Seq(Words) /\ Len(<<"error_code">>) = 1
      BY <3>1
    <3> QED BY <3>2, EmptyStack
  <2>3. stack' = five \o code
    BY <1>1
  <2> HIDE DEF five, code
  <2>4. /\ stack' \in Seq(Words) /\ Len(stack') = Len(five) + Len(code)
        /\ \A j \in 1 .. Len(five) : stack'[j] = five[j]
        /\ \A j \in 1 .. Len(code) : stack'[Len(five) + j] = code[j]
    BY <2>1, <2>2, <2>3, Pushed
  <2>5. \A j \in 1 .. 5 : stack'[j] = five[j]
    BY <2>1, <2>4
  <2>6. HasErrorCode(v) => stack'[6] = "error_code"
    <3>1. \A j \in 1 .. Len(code) : stack'[5 + j] = code[j]
      BY <2>1, <2>4
    <3>2. HasErrorCode(v) => stack'[5 + 1] = code[1]
      BY <2>2, <3>1
    <3> QED BY <2>2, <3>2
  <2>7. /\ stack'[1] = "ss" /\ stack'[2] = "rsp" /\ stack'[3] = "rflags" /\ stack'[4] = "cs"
        /\ stack'[5] = rip
    <3>1. /\ stack'[1] = five[1] /\ stack'[2] = five[2] /\ stack'[3] = five[3]
          /\ stack'[4] = five[4] /\ stack'[5] = five[5]
      BY <2>5
    <3> QED BY <2>1, <3>1, Zenon
  <2>8. Len(stack') = (IF HasErrorCode(v) THEN 6 ELSE 5)
    <3>1. Len(five) = 5 /\ Len(stack') = Len(five) + Len(code)
      BY <2>1, <2>4, Zenon
    <3>2. CASE HasErrorCode(v)
      <4>1. Len(code) = 1
        BY <2>2, <3>2
      <4> QED BY <3>1, <3>2, <4>1
    <3>3. CASE ~HasErrorCode(v)
      <4>1. Len(code) = 0
        BY <2>2, <3>3
      <4> QED BY <3>1, <3>3, <4>1
    <3> QED BY <3>2, <3>3
  <2> QED BY <2>4, <2>6, <2>7, <2>8
<1>5. Types'
  BY <1>1, <1>2, <1>4 DEF ExceptionsInv, Types
<1>6. CpuUntouched'
  BY <1>1 DEF CpuUntouched, AsProgram
<1>7. InWrapper'
  <2>1. ProgramFrame(stack)'
    <3>1. rip \in ProgramRips
      BY DEF AsProgram
    <3> QED BY <1>1, <1>4, <3>1 DEF ProgramFrame, HasErrorCode
  <2>2. Len(stack') = FrameWords'
    BY <1>1, <1>4 DEF FrameWords, HasErrorCode
  <2>3. shown' = <<>>
    BY DEF Raise
  <2> QED BY <1>1, <1>3, <2>1, <2>2, <2>3 DEF InWrapper, Frame
<1>8. InHandler' /\ Restoring' /\ Returning' /\ Resumed'
  BY <1>3 DEF InHandler, Restoring, Returning, Resumed
<1>9. DebuggerShowsRegisters' /\ StepIsTransparent' /\ ResumeIsBalanced'
  BY <1>3 DEF DebuggerShowsRegisters, StepIsTransparent, ResumeIsBalanced
<1>10. ReportsNameTheFault'
  BY <1>3 DEF ReportsNameTheFault
<1> QED BY <1>5, <1>6, <1>7, <1>8, <1>9, <1>10 DEF ExceptionsInv

(* The registers go behind the frame, in the order of the pushes.          *)
LEMMA SavePreserves ==
  ASSUME ExceptionsInv, SaveRegisters
  PROVE  ExceptionsInv'
<1>1. /\ mode \in {"Isr1Handler", "GPFaultWrapper", "PageFaultWrapper"}
      /\ vector' = vector /\ cr2' = cr2 /\ atFault' = atFault /\ shown' = shown
      /\ rip' = rip /\ rsp' = rsp /\ rflags' = rflags /\ cs' = cs /\ ss' = ss
      /\ regs' = [r \in GPR |-> Junk]
      /\ stack' = stack \o [i \in DOMAIN Pushes |-> regs[Pushes[i]]]
      /\ mode' = CASE mode = "Isr1Handler"      -> "DebuggerEngine"
                   [] mode = "GPFaultWrapper"   -> "GPFaultHandler"
                   [] mode = "PageFaultWrapper" -> "PageFaultHandler"
  BY DEF SaveRegisters
<1>2. /\ mode = Wrapper(vector) /\ regs = atFault
      /\ Len(stack) = FrameWords /\ Frame(stack)
  BY <1>1 DEF ExceptionsInv, InWrapper
<1>3. /\ stack \in Seq(Words) /\ regs \in [GPR -> Words] /\ atFault \in [GPR -> Words]
      /\ vector \in 0 .. 31
  BY DEF ExceptionsInv, Types
<1>4. FrameWords' = FrameWords /\ FrameWords \in {5, 6}
  BY <1>1, FrameWordsIs DEF FrameWords
<1>5. /\ mode' \in {"DebuggerEngine", "GPFaultHandler", "PageFaultHandler"}
      /\ mode' = "DebuggerEngine" => Stepping
      /\ mode' = "GPFaultHandler" => vector = 13
      /\ mode' = "PageFaultHandler" => Trapped
  <2>1. CASE mode = "Isr1Handler"
    BY <1>1, <1>2, <1>3, <2>1, WrapperIs
  <2>2. CASE mode = "GPFaultWrapper"
    BY <1>1, <1>2, <1>3, <2>2, WrapperIs
  <2>3. CASE mode = "PageFaultWrapper"
    BY <1>1, <1>2, <1>3, <2>3, WrapperIs
  <2> QED BY <1>1, <2>1, <2>2, <2>3
<1>6. /\ stack' \in Seq(Words) /\ Len(stack') = FrameWords + 15
      /\ \A j \in 1 .. FrameWords : stack'[j] = stack[j]
      /\ \A k \in 1 .. 15 : stack'[FrameWords + k] = atFault[Pushes[k]]
  <2> DEFINE saved == [i \in DOMAIN Pushes |-> regs[Pushes[i]]]
  <2>1. /\ saved \in [1 .. 15 -> Words]
        /\ \A k \in 1 .. 15 : saved[k] = atFault[Pushes[k]]
    BY <1>2, <1>3, PopsReverse
  <2>2. stack' = stack \o saved
    BY <1>1
  <2> HIDE DEF saved
  <2>3. saved \in Seq(Words) /\ Len(saved) = 15
    BY <2>1, StackOf
  <2>4. /\ stack' \in Seq(Words) /\ Len(stack') = Len(stack) + Len(saved)
        /\ \A j \in 1 .. Len(stack) : stack'[j] = stack[j]
        /\ \A k \in 1 .. Len(saved) : stack'[Len(stack) + k] = saved[k]
    BY <1>3, <2>2, <2>3, Pushed
  <2>5. Len(stack) = FrameWords
    BY <1>2
  <2> QED BY <2>1, <2>3, <2>4, <2>5
<1>7. Frame(stack)'
  <2>1. \A j \in 1 .. 5 : stack'[j] = stack[j]
    <3>1. \A j \in 1 .. 5 : j \in 1 .. FrameWords
      BY FrameWordsIs
    <3> QED BY <1>6, <3>1
  <2>2. FrameWords = 6 => stack'[6] = stack[6]
    BY <1>6
  <2>3. /\ stack'[1] = stack[1] /\ stack'[2] = stack[2] /\ stack'[3] = stack[3]
        /\ stack'[4] = stack[4] /\ stack'[5] = stack[5]
    BY <2>1
  <2>4. HasErrorCode(vector) \/ vector = 14 => stack'[6] = stack[6]
    BY <2>2, FrameWordsIs DEF HasErrorCode
  <2>5. CASE ProgramFrame(stack)
    BY <1>1, <2>3, <2>4, <2>5, Zenon DEF Frame, ProgramFrame, HasErrorCode
  <2>6. CASE HandlerFrame(stack)
    BY <1>1, <2>3, <2>4, <2>6, Zenon DEF Frame, HandlerFrame
  <2> QED BY <1>2, <2>5, <2>6 DEF Frame
<1>8. Saved(stack)'
  BY <1>1, <1>4, <1>6 DEF Saved
<1>9. Types'
  BY <1>1, <1>3, <1>6 DEF Types, Words
<1>10. CpuUntouched'
  BY <1>1 DEF ExceptionsInv, CpuUntouched, AsProgram
<1>11. InHandler'
  BY <1>1, <1>4, <1>5, <1>6, <1>7, <1>8 DEF InHandler, Stepping, Trapped
<1>12. InWrapper' /\ Restoring' /\ Returning' /\ Resumed'
  BY <1>5 DEF InWrapper, Restoring, Returning, Resumed
<1>13. DebuggerShowsRegisters' /\ StepIsTransparent' /\ ResumeIsBalanced'
  BY <1>5 DEF DebuggerShowsRegisters, StepIsTransparent, ResumeIsBalanced
<1>14. ReportsNameTheFault'
  BY <1>5 DEF ReportsNameTheFault
<1> QED BY <1>9, <1>10, <1>11, <1>12, <1>13, <1>14 DEF ExceptionsInv

(* A handler that gives up.                                                *)
LEMMA GivesUp ==
  ASSUME ExceptionsInv, mode' \in {"halted", "reboot"}, mode # "resumed", mode # "lost",
         UNCHANGED <<vector, regs, rip, rsp, rflags, cs, ss, stack, atFault>>,
         ReportsNameTheFault'
  PROVE  ExceptionsInv'
<1>1. Types'
  BY DEF ExceptionsInv, Types
<1>2. CpuUntouched'
  BY DEF ExceptionsInv, CpuUntouched, AsProgram
<1>3. InWrapper' /\ InHandler' /\ Restoring' /\ Returning' /\ Resumed'
  BY DEF InWrapper, InHandler, Restoring, Returning, Resumed
<1>4. DebuggerShowsRegisters' /\ StepIsTransparent' /\ ResumeIsBalanced'
  BY DEF DebuggerShowsRegisters, StepIsTransparent, ResumeIsBalanced
<1> QED BY <1>1, <1>2, <1>3, <1>4 DEF ExceptionsInv

LEMMA FatalPreserves ==
  ASSUME ExceptionsInv, FatalExceptionHandler
  PROVE  ExceptionsInv'
<1>1. ReportsNameTheFault'
  <2>1. DOMAIN shown = {}
    BY EmptyStack DEF FatalExceptionHandler, ExceptionsInv, InWrapper
  <2> QED BY <2>1 DEF FatalExceptionHandler, ReportsNameTheFault
<1> QED BY <1>1, GivesUp DEF FatalExceptionHandler

(* What a handler finds where its structure has rip, rsp and error_code.   *)
LEMMA HandlerReads ==
  ASSUME ExceptionsInv, mode \in {"GPFaultHandler", "PageFaultHandler"}
  PROVE  /\ Slot(INT_REGISTERS, "rip") = FrameWords - 1
         /\ Slot(INT_REGISTERS, "rsp") = FrameWords - 4
         /\ Slot(INT_REGISTERS, "rax") = FrameWords + 1
         /\ HasErrorCode(vector) =>
              /\ Read(INT_REGISTERS, "rip") = stack[5]
              /\ Read(INT_REGISTERS, "error_code") = "error_code"
              /\ ProgramFrame(stack) =>
                   Read(INT_REGISTERS, "rip") = rip /\ Read(INT_REGISTERS, "rsp") = "rsp"
         /\ vector = 6 => Read(INT_REGISTERS, "rip") = "cs" /\ Read(INT_REGISTERS, "rsp") = "ss"
         /\ ProgramFrame(stack) \/ HandlerFrame(stack)
         /\ vector # 14 \/ cr2 # "top" => ProgramFrame(stack)
<1>1. Len(stack) = FrameWords + 15 /\ Frame(stack)
  BY DEF ExceptionsInv, InHandler
<1>2. /\ Slot(INT_REGISTERS, "rip") = FrameWords - 1
      /\ Slot(INT_REGISTERS, "rsp") = FrameWords - 4
      /\ Slot(INT_REGISTERS, "rax") = FrameWords + 1
      /\ Slot(INT_REGISTERS, "error_code") = FrameWords
  <2>1. Len(stack) = FrameWords + 15 /\ FrameWords \in Nat
    BY <1>1, FrameWordsIs
  <2> QED BY <2>1, IntRegisters DEF Slot
<1>3. vector # 14 \/ cr2 # "top" => ProgramFrame(stack)
  BY <1>1 DEF Frame, HandlerFrame
<1>4. ASSUME HasErrorCode(vector)
      PROVE  /\ Read(INT_REGISTERS, "rip") = stack[5]
             /\ Read(INT_REGISTERS, "error_code") = "error_code"
             /\ ProgramFrame(stack) =>
                  Read(INT_REGISTERS, "rip") = rip /\ Read(INT_REGISTERS, "rsp") = "rsp"
  <2>1. FrameWords = 6
    BY <1>4, FrameWordsIs
  <2>2. /\ Slot(INT_REGISTERS, "rip") = 5 /\ Slot(INT_REGISTERS, "rsp") = 2
        /\ Slot(INT_REGISTERS, "error_code") = 6
    BY <1>2, <2>1
  <2>3. /\ Read(INT_REGISTERS, "rip") = stack[5] /\ Read(INT_REGISTERS, "rsp") = stack[2]
        /\ Read(INT_REGISTERS, "error_code") = stack[6]
    BY <2>2 DEF Read
  <2>4. stack[6] = "error_code"
    BY <1>1, <1>4 DEF Frame, ProgramFrame, HandlerFrame
  <2>5. ProgramFrame(stack) => stack[5] = rip /\ stack[2] = "rsp"
    BY DEF ProgramFrame
  <2> QED BY <2>3, <2>4, <2>5, Zenon
<1>5. ASSUME vector = 6
      PROVE  Read(INT_REGISTERS, "rip") = "cs" /\ Read(INT_REGISTERS, "rsp") = "ss"
  <2>1. FrameWords = 5
    BY <1>5 DEF FrameWords, HasErrorCode
  <2>2. Slot(INT_REGISTERS, "rip") = 4 /\ Slot(INT_REGISTERS, "rsp") = 1
    BY <1>2, <2>1
  <2>3. Read(INT_REGISTERS, "rip") = stack[4] /\ Read(INT_REGISTERS, "rsp") = stack[1]
    BY <2>2 DEF Read
  <2>4. stack[4] = "cs" /\ stack[1] = "ss"
    <3>1. vector # 14
      BY <1>5
    <3> QED BY <1>3, <3>1 DEF ProgramFrame
  <2> QED BY <2>3, <2>4, Zenon
<1> QED BY <1>1, <1>2, <1>3, <1>4, <1>5 DEF Frame

LEMMA GPFaultPreserves ==
  ASSUME ExceptionsInv, GPFaultHandler
  PROVE  ExceptionsInv'
<1>1. mode = "GPFaultHandler" /\ vector = 13
  BY DEF GPFaultHandler, ExceptionsInv, InHandler
<1>2. HasErrorCode(vector)
  BY <1>1 DEF HasErrorCode
<1>3. vector # 14
  BY <1>1
<1>4. /\ Read(INT_REGISTERS, "rip") = rip /\ Read(INT_REGISTERS, "error_code") = "error_code"
      /\ rip # "top rip"
  <2>1. ProgramFrame(stack)
    BY <1>1, <1>3, HandlerReads
  <2>2. rip # "top rip"
    <3>1. vector # 1 /\ vector # 14
      BY <1>1
    <3> QED BY <2>1, <3>1 DEF ProgramFrame
  <2> QED BY <1>1, <1>2, <2>1, <2>2, HandlerReads
<1>5. ReportsNameTheFault'
  <2>1. shown' = [l \in {"error_code", "rip"} |-> Read(INT_REGISTERS, l)] /\ rip' = rip
    BY DEF GPFaultHandler, Shows
  <2>2. \A l \in DOMAIN shown' \cap {"rip", "error_code", "rsp"} :
          shown'[l] = IF l = "rip" THEN rip ELSE l
    BY <1>4, <2>1
  <2> QED BY <1>4, <2>1, <2>2 DEF ReportsNameTheFault, ReportedRip
<1> QED BY <1>5, GivesUp DEF GPFaultHandler

(* rip is the program's, or the handler's after a jump to a top address.   *)
LEMMA IllusionPausePreserves ==
  ASSUME ExceptionsInv, IllusionPause
  PROVE  ExceptionsInv'
<1>1. ReportsNameTheFault'
  <2>1. shown' = [l \in {"rip"} |-> Read(INT_REGISTERS, l)] /\ vector' = vector /\ rip' = rip
    BY DEF IllusionPause, Shows
  <2>2. ASSUME HasErrorCode(vector)
        PROVE  Read(INT_REGISTERS, "rip") = ReportedRip
    <3>1. mode = "PageFaultHandler" /\ Read(INT_REGISTERS, "rip") # "top rip"
      BY DEF IllusionPause
    <3>2. CASE ProgramFrame(stack)
      BY <2>2, <3>1, <3>2, HandlerReads DEF ReportedRip
    <3>3. CASE HandlerFrame(stack)
      <4>1. stack[5] = "handler rip" /\ rip = "top rip"
        BY <3>3 DEF HandlerFrame
      <4>2. Read(INT_REGISTERS, "rip") = stack[5]
        BY <2>2, <3>1, HandlerReads
      <4> QED BY <4>1, <4>2 DEF ReportedRip
    <3> QED BY <3>1, <3>2, <3>3, HandlerReads
  <2>3. HasErrorCode(vector)' <=> HasErrorCode(vector)
    BY <2>1 DEF HasErrorCode
  <2>4. ReportedRip' = ReportedRip
    BY <2>1 DEF ReportedRip
  <2>5. HasErrorCode(vector) =>
          \A l \in DOMAIN shown' \cap {"rip", "error_code", "rsp"} :
            shown'[l] = IF l = "rip" THEN ReportedRip ELSE l
    BY <2>1, <2>2
  <2> QED BY <2>3, <2>4, <2>5 DEF ReportsNameTheFault
<1> QED BY <1>1, GivesUp DEF IllusionPause

(* A handler's own fault.                                                  *)
LEMMA PageFaultVector ==
  /\ Wrapper(14) = "PageFaultWrapper" /\ HasErrorCode(14)
  /\ 14 \in 0 .. 31
BY DEF Wrapper, HasErrorCode

LEMMA HandlerFaultsPreserves ==
  ASSUME ExceptionsInv, HandlerFaults, AsProgram, rip = "top rip"
  PROVE  ExceptionsInv'
<1>1. /\ vector' = 14 /\ cr2' = "top" /\ atFault' = regs /\ mode' = Wrapper(14)
      /\ stack' = <<"ss", "handler rsp", "handler rflags", "cs", "handler rip", "error_code">>
      /\ UNCHANGED <<regs, rip, rsp, rflags, cs, ss>>
  BY DEF HandlerFaults
<1>2. mode' = "PageFaultWrapper" /\ HasErrorCode(14)
  BY <1>1, PageFaultVector
<1>4. /\ stack' \in Seq(Words) /\ Len(stack') = 6
      /\ stack'[1] = "ss" /\ stack'[2] = "handler rsp" /\ stack'[3] = "handler rflags"
      /\ stack'[4] = "cs" /\ stack'[5] = "handler rip" /\ stack'[6] = "error_code"
  <2>1. /\ "ss" \in Words /\ "handler rsp" \in Words /\ "handler rflags" \in Words
        /\ "cs" \in Words /\ "handler rip" \in Words /\ "error_code" \in Words
    BY DEF Words
  <2> QED BY <1>1, <2>1, SixWords
<1>5. Types'
  <2>1. vector' = 14
    BY <1>1
  <2>2. vector' \in 0 .. 31
    BY <2>1, PageFaultVector
  <2> QED BY <1>1, <1>4, <2>2 DEF ExceptionsInv, Types
<1>6. CpuUntouched'
  BY <1>1 DEF CpuUntouched, AsProgram
<1>7. InWrapper'
  <2>1. HandlerFrame(stack)'
    BY <1>1, <1>4 DEF HandlerFrame
  <2>2. FrameWords' = 6
    BY <1>1, <1>2 DEF FrameWords, HasErrorCode
  <2>3. mode' # "FatalWrapper" /\ mode' = Wrapper(vector')
    BY <1>1, <1>2
  <2> QED BY <1>1, <1>4, <2>1, <2>2, <2>3 DEF InWrapper, Frame
<1>8. InHandler' /\ Restoring' /\ Returning' /\ Resumed'
  BY <1>2 DEF InHandler, Restoring, Returning, Resumed
<1>9. DebuggerShowsRegisters' /\ StepIsTransparent' /\ ResumeIsBalanced' /\ ReportsNameTheFault'
  BY <1>2 DEF DebuggerShowsRegisters, StepIsTransparent, ResumeIsBalanced, ReportsNameTheFault
<1> QED BY <1>5, <1>6, <1>7, <1>8, <1>9 DEF ExceptionsInv

LEMMA IllusionFaultsPreserves ==
  ASSUME ExceptionsInv, IllusionFaults
  PROVE  ExceptionsInv'
<1>1. mode = "PageFaultHandler" /\ Read(INT_REGISTERS, "rip") = "top rip" /\ HandlerFaults
  BY DEF IllusionFaults
<1>2. rip = "top rip"
  <2>1. Trapped
    BY <1>1 DEF ExceptionsInv, InHandler
  <2>2. vector # 6
    BY <1>1, HandlerReads
  <2>3. HasErrorCode(vector)
    BY <2>1, <2>2 DEF Trapped, HasErrorCode
  <2>4. CASE ProgramFrame(stack)
    BY <1>1, <2>3, <2>4, HandlerReads
  <2>5. CASE HandlerFrame(stack)
    BY <2>5 DEF HandlerFrame
  <2> QED BY <1>1, <2>4, <2>5, HandlerReads
<1>3. AsProgram
  BY <1>1 DEF ExceptionsInv, CpuUntouched
<1> QED BY <1>1, <1>2, <1>3, HandlerFaultsPreserves

LEMMA DumpFaultsPreserves ==
  ASSUME ExceptionsInv, DumpFaults
  PROVE  ExceptionsInv'
<1>1. mode = "DebuggerEngine" /\ Read(CPU_STATE, "rip") = "top rip" /\ HandlerFaults
  BY DEF DumpFaults
<1>2. vector = 1 /\ Len(stack) = FrameWords + 15 /\ Frame(stack)
  BY <1>1 DEF ExceptionsInv, InHandler, Stepping
<1>3. FrameWords = 5
  BY <1>2 DEF FrameWords, HasErrorCode
<1>4. Len(stack) = 20
  BY <1>2, <1>3
<1>5. Slot(CPU_STATE, "rip") = 5
  BY <1>4, CpuState DEF Slot
<1>6. Read(CPU_STATE, "rip") = stack[5]
  <2>1. 5 >= 1
    OBVIOUS
  <2> QED BY <1>5, <2>1 DEF Read
<1>7. stack[5] = rip
  <2>1. vector # 14
    BY <1>2
  <2> QED BY <1>2, <2>1 DEF Frame, ProgramFrame, HandlerFrame
<1>8. AsProgram
  BY <1>1 DEF ExceptionsInv, CpuUntouched
<1> QED BY <1>1, <1>6, <1>7, <1>8, HandlerFaultsPreserves

LEMMA PanicPreserves ==
  ASSUME ExceptionsInv, Panic
  PROVE  ExceptionsInv'
<1>1. ReportsNameTheFault'
  <2>1. /\ shown' = [l \in Redirected \cup {"rsp", "rip", "error_code"} |-> Read(INT_REGISTERS, l)]
        /\ vector' = vector /\ rip' = rip /\ cr2 # "top" /\ mode = "PageFaultHandler"
    BY DEF Panic, Shows
  <2>2. ASSUME HasErrorCode(vector)
        PROVE  /\ Read(INT_REGISTERS, "rip") = rip /\ rip # "top rip"
               /\ Read(INT_REGISTERS, "rsp") = "rsp"
               /\ Read(INT_REGISTERS, "error_code") = "error_code"
    <3>1. ProgramFrame(stack)
      BY <2>1, HandlerReads
    <3>2. vector # 1
      BY <2>1 DEF ExceptionsInv, InHandler, Trapped
    <3>3. rip # "top rip"
      BY <2>1, <3>1, <3>2 DEF ProgramFrame
    <3> QED BY <2>1, <2>2, <3>1, <3>3, HandlerReads
  <2>3. HasErrorCode(vector)' <=> HasErrorCode(vector)
    BY <2>1 DEF HasErrorCode
  <2>4. HasErrorCode(vector) =>
          \A l \in DOMAIN shown' \cap {"rip", "error_code", "rsp"} :
            shown'[l] = IF l = "rip" THEN rip ELSE l
    BY <2>1, <2>2
  <2> QED BY <2>1, <2>2, <2>3, <2>4 DEF ReportsNameTheFault, ReportedRip
<1> QED BY <1>1, GivesUp DEF Panic

(* A handler that returns, having written into the stack.                  *)
LEMMA GoesBack ==
  ASSUME ExceptionsInv, mode \in {"DebuggerEngine", "PageFaultHandler"},
         mode' = "RestoreRegisters",
         UNCHANGED <<vector, regs, rip, rsp, rflags, cs, ss, atFault>>,
         stack' \in Seq(Words), Len(stack') = Len(stack),
         \/ Stepping /\ Saved(stack') /\ StepFrame(stack')
         \/ Trapped /\ SavedOrPatched(stack') /\ TrapFrame(stack'),
         DebuggerShowsRegisters', ReportsNameTheFault'
  PROVE  ExceptionsInv'
<1>1. Types'
  BY DEF ExceptionsInv, Types
<1>2. CpuUntouched'
  BY DEF ExceptionsInv, CpuUntouched, AsProgram
<1>3. Restoring'
  <2>1. FrameWords' = FrameWords /\ atFault' = atFault /\ vector' = vector
    BY DEF FrameWords, HasErrorCode
  <2>2. Len(stack') = FrameWords + 15
    BY DEF ExceptionsInv, InHandler
  <2>3. Stepping /\ Saved(stack') /\ StepFrame(stack') =>
          (Stepping /\ Saved(stack) /\ StepFrame(stack))'
    BY <2>1 DEF Stepping, Saved, StepFrame
  <2>4. Trapped /\ SavedOrPatched(stack') /\ TrapFrame(stack') =>
          (Trapped /\ SavedOrPatched(stack) /\ TrapFrame(stack))'
    BY <2>1 DEF Trapped, SavedOrPatched, TrapFrame
  <2> QED BY <2>1, <2>2, <2>3, <2>4 DEF Restoring
<1>4. InWrapper' /\ InHandler' /\ Returning' /\ Resumed'
  BY DEF InWrapper, InHandler, Returning, Resumed
<1>5. StepIsTransparent' /\ ResumeIsBalanced'
  BY DEF StepIsTransparent, ResumeIsBalanced
<1> QED BY <1>1, <1>2, <1>3, <1>4, <1>5 DEF ExceptionsInv

LEMMA DebuggerPreserves ==
  ASSUME ExceptionsInv, DebuggerEngine
  PROVE  ExceptionsInv'
<1>1. /\ mode = "DebuggerEngine" /\ mode' = "RestoreRegisters"
      /\ vector = 1 /\ vector' = vector /\ atFault' = atFault
      /\ Len(stack) = FrameWords + 15 /\ Frame(stack) /\ Saved(stack)
      /\ stack \in Seq(Words)
  BY DEF DebuggerEngine, ExceptionsInv, InHandler, Stepping, Types
<1>2. FrameWords = 5 /\ Len(stack) = 20
  <2>1. FrameWords = 5
    BY <1>1 DEF FrameWords, HasErrorCode
  <2> QED BY <1>1, <2>1
<1>3. /\ Slot(CPU_STATE, "rflags") = 3
      /\ Slot(CPU_STATE, "rax") = 20 /\ Slot(CPU_STATE, "rbx") = 19
      /\ Slot(CPU_STATE, "rcx") = 18 /\ Slot(CPU_STATE, "rdx") = 17
      /\ Slot(CPU_STATE, "rsi") = 16 /\ Slot(CPU_STATE, "rdi") = 15
  <2>1. Len(stack) = 20
    BY <1>2
  <2> QED BY <2>1, CpuState DEF Slot
<1>4. /\ stack' \in Seq(Words) /\ Len(stack') = 20
      /\ \A j \in 1 .. 20 : j # 3 => stack'[j] = stack[j]
  <2>1. \E flags \in Words : stack' = [stack EXCEPT ![3] = flags]
    BY <1>3 DEF DebuggerEngine, Words
  <2>2. PICK flags \in Words : stack' = [stack EXCEPT ![3] = flags]
    BY <2>1
  <2>3. Len(stack) = 20 /\ 3 \in 1 .. Len(stack)
    BY <1>2
  <2>4. stack \in Seq(Words)
    BY <1>1
  <2> DEFINE n == 3
             t == [stack EXCEPT ![n] = flags]
  <2> HIDE DEF n
  <2>5. n \in 1 .. Len(stack)
    BY <2>3 DEF n
  <2>6. /\ t \in Seq(Words) /\ Len(t) = Len(stack)
        /\ \A j \in 1 .. Len(stack) : j # n => t[j] = stack[j]
    BY <2>4, <2>5, StoredWord
  <2>7. stack' = t
    BY <2>2 DEF n
  <2> HIDE DEF t
  <2> QED BY <2>3, <2>6, <2>7 DEF n
<1>5. Saved(stack') /\ StepFrame(stack')
  <2>1. \A k \in 1 .. 15 : 5 + k \in 1 .. 20 /\ 5 + k # 3
    OBVIOUS
  <2>2. \A k \in 1 .. 15 : stack'[5 + k] = stack[5 + k]
    BY <1>4, <2>1
  <2>3. Saved(stack')
    BY <1>1, <1>2, <2>2 DEF Saved
  <2>4. /\ stack'[1] = stack[1] /\ stack'[2] = stack[2] /\ stack'[4] = stack[4]
        /\ stack'[5] = stack[5]
    BY <1>4
  <2>5. ProgramFrame(stack)
    BY <1>1 DEF Frame, HandlerFrame
  <2>6. StepFrame(stack')
    BY <2>4, <2>5, Zenon DEF StepFrame, ProgramFrame
  <2> QED BY <2>3, <2>6
<1>6. DebuggerShowsRegisters'
  <2>1. shown' = [l \in {"rax", "rbx", "rcx", "rdx", "rsi", "rdi"} |-> Read(CPU_STATE, l)]
    BY DEF DebuggerEngine, Shows
  <2>2. \A k \in 1 .. 15 : stack[5 + k] = atFault[Pushes[k]]
    BY <1>1, <1>2 DEF Saved
  <2>3. /\ stack[20] = atFault[Pushes[15]] /\ stack[19] = atFault[Pushes[14]]
        /\ stack[18] = atFault[Pushes[13]] /\ stack[17] = atFault[Pushes[12]]
        /\ stack[16] = atFault[Pushes[11]] /\ stack[15] = atFault[Pushes[10]]
    <3>1. /\ stack[5 + 15] = atFault[Pushes[15]] /\ stack[5 + 14] = atFault[Pushes[14]]
          /\ stack[5 + 13] = atFault[Pushes[13]] /\ stack[5 + 12] = atFault[Pushes[12]]
          /\ stack[5 + 11] = atFault[Pushes[11]] /\ stack[5 + 10] = atFault[Pushes[10]]
      BY <2>2
    <3> QED BY <3>1
  <2>4. /\ Pushes[15] = "rax" /\ Pushes[14] = "rbx" /\ Pushes[13] = "rcx"
        /\ Pushes[12] = "rdx" /\ Pushes[11] = "rsi" /\ Pushes[10] = "rdi"
    BY DEF Pushes
  <2>5. /\ Read(CPU_STATE, "rax") = stack[20] /\ Read(CPU_STATE, "rbx") = stack[19]
        /\ Read(CPU_STATE, "rcx") = stack[18] /\ Read(CPU_STATE, "rdx") = stack[17]
        /\ Read(CPU_STATE, "rsi") = stack[16] /\ Read(CPU_STATE, "rdi") = stack[15]
    BY <1>3 DEF Read
  <2>6. \A l \in {"rax", "rbx", "rcx", "rdx", "rsi", "rdi"} : Read(CPU_STATE, l) = atFault[l]
    BY <2>3, <2>4, <2>5
  <2>7. \A l \in DOMAIN shown' : shown'[l] = atFault'[l]
    BY <1>1, <2>1, <2>6
  <2> QED BY <2>7 DEF DebuggerShowsRegisters
<1>7. ReportsNameTheFault'
  BY <1>1 DEF ReportsNameTheFault
<1> QED BY <1>1, <1>2, <1>4, <1>5, <1>6, <1>7, GoesBack DEF DebuggerEngine, Stepping

(* The return to the caller is written over rip, rsp and rax; behind       *)
(* vector 6 over cs, ss and the flags' neighbour.                          *)
LEMMA SkipPreserves ==
  ASSUME ExceptionsInv, SkipNullCall
  PROVE  ExceptionsInv'
<1>1. /\ mode = "PageFaultHandler" /\ mode' = "RestoreRegisters" /\ Trapped
      /\ vector' = vector /\ atFault' = atFault /\ shown' = shown
      /\ Len(stack) = FrameWords + 15 /\ ProgramFrame(stack) /\ Saved(stack)
      /\ stack \in Seq(Words)
  BY DEF SkipNullCall, ExceptionsInv, InHandler, Types, Frame, HandlerFrame
<1>2. FrameWords \in {5, 6} /\ 1 .. 20 \subseteq 1 .. Len(stack)
  <2>1. Len(stack) = FrameWords + 15
    BY <1>1
  <2> QED BY <2>1, FrameWordsIs
<1>3. PICK p \in Words, q \in Words :
        /\ p = ReturnAddress /\ q = Popped(Read(INT_REGISTERS, "rsp"))
        /\ vector # 6 => p = "return address" /\ q = "rsp + 8"
  <2>1. ReturnAddress \in Words /\ Popped(Read(INT_REGISTERS, "rsp")) \in Words
    BY DEF ReturnAddress, Popped, Words
  <2>2. vector # 6 => Read(INT_REGISTERS, "rsp") = "rsp"
    <3>1. vector # 6 => HasErrorCode(vector)
      BY <1>1 DEF Trapped, HasErrorCode
    <3> QED BY <1>1, <3>1, HandlerReads
  <2>3. vector # 6 =>
          ReturnAddress = "return address" /\ Popped(Read(INT_REGISTERS, "rsp")) = "rsp + 8"
    BY <2>2 DEF ReturnAddress, Popped
  <2> QED BY <2>1, <2>3
<1> DEFINE a == FrameWords - 1
           b == FrameWords - 4
           c == FrameWords + 1
           s == [stack EXCEPT ![a] = p]
           t == [s EXCEPT ![b] = q]
           u == [t EXCEPT ![c] = Zero]
<1>4. a \in 1 .. Len(stack) /\ b \in 1 .. Len(stack) /\ c \in 1 .. Len(stack)
      /\ a >= 1 /\ b >= 1 /\ c >= 1
  BY <1>1, FrameWordsIs
<1>5. stack' = u
  <2>1. /\ Slot(INT_REGISTERS, "rip") = a /\ Slot(INT_REGISTERS, "rsp") = b
        /\ Slot(INT_REGISTERS, "rax") = c
    BY <1>1, HandlerReads
  <2>2. stack' = Stored(Stored(Stored(stack, a, p), b, q), c, Zero)
    BY <1>3, <2>1 DEF SkipNullCall
  <2> HIDE DEF a, b, c
  <2> QED BY <1>4, <2>2 DEF Stored
<1> HIDE DEF a, b, c
<1>6. /\ s \in Seq(Words) /\ Len(s) = Len(stack) /\ s[a] = p
      /\ \A j \in 1 .. Len(stack) : j # a => s[j] = stack[j]
  BY <1>1, <1>4, StoredWord
<1> HIDE DEF s
<1>7. /\ t \in Seq(Words) /\ Len(t) = Len(stack) /\ t[b] = q
      /\ \A j \in 1 .. Len(stack) : j # b => t[j] = s[j]
  BY <1>4, <1>6, StoredWord
<1> HIDE DEF t
<1>8. /\ u \in Seq(Words) /\ Len(u) = Len(stack) /\ u[c] = Zero
      /\ \A j \in 1 .. Len(stack) : j # c => u[j] = t[j]
  <2>1. Zero \in Words
    BY DEF Words
  <2> QED BY <1>4, <1>7, <2>1, StoredWord
<1> HIDE DEF u
<1>9. /\ u[a] = p /\ u[b] = q
      /\ \A j \in 1 .. Len(stack) : j \notin {a, b, c} => u[j] = stack[j]
  <2>1. a # b /\ a # c /\ b # c
    BY FrameWordsIs DEF a, b, c
  <2> QED BY <1>4, <1>6, <1>7, <1>8, <2>1
<1>10. SavedOrPatched(u)
  <2>1. ASSUME NEW k \in 1 .. 15
        PROVE  u[FrameWords + k] \in {stack[FrameWords + k], Zero}
    <3>1. FrameWords + k \in 1 .. Len(stack) /\ FrameWords + k # a /\ FrameWords + k # b
      BY <1>1, FrameWordsIs DEF a, b
    <3> QED BY <1>8, <1>9, <3>1
  <2> QED BY <1>1, <2>1 DEF Saved, SavedOrPatched
<1>11. TrapFrame(u)
  <2>1. u[3] = "rflags"
    <3>1. 3 \notin {a, b, c}
      BY FrameWordsIs DEF a, b, c
    <3>2. 3 \in 1 .. 20
      OBVIOUS
    <3>3. u[3] = stack[3]
      BY <1>2, <1>9, <3>1, <3>2
    <3> QED BY <1>1, <3>3, Zenon DEF ProgramFrame
  <2>2. ASSUME vector # 6
        PROVE  u[1] = "ss" /\ u[4] = "cs" /\ u[5] = "return address" /\ u[2] = "rsp + 8"
    <3>1. FrameWords = 6
      <4>1. HasErrorCode(vector)
        BY <1>1, <2>2 DEF Trapped, HasErrorCode
      <4> QED BY <4>1, FrameWordsIs
    <3>2. a = 5 /\ b = 2 /\ c = 7
      BY <3>1 DEF a, b, c
    <3>3. 1 \in 1 .. Len(stack) /\ 4 \in 1 .. Len(stack)
      <4>1. 1 \in 1 .. 20 /\ 4 \in 1 .. 20
        OBVIOUS
      <4> QED BY <1>2, <4>1
    <3>4. u[5] = p /\ u[2] = q /\ u[1] = stack[1] /\ u[4] = stack[4]
      BY <1>9, <3>2, <3>3
    <3> QED BY <1>1, <1>3, <2>2, <3>4, Zenon DEF ProgramFrame
  <2> QED BY <2>1, <2>2 DEF TrapFrame
<1>12. DebuggerShowsRegisters'
  <2>1. vector' # 1
    BY <1>1 DEF Trapped
  <2> QED BY <2>1 DEF DebuggerShowsRegisters
<1>13. ReportsNameTheFault'
  BY <1>1 DEF ReportsNameTheFault
<1> QED BY <1>1, <1>5, <1>8, <1>10, <1>11, <1>12, <1>13, GoesBack DEF SkipNullCall

(* Registers that were 0 hold the amnesia zone; the frame is left alone.   *)
LEMMA RedirectPreserves ==
  ASSUME ExceptionsInv, RedirectNulls
  PROVE  ExceptionsInv'
<1>1. /\ mode = "PageFaultHandler" /\ mode' = "RestoreRegisters" /\ Trapped
      /\ vector' = vector /\ atFault' = atFault /\ shown' = shown
      /\ Len(stack) = FrameWords + 15 /\ ProgramFrame(stack) /\ Saved(stack)
      /\ stack \in Seq(Words)
  BY DEF RedirectNulls, ExceptionsInv, InHandler, Types, Frame, HandlerFrame
<1>2. vector # 6 /\ stack[5] = "rip"
  <2>1. Read(INT_REGISTERS, "rip") \notin {"cs", "low rip"}
    BY DEF RedirectNulls, Small
  <2>2. vector # 6
    BY <1>1, <2>1, HandlerReads
  <2>3. HasErrorCode(vector)
    BY <1>1, <2>2 DEF Trapped, HasErrorCode
  <2>4. cr2 # "top" /\ vector # 1
    BY <1>1 DEF RedirectNulls, Trapped
  <2>5. stack[5] \in {"rip", "low rip"}
    BY <1>1, <2>4 DEF ProgramFrame, ProgramRips
  <2> QED BY <1>1, <2>1, <2>3, <2>5, HandlerReads
<1>3. FrameWords = 6
  <2>1. HasErrorCode(vector)
    BY <1>1, <1>2 DEF Trapped, HasErrorCode
  <2> QED BY <2>1, FrameWordsIs
<1>4. Len(stack) = 21
  BY <1>1, <1>3
<1>5. \A f \in Redirected : Slot(INT_REGISTERS, f) > 6
  <2>1. \A f \in Redirected : Offset(INT_REGISTERS, f) \in 9 .. 15
    BY IntRegisters DEF Redirected
  <2> QED BY <1>4, <2>1 DEF Slot
<1>6. /\ stack' \in Seq(Words) /\ Len(stack') = 21
      /\ \A j \in 1 .. 21 : stack'[j] \in {stack[j], Safe}
      /\ \A j \in 1 .. 6 : stack'[j] = stack[j]
  <2>1. stack' = [i \in DOMAIN stack |->
                    IF /\ \E f \in Redirected : i = Slot(INT_REGISTERS, f)
                       /\ stack[i] = Zero
                    THEN Safe ELSE stack[i]]
    BY DEF RedirectNulls
  <2>2. DOMAIN stack = 1 .. 21 /\ \A j \in 1 .. 21 : stack[j] \in Words
    <3>1. stack \in Seq(Words)
      BY <1>1
    <3>2. DOMAIN stack = 1 .. Len(stack) /\ \A j \in 1 .. Len(stack) : stack[j] \in Words
      BY <3>1
    <3> QED BY <1>4, <3>2
  <2>3. stack' \in [1 .. 21 -> Words]
    <3>1. Safe \in Words
      BY DEF Words
    <3> QED BY <2>1, <2>2, <3>1
  <2>4. \A j \in 1 .. 21 : stack'[j] \in {stack[j], Safe}
    BY <2>1, <2>2
  <2>5. ASSUME NEW j \in 1 .. 6 PROVE stack'[j] = stack[j]
    <3>1. j \in DOMAIN stack /\ ~ \E f \in Redirected : j = Slot(INT_REGISTERS, f)
      BY <1>5, <2>2
    <3> QED BY <2>1, <3>1
  <2> QED BY <2>3, <2>4, <2>5, StackOf
<1>7. SavedOrPatched(stack')
  <2>1. \A k \in 1 .. 15 : stack'[6 + k] \in {stack[6 + k], Safe}
    BY <1>6
  <2> QED BY <1>1, <1>3, <2>1 DEF Saved, SavedOrPatched
<1>8. TrapFrame(stack')
  <2>1. /\ stack'[1] = stack[1] /\ stack'[2] = stack[2] /\ stack'[3] = stack[3]
        /\ stack'[4] = stack[4] /\ stack'[5] = stack[5]
    BY <1>6
  <2> QED BY <1>1, <1>2, <2>1, Zenon DEF ProgramFrame, TrapFrame
<1>9. DebuggerShowsRegisters'
  <2>1. vector' # 1
    BY <1>1 DEF Trapped
  <2> QED BY <2>1 DEF DebuggerShowsRegisters
<1>10. ReportsNameTheFault'
  BY <1>1 DEF ReportsNameTheFault
<1> QED BY <1>1, <1>4, <1>6, <1>7, <1>8, <1>9, <1>10, GoesBack DEF RedirectNulls

(* The pops, and the word PageFaultWrapper drops.                          *)
LEMMA RestorePreserves ==
  ASSUME ExceptionsInv, RestoreRegisters
  PROVE  ExceptionsInv'
<1>1. /\ mode = "RestoreRegisters" /\ mode' = "iretq"
      /\ vector' = vector /\ atFault' = atFault /\ shown' = shown
      /\ UNCHANGED <<rip, rsp, rflags, cs, ss>>
      /\ regs' = [r \in GPR |-> stack[Len(stack) - Offset(Reverse(Pushes), r) + 1]]
      /\ stack' = SubSeq(stack, 1, Len(stack) - Len(Reverse(Pushes)) - ErrorCodeWords)
  BY DEF RestoreRegisters, Restore
<1>2. /\ Len(stack) = FrameWords + 15
      /\ \/ Stepping /\ Saved(stack) /\ StepFrame(stack)
         \/ Trapped /\ SavedOrPatched(stack) /\ TrapFrame(stack)
  BY <1>1 DEF ExceptionsInv, Restoring
<1>3. stack \in Seq(Words) /\ atFault \in [GPR -> Words] /\ vector \in 0 .. 31
  BY DEF ExceptionsInv, Types
<1>4. /\ Stepping => FrameWords = 5 /\ ErrorCodeWords = 0 /\ vector # 6
      /\ Trapped => /\ ErrorCodeWords = 1
                    /\ vector = 6 => FrameWords = 5
                    /\ vector # 6 => FrameWords = 6
  <2>1. /\ Wrapper(vector) = "PageFaultWrapper" <=> Trapped
        /\ Stepping => ~HasErrorCode(vector)
        /\ Trapped => (HasErrorCode(vector) <=> vector # 6)
    BY <1>3, WrapperIs
  <2>2. ErrorCodeWords = IF Trapped THEN 1 ELSE 0
    BY <2>1 DEF ErrorCodeWords
  <2>3. Stepping => ~Trapped /\ vector # 6
    BY DEF Stepping, Trapped
  <2> QED BY <2>1, <2>2, <2>3, FrameWordsIs DEF FrameWords
<1>5. /\ stack' \in Seq(Words) /\ Len(stack') = FrameWords - ErrorCodeWords
      /\ \A j \in 1 .. FrameWords - ErrorCodeWords : stack'[j] = stack[j]
  <2> DEFINE n == FrameWords - ErrorCodeWords
  <2>1. ErrorCodeWords \in {0, 1}
    BY DEF ErrorCodeWords
  <2>2. n = Len(stack) - Len(Reverse(Pushes)) - ErrorCodeWords /\ n \in 0 .. Len(stack)
    <3>1. Len(stack) = FrameWords + 15 /\ Len(Reverse(Pushes)) = 15
      BY <1>2, PopsReverse
    <3> QED BY <2>1, <3>1, FrameWordsIs
  <2>3. stack' = SubSeq(stack, 1, n)
    BY <1>1, <2>2
  <2> HIDE DEF n
  <2>4. stack' \in Seq(Words) /\ Len(stack') = n /\ \A j \in 1 .. n : stack'[j] = stack[j]
    BY <1>3, <2>2, <2>3, TakenOff
  <2> QED BY <2>4 DEF n
<1>6. /\ \A k \in 1 .. 15 : regs'[Pushes[k]] = stack[FrameWords + k]
      /\ regs' \in [GPR -> Words]
  <2>1. ASSUME NEW k \in 1 .. 15
        PROVE  /\ Len(stack) - Offset(Reverse(Pushes), Pushes[k]) + 1 = FrameWords + k
               /\ Pushes[k] \in GPR
               /\ FrameWords + k \in 1 .. Len(stack)
    <3>1. Offset(Reverse(Pushes), Pushes[k]) = 16 - k /\ Pushes[k] \in GPR
      BY PopsReverse
    <3>2. Len(stack) = FrameWords + 15
      BY <1>2
    <3> QED BY <3>1, <3>2, FrameWordsIs
  <2>2. \A k \in 1 .. 15 : regs'[Pushes[k]] = stack[FrameWords + k]
    BY <1>1, <2>1
  <2>3. \A j \in 1 .. Len(stack) : stack[j] \in Words
    BY <1>3
  <2>4. \A k \in 1 .. 15 : regs'[Pushes[k]] \in Words
    BY <2>1, <2>2, <2>3
  <2>5. \A r \in GPR : regs'[r] \in Words
    BY <2>4, PopsReverse
  <2>6. DOMAIN regs' = GPR /\ regs' = [r \in GPR |-> regs'[r]]
    BY <1>1
  <2> QED BY <2>2, <2>5, <2>6
<1>7. (Returning /\ Types)'
  <2>1. Types'
    BY <1>1, <1>3, <1>5, <1>6 DEF Types
  <2>2. CASE Stepping /\ Saved(stack) /\ StepFrame(stack)
    <3>1. Len(stack') = 5 /\ \A j \in 1 .. 5 : stack'[j] = stack[j]
      <4>1. FrameWords - ErrorCodeWords = 5
        BY <1>4, <2>2
      <4> QED BY <1>5, <4>1
    <3>2. /\ stack'[1] = stack[1] /\ stack'[2] = stack[2] /\ stack'[4] = stack[4]
          /\ stack'[5] = stack[5]
      BY <3>1
    <3>3. StepFrame(stack')
      BY <2>2, <3>2, Zenon DEF StepFrame
    <3>4. regs' = atFault
      <4>1. \A k \in 1 .. 15 : regs'[Pushes[k]] = atFault[Pushes[k]]
        BY <1>6, <2>2 DEF Saved
      <4>2. \A r \in GPR : regs'[r] = atFault[r]
        BY <4>1, PopsReverse
      <4> QED BY <1>3, <1>6, <4>2
    <3> QED BY <1>1, <2>1, <2>2, <3>1, <3>3, <3>4 DEF Returning, Stepping, StepFrame
  <2>3. CASE Trapped /\ SavedOrPatched(stack) /\ TrapFrame(stack)
    <3>1. /\ Len(stack') = (IF vector = 6 THEN 4 ELSE 5)
          /\ \A j \in 1 .. (IF vector = 6 THEN 4 ELSE 5) : stack'[j] = stack[j]
      <4>1. FrameWords - ErrorCodeWords = IF vector = 6 THEN 4 ELSE 5
        BY <1>4, <2>3
      <4> QED BY <1>5, <4>1
    <3>2. TrapFrame(stack')
      <4>1. stack'[3] = stack[3] /\ stack'[1] = stack[1] /\ stack'[2] = stack[2]
            /\ stack'[4] = stack[4]
        BY <3>1
      <4>2. vector # 6 => stack'[5] = stack[5]
        BY <3>1
      <4> QED BY <2>3, <4>1, <4>2, Zenon DEF TrapFrame
    <3>3. \A r \in GPR : regs'[r] \in {atFault[r], Zero, Safe}
      <4>1. \A k \in 1 .. 15 : regs'[Pushes[k]] \in {atFault[Pushes[k]], Zero, Safe}
        BY <1>6, <2>3 DEF SavedOrPatched
      <4> QED BY <4>1, PopsReverse
    <3>4. TrapFrame(stack)' /\ Trapped'
      BY <1>1, <2>3, <3>2 DEF TrapFrame, Trapped
    <3> QED BY <1>1, <2>1, <3>1, <3>3, <3>4 DEF Returning
  <2> QED BY <1>2, <2>2, <2>3
<1>8. CpuUntouched'
  BY <1>1 DEF ExceptionsInv, CpuUntouched, AsProgram
<1>9. InWrapper' /\ InHandler' /\ Restoring' /\ Resumed'
  BY <1>1 DEF InWrapper, InHandler, Restoring, Resumed
<1>10. DebuggerShowsRegisters' /\ StepIsTransparent' /\ ResumeIsBalanced'
  BY <1>1 DEF DebuggerShowsRegisters, StepIsTransparent, ResumeIsBalanced
<1>11. ReportsNameTheFault'
  BY <1>1 DEF ReportsNameTheFault
<1> QED BY <1>7, <1>8, <1>9, <1>10, <1>11 DEF ExceptionsInv

(* iretq goes back by a frame, or, behind vector 6, is lost.               *)
LEMMA IretqPreserves ==
  ASSUME ExceptionsInv, Iretq
  PROVE  ExceptionsInv'
<1>1. /\ mode = "iretq"
      /\ vector' = vector /\ atFault' = atFault /\ shown' = shown /\ regs' = regs
      /\ rip' = Top(0) /\ cs' = Top(1) /\ rflags' = Top(2) /\ rsp' = Top(3) /\ ss' = Top(4)
      /\ mode' = IF cs' = "cs" /\ ss' = "ss" THEN "resumed" ELSE "lost"
  BY DEF Iretq
<1>2. \/ Stepping /\ regs = atFault /\ Len(stack) = 5 /\ StepFrame(stack)
      \/ /\ Trapped /\ \A r \in GPR : regs[r] \in {atFault[r], Zero, Safe}
         /\ Len(stack) = (IF vector = 6 THEN 4 ELSE 5) /\ TrapFrame(stack)
  BY <1>1 DEF ExceptionsInv, Returning
<1>3. ASSUME Len(stack) = 5
      PROVE  /\ rip' = stack[5] /\ cs' = stack[4] /\ rflags' = stack[3] /\ rsp' = stack[2]
             /\ ss' = stack[1]
  <2>1. /\ Top(0) = stack[5] /\ Top(1) = stack[4] /\ Top(2) = stack[3] /\ Top(3) = stack[2]
        /\ Top(4) = stack[1]
    BY <1>3 DEF Top
  <2> QED BY <1>1, <2>1
<1>4. /\ vector # 6 => mode' = "resumed"
      /\ mode' \in {"resumed", "lost"}
      /\ mode' = "resumed" => cs' = "cs" /\ ss' = "ss"
  <2>1. vector # 6 => Len(stack) = 5 /\ stack[4] = "cs" /\ stack[1] = "ss"
    BY <1>2 DEF StepFrame, TrapFrame
  <2>2. vector # 6 => cs' = "cs" /\ ss' = "ss"
    BY <1>3, <2>1
  <2> QED BY <1>1, <2>2
<1>5. vector = 6 => mode' = "lost"
  <2>1. vector = 6 => Len(stack) = 4 /\ stack[3] = "rflags"
    BY <1>2 DEF Stepping, TrapFrame
  <2>2. Len(stack) = 4 => Top(1) = stack[3]
    BY DEF Top
  <2>3. vector = 6 => cs' = "rflags"
    BY <1>1, <2>1, <2>2
  <2> QED BY <1>1, <2>3
<1>6. Types'
  <2>1. stack' = <<>>
    BY DEF Iretq
  <2>2. stack' \in Seq(Words)
    BY <2>1, EmptyStack
  <2> QED BY <1>1, <2>2 DEF ExceptionsInv, Types
<1>7. CpuUntouched'
  BY <1>4 DEF CpuUntouched
<1>8. InWrapper' /\ InHandler' /\ Restoring' /\ Returning' /\ Resumed'
  BY <1>4 DEF InWrapper, InHandler, Restoring, Returning, Resumed
<1>9. DebuggerShowsRegisters'
  BY <1>4 DEF DebuggerShowsRegisters
<1>10. StepIsTransparent'
  <2>1. ASSUME vector = 1
        PROVE  regs = atFault /\ rip' \in ProgramRips /\ rsp' = "rsp"
    <3>1. ~Trapped
      BY <2>1 DEF Trapped
    <3>2. regs = atFault /\ Len(stack) = 5 /\ StepFrame(stack)
      BY <1>2, <3>1
    <3> QED BY <1>3, <3>2, Zenon DEF StepFrame
  <2> QED BY <1>1, <2>1 DEF StepIsTransparent
<1>11. ResumeIsBalanced'
  <2>1. mode' = "lost" => vector = 6
    BY <1>4
  <2>2. ASSUME vector # 1, vector # 6
        PROVE  /\ \/ rip' = "return address" /\ rsp' = "rsp + 8"
                  \/ rip' = "rip" /\ rsp' = "rsp"
               /\ rflags' = "rflags"
               /\ \A r \in GPR : regs[r] \in {atFault[r], Zero, Safe}
    <3>1. /\ \A r \in GPR : regs[r] \in {atFault[r], Zero, Safe}
          /\ Len(stack) = 5 /\ TrapFrame(stack)
      BY <1>2, <2>2 DEF Stepping
    <3> QED BY <1>3, <2>2, <3>1, Zenon DEF TrapFrame
  <2>3. mode' = "resumed" => vector # 6
    BY <1>5
  <2> QED BY <1>1, <2>1, <2>2, <2>3 DEF ResumeIsBalanced
<1>12. ReportsNameTheFault'
  BY <1>4 DEF ReportsNameTheFault
<1> QED BY <1>6, <1>7, <1>8, <1>9, <1>10, <1>11, <1>12 DEF ExceptionsInv

LEMMA ContinuePreserves ==
  ASSUME ExceptionsInv, Continue
  PROVE  ExceptionsInv'
<1>1. /\ mode' = "running" /\ vector' = vector /\ atFault' = atFault /\ shown' = shown
      /\ stack' = stack
      /\ rip' \in ProgramRips
      /\ rsp' = "rsp" /\ rflags' = "rflags" /\ cs' = "cs" /\ ss' = "ss"
  BY DEF Continue, ProgramState
<1>2. regs' \in [GPR -> Words]
  <2>1. PICK zeros \in ZeroSets : regs' = [r \in GPR |-> IF r \in zeros THEN Zero ELSE r]
    BY DEF Continue, ProgramState
  <2> QED BY <2>1 DEF Words
<1>3. Types'
  BY <1>1, <1>2 DEF ExceptionsInv, Types
<1>4. CpuUntouched'
  BY <1>1 DEF CpuUntouched, AsProgram
<1>5. InWrapper' /\ InHandler' /\ Restoring' /\ Returning' /\ Resumed'
  BY <1>1 DEF InWrapper, InHandler, Restoring, Returning, Resumed
<1>6. DebuggerShowsRegisters' /\ StepIsTransparent' /\ ResumeIsBalanced'
  BY <1>1 DEF DebuggerShowsRegisters, StepIsTransparent, ResumeIsBalanced
<1>7. ReportsNameTheFault'
  BY <1>1 DEF ReportsNameTheFault
<1> QED BY <1>3, <1>4, <1>5, <1>6, <1>7 DEF ExceptionsInv

(* What faults again has the frame of the first fault: by ResumeIsBalanced *)
(* an unchanged rip goes with an unchanged rsp.                            *)
LEMMA RefaultPreserves ==
  ASSUME ExceptionsInv, Refault
  PROVE  ExceptionsInv'
<1>1. mode = "resumed" /\ vector # 1 /\ rip \in ProgramRips /\ Raise(vector)
  BY DEF Refault, Unchanged
<1>2. /\ \/ rip = "return address" /\ rsp = "rsp + 8"
         \/ rip = "rip" /\ rsp = "rsp"
      /\ rflags = "rflags"
  BY <1>1 DEF ExceptionsInv, ResumeIsBalanced
<1>3. cs = "cs" /\ ss = "ss"
  BY <1>1 DEF ExceptionsInv, Resumed
<1>4. AsProgram
  BY <1>1, <1>2, <1>3 DEF AsProgram, ProgramRips
<1>5. vector \in 0 .. 31
  BY DEF ExceptionsInv, Types
<1> QED BY <1>1, <1>4, <1>5, RaisePreserves

LEMMA FaultPreserves ==
  ASSUME ExceptionsInv, Fault
  PROVE  ExceptionsInv'
<1>1. AsProgram
  BY DEF Fault, ExceptionsInv, CpuUntouched
<1>2. PICK v \in Vectors : Raise(v)
  BY DEF Fault
<1>3. v \in 0 .. 31
  BY ExceptionsAssumption DEF ExceptionsAssumption
<1> QED BY <1>1, <1>2, <1>3, RaisePreserves

LEMMA StutterPreserves ==
  ASSUME ExceptionsInv, UNCHANGED vars
  PROVE  ExceptionsInv'
<1>1. UNCHANGED <<mode, vector, cr2, regs, rip, rsp, rflags, cs, ss, stack, atFault, shown>>
  BY DEF vars
<1>2. Types' /\ CpuUntouched' /\ Resumed'
  BY <1>1 DEF ExceptionsInv, Types, CpuUntouched, AsProgram, Resumed
<1>3. InWrapper'
  BY <1>1 DEF ExceptionsInv, InWrapper, Wrapper, FrameWords, Frame, ProgramFrame, HandlerFrame,
              HasErrorCode
<1>4. InHandler'
  BY <1>1 DEF ExceptionsInv, InHandler, Stepping, Trapped, FrameWords, Frame, ProgramFrame,
              HandlerFrame, Saved, HasErrorCode
<1>5. Restoring'
  BY <1>1 DEF ExceptionsInv, Restoring, Stepping, Trapped, FrameWords, HasErrorCode, Saved,
              SavedOrPatched, StepFrame, TrapFrame
<1>6. Returning'
  BY <1>1 DEF ExceptionsInv, Returning, Stepping, Trapped, StepFrame, TrapFrame
<1>7. DebuggerShowsRegisters' /\ StepIsTransparent' /\ ResumeIsBalanced'
  BY <1>1 DEF ExceptionsInv, DebuggerShowsRegisters, StepIsTransparent, ResumeIsBalanced
<1>8. ReportsNameTheFault'
  BY <1>1 DEF ExceptionsInv, ReportsNameTheFault, HasErrorCode, ReportedRip
<1> QED BY <1>2, <1>3, <1>4, <1>5, <1>6, <1>7, <1>8 DEF ExceptionsInv

-----------------------------------------------------------------------------
(* The stack is followed word by word through wrapper and handler.         *)
THEOREM ExceptionsInvariant == Spec => []ExceptionsInv
<1>1. Init => ExceptionsInv
  BY InitEstablishes
<1>2. ExceptionsInv /\ [Next]_vars => ExceptionsInv'
  <2> SUFFICES ASSUME ExceptionsInv, [Next]_vars PROVE ExceptionsInv'
    OBVIOUS
  <2>1. CASE Fault                 BY <2>1, FaultPreserves
  <2>2. CASE SaveRegisters         BY <2>2, SavePreserves
  <2>3. CASE FatalExceptionHandler BY <2>3, FatalPreserves
  <2>4. CASE DebuggerEngine        BY <2>4, DebuggerPreserves
  <2>5. CASE GPFaultHandler        BY <2>5, GPFaultPreserves
  <2>6. CASE IllusionPause         BY <2>6, IllusionPausePreserves
  <2>15. CASE IllusionFaults       BY <2>15, IllusionFaultsPreserves
  <2>16. CASE DumpFaults           BY <2>16, DumpFaultsPreserves
  <2>7. CASE SkipNullCall          BY <2>7, SkipPreserves
  <2>8. CASE RedirectNulls         BY <2>8, RedirectPreserves
  <2>9. CASE Panic                 BY <2>9, PanicPreserves
  <2>10. CASE RestoreRegisters     BY <2>10, RestorePreserves
  <2>11. CASE Iretq                BY <2>11, IretqPreserves
  <2>12. CASE Refault              BY <2>12, RefaultPreserves
  <2>13. CASE Continue             BY <2>13, ContinuePreserves
  <2>14. CASE UNCHANGED vars       BY <2>14, StutterPreserves
  <2> QED BY <2>1, <2>2, <2>3, <2>4, <2>5, <2>6, <2>7, <2>8, <2>9, <2>10, <2>11, <2>12,
             <2>13, <2>14, <2>15, <2>16 DEF Next, PageFaultHandler
<1> QED BY <1>1, <1>2, PTL DEF Spec

(* The debugger prints the registers of the program under their own names: *)
(* CPU_STATE lies over what Isr1Handler pushed.                            *)
THEOREM DebuggerShows == Spec => []DebuggerShowsRegisters
<1>1. ExceptionsInv => DebuggerShowsRegisters
  BY DEF ExceptionsInv
<1> QED BY <1>1, ExceptionsInvariant, PTL

(* A step of the debugger changes no register, no rip and no rsp: the      *)
(* pushes and pops of Isr1Handler undo each other.                         *)
THEOREM StepTransparent == Spec => []StepIsTransparent
<1>1. ExceptionsInv => StepIsTransparent
  BY DEF ExceptionsInv
<1> QED BY <1>1, ExceptionsInvariant, PTL

(* What PageFaultHandler patches in the frame is what iretq goes back by;  *)
(* only vector 6, whose error code is dropped though none was pushed, is   *)
(* lost.                                                                   *)
THEOREM ResumeBalanced == Spec => []ResumeIsBalanced
<1>1. ExceptionsInv => ResumeIsBalanced
  BY DEF ExceptionsInv
<1> QED BY <1>1, ExceptionsInvariant, PTL

(* The reports of GPFaultHandler and PageFaultHandler name the rip, rsp    *)
(* and error code of the program's fault: INT_REGISTERS lies over a frame  *)
(* with one.  After a jump to a top address the report that stays is that  *)
(* of the handler's own fault.                                             *)
THEOREM ReportsNameFault == Spec => []ReportsNameTheFault
<1>1. ExceptionsInv => ReportsNameTheFault
  BY DEF ExceptionsInv
<1> QED BY <1>1, ExceptionsInvariant, PTL
==============================================================================
