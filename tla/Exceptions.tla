----------------------------- MODULE Exceptions -----------------------------
(***************************************************************************)
(* CPU exceptions: what the processor pushes, what the wrappers of isr.asm *)
(* push, through which structure the C handlers look at it, what they      *)
(* change, and what `iretq` makes of the result.                           *)
(*                                                                         *)
(* A 64-bit value is represented by where it came from: the value register *)
(* r had when the program faulted is "r" itself, or Zero.  The stack holds *)
(* such values, the top at its end.                                        *)
(***************************************************************************)
EXTENDS Integers, Sequences, SequencesExt

CONSTANTS
  Vectors,     \* the exceptions the program may raise
  ZeroSets     \* sets of registers that may hold 0 when it does

VARIABLES
  mode,        \* what the CPU does next
  vector,      \* the exception being handled
  cr2,         \* "null": below 0x1000, "top": at or above 0xFFFFFF0000000000, "mid"
  regs,        \* general registers
  rip, rsp, rflags, cs, ss,   \* the program's
  stack,       \* from the first word the last exception pushed
  atFault,     \* general registers when the exception was raised
  shown        \* what the running handler has printed: label |-> value

vars == <<mode, vector, cr2, regs, rip, rsp, rflags, cs, ss, stack, atFault, shown>>

GPR == {"rax", "rbx", "rcx", "rdx", "rsi", "rdi", "rbp",
        "r8", "r9", "r10", "r11", "r12", "r13", "r14", "r15"}

Zero  == "0"
Safe  == "0x06000000"
Junk  == "junk"       \* what C code leaves in a register
Wild  == "wild"       \* what is read through an address that is no stack pointer

ASSUME ExceptionsAssumption ==
  /\ Vectors \subseteq 0 .. 31
  /\ ZeroSets \subseteq SUBSET GPR

(* Values below 0x1000: the selectors 0x08 and 0x10, zero, and a rip in    *)
(* the first page.                                                         *)
Small(v) == v \in {Zero, "cs", "ss", "low rip"}

(* The exceptions for which the CPU pushes an error code.                  *)
HasErrorCode(v) == v \in {8, 10, 11, 12, 13, 14, 17, 21, 29, 30}

(* SetupIDT.                                                               *)
Wrapper(v) ==
  CASE v = 1                        -> "Isr1Handler"
    [] v \in {6, 8, 10, 11, 12, 14} -> "PageFaultWrapper"
    [] v = 13                       -> "GPFaultWrapper"
    [] OTHER                        -> "FatalWrapper"

(* The pushes at the head of Isr1Handler, GPFaultWrapper and               *)
(* PageFaultWrapper; their pops come in the reverse order.                 *)
PushesSwapped ==     \* mutant: two pushes change places
  <<"r15", "r14", "r13", "r12", "r11", "r10", "r9", "r8",
    "rbp", "rdi", "rsi", "rcx", "rdx", "rbx", "rax">>
Pushes ==
  <<"r15", "r14", "r13", "r12", "r11", "r10", "r9", "r8",
    "rbp", "rdi", "rsi", "rdx", "rcx", "rbx", "rax">>

(* CPU_STATE (main.c) and INT_REGISTERS (exceptions.h), lowest address     *)
(* first.                                                                  *)
CPU_STATE ==
  <<"rax", "rbx", "rcx", "rdx", "rsi", "rdi", "rbp",
    "r8", "r9", "r10", "r11", "r12", "r13", "r14", "r15",
    "rip", "cs", "rflags", "rsp", "ss">>
INT_REGISTERS_CodeLater ==   \* mutant: the error code is declared behind rip
  <<"r15", "r14", "r13", "r12", "r11", "r10", "r9", "r8",
    "rbp", "rdi", "rsi", "rdx", "rcx", "rbx", "rax",
    "rip", "error_code", "cs", "rflags", "rsp", "ss">>
INT_REGISTERS ==
  <<"r15", "r14", "r13", "r12", "r11", "r10", "r9", "r8",
    "rbp", "rdi", "rsi", "rdx", "rcx", "rbx", "rax",
    "error_code", "rip", "cs", "rflags", "rsp", "ss">>

Offset(struct, field) == CHOOSE i \in DOMAIN struct : struct[i] = field

(* The index in `stack` of state->field.  The structure starts at the top  *)
(* of the stack; a field beyond what was pushed is the program's own data. *)
Slot(struct, field) == Len(stack) - Offset(struct, field) + 1

Read(struct, field) ==
  LET i == Slot(struct, field) IN IF i >= 1 THEN stack[i] ELSE Wild

Stored(stk, i, v) == IF i >= 1 THEN [stk EXCEPT ![i] = v] ELSE stk

-----------------------------------------------------------------------------
(* Where the program may be: at an instruction, in the first page, which   *)
(* it reached through a null pointer, or at a top address, which it        *)
(* reached through a wild one and where nothing is mapped.                 *)
ProgramRips == {"rip", "low rip", "top rip"}

(* The program, about to execute an instruction.                           *)
ProgramState ==
  /\ \E zeros \in ZeroSets : regs' = [r \in GPR |-> IF r \in zeros THEN Zero ELSE r]
  /\ rip' \in ProgramRips
  /\ rsp' = "rsp" /\ rflags' = "rflags" /\ cs' = "cs" /\ ss' = "ss"

Init ==
  /\ mode = "running"
  /\ vector = 0
  /\ cr2 \in {"null", "mid", "top"}      \* whatever the firmware left in it
  /\ \E zeros \in ZeroSets : regs = [r \in GPR |-> IF r \in zeros THEN Zero ELSE r]
  /\ rip \in ProgramRips
  /\ rsp = "rsp" /\ rflags = "rflags" /\ cs = "cs" /\ ss = "ss"
  /\ stack = <<>>
  /\ atFault = regs
  /\ shown = <<>>

(* The CPU raises v and pushes its frame.  A page fault sets cr2; the      *)
(* first 8 GB are mapped, so never to an address in the first page.  At a  *)
(* top address there is nothing to execute: what is raised there is the    *)
(* page fault of the fetch, or the trap of a single step that led there.   *)
Raise(v) ==
  /\ rip = "top rip" => v \in {1, 14}
  /\ vector' = v
  /\ IF v = 14
     THEN cr2' \in (IF rip = "top rip" THEN {"top"} ELSE {"mid", "top"})
     ELSE UNCHANGED cr2
  /\ stack' = <<ss, rsp, rflags, cs, rip>>
              \o (IF HasErrorCode(v) THEN <<"error_code">> ELSE <<>>)
  /\ atFault' = regs
  /\ mode' = Wrapper(v)
  /\ shown' = <<>>
  /\ UNCHANGED <<regs, rip, rsp, rflags, cs, ss>>

Fault == mode = "running" /\ \E v \in Vectors : Raise(v)

SaveRegisters ==
  /\ mode \in {"Isr1Handler", "GPFaultWrapper", "PageFaultWrapper"}
  /\ stack' = stack \o [i \in DOMAIN Pushes |-> regs[Pushes[i]]]
  /\ regs' = [r \in GPR |-> Junk]
  /\ mode' = CASE mode = "Isr1Handler"      -> "DebuggerEngine"
               [] mode = "GPFaultWrapper"   -> "GPFaultHandler"
               [] mode = "PageFaultWrapper" -> "PageFaultHandler"
  /\ UNCHANGED <<vector, cr2, rip, rsp, rflags, cs, ss, atFault, shown>>

(* FatalExceptionHandler prints and halts.                                 *)
FatalExceptionHandler ==
  /\ mode = "FatalWrapper"
  /\ mode' = "halted"
  /\ UNCHANGED <<vector, cr2, regs, rip, rsp, rflags, cs, ss, stack, atFault, shown>>

Shows(struct, labels) == [l \in labels |-> Read(struct, l)]

(* DebuggerEngine prints the registers.  A watchpoint hit sets TF in the   *)
(* frame, the keys W and G clear it, Space keeps it.                       *)
DebuggerEngine ==
  /\ mode = "DebuggerEngine"
  /\ shown' = Shows(CPU_STATE, {"rax", "rbx", "rcx", "rdx", "rsi", "rdi"})
  /\ \E flags \in {"rflags", "rflags with TF", "rflags without TF"} :
       stack' = [stack EXCEPT ![Slot(CPU_STATE, "rflags")] = flags]
  /\ mode' = "RestoreRegisters"
  /\ UNCHANGED <<vector, cr2, regs, rip, rsp, rflags, cs, ss, atFault>>

(* GPFaultHandler reports and resets the machine.                          *)
GPFaultHandler ==
  /\ mode = "GPFaultHandler"
  /\ shown' = Shows(INT_REGISTERS, {"error_code", "rip"})
  /\ mode' = "reboot"
  /\ UNCHANGED <<vector, cr2, regs, rip, rsp, rflags, cs, ss, stack, atFault>>

(* The words PageFaultHandler finds through regs->rsp.                     *)
ReturnAddress == IF Read(INT_REGISTERS, "rsp") = "rsp" THEN "return address" ELSE Wild
Popped(v) == IF v = "rsp" THEN "rsp + 8" ELSE Wild

(* IllusionPause also shows the 16 bytes at regs->rip and the word at      *)
(* regs->rsp, where the CPU has just pushed.                               *)
IllusionPause ==
  /\ mode = "PageFaultHandler"
  /\ cr2 = "top"
  /\ Read(INT_REGISTERS, "rip") # "top rip"
  /\ shown' = Shows(INT_REGISTERS, {"rip"})
  /\ mode' = "halted"
  /\ UNCHANGED <<vector, cr2, regs, rip, rsp, rflags, cs, ss, stack, atFault>>

(* The bytes at a top address cannot be read: a handler that shows them    *)
(* faults itself.  The frame of that fault is the handler's; it goes on    *)
(* the same stack, where nobody returns to the words below it.             *)
HandlerFaults ==
  /\ vector' = 14 /\ cr2' = "top"
  /\ stack' = <<"ss", "handler rsp", "handler rflags", "cs", "handler rip", "error_code">>
  /\ atFault' = regs
  /\ mode' = Wrapper(14)
  /\ UNCHANGED <<regs, rip, rsp, rflags, cs, ss>>

IllusionFaults ==
  /\ mode = "PageFaultHandler"
  /\ cr2 = "top"
  /\ Read(INT_REGISTERS, "rip") = "top rip"
  /\ shown' = Shows(INT_REGISTERS, {"rip"})
  /\ HandlerFaults

(* The debugger's memory dump, the key M, shows 16 bytes from rip on.      *)
DumpFaults ==
  /\ mode = "DebuggerEngine"
  /\ Read(CPU_STATE, "rip") = "top rip"
  /\ shown' = Shows(CPU_STATE, {"rax", "rbx", "rcx", "rdx", "rsi", "rdi"})
  /\ HandlerFaults

SkipNullCallKeepsRsp ==   \* mutant: the return address stays on the stack
  /\ mode = "PageFaultHandler"
  /\ cr2 # "top"
  /\ Small(Read(INT_REGISTERS, "rip"))
  /\ LET newRip == Stored(stack, Slot(INT_REGISTERS, "rip"), ReturnAddress)
     IN  stack' = Stored(newRip, Slot(INT_REGISTERS, "rax"), Zero)
  /\ mode' = "RestoreRegisters"
  /\ UNCHANGED <<vector, cr2, regs, rip, rsp, rflags, cs, ss, atFault, shown>>

(* Execution in the first page: return to the caller, with regs->rax 0.    *)
SkipNullCall ==
  /\ mode = "PageFaultHandler"
  /\ cr2 # "top"
  /\ Small(Read(INT_REGISTERS, "rip"))
  /\ LET newRip == Stored(stack, Slot(INT_REGISTERS, "rip"), ReturnAddress)
         newRsp == Stored(newRip, Slot(INT_REGISTERS, "rsp"),
                          Popped(Read(INT_REGISTERS, "rsp")))
     IN  stack' = Stored(newRsp, Slot(INT_REGISTERS, "rax"), Zero)
  /\ mode' = "RestoreRegisters"
  /\ UNCHANGED <<vector, cr2, regs, rip, rsp, rflags, cs, ss, atFault, shown>>

(* cr2 in the first page: null pointers among regs->rax .. regs->rbp are   *)
(* redirected to the amnesia zone.                                         *)
Redirected == {"rax", "rbx", "rcx", "rdx", "rsi", "rdi", "rbp"}

RedirectNulls ==
  /\ mode = "PageFaultHandler"
  /\ cr2 = "null"
  /\ ~Small(Read(INT_REGISTERS, "rip"))
  /\ stack' = [i \in DOMAIN stack |->
                 IF /\ \E f \in Redirected : i = Slot(INT_REGISTERS, f)
                    /\ stack[i] = Zero
                 THEN Safe ELSE stack[i]]
  /\ mode' = "RestoreRegisters"
  /\ UNCHANGED <<vector, cr2, regs, rip, rsp, rflags, cs, ss, atFault, shown>>

Panic ==
  /\ mode = "PageFaultHandler"
  /\ cr2 = "mid"
  /\ ~Small(Read(INT_REGISTERS, "rip"))
  /\ shown' = Shows(INT_REGISTERS, Redirected \cup {"rsp", "rip", "error_code"})
  /\ mode' = "reboot"
  /\ UNCHANGED <<vector, cr2, regs, rip, rsp, rflags, cs, ss, stack, atFault>>

(* The pops, in an order given; PageFaultWrapper then drops one word, the   *)
(* error code.                                                             *)
Restore(pops, dropped) ==
  /\ mode = "RestoreRegisters"
  /\ regs' = [r \in GPR |-> stack[Len(stack) - Offset(pops, r) + 1]]
  /\ stack' = SubSeq(stack, 1, Len(stack) - Len(pops) - dropped)
  /\ mode' = "iretq"
  /\ UNCHANGED <<vector, cr2, rip, rsp, rflags, cs, ss, atFault, shown>>

ErrorCodeWords == IF Wrapper(vector) = "PageFaultWrapper" THEN 1 ELSE 0

RestoreInPushOrder == Restore(Pushes, ErrorCodeWords)   \* mutant
RestoreRegisters == Restore(Reverse(Pushes), ErrorCodeWords)

(* iretq pops rip, cs, rflags, rsp and ss; a word beyond the frame is the  *)
(* program's.  It faults on a code selector that is none.                  *)
Top(i) == IF Len(stack) > i THEN stack[Len(stack) - i] ELSE Wild

Iretq ==
  /\ mode = "iretq"
  /\ rip' = Top(0) /\ cs' = Top(1) /\ rflags' = Top(2) /\ rsp' = Top(3) /\ ss' = Top(4)
  /\ stack' = <<>>
  /\ mode' = IF cs' = "cs" /\ ss' = "ss" THEN "resumed" ELSE "lost"
  /\ UNCHANGED <<vector, cr2, regs, atFault, shown>>

(* The program is back at the instruction that faulted, with nothing       *)
(* changed that it could see: the instruction faults again.                *)
Unchanged == rip \in ProgramRips /\ regs = atFault

Refault ==
  /\ mode = "resumed"
  /\ vector # 1
  /\ Unchanged
  /\ Raise(vector)

(* Otherwise it goes on from there.                                        *)
Continue ==
  /\ mode = "resumed"
  /\ vector = 1 \/ ~Unchanged
  /\ mode' = "running"
  /\ ProgramState
  /\ UNCHANGED <<vector, cr2, stack, atFault, shown>>

PageFaultHandler == IllusionPause \/ IllusionFaults \/ SkipNullCall \/ RedirectNulls \/ Panic

Next ==
  \/ Fault
  \/ SaveRegisters
  \/ FatalExceptionHandler
  \/ DebuggerEngine \/ DumpFaults
  \/ GPFaultHandler
  \/ PageFaultHandler
  \/ RestoreRegisters
  \/ Iretq
  \/ Refault
  \/ Continue

Spec == Init /\ [][Next]_vars

-----------------------------------------------------------------------------
(* The debugger shows the program's registers under their own names, as    *)
(* README.md:36 has it ("dump real-time CPU register states").             *)
DebuggerShowsRegisters ==
  mode = "RestoreRegisters" /\ vector = 1 =>
    \A l \in DOMAIN shown : shown[l] = atFault[l]

(* Single-stepping is invisible to the program but for the trap flag.      *)
StepIsTransparent ==
  mode = "resumed" /\ vector = 1 =>
    regs = atFault /\ rip \in ProgramRips /\ rsp = "rsp"

(* After a call through a null pointer the program is back in the caller,  *)
(* with the return address popped; after a redirected access it is back at *)
(* the instruction, with its stack pointer as it was.  No other register   *)
(* holds anything but its own value, Zero or the amnesia zone.  iretq      *)
(* finds the frame the CPU pushed, whatever PageFaultHandler wrote into    *)
(* it, except behind an invalid opcode: SetupIDT sends vector 6 through    *)
(* the wrapper that drops an error code the CPU has not pushed.            *)
ResumeIsBalanced ==
  /\ mode = "lost" => vector = 6
  /\ mode = "resumed" /\ vector # 1 =>
       /\ \/ rip = "return address" /\ rsp = "rsp + 8"
          \/ rip = "rip" /\ rsp = "rsp"
       /\ rflags = "rflags"
       /\ \A r \in GPR : regs[r] \in {atFault[r], Zero, Safe}

(* Where the CPU pushes an error code, a handler that gives up names the   *)
(* stack pointer and the error code of the program's fault and, with one   *)
(* exception, its instruction.  The exception is a jump to a top address:  *)
(* IllusionPause labels a "Faulting RIP Address" (exceptions.c:46), reads  *)
(* the opcodes there and faults on it, as the debugger's memory dump does  *)
(* (main.c:227); the report that stays names the handler's own rip.        *)
ReportedRip == IF rip = "top rip" THEN "handler rip" ELSE rip

ReportsNameTheFault ==
  HasErrorCode(vector) /\ mode \in {"halted", "reboot"} =>
    \A l \in DOMAIN shown \cap {"rip", "error_code", "rsp"} :
      shown[l] = IF l = "rip" THEN ReportedRip ELSE l

(* README.md:33: a missing function is answered by `xor rax, rax; ret`.     *)
(* SkipNullCall is what a call through a null pointer meets: back in the   *)
(* caller, the program finds 0 in rax.                                     *)
MissingCallReturnsZero ==
  mode = "resumed" /\ rip = "return address" => regs["rax"] = Zero
==============================================================================
