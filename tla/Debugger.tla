------------------------------ MODULE Debugger ------------------------------
(***************************************************************************)
(* Single-stepping and watching a payload: ExecuteWithTrapFlag             *)
(* (src/src/trampoline.asm), DebuggerEngine and ArmHardwareBreakpoint      *)
(* (src/main.c), between instructions of the payload and of the kernel.    *)
(*                                                                         *)
(* The CPU traps after an instruction that began with the trap flag set,   *)
(* or that wrote bytes DR0 and DR7 watch; the second sets bit 0 of DR6.    *)
(* Watched memory is not the debugger's own.                               *)
(***************************************************************************)
EXTENDS Integers

CONSTANT Addresses   \* what the payload's rdi may hold, and what code writes to

ASSUME DebuggerAssumption == Addresses \subseteq Nat

VARIABLES
  mode,        \* "kernel", "payload", "epilogue" (after call rcx), or in the
               \* debugger: "trapped" on entry, "stopped" in its key loop
  below,       \* the mode the trap interrupted
  tf,          \* trap flag, running or (in the debugger) in the frame
  saved,       \* trap flag in an image the payload has pushed, or "none"
  left,        \* instructions of the epilogue to go
  dr0, dr7,    \* dr7: [enabled, rw, len], its encoded fields
  b0,          \* bit 0 of DR6
  wrote,       \* the address the last instruction wrote to, or -1
  reported,    \* the stop was announced as a watchpoint hit
  resumed,     \* what the debugger took for the last command
  rearmed      \* the payload has popped a set trap flag since

registers == <<dr0, dr7>>
vars == <<mode, below, tf, saved, left, registers, b0, wrote, reported,
          resumed, rearmed>>

HW_BP_TYPE_WRITE == 1
Len4 == 3                                 \* mutant
HW_BP_LEN_8_BYTES == 2

(* How the CPU decodes DR7, and the bytes it watches: DR0's low bits below *)
(* the length do not count.                                                *)
Length == CASE dr7.len = 0 -> 1 [] dr7.len = 1 -> 2 [] dr7.len = 3 -> 4 [] OTHER -> 8
Watched(a) ==
  dr7.enabled /\ dr7.rw \in {1, 3} /\ a \div Length = dr0 \div Length

Init ==
  /\ mode = "kernel" /\ below = "kernel" /\ tf = FALSE /\ saved = "none"
  /\ left = 0 /\ dr0 = 0 /\ dr7 = [enabled |-> FALSE, rw |-> 0, len |-> 0]
  /\ b0 = FALSE /\ wrote = -1 /\ reported = FALSE
  /\ resumed = "none" /\ rearmed = FALSE

(* What an instruction that writes to a (or to nothing watched: -1) and    *)
(* leaves the trap flag as t does to the CPU: on to mode m, or a trap.     *)
Executes(a, t, m) ==
  LET hit == a >= 0 /\ Watched(a)
  IN  /\ wrote' = a
      /\ b0' = (b0 \/ hit)
      /\ tf' = t
      /\ IF tf \/ hit THEN mode' = "trapped" /\ below' = m
                      ELSE mode' = m /\ UNCHANGED below
      /\ UNCHANGED <<registers, reported>>

(* run: popfq sets the trap flag, which the call that follows is the first *)
(* instruction to begin with.                                              *)
ExecuteWithTrapFlag ==
  /\ mode = "kernel" /\ ~tf
  /\ mode' = "trapped" /\ below' = "payload"
  /\ tf' = TRUE
  /\ saved' = "none" /\ resumed' = "none" /\ rearmed' = FALSE /\ wrote' = -1
  /\ UNCHANGED <<left, registers, b0, reported>>

Instruction ==
  /\ mode = "payload"
  /\ \E a \in Addresses \cup {-1} : Executes(a, tf, "payload")
  /\ UNCHANGED <<saved, left, resumed, rearmed>>

Pushfq ==
  /\ mode = "payload"
  /\ saved' = IF tf THEN "set" ELSE "clear"
  /\ Executes(-1, tf, "payload")
  /\ UNCHANGED <<left, resumed, rearmed>>

Popfq ==
  /\ mode = "payload" /\ saved # "none"
  /\ Executes(-1, saved = "set", "payload")
  /\ saved' = "none"
  /\ rearmed' = (rearmed \/ saved = "set")
  /\ UNCHANGED <<left, resumed>>

(* ret: the five instructions after call rcx remain.                       *)
Ret ==
  /\ mode = "payload"
  /\ left' = 5
  /\ Executes(-1, tf, "epilogue")
  /\ UNCHANGED <<saved, resumed, rearmed>>

FlagAsItWas(t) == t                       \* mutant: no btr rax, 8
FlagCleared(t) == FALSE

(* pushfq, pop, btr, push, popfq.                                          *)
Epilogue ==
  /\ mode = "epilogue"
  /\ left' = left - 1
  /\ IF left = 1 THEN Executes(-1, FlagCleared(tf), "kernel")
                 ELSE Executes(-1, tf, "epilogue")
  /\ UNCHANGED <<saved, resumed, rearmed>>

(* Kernel code writes to memory, and iretq to the main loop drops a trap   *)
(* flag the debugger has set.                                              *)
Kernel ==
  /\ mode = "kernel"
  /\ \/ \E a \in Addresses \cup {-1} : Executes(a, tf, "kernel")
     \/ Executes(-1, FALSE, "kernel")
  /\ UNCHANGED <<saved, left, resumed, rearmed>>

-----------------------------------------------------------------------------
StaysSet == b0                            \* mutant: DR6 is not cleared
Cleared == FALSE

(* DebuggerEngine up to its loop.                                          *)
DebuggerEngine ==
  /\ mode = "trapped"
  /\ mode' = "stopped"
  /\ reported' = b0
  /\ b0' = Cleared
  /\ tf' = (tf \/ b0)
  /\ UNCHANGED <<below, saved, left, registers, wrote, resumed, rearmed>>

(* The loop behind it takes any byte for a key, also the mouse's; M only   *)
(* prints memory.  The others resume what was interrupted.                 *)
Resume(command) ==
  /\ mode = "stopped"
  /\ mode' = below
  /\ resumed' = command
  /\ rearmed' = FALSE
  /\ UNCHANGED <<below, saved, left, b0, wrote, reported>>

Space == Resume("Space") /\ UNCHANGED <<tf, registers>>

ArmWatchpoint ==
  /\ Resume("W")
  /\ dr0' \in Addresses
  /\ dr7' = [enabled |-> TRUE, rw |-> HW_BP_TYPE_WRITE, len |-> HW_BP_LEN_8_BYTES]
  /\ tf' = FALSE

RunFreeArmed == Resume("G") /\ tf' = FALSE /\ UNCHANGED registers \* mutant: DR7 kept
RunFree ==
  /\ Resume("G")
  /\ dr7' = [enabled |-> FALSE, rw |-> 0, len |-> 0]
  /\ tf' = FALSE
  /\ UNCHANGED dr0

Next ==
  \/ ExecuteWithTrapFlag \/ Instruction \/ Pushfq \/ Popfq \/ Ret \/ Epilogue
  \/ Kernel \/ DebuggerEngine \/ Space \/ ArmWatchpoint \/ RunFree

Spec == Init /\ [][Next]_vars

-----------------------------------------------------------------------------
(* Types.                                                                  *)
Modes == {"kernel", "payload", "epilogue"}
TypeOK ==
  /\ mode \in Modes \cup {"trapped", "stopped"} /\ below \in Modes
  /\ tf \in BOOLEAN /\ b0 \in BOOLEAN /\ reported \in BOOLEAN
  /\ saved \in {"none", "set", "clear"} /\ left \in 0 .. 5
  /\ dr7 \in [enabled : BOOLEAN, rw : 0 .. 3, len : 0 .. 3]
  /\ rearmed \in BOOLEAN

(* A stop is announced as a watchpoint hit exactly when the instruction    *)
(* before it wrote to the watched quadword: no hit is missed, and none is  *)
(* announced again at later single steps.                                  *)
HitsAreReal ==
  mode = "stopped" => (reported <=> wrote >= 0 /\ Watched(wrote))

(* From W until G, a write of the payload to any of the eight bytes at an  *)
(* aligned rdi stops it at once, whatever is stepped, run or restored in   *)
(* between.                                                                *)
WatchCatches == [][
  mode = "payload" /\ dr7.enabled /\ dr0 % 8 = 0 /\ wrote' \in dr0 .. dr0 + 7
    => mode' = "trapped" ]_vars

(* When the payload has returned the kernel is stepped only while a        *)
(* watchpoint is still armed, whatever the payload did to its flags.       *)
KernelIsNotStepped ==
  mode = "kernel" /\ tf => dr7.enabled

(* "DISARMING ALL TRAPS & RUNNING FREE..." (main.c:257): after G nothing   *)
(* stops the payload again, whatever it writes to, unless it restores a    *)
(* trap flag that it had saved while it was stepped.                       *)
RunsFree == mode = "trapped" /\ resumed = "G" => rearmed
==============================================================================
