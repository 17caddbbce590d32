--------------------------- MODULE DebuggerProofs ---------------------------
(***************************************************************************)
(* Proofs about Debugger, for any set of addresses.                        *)
(***************************************************************************)
EXTENDS Debugger, TLAPS

(* The program the debugger has stopped, or the one that runs.             *)
Current == IF mode \in Modes THEN mode ELSE below

(* The epilogue never runs past its last instruction.                      *)
EpilogueEnds == Current = "epilogue" => left \in 1 .. 5

(* An enabled watchpoint is one that W has armed.                          *)
ArmedByW ==
  /\ dr0 \in Nat
  /\ dr7.enabled => dr7.rw = HW_BP_TYPE_WRITE /\ dr7.len = HW_BP_LEN_8_BYTES

(* DR6 says what the instruction that trapped did, and is clear before.    *)
StatusIsFresh ==
  /\ wrote \in Int
  /\ b0 => mode = "trapped" /\ dr7.enabled
  /\ mode = "trapped" => (b0 <=> wrote >= 0 /\ Watched(wrote))

(* The trap flag is with the kernel only through a watchpoint.             *)
FlagHasAReason == Current = "kernel" /\ tf => dr7.enabled

(* After G only an image of the flags pushed before sets the trap flag.    *)
FreeUnlessRearmed ==
  resumed = "G" /\ ~rearmed => mode \in Modes /\ ~tf /\ ~dr7.enabled

DebuggerInv ==
  /\ TypeOK /\ EpilogueEnds /\ ArmedByW /\ StatusIsFresh /\ HitsAreReal
  /\ FlagHasAReason /\ FreeUnlessRearmed

LEMMA InitEstablishes == Init => DebuggerInv
<1> SUFFICES ASSUME Init PROVE DebuggerInv
  OBVIOUS
<1>1. ~tf /\ ~b0 /\ ~dr7.enabled /\ mode = "kernel" /\ Current = "kernel"
  BY DEF Init, Current, Modes
<1>2. tf \in BOOLEAN /\ b0 \in BOOLEAN /\ reported \in BOOLEAN
  BY DEF Init
<1>3. dr7 \in [enabled : BOOLEAN, rw : 0 .. 3, len : 0 .. 3] /\ dr0 \in Nat /\ wrote \in Int
  BY DEF Init
<1>4. rearmed \in BOOLEAN
  BY DEF Init
<1>5. TypeOK
  BY <1>2, <1>3, <1>4 DEF Init, TypeOK, Modes
<1>6. /\ EpilogueEnds /\ ArmedByW /\ StatusIsFresh /\ HitsAreReal
      /\ FlagHasAReason /\ FreeUnlessRearmed
  BY <1>1, <1>3 DEF Init, EpilogueEnds, ArmedByW, StatusIsFresh, HitsAreReal,
    FlagHasAReason, FreeUnlessRearmed
<1> QED BY <1>5, <1>6 DEF DebuggerInv

(* One instruction, whatever it writes, does to the trap flag and leads to. *)
LEMMA ExecutesPreserves ==
  ASSUME NEW a \in Addresses \cup {-1}, NEW t \in BOOLEAN, NEW m \in Modes,
         DebuggerInv, mode \in Modes, Executes(a, t, m),
         saved' \in {"none", "set", "clear"}, left' \in 0 .. 5,
         m = "epilogue" => left' \in 1 .. 5,
         m = "kernel" /\ t => mode = "kernel" /\ tf,
         resumed' = resumed, rearmed' \in BOOLEAN, rearmed => rearmed',
         t => tf \/ rearmed'
  PROVE  DebuggerInv'
<1> USE DebuggerAssumption DEF DebuggerAssumption, DebuggerInv, Modes
<1> DEFINE hit == a >= 0 /\ Watched(a)
<1>1. a \in Int /\ ~b0 /\ t \in BOOLEAN
  BY DEF StatusIsFresh
<1>2. /\ wrote' = a /\ tf' = t
      /\ UNCHANGED <<dr0, dr7, reported>>
      /\ b0' = (b0 \/ hit)
  BY DEF Executes, registers
<1>3. b0' \in BOOLEAN /\ (b0' <=> hit)
  BY <1>1, <1>2, Zenon
<1>4. hit => dr7.enabled
  BY DEF Watched
<1>5. \/ mode' = "trapped" /\ below' = m /\ (tf \/ hit)
      \/ mode' = m /\ below' = below /\ ~tf /\ ~hit
  BY DEF Executes
<1>6. Watched(a)' <=> Watched(a)
  BY <1>2 DEF Watched, Length
<1> HIDE DEF hit
<1>7. TypeOK'
  BY <1>1, <1>2, <1>3, <1>5 DEF TypeOK
<1>8. EpilogueEnds' /\ ArmedByW' /\ HitsAreReal'
  BY <1>2, <1>5 DEF EpilogueEnds, Current, ArmedByW, HitsAreReal
<1>9. StatusIsFresh'
  <2>1. wrote' \in Int /\ (b0' => mode' = "trapped" /\ dr7'.enabled)
    BY <1>1, <1>2, <1>3, <1>4, <1>5
  <2>2. b0' <=> wrote' >= 0 /\ Watched(wrote)'
    BY <1>2, <1>3, <1>6 DEF hit, Watched, Length
  <2> QED BY <2>1, <2>2 DEF StatusIsFresh
<1>10. FlagHasAReason'
  BY <1>1, <1>2, <1>5 DEF FlagHasAReason, Current
<1>11. FreeUnlessRearmed'
  BY <1>2, <1>4, <1>5 DEF FreeUnlessRearmed
<1> QED BY <1>7, <1>8, <1>9, <1>10, <1>11

LEMMA StepPreserves == DebuggerInv /\ [Next]_vars => DebuggerInv'
<1> SUFFICES ASSUME DebuggerInv, [Next]_vars PROVE DebuggerInv'
  OBVIOUS
<1> USE DebuggerAssumption DEF DebuggerAssumption, DebuggerInv, Modes
<1>1. CASE ExecuteWithTrapFlag
  <2>1. /\ mode = "kernel" /\ mode' = "trapped" /\ below' = "payload" /\ ~tf
        /\ saved' = "none" /\ resumed' = "none" /\ wrote' = -1
        /\ UNCHANGED <<left, dr0, dr7, b0, reported>>
    BY <1>1 DEF ExecuteWithTrapFlag, registers
  <2>2. tf' \in BOOLEAN /\ rearmed' \in BOOLEAN
    BY <1>1, Zenon DEF ExecuteWithTrapFlag
  <2>3. TypeOK'
    BY <2>1, <2>2 DEF TypeOK
  <2> QED BY <2>1, <2>3 DEF EpilogueEnds, Current, ArmedByW, StatusIsFresh, HitsAreReal,
    FlagHasAReason, FreeUnlessRearmed
<1>2. CASE Instruction
  <2> PICK a \in Addresses \cup {-1} : Executes(a, tf, "payload")
    BY <1>2 DEF Instruction
  <2> QED BY <1>2, ExecutesPreserves DEF Instruction, TypeOK
<1>3. CASE Pushfq
  BY <1>3, ExecutesPreserves DEF Pushfq, TypeOK
<1>4. CASE Popfq
  <2>1. rearmed' = (rearmed \/ saved = "set") /\ rearmed \in BOOLEAN
    BY <1>4 DEF Popfq, TypeOK
  <2>2. rearmed' \in BOOLEAN /\ (rearmed => rearmed') /\ (saved = "set" => rearmed')
    BY <2>1, Zenon
  <2>3. \E t \in BOOLEAN : (t => saved = "set") /\ Executes(-1, t, "payload")
    BY <1>4, Zenon DEF Popfq
  <2>4. PICK t \in BOOLEAN : (t => saved = "set") /\ Executes(-1, t, "payload")
    BY <2>3
  <2> QED BY <1>4, <2>2, <2>4, ExecutesPreserves DEF Popfq, TypeOK
<1>5. CASE Ret
  BY <1>5, ExecutesPreserves DEF Ret, TypeOK
<1>6. CASE Epilogue
  <2>1. left \in 1 .. 5 /\ left' = left - 1
    BY <1>6 DEF Epilogue, EpilogueEnds, Current
  <2>2. /\ saved' \in {"none", "set", "clear"} /\ mode = "epilogue" /\ tf \in BOOLEAN
        /\ UNCHANGED <<resumed, rearmed>> /\ rearmed \in BOOLEAN
    BY <1>6 DEF Epilogue, TypeOK
  <2>3. CASE left = 1
    <3>1. Executes(-1, FALSE, "kernel")
      BY <1>6, <2>3 DEF Epilogue, FlagCleared
    <3>2. \E t \in BOOLEAN : ~t /\ Executes(-1, t, "kernel")
      BY <3>1, Zenon
    <3>3. PICK t \in BOOLEAN : ~t /\ Executes(-1, t, "kernel")
      BY <3>2
    <3> QED BY <3>3, <2>1, <2>2, <2>3, ExecutesPreserves
  <2>4. CASE left # 1
    <3>1. Executes(-1, tf, "epilogue")
      BY <1>6, <2>4 DEF Epilogue
    <3> QED BY <3>1, <2>1, <2>2, <2>4, ExecutesPreserves
  <2> QED BY <2>3, <2>4
<1>7. CASE Kernel
  <2> PICK a \in Addresses \cup {-1} :
        Executes(a, tf, "kernel") \/ Executes(a, FALSE, "kernel")
    BY <1>7 DEF Kernel
  <2> QED BY <1>7, ExecutesPreserves DEF Kernel, TypeOK
<1>8. CASE DebuggerEngine
  <2>1. /\ mode = "trapped" /\ mode' = "stopped" /\ reported' = b0 /\ b0' = FALSE
        /\ tf' = (tf \/ b0)
        /\ UNCHANGED <<below, saved, left, dr0, dr7, wrote>>
    BY <1>8 DEF DebuggerEngine, Cleared, registers
  <2>2. tf' \in BOOLEAN /\ (tf' => tf \/ b0) /\ b0 \in BOOLEAN
    BY <2>1, Zenon DEF TypeOK
  <2>3. UNCHANGED <<resumed, rearmed>>
    BY <1>8 DEF DebuggerEngine
  <2>4. TypeOK'
    BY <2>1, <2>2, <2>3 DEF TypeOK
  <2>5. EpilogueEnds' /\ ArmedByW' /\ FlagHasAReason' /\ FreeUnlessRearmed'
    BY <2>1, <2>2, <2>3 DEF EpilogueEnds, Current, ArmedByW, FlagHasAReason, StatusIsFresh,
      FreeUnlessRearmed
  <2>6. StatusIsFresh' /\ HitsAreReal'
    BY <2>1 DEF StatusIsFresh, HitsAreReal, Watched, Length
  <2> QED BY <2>4, <2>5, <2>6
<1>10. CASE Space \/ ArmWatchpoint \/ RunFree
  <2>1. /\ mode = "stopped" /\ mode' = below /\ below \in Modes
        /\ UNCHANGED <<below, saved, left, b0, wrote, reported>>
    BY <1>10 DEF Space, ArmWatchpoint, RunFree, Resume, TypeOK
  <2>2. EpilogueEnds' /\ HitsAreReal' /\ Current' = Current
    BY <2>1 DEF EpilogueEnds, Current, HitsAreReal
  <2>3. rearmed' = FALSE /\ rearmed' \in BOOLEAN
    BY <1>10 DEF Space, ArmWatchpoint, RunFree, Resume
  <2>4. /\ tf' \in BOOLEAN /\ dr0' \in Nat
        /\ dr7' \in [enabled : BOOLEAN, rw : 0 .. 3, len : 0 .. 3]
    <3>1. UNCHANGED tf \/ tf' = FALSE
      BY <1>10 DEF Space, ArmWatchpoint, RunFree
    <3>2. tf' \in BOOLEAN
      BY <3>1, Zenon DEF TypeOK
    <3>3. dr0' \in Nat
      BY <1>10 DEF Space, ArmWatchpoint, RunFree, registers, ArmedByW
    <3>4. \/ UNCHANGED dr7
          \/ dr7' = [enabled |-> TRUE, rw |-> 1, len |-> 2]
          \/ dr7' = [enabled |-> FALSE, rw |-> 0, len |-> 0]
      BY <1>10 DEF Space, ArmWatchpoint, RunFree, registers, HW_BP_TYPE_WRITE,
        HW_BP_LEN_8_BYTES
    <3>5. dr7' \in [enabled : BOOLEAN, rw : 0 .. 3, len : 0 .. 3]
      <4>1. CASE UNCHANGED dr7
        BY <4>1 DEF TypeOK
      <4>2. CASE dr7' = [enabled |-> TRUE, rw |-> 1, len |-> 2]
        BY <4>2
      <4>3. CASE dr7' = [enabled |-> FALSE, rw |-> 0, len |-> 0]
        BY <4>3
      <4> QED BY <3>4, <4>1, <4>2, <4>3
    <3> QED BY <3>2, <3>3, <3>5
  <2>5. ArmedByW'
    BY <1>10, <2>4 DEF Space, ArmWatchpoint, RunFree, registers, ArmedByW
  <2>6. FlagHasAReason'
    BY <1>10, <2>2 DEF Space, ArmWatchpoint, RunFree, registers, FlagHasAReason
  <2>7. TypeOK' /\ StatusIsFresh'
    BY <2>1, <2>3, <2>4 DEF TypeOK, StatusIsFresh
  <2>8. FreeUnlessRearmed'
    BY <1>10, <2>1 DEF Space, ArmWatchpoint, RunFree, Resume, FreeUnlessRearmed
  <2> QED BY <2>2, <2>5, <2>6, <2>7, <2>8
<1>11. CASE UNCHANGED vars
  BY <1>11 DEF vars, registers, TypeOK, EpilogueEnds, Current, ArmedByW,
    StatusIsFresh, HitsAreReal, FlagHasAReason, FreeUnlessRearmed, Watched, Length
<1> QED BY <1>1, <1>2, <1>3, <1>4, <1>5, <1>6, <1>7, <1>8, <1>10, <1>11 DEF Next

(* The invariant, for every set of addresses.                              *)
THEOREM DebuggerInvariant == Spec => []DebuggerInv
BY InitEstablishes, StepPreserves, PTL DEF Spec

(* A stop is announced as a hit exactly when it is one (main.c:163-173).   *)
THEOREM DebuggerHitsReal == Spec => []HitsAreReal
<1>1. DebuggerInv => HitsAreReal
  BY DEF DebuggerInv
<1> QED BY <1>1, DebuggerInvariant, PTL

(* A returned payload leaves no trap flag behind (trampoline.asm).         *)
THEOREM DebuggerKernelRuns == Spec => []KernelIsNotStepped
<1>1. DebuggerInv => KernelIsNotStepped
  BY DEF DebuggerInv, FlagHasAReason, Current, KernelIsNotStepped, Modes
<1> QED BY <1>1, DebuggerInvariant, PTL

(* An armed quadword is watched whole (main.c:43-70).                      *)
THEOREM DebuggerWatchCatches == Spec => WatchCatches
<1> DEFINE Catches == mode = "payload" /\ dr7.enabled /\ dr0 % 8 = 0 /\ wrote' \in dr0 .. dr0 + 7
                        => mode' = "trapped"
<1>1. DebuggerInv /\ [Next]_vars => [Catches]_vars
  <2> SUFFICES ASSUME DebuggerInv, Next, mode = "payload", dr7.enabled,
                      dr0 % 8 = 0, wrote' \in dr0 .. dr0 + 7
               PROVE  mode' = "trapped"
    OBVIOUS
  <2>1. PICK a, t, m : Executes(a, t, m)
    BY DEF Next, ExecuteWithTrapFlag, Instruction, Pushfq, Popfq, Ret, Epilogue,
      Kernel, DebuggerEngine, Space, ArmWatchpoint, RunFree, Resume
  <2>2. wrote' = a /\ dr0 \in Nat /\ Length = 8 /\ dr7.rw = 1
    BY <2>1 DEF Executes, DebuggerInv, ArmedByW, Length, HW_BP_TYPE_WRITE,
      HW_BP_LEN_8_BYTES
  <2>3. a \in Int /\ a >= 0 /\ a \div 8 = dr0 \div 8
    BY <2>2
  <2>4. Watched(a)
    BY <2>2, <2>3 DEF Watched
  <2> QED BY <2>1, <2>3, <2>4 DEF Executes
<1> QED BY <1>1, DebuggerInvariant, PTL DEF Spec, WatchCatches

(* G frees the payload, unless it pops flags it has pushed while it was    *)
(* stepped (main.c:252-261).                                               *)
THEOREM DebuggerRunsFree == Spec => []RunsFree
<1>1. DebuggerInv => RunsFree
  BY DEF DebuggerInv, FreeUnlessRearmed, RunsFree, Modes
<1> QED BY <1>1, DebuggerInvariant, PTL
==============================================================================
