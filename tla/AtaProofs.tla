------------------------------ MODULE AtaProofs ------------------------------
(***************************************************************************)
(* Proofs about Ata, for any disk, any requests and any number of polls.   *)
(***************************************************************************)
EXTENDS Ata, TLAPS

(* The call that runs has sectors to go and polls left.                    *)
CallGoesOn ==
  result = "pending" =>
    request \in Requests /\ Len(buffer) < request.count /\ timeout >= 1

(* A drive that took the call's command is at the sector the call waits    *)
(* for, or has failed there.                                               *)
Unfit(s) == s \in BadSectors \/ s >= DiskSectors
DriveInStep ==
  result = "pending" /\ ~abandoned =>
    \/ drive.phase = "absent"
    \/ /\ drive.phase \in {"busy", "drq", "err"}
       /\ drive.left = request.count - Len(buffer)
       /\ Addressable => drive.at = request.lba + Len(buffer)

DriveHasWork ==
  /\ Working => drive.left >= 1
  /\ drive.phase = "err" => Unfit(drive.at)

(* Only a call that failed, or was misled itself, leaves a drive at work.  *)
DriveIsDone == result \in {"none", "read"} /\ ~abandoned => ~Working

(* What was stored so far are the first sectors of the request.            *)
StoredInOrder ==
  Addressable /\ ~abandoned =>
    \A i \in 1 .. Len(buffer) : buffer[i] = request.lba + i - 1

ReadIsComplete ==
  result = "read" => request \in Requests /\ Len(buffer) = request.count

AtaInv ==
  /\ TypeOK /\ CallGoesOn /\ DriveInStep /\ DriveHasWork /\ DriveIsDone
  /\ StoredInOrder /\ ReadIsComplete /\ FailsForAReason

LEMMA RequestType ==
  \A r \in Requests : r.lba \in Nat /\ r.count \in Nat /\ r.count >= 1
BY AtaAssumption DEF AtaAssumption

LEMMA DriveType ==
  TypeOK => /\ drive = [phase |-> drive.phase, at |-> drive.at, left |-> drive.left]
            /\ drive.phase \in {"absent", "idle", "busy", "drq", "err"}
            /\ drive.at \in Nat /\ drive.left \in Nat
BY DEF TypeOK

LEMMA InitEstablishes == Init => AtaInv
<1> SUFFICES ASSUME Init PROVE AtaInv
  OBVIOUS
<1>1. /\ drive.phase \in {"idle", "absent"} /\ request.count = 0 /\ Len(buffer) = 0
      /\ drive \in [phase : {"absent", "idle", "busy", "drq", "err"}, at : Nat, left : Nat]
  BY DEF Init, Abstract!Nothing
<1>2. TypeOK
  <2>1. request = Abstract!Nothing /\ buffer = <<>> /\ timeout = 0 /\ result = "none"
    BY DEF Init
  <2>2. abandoned \in BOOLEAN /\ Polls \in Nat
    BY AtaAssumption DEF AtaAssumption, Init
  <2> QED BY <1>1, <2>1, <2>2 DEF TypeOK
<1>3. /\ CallGoesOn /\ DriveInStep /\ DriveHasWork /\ DriveIsDone
      /\ StoredInOrder /\ ReadIsComplete /\ FailsForAReason
  BY <1>1 DEF Init, CallGoesOn, DriveInStep, DriveHasWork, DriveIsDone,
    Working, StoredInOrder, ReadIsComplete, FailsForAReason
<1> QED BY <1>2, <1>3 DEF AtaInv

-----------------------------------------------------------------------------
LEMMA IssuePreserves ==
  ASSUME AtaInv, NEW r \in Requests, Issue(r)
  PROVE  AtaInv'
<1>1. r.lba \in Nat /\ r.count \in Nat /\ r.count >= 1 /\ LbaLimit \in Nat \ {0}
      /\ Polls \in Nat \ {0}
  BY RequestType, AtaAssumption DEF AtaAssumption
<1>2. /\ request' = r /\ result' = "pending" /\ buffer' = <<>> /\ Len(buffer') = 0
      /\ timeout' = Polls /\ drive' = Accept(r) /\ abandoned' = Working
  BY DEF Issue
<1>3. /\ abandoned' \in BOOLEAN
      /\ ~abandoned' => ~Working
  <2>1. abandoned' = Working
    BY <1>2
  <2>2. Working \in BOOLEAN
    BY SMT DEF Working
  <2>3. abandoned' \in BOOLEAN
    BY <2>1, <2>2, Zenon
  <2>4. ~abandoned' => ~Working
    BY <2>1, Zenon
  <2> QED BY <2>3, <2>4
<1>4. r.lba % LbaLimit \in Nat /\ (r.lba < LbaLimit => r.lba % LbaLimit = r.lba)
  BY <1>1
<1>5. \/ drive' = drive /\ (Working \/ drive.phase = "absent")
      \/ drive' = [phase |-> "busy", at |-> r.lba % LbaLimit, left |-> r.count]
  BY <1>2 DEF Accept
<1>6. drive' \in [phase : {"absent", "idle", "busy", "drq", "err"}, at : Nat, left : Nat]
  BY <1>1, <1>4, <1>5 DEF AtaInv, TypeOK
<1>7. TypeOK'
  BY <1>1, <1>2, <1>3, <1>6 DEF TypeOK
<1>8. CallGoesOn' /\ StoredInOrder' /\ ReadIsComplete' /\ DriveIsDone' /\ FailsForAReason'
  BY <1>1, <1>2 DEF CallGoesOn, StoredInOrder, ReadIsComplete, DriveIsDone, FailsForAReason
<1>9. DriveInStep' /\ DriveHasWork'
  <2>1. CASE drive' = drive /\ Working
    <3>1. abandoned'
      BY <2>1, <1>2
    <3> QED BY <2>1, <3>1 DEF AtaInv, DriveInStep, DriveHasWork, Working
  <2>2. CASE drive' = drive /\ drive.phase = "absent"
    BY <2>2 DEF DriveInStep, DriveHasWork, Working
  <2>3. CASE drive' = [phase |-> "busy", at |-> r.lba % LbaLimit, left |-> r.count]
    <3>1. drive'.phase = "busy" /\ drive'.at = r.lba % LbaLimit /\ drive'.left = r.count
      BY <2>3
    <3>2. DriveInStep'
      BY <1>1, <1>2, <1>4, <3>1 DEF DriveInStep, Addressable
    <3>3. DriveHasWork'
      BY <1>1, <3>1 DEF DriveHasWork, Working
    <3> QED BY <3>2, <3>3
  <2> QED BY <1>5, <2>1, <2>2, <2>3
<1> QED BY <1>7, <1>8, <1>9 DEF AtaInv

LEMMA DriveServesPreserves == AtaInv /\ DriveServes => AtaInv'
<1> SUFFICES ASSUME AtaInv, DriveServes PROVE AtaInv'
  OBVIOUS
<1>1. drive.phase = "busy" /\ UNCHANGED <<request, result, buffer, timeout, abandoned>>
  BY DEF DriveServes
<1>2. \/ drive' = [phase |-> "err", at |-> drive.at, left |-> drive.left] /\ Unfit(drive.at)
      \/ drive' = [phase |-> "drq", at |-> drive.at, left |-> drive.left]
  BY DriveType DEF DriveServes, AtaInv, Unfit
<1>3. TypeOK'
  BY <1>1, <1>2, DriveType DEF AtaInv, TypeOK
<1>4. DriveInStep' /\ DriveHasWork'
  BY <1>1, <1>2, DriveType DEF AtaInv, DriveInStep, DriveHasWork, Working, Addressable
<1>5. CallGoesOn' /\ StoredInOrder' /\ ReadIsComplete'
  BY <1>1 DEF AtaInv, CallGoesOn, StoredInOrder, ReadIsComplete, Addressable
<1>6. DriveIsDone' /\ FailsForAReason'
  BY <1>1 DEF AtaInv, DriveIsDone, Working, FailsForAReason, Addressable
<1> QED BY <1>3, <1>4, <1>5, <1>6 DEF AtaInv

(* The sector transferred is the next of the request, and the drive goes   *)
(* on to the one behind it or has done with the last.                      *)
LEMMA TransferEffect ==
  ASSUME AtaInv, TransferSector
  PROVE  /\ drive.phase = "drq" /\ result = "pending" /\ request \in Requests
         /\ buffer' = Append(buffer, drive.at)
         /\ Len(buffer') = Len(buffer) + 1 /\ Len(buffer) \in Nat
         /\ Len(buffer) < request.count /\ request.count \in Nat /\ request.lba \in Nat
         /\ \/ result' = "read" /\ Len(buffer') = request.count
            \/ result' = "pending" /\ Len(buffer') < request.count
         /\ \/ drive' = [phase |-> "idle", at |-> drive.at, left |-> drive.left]
               /\ drive.left = 1
            \/ drive' = [phase |-> "busy", at |-> drive.at + 1, left |-> drive.left - 1]
               /\ drive.left # 1
<1>1. drive.phase = "drq"
  BY DEF TransferSector, Ready, Status
<1>2. /\ result = "pending" /\ request \in Requests /\ Len(buffer) < request.count
      /\ request.lba \in Nat /\ request.count \in Nat
      /\ buffer \in Seq(Int) /\ Len(buffer) \in Nat
  BY RequestType DEF TransferSector, Polling, AtaInv, CallGoesOn, TypeOK
<1>3. buffer' = Append(buffer, drive.at) /\ drive' = Drained
      /\ result' = IF LastSector THEN "read" ELSE "pending"
  BY <1>1 DEF TransferSector, Data
<1>4. Len(buffer') = Len(buffer) + 1
  BY <1>2, <1>3
<1>5. \/ result' = "read" /\ Len(buffer') = request.count
      \/ result' = "pending" /\ Len(buffer') < request.count
  BY <1>2, <1>3, <1>4 DEF LastSector
<1>6. \/ drive' = [phase |-> "idle", at |-> drive.at, left |-> drive.left]
         /\ drive.left = 1
      \/ drive' = [phase |-> "busy", at |-> drive.at + 1, left |-> drive.left - 1]
         /\ drive.left # 1
  BY <1>1, <1>3, DriveType DEF Drained, AtaInv
<1> QED BY <1>1, <1>2, <1>3, <1>4, <1>5, <1>6

LEMMA TransferPreserves == AtaInv /\ TransferSector => AtaInv'
<1> SUFFICES ASSUME AtaInv, TransferSector PROVE AtaInv'
  OBVIOUS
<1> USE TransferEffect
<1>1. request' = request /\ abandoned' = abandoned /\ timeout' = Polls /\ Polls \in Nat \ {0}
  BY AtaAssumption DEF AtaAssumption, TransferSector
<1>2. drive.at \in Nat /\ drive.left \in Nat /\ drive.left >= 1 /\ buffer \in Seq(Int)
  BY DriveType DEF AtaInv, DriveHasWork, Working, TypeOK
<1>3. buffer' \in Seq(Int) /\ buffer'[Len(buffer')] = drive.at
      /\ \A i \in 1 .. Len(buffer) : buffer'[i] = buffer[i]
  BY <1>2
<1>4. drive' \in [phase : {"absent", "idle", "busy", "drq", "err"}, at : Nat, left : Nat]
  BY <1>2
<1>5. TypeOK'
  BY <1>1, <1>3, <1>4 DEF AtaInv, TypeOK
<1>6. CallGoesOn' /\ ReadIsComplete'
  BY <1>1 DEF CallGoesOn, ReadIsComplete
<1>7. DriveHasWork' /\ FailsForAReason'
  BY <1>2 DEF DriveHasWork, Working, FailsForAReason
<1>8. DriveInStep'
  <2> SUFFICES ASSUME result' = "pending", ~abandoned'
               PROVE  /\ drive'.phase = "busy"
                      /\ drive'.left = request.count - Len(buffer')
                      /\ Addressable => drive'.at = request.lba + Len(buffer')
    BY <1>1 DEF DriveInStep, Addressable
  <2>1. /\ drive.left = request.count - Len(buffer)
        /\ Addressable => drive.at = request.lba + Len(buffer)
    BY <1>1 DEF AtaInv, DriveInStep
  <2>2. drive.left # 1
    BY <2>1
  <2>3. drive' = [phase |-> "busy", at |-> drive.at + 1, left |-> drive.left - 1]
    BY <2>2
  <2> QED BY <1>2, <2>1, <2>3
<1>10. DriveIsDone'
  <2> SUFFICES ASSUME result' = "read", ~abandoned' PROVE drive'.phase = "idle"
    BY DEF DriveIsDone, Working
  <2>1. drive.left = request.count - Len(buffer)
    BY <1>1 DEF AtaInv, DriveInStep
  <2>2. drive.left = 1
    BY <2>1
  <2> QED BY <2>2
<1>9. StoredInOrder'
  <2>1. Addressable /\ ~abandoned => drive.at = request.lba + Len(buffer)
    BY DEF AtaInv, DriveInStep
  <2>2. Addressable' = Addressable
    BY <1>1 DEF Addressable
  <2> SUFFICES ASSUME Addressable, ~abandoned, NEW i \in 1 .. Len(buffer')
               PROVE  buffer'[i] = request.lba + i - 1
    BY <1>1, <2>2 DEF StoredInOrder
  <2>3. CASE i = Len(buffer')
    BY <1>3, <2>1, <2>3
  <2>4. CASE i # Len(buffer')
    <3>1. i \in 1 .. Len(buffer)
      BY <2>4
    <3>2. buffer[i] = request.lba + i - 1
      BY <3>1 DEF AtaInv, StoredInOrder
    <3> QED BY <1>3, <3>1, <3>2
  <2> QED BY <2>3, <2>4
<1> QED BY <1>5, <1>6, <1>7, <1>8, <1>9, <1>10 DEF AtaInv

LEMMA ReturnPreserves == AtaInv /\ (DriveFailed \/ GiveUp) => AtaInv'
<1> SUFFICES ASSUME AtaInv, DriveFailed \/ GiveUp PROVE AtaInv'
  OBVIOUS
<1>1. /\ result = "pending" /\ result' = "failed"
      /\ UNCHANGED <<request, buffer, timeout, drive, abandoned>>
  BY DEF DriveFailed, Polling, GiveUp, Return
<1>2. FailsForAReason'
  <2>1. CASE GiveUp
    BY <1>1, <2>1 DEF GiveUp, FailsForAReason
  <2>2. CASE DriveFailed
    <3>1. drive.phase = "err"
      BY <2>2, DriveType DEF DriveFailed, Status, AtaInv
    <3>2. Unfit(drive.at)
      BY <3>1 DEF AtaInv, DriveHasWork
    <3>3. ~abandoned /\ Addressable => drive.at = request.lba + Len(buffer)
      BY <1>1, <3>1 DEF AtaInv, DriveInStep
    <3> QED BY <1>1, <3>1, <3>2, <3>3 DEF FailsForAReason, Addressable, Unfit
  <2> QED BY <2>1, <2>2
<1> QED BY <1>1, <1>2 DEF AtaInv, TypeOK, CallGoesOn, DriveInStep, DriveHasWork,
          DriveIsDone, Working, StoredInOrder, Addressable, ReadIsComplete

LEMMA PollAgainPreserves == AtaInv /\ PollAgain => AtaInv'
<1> SUFFICES ASSUME AtaInv, PollAgain PROVE AtaInv'
  OBVIOUS
<1>1. /\ result = "pending" /\ timeout > 1 /\ timeout' = timeout - 1
      /\ UNCHANGED <<request, result, buffer, drive, abandoned>>
  BY DEF PollAgain, Polling
<1>2. timeout' \in 0 .. Polls /\ timeout' >= 1
  BY <1>1, AtaAssumption DEF AtaAssumption, AtaInv, TypeOK
<1> QED BY <1>1, <1>2 DEF AtaInv, TypeOK, CallGoesOn, DriveInStep, DriveHasWork,
          DriveIsDone, Working, StoredInOrder, Addressable, ReadIsComplete, FailsForAReason

LEMMA StepPreserves == AtaInv /\ [Next]_vars => AtaInv'
<1> SUFFICES ASSUME AtaInv, [Next]_vars PROVE AtaInv'
  OBVIOUS
<1>1. CASE \E r \in Requests : Issue(r)
  BY <1>1, IssuePreserves
<1>2. CASE DriveServes
  BY <1>2, DriveServesPreserves
<1>3. CASE AtaReadSectors
  BY <1>3, TransferPreserves, ReturnPreserves, PollAgainPreserves DEF AtaReadSectors
<1>4. CASE UNCHANGED vars
  BY <1>4 DEF vars, AtaInv, TypeOK, CallGoesOn, DriveInStep, DriveHasWork, DriveIsDone,
    Working, StoredInOrder, Addressable, ReadIsComplete, FailsForAReason
<1> QED BY <1>1, <1>2, <1>3, <1>4 DEF Next

(* The invariant, for any disk, requests, limits and number of polls.      *)
THEOREM AtaInvariant == Spec => []AtaInv
BY InitEstablishes, StepPreserves, PTL DEF Spec

(* Types; no sector is stored behind the caller's room (ata.c:32-38).      *)
THEOREM AtaTypeCorrect == Spec => []TypeOK
<1>1. AtaInv => TypeOK
  BY DEF AtaInv
<1> QED BY <1>1, AtaInvariant, PTL

LEMMA CompleteReadIsRight ==
  AtaInv /\ result = "read" /\ Addressable /\ ~abandoned => buffer = Abstract!Sectors(request)
<1> SUFFICES ASSUME AtaInv, result = "read", Addressable, ~abandoned
             PROVE  buffer = Abstract!Sectors(request)
  OBVIOUS
<1>1. buffer \in Seq(Int) /\ Len(buffer) = request.count
  BY DEF AtaInv, ReadIsComplete, TypeOK
<1>2. buffer = [i \in 1 .. Len(buffer) |-> buffer[i]]
  BY <1>1
<1>3. \A i \in 1 .. Len(buffer) : buffer[i] = request.lba + i - 1
  BY DEF AtaInv, StoredInOrder
<1> QED BY <1>1, <1>2, <1>3 DEF Abstract!Sectors

(* A call fails for a sector that cannot be read, or when AtaWaitReady has *)
(* given up (ata.c:12-22).                                                 *)
THEOREM AtaFailsForAReason == Spec => []FailsForAReason
<1>1. AtaInv => FailsForAReason
  BY DEF AtaInv
<1> QED BY <1>1, AtaInvariant, PTL

-----------------------------------------------------------------------------
(* AtaReadSectors implements the abstract reader, whatever the drive does  *)
(* (ata.c:21-41).                                                          *)
THEOREM AtaImplementsReader == Spec => ImplementsReader
<1> DEFINE Answer == IF result = "read" THEN buffer ELSE <<>>
<1>1. Init => Abstract!Init
  BY DEF Init, Abstract!Init, Abstract!Nothing
<1>2. AtaInv /\ AtaInv' /\ [Next]_vars
        => [Abstract!Next]_<<request, result, Answer, abandoned>>
  <2> SUFFICES ASSUME AtaInv, AtaInv', [Next]_vars
               PROVE  [Abstract!Next]_<<request, result, Answer, abandoned>>
    OBVIOUS
  <2>1. ASSUME NEW r \in Requests, Issue(r) PROVE Abstract!Ask(r)
    <3>1. abandoned' \in BOOLEAN
      BY DEF AtaInv, TypeOK
    <3>2. abandoned' = Working /\ result # "pending"
      BY <2>1 DEF Issue
    <3>3. abandoned' => Working
      BY <3>2, Zenon
    <3>4. Working => result = "failed" \/ abandoned
      BY <3>2 DEF AtaInv, TypeOK, DriveIsDone
    <3> QED BY <2>1, <3>1, <3>3, <3>4 DEF Issue, Abstract!Ask
  <2>2. CASE DriveServes
    BY <2>2 DEF DriveServes
  <2>3. CASE TransferSector
    <3>1. result = "pending" /\ request' = request /\ abandoned' = abandoned
      BY <2>3, TransferEffect DEF TransferSector
    <3>2. CASE result' = "read"
      <4>1. (AtaInv /\ result = "read" /\ Addressable /\ ~abandoned
               => buffer = Abstract!Sectors(request))'
        BY CompleteReadIsRight, PTL
      <4>2. ~abandoned /\ request.lba < LbaLimit => buffer' = Abstract!Sectors(request)
        BY <3>1, <3>2, <4>1 DEF Addressable, Abstract!Sectors
      <4> QED BY <3>1, <3>2, <4>2 DEF Abstract!Next, Abstract!Reply, Abstract!Read
    <3>3. CASE result' = "pending"
      BY <3>1, <3>3
    <3> QED BY <2>3, <3>2, <3>3, TransferEffect
  <2>4. CASE DriveFailed \/ GiveUp
    <3>1. /\ result = "pending" /\ result' = "failed"
          /\ request' = request /\ abandoned' = abandoned
      BY <2>4 DEF DriveFailed, Polling, GiveUp, Return
    <3> QED BY <3>1 DEF Abstract!Next, Abstract!Reply, Abstract!Fail
  <2>5. CASE PollAgain \/ UNCHANGED vars
    BY <2>5 DEF PollAgain, vars
  <2> QED BY <2>1, <2>2, <2>3, <2>4, <2>5 DEF Next, AtaReadSectors, Abstract!Next
<1> QED BY <1>1, <1>2, AtaInvariant, PTL DEF Spec, ImplementsReader, Abstract!Spec
==============================================================================
