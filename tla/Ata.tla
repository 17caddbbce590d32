--------------------------------- MODULE Ata ---------------------------------
(***************************************************************************)
(* AtaReadSectors and AtaWaitReady of src/src/ata.c, polling a drive that  *)
(* works at its own pace.                                                  *)
(*                                                                         *)
(* The drive is the environment: it fetches one sector at a time, raises   *)
(* DRQ when the sector can be read and ERR when it cannot be fetched, and  *)
(* while it is busy or has data to hand over it takes no new command.  A   *)
(* sector's contents are represented by its number.                        *)
(***************************************************************************)
EXTENDS Integers, Sequences

CONSTANTS
  Requests,     \* [lba, count] callers pass to AtaReadSectors
  Attached,     \* the units of the primary channel that have a drive
  DiskSectors,  \* its size
  LbaLimit,     \* 2^28: the bits of lba that reach the ports
  BadSectors,   \* sectors the drive cannot read
  Polls         \* AtaWaitReady's timeout (100000)

ASSUME AtaAssumption ==
  /\ Requests \subseteq [lba : Nat, count : Nat \ {0}]
  /\ DiskSectors \in Nat /\ LbaLimit \in Nat \ {0} /\ Polls \in Nat \ {0}

VARIABLES
  request,      \* the arguments of AtaReadSectors
  result,       \* "none", "pending" while it runs, "failed", "read"
  buffer,       \* sectors stored in target_buffer
  timeout,      \* AtaWaitReady's counter
  drive,        \* [phase, at, left]: the sector it works on, sectors to go
  abandoned     \* the drive was still at work on an earlier call

vars == <<request, result, buffer, timeout, drive, abandoned>>

Abstract == INSTANCE SectorReader WITH
  asked <- request, status <- result,
  data <- IF result = "read" THEN buffer ELSE <<>>, spoilt <- abandoned

Unit == 1                 \* bit 4 of the 0xF0 written to port 0x1F6

Working == drive.phase \in {"busy", "drq"}

(* Port 0x1F7; a unit without a drive reads 0.                             *)
Status ==
  CASE drive.phase = "busy" -> {"BSY"}
    [] drive.phase = "drq"  -> {"DRQ"}
    [] drive.phase = "err"  -> {"ERR"}
    [] OTHER                -> {}

Init ==
  /\ request = Abstract!Nothing
  /\ result = "none"
  /\ buffer = <<>>
  /\ timeout = 0
  /\ drive = [phase |-> IF Unit \in Attached THEN "idle" ELSE "absent",
              at |-> 0, left |-> 0]
  /\ abandoned = FALSE

(* The drive takes the command unless it is at work on an earlier one.     *)
Accept(r) ==
  IF Working \/ drive.phase = "absent" THEN drive
  ELSE [phase |-> "busy", at |-> r.lba % LbaLimit, left |-> r.count]

(* AtaReadSectors writes its registers and the command.                    *)
Issue(r) ==
  /\ result # "pending"
  /\ request' = r
  /\ result' = "pending"
  /\ buffer' = <<>>
  /\ timeout' = Polls
  /\ drive' = Accept(r)
  /\ abandoned' = Working

(* The drive has fetched a sector, or failed to.                           *)
DriveServes ==
  /\ drive.phase = "busy"
  /\ drive' = [drive EXCEPT !.phase =
       IF drive.at \in BadSectors \/ drive.at >= DiskSectors THEN "err" ELSE "drq"]
  /\ UNCHANGED <<request, result, buffer, timeout, abandoned>>

NotBusy == "BSY" \notin Status                   \* mutant: DRQ is not tested
Ready == "BSY" \notin Status /\ "DRQ" \in Status

(* What 256 reads of port 0x1F0 return, and the drive behind them.         *)
Data == IF drive.phase = "drq" THEN drive.at ELSE -1
Drained ==
  IF drive.phase # "drq" THEN drive
  ELSE IF drive.left = 1 THEN [drive EXCEPT !.phase = "idle"]
  ELSE [phase |-> "busy", at |-> drive.at + 1, left |-> drive.left - 1]

OneMore == Len(buffer) = request.count           \* mutant: s <= sector_count
LastSector == Len(buffer) + 1 = request.count

Polling == result = "pending" /\ timeout > 1

(* AtaWaitReady returned 1: store a sector; return after the last one.     *)
TransferSector ==
  /\ Polling
  /\ Ready
  /\ buffer' = Append(buffer, Data)
  /\ drive' = Drained
  /\ timeout' = Polls
  /\ result' = IF LastSector THEN "read" ELSE "pending"
  /\ UNCHANGED <<request, abandoned>>

Return(r) == result' = r /\ UNCHANGED <<request, buffer, timeout, drive, abandoned>>

FailUnready == Polling /\ ~Ready /\ Return("failed")    \* mutant: ERR is not tested
DriveFailed == Polling /\ ~Ready /\ "ERR" \in Status /\ Return("failed")

PollAgainForever == Polling /\ ~Ready /\ UNCHANGED vars  \* mutant: no countdown
PollAgain ==
  /\ Polling
  /\ ~Ready
  /\ "ERR" \notin Status
  /\ timeout' = timeout - 1
  /\ UNCHANGED <<request, result, buffer, drive, abandoned>>

(* --timeout reached 0: AtaReadSectors returns and leaves the drive to     *)
(* itself.                                                                 *)
GiveUp == result = "pending" /\ timeout = 1 /\ Return("failed")

AtaReadSectors == TransferSector \/ DriveFailed \/ PollAgain \/ GiveUp

Next == (\E r \in Requests : Issue(r)) \/ DriveServes \/ AtaReadSectors

Spec == Init /\ [][Next]_vars

(* The loop runs on; the drive may never answer.                           *)
FairSpec == Spec /\ WF_vars(AtaReadSectors)

-----------------------------------------------------------------------------
(* Types; the buffer never takes more sectors than the caller has room for *)
(* (ata.c:32).                                                             *)
TypeOK ==
  /\ request \in Requests \cup {Abstract!Nothing}
  /\ result \in {"none", "pending", "failed", "read"}
  /\ buffer \in Seq(Int) /\ Len(buffer) <= request.count
  /\ timeout \in 0 .. Polls
  /\ drive \in [phase : {"absent", "idle", "busy", "drq", "err"}, at : Nat, left : Nat]
  /\ abandoned \in BOOLEAN

(* The sectors asked for have 28-bit numbers.                              *)
Addressable == request.lba < LbaLimit

(* A call fails only when the drive has kept it waiting for all the polls  *)
(* AtaWaitReady allows for one sector, or for a sector the disk does not   *)
(* have or cannot read, be it an abandoned call's.                         *)
FailsForAReason ==
  result = "failed" /\ Addressable =>
    \/ timeout = 1
    \/ drive.phase = "err" /\ (drive.at \in BadSectors \/ drive.at >= DiskSectors)
       /\ (abandoned \/ drive.at = request.lba + Len(buffer))

(* Every call returns, with a drive that stops answering and without one.  *)
ReadReturns == result = "pending" ~> result # "pending"

(* A successful call has stored exactly the sectors asked for, in order,   *)
(* however late or unreliable the drive is: a call can be misled only by a *)
(* call before it that failed or was misled itself, never by one that was  *)
(* right.                                                                  *)
ImplementsReader == Abstract!Spec
==============================================================================
