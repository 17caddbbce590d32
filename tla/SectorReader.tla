---------------------------- MODULE SectorReader ----------------------------
(***************************************************************************)
(* What the file system and the shell rely on when they call               *)
(* AtaReadSectors: a request is answered once, with the sectors it names   *)
(* or with a failure.  A request that failed may spoil those behind it,    *)
(* one after the other, until one is not spoilt: then reads are right      *)
(* again until a request fails.  Nothing is said about drives, status bits *)
(* or time.  A sector's contents are represented by its number.            *)
(***************************************************************************)
EXTENDS Integers, Sequences

CONSTANTS
  Requests,     \* [lba, count] callers pass
  LbaLimit      \* the numbers that can be asked for lie below

VARIABLES
  asked,        \* the request in progress, or the last one
  status,       \* "none", "pending", "failed" or "read"
  data,         \* the sectors of a successful answer
  spoilt        \* the last request may be answered with wrong sectors

Sectors(r) == [i \in 1 .. r.count |-> r.lba + i - 1]

Nothing == [lba |-> 0, count |-> 0]

Init == asked = Nothing /\ status = "none" /\ data = <<>> /\ spoilt = FALSE

Ask(r) ==
  /\ status # "pending"
  /\ asked' = r
  /\ status' = "pending"
  /\ data' = <<>>
  /\ spoilt' \in BOOLEAN
  /\ spoilt' => status = "failed" \/ spoilt

Fail == status' = "failed" /\ data' = <<>>
Read ==
  /\ status' = "read"
  /\ ~spoilt /\ asked.lba < LbaLimit => data' = Sectors(asked)

Reply == status = "pending" /\ (Fail \/ Read) /\ UNCHANGED <<asked, spoilt>>

Next == (\E r \in Requests : Ask(r)) \/ Reply

Spec == Init /\ [][Next]_<<asked, status, data, spoilt>>
==============================================================================
