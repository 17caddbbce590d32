------------------------------ MODULE Allocator ------------------------------
(***************************************************************************)
(* What a client of malloc and free may rely on, with no mention of the    *)
(* block list that implements it: a call grants a run of bytes inside the  *)
(* arena that overlaps no run granted before and not yet released.  The    *)
(* allocator may refuse any request (malloc returns NULL): a refusal       *)
(* changes nothing and is a stuttering step here.                          *)
(***************************************************************************)
EXTENDS Integers

CONSTANTS
  Start,      \* first byte of the arena
  End,        \* first byte after the arena
  Requests    \* the sizes clients ask for

VARIABLE granted   \* pointer held by a client |-> the size it asked for

Bytes(p, n) == p .. p + n - 1

(* The run of n bytes at p lies in the arena and overlaps no granted run.  *)
Free(p, n) ==
  /\ Bytes(p, n) \subseteq Start .. End - 1
  /\ \A q \in DOMAIN granted : Bytes(p, n) \cap Bytes(q, granted[q]) = {}

Init == granted = [p \in {} |-> 0]

Grant(p, n) ==
  /\ n > 0
  /\ p \notin DOMAIN granted
  /\ Free(p, n)
  /\ granted' = [q \in DOMAIN granted \cup {p} |->
                   IF q = p THEN n ELSE granted[q]]

Release(p) ==
  /\ p \in DOMAIN granted
  /\ granted' = [q \in DOMAIN granted \ {p} |-> granted[q]]

Next ==
  \/ \E p \in Start .. End - 1, n \in Requests : Grant(p, n)
  \/ \E p \in DOMAIN granted : Release(p)

Spec == Init /\ [][Next]_granted
==============================================================================
