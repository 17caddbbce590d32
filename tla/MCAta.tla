------------------------------- MODULE MCAta -------------------------------
(* A disk of six sectors, one unreadable; reads of one to three sectors,   *)
(* and one of a number that does not fit in 28 bits.                       *)
EXTENDS Ata

MCRequests ==
  {[lba |-> l, count |-> c] : l \in 0 .. 6, c \in 1 .. 3}
  \cup {[lba |-> LbaLimit + 1, count |-> 1]}
==============================================================================
