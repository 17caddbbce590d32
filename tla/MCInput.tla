------------------------------ MODULE MCInput -------------------------------
(* Two keys that share a flag: both Ctrl keys send 0x1D.                   *)
EXTENDS Input

MCModifier == [k \in Keys |-> "LeftCtrl"]
==============================================================================
