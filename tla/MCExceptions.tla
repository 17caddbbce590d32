---------------------------- MODULE MCExceptions ----------------------------
(* One register at a time is 0, or none, or all.                           *)
EXTENDS Exceptions

MCZeroSets == {{}, GPR} \cup {{r} : r \in GPR}
==============================================================================
