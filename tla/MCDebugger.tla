----------------------------- MODULE MCDebugger -----------------------------
(* An aligned and an unaligned value of rdi, and the bytes around them.    *)
EXTENDS Debugger

MCAddresses == {7, 8, 12, 15, 16}
==============================================================================
