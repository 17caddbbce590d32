------------------------------ MODULE MCConsole ------------------------------
(* A screen of three rows that holds a prompt and one line of input that   *)
(* just fits, so that typing wraps and scrolls.                            *)
EXTENDS Console

MCClips == {<<"a", "b", "b">>}
==============================================================================
