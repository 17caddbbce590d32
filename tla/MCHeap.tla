------------------------------- MODULE MCHeap -------------------------------
(* A heap small enough to fragment in every way: a header of two units and *)
(* requests that sometimes split, sometimes take a block whole and         *)
(* sometimes fit nowhere.                                                  *)
EXTENDS Heap
==============================================================================
