----------------------------- MODULE MCPointer -----------------------------
(* A screen of two by two characters of two by two pixels.  The movements  *)
(* beyond a byte are read as -1 and 56.                                    *)
EXTENDS Pointer

MCDeltas == {-2, 1, 255, -200}
==============================================================================
