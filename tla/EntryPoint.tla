----------------------------- MODULE EntryPoint -----------------------------
(***************************************************************************)
(* FindOriginalEntryPoint (src/src/fat32.c:17-64): the search of a PE      *)
(* file's start-up code for the call or the jump that leads to main.       *)
(*                                                                         *)
(* Code is a sequence of bytes, [byte, to]: what the search compares, and, *)
(* where the four bytes of a displacement begin, the address it leads to.  *)
(* Programs come from a compiler's template, so that where main is is      *)
(* known apart from the search.                                            *)
(***************************************************************************)
EXTENDS Integers, Sequences, FiniteSets

CONSTANT Programs     \* [code, main, wild]: main is to be found, wild is where
                      \* four bytes lead that are no displacement

VARIABLES program, result

EntryPoint == 1

Byte(a) == IF a \in DOMAIN program.code THEN program.code[a].byte ELSE "00"
Reads(a, bytes) == \A n \in 1 .. Len(bytes) : Byte(a + n - 1) = bytes[n]
Leads(a) ==
  IF a \in DOMAIN program.code /\ program.code[a].to # 0
  THEN program.code[a].to ELSE program.wild

Least(S) == CHOOSE x \in S : \A y \in S : x <= y

(* The lea rcx, [main] found from a on, as a set of at most one address.   *)
Lea(a) ==
  LET hits == {k \in a .. a + 127 : Reads(k, <<"48", "8D", "0D">>)}
  IN  IF hits = {} THEN {} ELSE {Least(hits)}

(* sub rsp, 28h; call; then every byte E9 from the call's displacement on. *)
IsMsvc == Reads(EntryPoint, <<"48", "83", "EC", "28", "E8">>)
Jumps == {a \in EntryPoint + 5 .. EntryPoint + 31 :
            Byte(a) = "E9" /\ Lea(Leads(a + 1)) # {}}

(* The call is followed by mov ecx, eax or mov rcx, rax and a call.        *)
ReturnsInto(a) ==
  Reads(a + 5, <<"89", "C1", "E8">>) \/ Reads(a + 5, <<"48", "89", "C1", "E8">>)
MainCalls == {a \in EntryPoint .. EntryPoint + 2047 : Byte(a) = "E8" /\ ReturnsInto(a)}

FindOriginalEntryPoint ==
  IF IsMsvc /\ Jumps # {}
  THEN LET lea == Least(Lea(Leads(Least(Jumps) + 1))) IN Leads(lea + 3)
  ELSE IF MainCalls # {} THEN Leads(Least(MainCalls) + 1)
  ELSE EntryPoint

Loaded == program \in Programs /\ result = 0
Search == result = 0 /\ result' = FindOriginalEntryPoint /\ UNCHANGED program

-----------------------------------------------------------------------------
(* Execution is dropped exactly at main (README.md:27), behind the         *)
(* start-up code of both compilers, whatever that calls before.            *)
FindsMain == result # 0 => result = program.main
==============================================================================
