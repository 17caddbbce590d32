------------------------------ MODULE MCLaunch ------------------------------
(* Images: two imported modules, with a lookup table at 3 or none, and     *)
(* tables to patch at 6 and 9; sections in either order.  Programs: start- *)
(* up code of MSVC and GCC with zero to two calls before main's, the       *)
(* second with the first one's result or not, and displacements whose      *)
(* first byte is one of three.                                             *)
(* The 70 functions of api_manifold.c by the lengths of their names.       *)
EXTENDS Launch

Thunks == {Cell("name", 1), Cell("name", 25), Cell("ordinal", 7)}
Code == <<Cell("data", 1), Cell("data", 2)>>

Tables(t, u, bound) == <<t, u, Null>> \o (IF bound THEN <<Cell("data", 5), Cell("data", 5), Null>>
                                                ELSE <<t, u, Null>>) \o <<u, Null>>
First == [VirtualAddress |-> 0, PointerToRawData |-> 0, SizeOfRawData |-> 2]
Second == [VirtualAddress |-> 3, PointerToRawData |-> 2, SizeOfRawData |-> 8]

MCImages ==
  {[file |-> Code \o Tables(t, u, bound),
    sections |-> IF swapped THEN <<Second, First>> ELSE <<First, Second>>,
    imports |-> <<[OriginalFirstThunk |-> IF lookup \/ bound THEN 3 ELSE 0, FirstThunk |-> 6],
                  [OriginalFirstThunk |-> 0, FirstThunk |-> 9]>>] :
     t \in Thunks, u \in Thunks, swapped \in BOOLEAN, bound \in BOOLEAN, lookup \in BOOLEAN}

-----------------------------------------------------------------------------
B(s) == [n \in 1 .. Len(s) |-> [byte |-> s[n], to |-> 0]]
To(b, a) == <<[byte |-> b, to |-> a]>> \o B(<<"00", "00", "00">>)
Call(b, a) == B(<<"E8">>) \o To(b, a)

Bytes == {"00", "E8", "E9"}
Main == 290
Helper == 280

Sub == B(<<"48", "83", "EC", "28">>)
Add == B(<<"48", "83", "C4", "28">>)
Earlier == {<< >>, B(<<"90">>)} \cup {Call(b, Helper) : b \in Bytes}
           \cup {Call(b, Helper) \o Call("00", Helper) : b \in Bytes}
           \cup {Call(b, Helper) \o B(<<"48", "89", "C1">>) \o Call("00", Helper) : b \in Bytes}

(* The jump leads to the code behind it: more calls, then lea rcx, [main]. *)
Msvc(b, c, more) ==
  LET start == Sub \o Call(b, Helper) \o Add \o B(<<"E9">>)
  IN  start \o To(c, Len(start) + 5) \o more \o B(<<"48", "8D", "0D">>) \o To("00", Main)
Gcc(more, b, mov) == more \o Call(b, Main) \o B(mov) \o Call("00", Helper)

(* Another function's lea follows; bytes that are no displacement lead out *)
(* of the program.                                                         *)
Starting(templates) ==
  {[code |-> t.code \o B(<<"48", "8D", "0D">>) \o To("00", Helper),
    main |-> t.main, wild |-> 500] : t \in templates}

MCPrograms == Starting(
  {[code |-> Msvc(b, c, m), main |-> Main] : b \in Bytes, c \in Bytes, m \in Earlier}
  \cup {[code |-> Gcc(m, b, mov), main |-> Main] :
          m \in Earlier, b \in Bytes, mov \in {<<"89", "C1">>, <<"48", "89", "C1">>}})

(* One of each, for what the search does not matter to.                    *)
MCStarts == Starting(
  {[code |-> Msvc("00", "00", << >>), main |-> Main],
   [code |-> Gcc(<< >>, "00", <<"89", "C1">>), main |-> Main],
   [code |-> B(<<"89", "C1">>), main |-> 1]})

-----------------------------------------------------------------------------
Lengths == <<
  21, 11, 11, 11, 12, 14, 18, 12, 24, 20, 15, 11, 11, 11, 15, 17, 16,
  14, 19, 12, 24, 19, 13, 16, 16, 17, 22, 10, 12, 14, 12, 12, 13, 13,
  12, 23, 22, 25, 20, 20, 11, 16, 18, 14, 13, 17, 11, 13, 16, 14, 12,
  19, 14, 27, 17, 5, 16, 18, 12, 14, 11, 14, 16, 19, 9, 18, 8, 9, 8, 8>>
MCNameLength == [k \in Apis |-> Lengths[k + 1]]
(* Links and an export of an earlier run, overwritten or misplaced, and    *)
(* code where the zone will be.                                            *)
MCLeftovers == {Number(Ldr + 28, 8, 7), Number(Ldr + 40, 8, 7), Number(Entry("ntdll") + 20, 8, 7),
                Field(Base("ntdll") + 2050, 17, "stub", 3), Number(4, 8, 7),
                Field(Zone, 4, "code", 0)}

(* What the loader does is checked for each image and program, what        *)
(* follows for one image, whose imports are 1 and 25, and one program.     *)
Chosen == CHOOSE m \in MCImages :
            m.file = Code \o Tables(Cell("name", 1), Cell("name", 25), TRUE)
Start == CHOOSE p \in Programs : p.main = Main
Followed == mem # {} \/ result # 0 => image = Chosen /\ program = Start
==============================================================================
