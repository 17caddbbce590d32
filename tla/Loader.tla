------------------------------- MODULE Loader -------------------------------
(***************************************************************************)
(* run's treatment of a PE file after its headers (src/src/fat32.c:284-    *)
(* 460): sections copied into virtual_ram one by one, then the import      *)
(* address tables patched thunk by thunk with stubs that carry the name of *)
(* the function to StaticIatTrap, then the search for main.                *)
(*                                                                         *)
(* Memory is measured in thunks; the program's code, in which main is      *)
(* searched, lies apart from it in EntryPoint's bytes.  A cell holds what  *)
(* the loader tells apart: the end of a list, an import by name or by      *)
(* ordinal, a stub, or other data.                                         *)
(***************************************************************************)
EXTENDS EntryPoint, Functions

CONSTANTS
  Images,       \* PE files: [file, sections, imports]
  RamCells      \* size of virtual_ram (2 MB)

Cell(kind, n) == [kind |-> kind, n |-> n]
Null == Cell("null", 0)
Stale == Cell("data", -1)       \* malloc does not clear its blocks

(* Where a section s stands in memory, and what image m says of address a. *)
Span(s) == s.VirtualAddress .. s.VirtualAddress + s.SizeOfRawData - 1
FileWord(m, s, a) == m.file[a - s.VirtualAddress + s.PointerToRawData + 1]
Word(m, a) ==
  LET covers == {s \in Range(m.sections) : a \in Span(s)}
  IN  IF covers = {} THEN Stale ELSE FileWord(m, CHOOSE s \in covers : TRUE, a)

(* The list of import names of descriptor d, n entries before its null.    *)
Lookup(d) == IF d.OriginalFirstThunk = 0 THEN d.FirstThunk ELSE d.OriginalFirstThunk
EndsAt(m, d, n) ==
  /\ Lookup(d) + n < RamCells /\ Word(m, Lookup(d) + n) = Null
  /\ \A t \in 0 .. n - 1 : Word(m, Lookup(d) + t).kind \in {"name", "ordinal"}
Entries(m, d) == CHOOSE n \in 0 .. RamCells : EndsAt(m, d, n)
Slots(m, d) == d.FirstThunk .. d.FirstThunk + Entries(m, d) - 1
List(m, d) == Lookup(d) .. Lookup(d) + Entries(m, d)

(* What a linker writes: sections inside the file and virtual_ram, and     *)
(* apart; lists of names and ordinals that end; address tables in memory,  *)
(* apart from every list but the one they are themselves.                  *)
SectionsOK(m) ==
  /\ m.sections \in Seq([VirtualAddress : Nat, PointerToRawData : Nat, SizeOfRawData : Nat])
  /\ \A s \in Range(m.sections) : /\ s.PointerToRawData + s.SizeOfRawData <= Len(m.file)
                                  /\ s.VirtualAddress + s.SizeOfRawData <= RamCells
  /\ \A r, s \in Range(m.sections) : r = s \/ Span(r) \cap Span(s) = {}
ImportsOK(m) ==
  /\ m.imports \in Seq([OriginalFirstThunk : Nat, FirstThunk : Nat])
  /\ \A j \in DOMAIN m.imports :
       /\ \E n \in 0 .. RamCells : EndsAt(m, m.imports[j], n)
       /\ m.imports[j].FirstThunk + Entries(m, m.imports[j]) <= RamCells
  /\ \A j, k \in DOMAIN m.imports :
       \/ Slots(m, m.imports[j]) \cap List(m, m.imports[k]) = {}
       \/ j = k /\ Lookup(m.imports[j]) = m.imports[j].FirstThunk

ASSUME LoaderAssumption ==
  /\ RamCells \in Nat
  /\ \A m \in Images : SectionsOK(m) /\ ImportsOK(m)

VARIABLES
  image,
  ram,          \* virtual_ram
  section,      \* sections copied
  descriptor,   \* importDesc, counted from 1
  thunk,        \* thunkRef and funcRef, from the start of their lists
  pool          \* the names in the stubs at 0x04000000, 32 bytes apart

loading == <<image, ram, section, descriptor, thunk, pool>>
loaderVars == <<loading, program, result>>

LoaderInit ==
  /\ image \in Images
  /\ ram = [a \in 0 .. RamCells - 1 |-> Stale]
  /\ section = 0 /\ descriptor = 1 /\ thunk = 0 /\ pool = << >>
  /\ Loaded

Copied(s, r) == [a \in DOMAIN r |-> IF a \in Span(s) THEN FileWord(image, s, a) ELSE r[a]]

MapSection ==
  /\ section < Len(image.sections)
  /\ section' = section + 1
  /\ ram' = Copied(image.sections[section + 1], ram)
  /\ UNCHANGED <<image, descriptor, thunk, pool, program, result>>

Patching == section = Len(image.sections) /\ descriptor <= Len(image.imports)
Import == image.imports[descriptor]
ThunkOfTable == Import.FirstThunk + thunk    \* mutant: no lookup table
thunkRef == Lookup(Import) + thunk
funcRef == Import.FirstThunk + thunk

(* *funcRef = tramp, which holds the name.                                 *)
PatchName ==
  /\ Patching /\ ram[thunkRef].kind \notin {"null", "ordinal"}
  /\ pool' = Append(pool, ram[thunkRef].n)
  /\ ram' = [ram EXCEPT ![funcRef] = Cell("stub", Len(pool) + 1)]
  /\ thunk' = thunk + 1
  /\ UNCHANGED <<image, section, descriptor, program, result>>

SkipOrdinal ==
  /\ Patching /\ ram[thunkRef].kind = "ordinal"
  /\ thunk' = thunk + 1
  /\ UNCHANGED <<image, ram, section, descriptor, pool, program, result>>

NextDescriptor ==
  /\ Patching /\ ram[thunkRef] = Null
  /\ descriptor' = descriptor + 1 /\ thunk' = 0
  /\ UNCHANGED <<image, ram, section, pool, program, result>>

Done == section = Len(image.sections) /\ descriptor > Len(image.imports)

FindMain == Done /\ Search /\ UNCHANGED loading

LoaderNext == MapSection \/ PatchName \/ SkipOrdinal \/ NextDescriptor \/ FindMain

LoaderSpec == LoaderInit /\ [][LoaderNext]_loaderVars

-----------------------------------------------------------------------------
(* The names imported through slot a: the entry of a lookup list beside it.*)
ImportsAt(a) == {d \in Range(image.imports) :
  a \in Slots(image, d) /\ Word(image, Lookup(d) + (a - d.FirstThunk)).kind = "name"}
ImportedAt(a) == {Word(image, Lookup(d) + (a - d.FirstThunk)).n : d \in ImportsAt(a)}

(* When the entry point is reached every import by name goes through a     *)
(* stub of its own that carries that name, whatever the order of sections  *)
(* and lists, with and without a separate lookup table; and every other    *)
(* word of the program is as its sections say.                             *)
ProgramIsLoaded ==
  Done => \A a \in DOMAIN ram :
    IF ImportedAt(a) = {} THEN ram[a] = Word(image, a)
    ELSE /\ ram[a].kind = "stub" /\ pool[ram[a].n] \in ImportedAt(a)
         /\ \A b \in DOMAIN ram : ImportedAt(b) # {} /\ ram[b].n = ram[a].n => b = a
==============================================================================
