------------------------------ MODULE Manifold ------------------------------
(***************************************************************************)
(* The surroundings run builds for a PE payload, and the calls it catches  *)
(* (src/src/api_manifold.c; src/src/fat32.c:369-446): the PEB and its      *)
(* module list at fixed low addresses, the export tables of two modules    *)
(* that do not exist, the amnesia zone and the stub at address 0.          *)
(*                                                                         *)
(* Memory is the set of fields stored in it; storing a field destroys the  *)
(* ones it overlaps, and what is not there reads as 0.  The payload of an  *)
(* earlier run may have left anything.                                     *)
(***************************************************************************)
EXTENDS Integers

CONSTANTS
  ApiCount,     \* entries of Tartarus_Malware_API_List (70)
  NameLength,   \* their lengths
  AntiDebug,    \* the ones StaticIatTrap recognises by their first letters
  ZoneWords,    \* words of the amnesia zone (4096)
  Leftovers     \* what earlier payloads may have left in memory

ASSUME ManifoldAssumption ==
  /\ ApiCount \in 1 .. 96 /\ ZoneWords \in Nat \ {0}
  /\ NameLength \in [0 .. ApiCount - 1 -> 1 .. 63]
  /\ \A f \in Leftovers : f.at \in Nat /\ f.size \in Nat \ {0}

VARIABLES
  mem,
  step,         \* what run does next, "running" once the payload has control
  i,            \* export being written
  called,       \* what the payload has called, "nothing" before
  GlobalLastAPI,
  rax           \* what it got back, or "halted", or "lost" if it ran into data

calls == <<called, GlobalLastAPI, rax>>
vars == <<mem, step, i, calls>>

Field(at, size, kind, value) == [at |-> at, size |-> size, kind |-> kind, value |-> value]
Number(at, size, n) == Field(at, size, "number", n)

Apart(f, g) == f.at + f.size <= g.at \/ g.at + g.size <= f.at
Store(fields) == {g \in mem : \A f \in fields : Apart(f, g)} \cup fields

Load(at, size, kind) ==
  LET found == {f \in mem : f.at = at /\ f.kind = kind /\ f.size = size}
  IN  IF found = {} THEN 0 ELSE (CHOOSE f \in found : TRUE).value
Dword(at) == Load(at, 4, "number")
Qword(at) == Load(at, 8, "number")

Apis == 0 .. ApiCount - 1
Abyss == 999
Dlls == {"ntdll", "kernel32"}

(* Where things are built: the zone 0x06000000, the modules 0x02000000 and *)
(* 0x03000000, the TEB 0x4000, the PEB 0x5000, its loader data 0x6000, the *)
(* list entries 0x7000 and 0x8000.                                         *)
Zone == 100663296
Base(dll) == IF dll = "ntdll" THEN 33554432 ELSE 50331648
Teb == 16384
Peb == 20480
Ldr == 24576
Entry(dll) == IF dll = "ntdll" THEN 28672 ELSE 32768
Text(dll) == IF dll = "ntdll" THEN ApiCount ELSE ApiCount + 1

AmnesiaStub == 1          \* stands for the address of the code

Init ==
  /\ mem \in {Leftovers, {}}
  /\ step = "zone" /\ i = 0
  /\ called = [what |-> "nothing", api |-> 0] /\ GlobalLastAPI = -1 /\ rax = "none"

(* Tartarus_DeployGodObject fills the zone with addresses.                 *)
ZoneIndices == 0 .. ZoneWords - 1
DeployGodObject ==
  /\ step = "zone" /\ step' = "chain"
  /\ mem' = Store({Number(Zone + 8 * w, 8, AmnesiaStub) : w \in ZoneIndices})
  /\ UNCHANGED <<i, calls>>

(* InMemoryOrderModuleList is at offset 32 of the loader data, its links   *)
(* at offset 16 of an entry, the base at 48, the names at 72 and 88.       *)
NotClosed == 0                                      \* mutant
ListEnd == Ldr + 32
Links ==
  LET link(dll) == Entry(dll) + 16 IN
  {Number(Ldr + 32, 8, link("ntdll")),
   Number(link("ntdll"), 8, link("kernel32")), Number(link("ntdll") + 8, 8, Ldr + 32),
   Number(link("kernel32"), 8, ListEnd), Number(link("kernel32") + 8, 8, link("ntdll"))}

NamesOf(dll) ==
  LET length == IF dll = "ntdll" THEN 18 ELSE 24
      name == Entry(dll) + 1280
  IN  {Number(Entry(dll) + 48, 8, Base(dll)), Field(name, length + 2, "string", Text(dll))}
      \cup UNION {{Number(Entry(dll) + at, 2, length), Number(Entry(dll) + at + 2, 2, length + 2),
                   Number(Entry(dll) + at + 8, 8, name)} : at \in {72, 88}}

BuildChain ==
  LET fields == {Number(Peb + 24, 8, Ldr), Number(Teb + 96, 8, Peb),
                 Number(48, 8, Teb), Number(96, 8, Peb)}
                \cup Links \cup NamesOf("ntdll") \cup NamesOf("kernel32")
      pages == {Teb, Peb, Ldr, Entry("ntdll"), Entry("kernel32")}
      Kept(f) == \A p \in pages : Apart(f, Field(p, 256, "page", 0))
  IN  /\ step = "chain" /\ step' = "ntdll"
      /\ mem' = {g \in mem : Kept(g) /\ \A f \in fields : Apart(f, g)} \cup fields
      /\ UNCHANGED <<i, calls>>

-----------------------------------------------------------------------------
(* BuildUniversalExportTable: the arrays of a module, from its base.       *)

func_array_rva == 512
name_array_rva == 1024
ord_array_rva == 1536
PoolTooClose == 1280                                \* mutant: inside the names
string_pool_rva == 2048
tramp_pool_rva == 8192
StringStride == 64
TrampStride == 32

String(b, k) == Field(b + string_pool_rva + StringStride * k, NameLength[k] + 1, "string", k)
NamePointer(b, k) == Number(b + name_array_rva + 4 * k, 4, string_pool_rva + StringStride * k)
Ordinal(b, k) == Number(b + ord_array_rva + 2 * k, 2, k)
Stub(b, k) == Field(b + tramp_pool_rva + TrampStride * k, 17, "stub", k)
Function(b, k) == Number(b + func_array_rva + 4 * k, 4, tramp_pool_rva + TrampStride * k)

Export(b, k) ==
  {String(b, k), NamePointer(b, k), Ordinal(b, k), Stub(b, k), Function(b, k)}

(* DOS and NT headers, the directory at 0xC8, the export directory, the    *)
(* module's name.                                                          *)
Headers(b, dll) ==
  {Number(b, 2, 23117), Number(b + 60, 4, 64), Number(b + 64, 4, 17744),
   Number(b + 84, 2, 240), Number(b + 88, 2, 523),
   Number(b + 200, 4, 256), Number(b + 204, 4, 256), Number(b + 268, 4, 384),
   Number(b + 276, 4, ApiCount), Number(b + 280, 4, ApiCount),
   Number(b + 284, 4, func_array_rva), Number(b + 288, 4, name_array_rva),
   Number(b + 292, 4, ord_array_rva),
   Field(b + 384, IF dll = "ntdll" THEN 10 ELSE 13, "string", Text(dll))}

Exports(dll) == IF dll = "ntdll" THEN "ntdll exports" ELSE "kernel32 exports"

(* memset over 0x5000 bytes, then the headers.                             *)
StartTable(dll) ==
  /\ step = dll /\ step' = Exports(dll)
  /\ mem' = {g \in mem : Apart(g, Field(Base(dll), 20480, "module", 0))}
            \cup Headers(Base(dll), dll)
  /\ i' = 0
  /\ UNCHANGED calls

AddExport(dll) ==
  /\ step = Exports(dll) /\ i < ApiCount
  /\ mem' = Store(Export(Base(dll), i))
  /\ i' = i + 1
  /\ UNCHANGED <<step, calls>>

EndTable(dll) ==
  /\ step = Exports(dll) /\ i = ApiCount
  /\ step' = IF dll = "ntdll" THEN "kernel32" ELSE "abyss"
  /\ UNCHANGED <<mem, i, calls>>

(* mov ecx, 999; mov rax, UniversalApiTrap; jmp rax.                       *)
PlantAbyss ==
  /\ step = "abyss" /\ step' = "running"
  /\ mem' = Store({Field(0, 17, "stub", Abyss)})
  /\ UNCHANGED <<i, calls>>

-----------------------------------------------------------------------------
(* What the payload does with it.                                          *)

(* Its search of an export directory: the stubs found under a name.        *)
Resolve(b, name) ==
  LET dir == b + Dword(b + Dword(b + 60) + 136)
      found == {j \in 0 .. Dword(dir + 24) - 1 :
                  \E f \in mem : f.kind = "string" /\ f.value = name
                     /\ f.at = b + Dword(b + Dword(dir + 32) + 4 * j)}
      Target(j) == b + Dword(b + Dword(dir + 28)
                             + 4 * Load(b + Dword(dir + 36) + 2 * j, 2, "number"))
  IN  {f.value : f \in {g \in mem : g.kind = "stub" /\ \E j \in found : g.at = Target(j)}}

Calls(what, api) ==
  /\ step = "running" /\ called.what = "nothing"
  /\ called' = [what |-> what, api |-> api]
  /\ UNCHANGED <<mem, step, i>>

TrapBounded(n) ==                             \* mutant: 999 is no special case
  GlobalLastAPI' = (IF n < ApiCount THEN n ELSE GlobalLastAPI) /\ rax' = "halted"
UniversalApiTrap(n) ==
  /\ GlobalLastAPI' = IF n = Abyss \/ n < ApiCount THEN n ELSE GlobalLastAPI
  /\ rax' = "halted"

CallExport == \E dll \in Dlls, api \in Apis :
  /\ Calls("export", api)
  /\ \E stub \in Resolve(Base(dll), api) : UniversalApiTrap(stub)

CallNull == Calls("null", Abyss) /\ UniversalApiTrap(Load(0, 17, "stub"))

(* StaticIatTrap answers 0 or the address of the zone.                     *)
CallImport == \E api \in Apis :
  /\ Calls("import", api)
  /\ rax' = IF api \in AntiDebug THEN "zero" ELSE "zone"
  /\ UNCHANGED GlobalLastAPI

(* It calls what it got, or uses it as a table of functions.  A call       *)
(* returns if there is code at its target.                                 *)
HoldsCode(at) == \E f \in mem : f.at = at /\ f.kind = "code"
CallZone ==
  /\ rax = "zone" /\ called.what = "import"
  /\ \/ /\ called' = [called EXCEPT !.what = "zone"]
        /\ rax' = IF HoldsCode(Zone) THEN "zero" ELSE "lost"
     \/ /\ called' = [called EXCEPT !.what = "table"]
        /\ \E w \in 0 .. ZoneWords - 1 :
             rax' = IF Qword(Zone + 8 * w) = AmnesiaStub THEN "zero" ELSE "lost"
  /\ UNCHANGED <<mem, step, i, GlobalLastAPI>>

Next ==
  \/ DeployGodObject \/ BuildChain
  \/ \E dll \in Dlls : StartTable(dll) \/ AddExport(dll) \/ EndTable(dll)
  \/ PlantAbyss \/ CallExport \/ CallNull \/ CallImport \/ CallZone

Spec == Init /\ [][Next]_vars

-----------------------------------------------------------------------------
Running == step = "running"

(* A payload that follows gs:[0x60] (GS is 0) through the PEB finds both   *)
(* modules with their names and bases, and each link leads back to the one *)
(* before it.  The list is no circle backwards: the head's own link back   *)
(* (fake_ldr + 0x28) is cleared and never set (fat32.c:380-387), so that a *)
(* payload that walks from the last module to the first reads address 0,   *)
(* whatever was in memory.                                                 *)
ModulesAreListed ==
  Running =>
    LET head == Qword(Qword(96) + 24) + 32
        first == Qword(head)
        second == Qword(first)
    IN  /\ Qword(second) = head
        /\ Qword(second + 8) = first /\ Qword(first + 8) = head
        /\ Qword(head + 8) = 0
        /\ \A dll \in Dlls : \E link \in {first, second} :
             /\ Qword(link + 32) = Base(dll)
             /\ Load(Qword(link + 80), Load(link + 74, 2, "number"), "string") = Text(dll)

(* Looking up any of the names in either module finds one stub, its own.   *)
ApisResolve ==
  Running /\ called.what = "nothing" =>
    \A dll \in Dlls, api \in Apis : Resolve(Base(dll), api) = {api}

(* When a call is caught, the screen names the function that was called,   *)
(* also for a call through a null pointer (api_manifold.c:41).  The zone   *)
(* works as a table of functions that return 0.  It is not the code that   *)
(* README.md:33 says it is: it holds addresses (api_manifold.c:125), so a  *)
(* payload that calls what StaticIatTrap answered is lost, each time.      *)
CallsAreAnswered ==
  /\ rax = "halted" => GlobalLastAPI = called.api
  /\ called.what = "table" => rax = "zero"
  /\ called.what = "zone" => rax = "lost"
==============================================================================
