# Tartarus in TLA+

This directory models the Tartarus kernel (the repository's `main.c`, `src/`, `inc/`) in
TLA+. TLC checks the models on small instances; TLAPS proves the safety properties that hold of
them for every value of their constants. `PROJECT.json` lists the runs, the source lines each
definition stands for, the mutations that each property detects, the findings, the hazards
and the theorems.

## 1. The system

Tartarus is a single-processor, ring-0 program started by UEFI. After `efi_main` has set up
the GDT, the PICs, the IDT, an identity map of 8 GB, the PS/2 mouse, the heap and the FAT32
offsets, it enables interrupts and halts in a loop. Everything else happens in interrupt and
exception handlers: the shell runs *inside* the keyboard interrupt, and so does a payload
that the user starts with `run`.

| Component | State | Operations | Talks to |
|---|---|---|---|
| Heap (`src/memory.c`) | block headers in the arena, `heap_head` | `InitHeap`, `malloc`, `free` | shell, FAT32 |
| Display (`src/display.c`) | frame buffer, saved pixels under the pointer | `DrawChar`/`DrawString`/`DrawHex64`, `EraseCharBlock`, `ScrollScreen`, `UpdateCursor`, `ClearScreen`, pointer save/restore/draw | everyone; shares `CursorX`, `CursorY` with the shell |
| Keyboard (`src/keyboard.c`) | modifier flags, CapsLock; writes `CommandBuffer` | `KeyboardHandler` | shell (Enter), display, PIC |
| Shell (`src/shell.c`) | `CommandBuffer`, `BufferIndex`, `Clipboard`, cursor | `ExecuteCommand` with 15 commands | all |
| Mouse (`src/mouse.c`) | position, `MouseMoved`, three-byte packet | `InitPS2Mouse`, `MouseHandler` | main loop, 8042, PIC |
| Main loop (`main.c`) | – | redraw the pointer, `hlt` | mouse, display |
| Exceptions (`src/isr.asm`, `src/exceptions.c`, `SetupIDT`) | the interrupted program's registers on the stack | wrappers, `PageFaultHandler`, `GPFaultHandler`, `FatalExceptionHandler` | payload |
| Debugger (`main.c`, `src/trampoline.asm`) | trap flag, DR0/DR6/DR7 | `DebuggerEngine` with keys Space, M, W, G; `ExecuteWithTrapFlag` | payload, 8042 (polled), display |
| FAT32 and ATA (`src/fat32.c`, `src/ata.c`) | partition offsets | mount, `GetNextCluster`, `ls`, `autopsy`, `run`; `AtaReadSectors` | heap, display, disk |
| PE loader, API manifold (`src/fat32.c`, `src/api_manifold.c`) | mapped image, synthetic PEB and export tables, stubs | section mapping, import patching, entry-point scan, traps | payload |
| PCI, memory map (`src/pci.c`, `src/memory.c`) | – | `pci`, `mem` listings | display |
| `src/idt.c` | – | never called | – |

**Where it is hard.** Two devices share one controller buffer and two latched interrupt
lines, and the debugger empties that buffer by polling while the lines stay latched. C
structures mirror, by hand, what assembly pushes. The cursor is a pair of globals that some
forty places move by hand before one `UpdateCursor`. The heap is a bare list with header
arithmetic. Page faults are *repaired* and the program resumed. CR2, DR6, DR7 and the flags
of `keyboard.c` outlive the events that set them. Everything runs with interrupts off, so
what loops for ever hangs the machine.

**What makes each part correct.** Heap: blocks partition the arena; nothing is handed out
twice or lost; `malloc` fails only if nothing fits. Console: the cursor is on the screen,
and the line shown is the line executed. Input: each byte is read once and by the right
reader; no wedge; no stuck modifier. Exceptions: registers survive; reports tell the truth;
a resumed program is in a state it could be in and makes progress. Debugger: after G nothing
traps any more; an armed watchpoint catches the write. FAT32: reads stay within their
buffers, chains end, buffers are returned.

The file system and the loader trust what the disk says. Loader: every import goes through
the stub that carries its name; the surroundings a payload searches are consistent.

The hazards that follow from this are listed in `PROJECT.json` with the line where each bites.

## 2. Modules

### Heap: `Allocator`, `Heap`, `MCHeap`, `HeapProofs`

`Allocator` is the contract a client relies on: `Grant` hands out a run of bytes of the arena
that overlaps no other, `Release` takes one back. It knows no blocks.

`Heap` is `memory.c`. `heap` maps header addresses to `size`, `is_free`, `next`. `malloc` is
a call (`MallocCall`), one step per loop iteration (`MallocWalk`) and one of three outcomes:
`MallocSplit`, `MallocWhole`, `MallocFail`. `free` (`Free`) is one step with its forward
merge. `owned` is a history variable: what clients hold, and how much they asked for. Calls
do not overlap, since all callers run with interrupts off. Clients free what they hold, once;
the shell's `free <address>` can break that contract and is then outside the model.
Addresses are unbounded integers: in `malloc` a request is compared with `current->size`
before any arithmetic is done with it, so a huge request cannot wrap.

Properties: `ListCoversArena` (partition), `OwnersMatchBlocks` (no leak, nothing handed out
twice), `GrantsAreSnug` (bounded waste), `WalkSkipsNothing` (first fit; NULL only if nothing
fits), `MallocReturns`, and `ImplementsAllocator`, the refinement
`INSTANCE Allocator WITH granted <- owned`.

### Console: `Console`, `MCConsole`, `DisplayProofs`

The display primitives, the line editor of `KeyboardHandler`, and `ExecuteCommand`. All
cursor movements are multiples of 8 pixels, so the screen is a grid of 8x8 cells; a cell is
the set of glyphs drawn over each other since it was last blanked, because `DrawChar` sets
pixels and clears none. Writes below the last row show nowhere. A command is a script of its
output statements (`Outcomes`), several where its arguments, the heap or the disk decide;
`Step` executes one statement (`pending` is the rest). Which command a line names is left
open. `stale` marks the early return of `diskread` (`shell.c:162`) that leaves the line in
the buffer without a prompt.

Properties: `CursorOnScreen`, and `LineIsVisible`: when the shell waits for a key, the cells
before the cursor show the prompt and then exactly `CommandBuffer`, each glyph alone in its
cell. `PrintsOnScreen` is refuted for `pci` (see findings). `run` and `crash` are not among
the commands.

### Input: `Input`, `MCInput`, `InputProofs`

The 8042 output buffer (`obf`), the two cascaded PICs (`irr`, `isr`; edge-triggered, so that a
latched request survives the polling that empties the buffer, as in QEMU, where the README wants
the system run), the two handlers by their port accesses, the debugger's polling loop, the main
loop's three points (`test`, `hlt`, `asleep`). Line 12 is in service at both PICs (`isr` has the
slave's 12 and the master's 2), and each EOI is a step of its own: `MouseHandler` sends the
master's first when the byte is not its own (`mouse.c:33`) and the slave's first otherwise
(`mouse.c:47`). A byte is what its readers make of it: a modifier going down or up, a key of the
line, a release that is ignored. A mouse byte is its place in the packet, and may look like
anything to another reader: the debugger's loop may obey it as one of its keys,
`KeyboardHandler` may take it for a modifier or for Enter (`Effects`). `strayed` is a history
variable: the devices whose handler missed a byte of theirs, or was given one that was not
theirs or that it had before (port 0x60 returns the previous byte when the buffer is empty).
`held` and `auxPos` are the devices' own state; `polled` is set once a byte has been taken
behind the PICs' back, by the debugger or during boot. The model starts behind `InitPS2Mouse`,
with an empty buffer and any requests that its polling left latched.

Properties: `NothingStrays` (while nobody has polled), `PacketsAligned`, `NoStuckModifier`,
`FullBufferIsAnnounced` (no byte waits in the controller without a request that will fetch
it), `EveryPathSendsEoi` (the main loop runs exactly when no line is in service at either PIC);
liveness `BytesAreTaken` and `PointerIsRedrawn`.

Fairness: a handler that has been entered runs on (`WF` on `Handlers`), the CPU accepts a
pending request when interrupts are on (`WF` on `Dispatch`), and the main loop gets a turn
between interrupts (`SF` on `MainLoop`: the bytes of a device are at least some hundred
microseconds apart, a handler takes far less). Nothing is assumed of the devices. The pointer
is redrawn only under the premise that interrupts go on arriving: one that arrives between
the test of `MouseMoved` and `hlt` leaves the redraw to the next.

### Exceptions: `Exceptions`, `MCExceptions`, `ExceptionsProofs`

From the frame the CPU pushes to the return. A value is represented by where it came from, so
that a register printed under a wrong label or popped into a wrong one is seen. `Wrapper` is
`SetupIDT`; `Pushes` is the push order of `isr.asm`; `CPU_STATE` and `INT_REGISTERS` are the
two structures, read through the stack pointer by `Read(struct, field)`. One action per path
through the handlers: `DebuggerEngine`, `GPFaultHandler`, `FatalExceptionHandler`,
`IllusionPause`, `SkipNullCall`, `RedirectNulls`, `Panic`; then `RestoreRegisters` and
`Iretq`. `Refault` is the instruction that faults again because nothing changed. The program may
be at an instruction, in the first page, or at a top address, to which a wild jump has led it; the
bytes there cannot be read, so `PageFaultHandler`'s own reads of the opcodes (`exceptions.c:49`)
and the memory dump of the key M (`main.c:227`) fault in their turn (`IllusionFaults`,
`DumpFaults`), and the handler of that fault goes on upon the same stack.

Properties: `DebuggerShowsRegisters`, `StepIsTransparent`, `ResumeIsBalanced` (a null call is
undone exactly, a repaired access resumes where it was, and `iretq` always finds the CPU's
frame, except for an invalid opcode, whose wrapper drops an error code the CPU did not push),
`ReportsNameTheFault` (a report that stays on the screen names the program's rsp, error code and
rip, except that after a fetch at a top address it names the handler's rip).
`MissingCallReturnsZero` is refuted (see findings).

### Debugger: `Debugger`, `MCDebugger`, `DebuggerProofs`

A payload that executes instructions, writes to addresses, pushes and pops its flags and
returns; the CPU's rules for the trap flag and for DR0, DR6 and DR7; `ExecuteWithTrapFlag` with
the five instructions it executes after the payload's return (`Epilogue`); the kernel that
goes on; `DebuggerEngine` up to its key loop, and one action per key that resumes. `saved` is a
flags image the payload has on its stack, the way a trap flag survives the debugger's clearing
it; `rearmed` says that it has popped one since the debugger let it go. The status bits of
breakpoints that are not enabled are not modelled, nor what the debugger draws.

Properties: `HitsAreReal` (a stop is announced as a hit exactly when it is one),
`WatchCatches` (a write to the watched quadword traps at once, in whatever state of stepping),
`KernelIsNotStepped`, `RunsFree` (after G nothing stops the payload, unless it has popped a
trap flag it had saved).

### ATA driver: `SectorReader`, `Ata`, `MCAta`, `AtaProofs`

`SectorReader` is what `diskread` and the file system rely on: a request is answered with its
sectors or with a failure. A request that failed may spoil the answers behind it, one after
the other, until one is not spoilt. `Ata` is `ata.c` with one step per poll, over a drive that
is a process of its own: it fetches sectors when it likes, fails for some, may be absent, and
takes no command while at work on an earlier one. `abandoned` is a history variable: the drive
was still busy when the call was issued.

Properties: the refinement `ImplementsReader` (`INSTANCE SectorReader WITH spoilt <-
abandoned`: only a call behind one that failed, or that was spoilt itself, can be answered
with other sectors), `FailsForAReason` (a failure is a timeout, or names the sector that
cannot be read), `ReadReturns`.

### File system: `Fat32`, `MCFat32`, `Fat32Proofs`

`InitFAT32`, `ls`, `autopsy` and `run` over a disk chosen at the start. A step goes from one call
of `malloc` or of the drive to the next, so each of the five buffers (`boot_sector_buffer`,
`dir_buffer`, `exec_buffer`, `cluster_buffer`, `fat_buffer`) enters `held` in one step and leaves
it in a later one, where the code frees it, on the early returns too; `at` is the place in the
command. Every allocation and every read may fail. The FAT is read at the sector and the offset
that `GetNextCluster` computes; sectors of data are abstracted to their cluster's number
(`fat32.c:134` and `230`). `image` is what `run` has read and where. `run` ends with `Launch`;
what follows for a PE file is in the modules below.

Properties: `BuffersReturned` (a command that has returned holds none of the five),
`ReadsLandInBuffers` (a cluster is read into the file's buffer, except that the last one of a
file may pass its end if a cluster has more than one sector, by less than it has beyond one),
`ImageIsTheFile` (the image is the file:
it starts with the entry's cluster, each further one is the FAT's successor of the one before
it, and it ends where the size or the chain does), `FirstFileIsOpened` (no file is passed over;
what may be opened before the first file; `run` launches what it opened or nothing), and
liveness: `CommandsReturn`, which names the two cases in which a command does not.

The module is not composed with `Ata` or `Heap`: of these it uses only that a read fails or
delivers, and that an allocation fails or gives a buffer of its own, which is what
`SectorReader` and `Allocator` say.

### Launch of a PE file: `EntryPoint`, `Loader`, `Manifold`, `Launch`, `MCLaunch`, `LaunchProofs`

`Launch` composes the two halves of `run`'s PE branch: while the loader has no result the loader
steps (`LoadProgram`), then the manifold does (`Surround`). They meet in two places: the loader's
result starts the manifold, and an import the payload calls is one for which the loader has patched
a stub (`Imported`).

`Loader` copies sections and patches import tables, one step per section and per thunk, on a
memory measured in thunks, then searches main. `Word(m, a)` is what image `m` says of address
`a`, through the section that covers it; `LoaderAssumption` says what a linker writes: sections
inside the file and apart from each other (`SectionsOK`), import lists that end, and address
tables apart from every list but the one they are themselves (`ImportsOK`). `run` checks none of
it. `ProgramIsLoaded` compares the memory with the file, slot by slot: an import by name goes
through a stub of its own that carries that name, everything else is as in the file. `run` neither
clears what a section has beyond its raw data (`.bss`) nor applies relocations, and the property
says nothing of either.

`EntryPoint`, which `Loader` extends, is the search of `FindOriginalEntryPoint` as a function on
bytes; a displacement is four of them, so that the 27 and the 2048 bytes it looks at are counted as
in the code. `FindsMain` says that the result is main, for code generated from the start-up
templates of both compilers with further calls before main's, in which main's place is known; it
is refuted (finding 3).

`Manifold` is memory as a set of fields at byte addresses, in which a store destroys what it
overlaps. The PEB with its module list, the amnesia zone, two export tables written name by name
at the offsets of `BuildUniversalExportTable`, and the stub at 0. Then the payload's side: it looks
a name up as any resolver does, or walks the module list, or calls or searches what
`StaticIatTrap` returned. A call into memory returns if there is code at its target.

Properties: `ModulesAreListed` (both modules with names and bases, the links in both directions,
and the head's link back, which is 0), `ApisResolve` (each name leads to its own stub, in both
modules), `CallsAreAnswered` (the trap names the call it caught; the zone is a table of functions
that return 0, and a call into the zone itself is lost).

### Pointer: `Pointer`, `MCPointer`, `DisplayProofs`

Pixels, the pointer's saved background, and the main loop's redraw statement by statement,
interleaved with mouse packets and with text drawn, scrolled or cleared by the keyboard
handler. `text` is the screen as it would be without a pointer. `OnePointerOverText` holds up
to the first text written under the pointer (`disturbed`); after that old pixels come back,
and no further text is written in the model. Movements have nine bits, of which the code reads
eight as a signed byte (`SignedByte`, `mouse.c:39`). `PointerFollows` says, for both axes and both
directions, that a movement within a byte goes as far as the packet says or to the edge it would
pass, never to the other, and that one beyond goes the other way.

## 3. Runs

| Run | Instance | What it shows |
|---|---|---|
| `heap` | arena of 18 units, header 2, slack 1, requests 0, 1, 3, 6, 99 | all safety properties, refinement and termination. The arena holds up to six blocks; requests split exactly, split with rest, take a block whole, are refused for fragmentation, and are refused always; merges happen with one or both neighbours free. |
| `console` | 3 x 4 cells, prompt of 2, line of 4, two characters, a clip of 3, ten commands | a full line wraps twice and scrolls the screen away under itself; a paste overruns the line; listings are longer than the screen. The constants keep the proportions the code relies on: the prompt is narrower than a row, a full line fits on the screen less one row (265 characters on any real mode). |
| `console_pci` | the same, command `pci` | violation: finding 1. |
| `input` | two Ctrl keys that share a flag, any requests left from boot, a debugger session that may start at any time | keyboard, mouse and debugger race for the buffer, a line may be requested between the two EOIs, and mouse bytes may look like keys; safety and liveness. |
| `exceptions` | nine vectors, covering each wrapper with and without error code; registers: none, each one, or all zero; rip mapped, in the first page, or at a top address | all paths of the handlers, their own faults included. One zero register at a time is enough, since the handler treats its seven slots independently. |
| `exceptions_amnesia` | page faults only | violation: finding 2. |
| `debugger` | addresses 7, 8, 12, 15, 16 | two aligned and three unaligned watchpoints, writes inside, at both ends and outside of them; payloads with saved flags. |
| `ata` | 6 sectors, one bad; reads of 1 to 3 sectors; 2^28 is 8; 4 polls for 100000 | late, failing and silent drives; a sector number that wraps; every call returns; refinement of `SectorReader`. |
| `fat32` | sectors of 8 bytes, which hold 2 entries of a directory or of the FAT, 1 or 2 sectors a cluster, 3 data clusters, directories of up to 2 entries; 2^32 is 64; 2 blocks of 2 MB | entries of each kind before a file, files of no, part of, one and several clusters and near the wrap, chains longer and shorter than the file and cyclic, unreadable data, root or sectors of the FAT. |
| `pointer` | 4 x 4 pixels, pointer 2 x 2, cells 2 x 2 | the pointer in every position, partly off the screen at the start as 500 is on a narrow screen; packets at each of the redraw's points; movements of both signs within a byte and beyond it. |
| `launch` | virtual RAM of 12 cells, 2 descriptors, two imports by name, equal or different, or by ordinal; lookup table, bound table or none; both orders of sections; three start-up codes. All 70 names with their real lengths and addresses; 8 words of zone for 4096; clean and used memory | every slot of every image; every lookup of every name in both modules; calls of exports, imports, null and zone. |
| `entry_point` | the same images; start-up code of both compilers with 0 to 2 calls before main's, one of them with the other's result or not; displacements whose first byte is 00, E8 or E9 | violation: finding 3. |

The constraint `Followed` of the last two runs goes on behind the loader for one image and one
program: the manifold reads neither, but for the names imported, which that image has. What the
loader does is checked for all of them.

Scaled constants keep the order relations the code's branches depend on: 2^32 and 2^28 are
replaced by numbers larger than every legal size and address of the instance and small enough
to be passed; a countdown of 100000 by one long enough for an answer before, at and after its
end.

Fairness beyond that of `Input`: a command and a driver call run on (`WF` on `Commands`,
`AtaReadSectors`), since they run with interrupts off on the only processor. Nothing is assumed
of drives, controllers, mice and users.

Deadlock is checked except where the system or the model stops: exceptions (halt, reset, lost
control), `launch` and `entry_point`, whose code runs once.

`TypeOK` is a run's invariant for the heap and for the driver, where it bounds what is written
into the caller's memory. The types of `Input` and `Debugger` are conjuncts of the proved
invariants.

### Findings

1. `pci` moves the cursor three rows per device and scrolls one (`pci.c:60-69`): near the
   bottom of the screen what it prints is drawn outside the frame buffer. The same shape is in
   `recon`, `mem` and `autopsy`.
2. `INT_REGISTERS` lists registers in push order, i.e. upside down: the handler that answers a
   call to nowhere writes 0 into r15, not rax.
3. The entry-point scan takes the first call followed by a move of its result and another call for
   main's (`fat32.c:48`, `55`). Start-up code that hands one call's result to the next before it
   calls main is entered at the wrong place, where `README.md:27` of the repository has execution
   begin "exactly at the original `main()`".

In three more places the code contradicts a text of the repository, and a passing run shows it: the
property states what the code does.

4. The amnesia zone is filled with the stub's address, not with its code (`api_manifold.c:125`).
   `CallsAreAnswered` says that a payload that calls what `StaticIatTrap` answered is lost, where
   `README.md:33` and `main.c:20-22` have the zone "filled with `xor rax, rax; ret` instructions"
   to which rip is redirected.
5. The module list is a circle forwards only. `ModulesAreListed` says that the head's link back is 0
   (`fat32.c:380-387` never set it), where `README.md:31` calls the chain "circular, doubly-linked".
6. `run` opens the first file whatever it is and ends behind it, also if that is an ELF file or an
   MZ file without the PE signature. `FirstFileIsOpened` says that it launches what it opened or
   nothing, where `README.md:60` has it "scan and map the first valid executable it finds".

### Observations

What a reader of the code may want to know, and no run refutes; the property named, if there is
one, states what the code does:

- for the reason of finding 2 the panic screen shows r15 under "RAX:" and so on down to r9
  under "RBP:" (`exceptions.c:110`), and the repair of null pointers redirects r15 ... r9;
- exceptions other than page faults reach `PageFaultHandler` with a stale CR2. If that is small
  and none of the seven slots is zero, the handler returns with nothing changed, and the fault
  repeats with interrupts off (`exceptions.c:81`; the action `Refault`);
- an invalid opcode (vector 6) is sent through the wrapper that drops an error code;
- after `AtaWaitReady` has given up, the next read takes the sector of the abandoned one for its
  own (`ata.c:12`; `spoilt` in `SectorReader`);
- 0xF0 in `ata.c:22` selects unit 1: the code works with the disk attached as in `run_lab.bat`
  and fails with the command line of `README.md:65`, which attaches unit 0;
- the directory test compares the whole attribute byte with 0x10 (`fat32.c:122`), the root
  directory is searched in its first cluster only (`fat32.c:216`), and `run` executes its buffer
  even when a read has failed (`fat32.c:231`);
- the debugger obeys mouse bytes as keys (`main.c:211`) and clears its dump off the screen
  before it waits when the cursor is low (`main.c:203`); a payload that pops flags it saved while
  stepped is stopped again after G (`main.c:262`);
- the last cluster of a file can be read past the end of `exec_buffer` if clusters have more than
  one sector (`fat32.c:223`; `ReadsLandInBuffers` says by how much);
- a fetch at a top address makes the handler fault on the opcodes it wants to show: the "Faulting
  RIP Address" that stays on the screen (`exceptions.c:46`) is the handler's own
  (`ReportsNameTheFault`);
- `MouseHandler` does not look at the packet's sign bits (`mouse.c:39`): a movement of more than 127
  goes the other way (`PointerFollows`; QEMU does not send any);
- `free` merges only with the block behind.

## 4. Proofs

**`HeapProofs`** proves every safety property of `Heap`, and the refinement, for every arena,
header size, slack and set of requests that `HeapAssumption` admits. The inductive invariant
`IInv` is the conjunction of the properties the `heap` run checks and what ties them together:
while a call is in progress, the walk is at a block of the list and every block below it has
been found unfit. `ListCoversArena` is not inductive alone: a merge is harmless only because
the merged block is unowned (`OwnersMatchBlocks`), and a split stays inside its block only
because the split test leaves room for a header. The argument has one lemma per action, with
one step per conjunct; geometry (blocks are disjoint, a merged block ends where its successor
ended) is in lemmas of its own. The refinement maps `MallocSplit` and `MallocWhole` to
`Grant`, `Free` to `Release`, and everything else to stuttering.

**`InputProofs`** proves every safety property of `Input` for any set of keys and any sharing of
flags. `LinesInService` says which lines are in service at each point of a handler, between its
two EOIs too. `PacketsAligned` and `NoStuckModifier` are not inductive, for they do not mention the
byte in flight: `MouseInStep` says that it is the one MouseHandler expects next, `PressIsHeld`
and `ModifiersExplained` that a flag without a key down has its key's release in the buffer.
`InputNothingStrays` is about the time before anyone polls; its invariant
`KeyboardReadsItsOwn` says that until then a keyboard request stands for the keyboard byte in
the buffer, which is why `KeyboardHandler` may skip the test that `MouseHandler` makes.

**`AtaProofs`** proves the safety properties of `Ata` and the refinement for any disk, any
attached drives, any requests and any patience. That a successful call has the right sectors is
not inductive: `DriveInStep` ties the drive's position to the length of the buffer, and is lost
exactly when the drive was at work on an earlier command (`abandoned`). A call can be abandoned
only behind one that failed or was abandoned itself, for a call that is right leaves the drive
idle.

**`DebuggerProofs`** proves every property of `Debugger` for any set of addresses.
`StatusIsFresh` is the heart of the invariant: bit 0 of DR6 is set only between a hit and the
debugger's entry, so that the next stop cannot inherit it; `FlagHasAReason` says how the kernel
can come to run with the trap flag.

**`ExceptionsProofs`** proves every property of `Exceptions` for any set of vectors and any sets
of registers that may be 0. The properties speak of the end of a path; the invariant follows the
stack to it word by word: a frame of 5 or 6 words while a wrapper is entered (`InWrapper`), the
15 registers behind it while a handler runs (`InHandler`), what the handler has made of both
(`Restoring`), and the frame without the registers (`Returning`). The lemmas `IntRegisters`,
`CpuState` and `PopsReverse` say where the two C structures and the pops have their fields;
`HandlerReads` puts them over the stack. `ResumeIsBalanced` is needed by its own proof: an
instruction that faults again pushes a good frame only because it was resumed with the stack
pointer it had. A fault of the handler itself starts the same path again from a frame that names
the handler; the invariant carries it as the case of a top rip. Vector 6 runs through all of it
as the case in which each field is one word off.

**`Fat32Proofs`** proves the four safety properties of `Fat32` for any set of well-formed disks
and any sizes of sector, cluster and file (`DiskAssumption`: a directory fits in its cluster, the
FAT's entries point to clusters of the disk or end a chain; `SizesAssumption`). The invariant
keeps the loop's two counts in step: after n clusters `bytes_read` is n cluster sizes
(`CountIsPlaces`), the buffer holds the first n clusters of the chain and `current_cluster` is the
next (`BufferHoldsChain`). The first needs that the sum in `fat32.c:232` does not wrap; the lemma
`CeilDiv` turns the loop's test on bytes into one on clusters. `NoFileSkipped` is the same for the
directory scan. That chains are followed, not merely visited, is stated by the FAT's successor
relation, so that no induction over a chain is needed. `HeldByCommand` gives, for each place in a
command, exactly the buffers it may hold there, and `BufferTaken` that `GetNextCluster` has
its buffer unless `malloc` has refused one. The theorem about reads covers clusters of any number of sectors: that only the
last cluster can pass the buffer's end, and how far, is again the arithmetic of `CountIsPlaces`.

**`DisplayProofs`**, console: it proves `CursorOnScreen` and `LineIsVisible` for any screen, set
of characters, clip, prompt and line that `ConsoleAssumption` admits (at least three rows, a
prompt narrower than a row, a full line that fits on the screen less one row), and any length of
listing. The hypothesis `Commands \subseteq RowByRow` names the ten commands that pair each row
with an `UpdateCursor`, those of the `console` run; `pci`, `mem`, `recon` and `autopsy` do leave
the screen (finding 1). Neither property is inductive. A character can be drawn alone in its
cell only because everything from the cursor on is blank (`BlankFrom`); a row that a command
leaves half drawn is completed before the prompt, because the statements it still has to execute
include the return to the margin (`PendingInOrder`); and Backspace does not leave the screen at
its top because the line fits before the cursor (`LineFits`). The cells are counted through all
rows (`At`, `Index`), so that a line that wraps is one interval and a scroll a shift by `Cols`
(`ScrolledAt`); `ShownScrolled` carries the line over a scroll.

**`DisplayProofs`**, pointer: it also proves `OnePointerOverText` and `PointerFollows` for any
size of screen, pointer and character (`PointerAssumption`: the pointer is no larger than the
screen, movements have nine bits). The invariant says for each statement of the redraw what the
screen shows: the text with the pointer at `PrevMouse` (`Painted`), or bare (`Bare`), and that
what was saved is the text under the pointer (`Saved`). It survives packets and text because
these come only in front of the redraw (`RedrawIsMasked`), and text only outside of the
pointer's square until `disturbed`.

**`LaunchProofs`**, loader: it proves `ProgramIsLoaded` for any well-formed images
(`LoaderAssumption`), of any number of sections and descriptors, with or without lookup tables.
The invariant describes memory at every step (`Patched`): a slot patched so far (`StubAt`) holds
a stub whose number no other slot has and whose name is one imported through it; any other
address holds what the sections copied so far say (`MappedBy`). That the loop reads the names of
the file and not what it has itself written is the lemma `ReadsTheFile`: the thunk it stands at
lies in a list, and the only address table that may overlap that list is the list itself, of
which only earlier entries are patched.

**`LaunchProofs`**, manifold: it also proves every property of `Manifold` for any list of up to
96 functions with names of up to 63 letters, the limits of the tables' layout, any zone, and any
leftovers in memory (`ManifoldAssumption`). A store destroys what it overlaps, so the invariant
says of each field built so far that it is alone: in memory, and overlapped by nothing
(`BuiltInOrder`). Each step writes within a region of its own and so keeps what lies outside
(`StoringKeeps`); that the regions are apart is arithmetic on the addresses of `api_manifold.c`.
A lookup then finds exactly one field at each place it reads (`LoadAlone`, `FoundAlone`), a link
back at the head finds none (`NoBlink`), and a call into the zone finds an address where it would
need code.

**`LaunchProofs`**, composition: `LaunchImplements` proves that a behaviour of `Launch` is one of
the loader and one of the manifold, and `LaunchIsSafe` that it has the properties of both.

Only model-checked: liveness (`MallocReturns`, `BytesAreTaken`, `PointerIsRedrawn`,
`ReadReturns`, `CommandsReturn`), which is outside what the prover supports. The properties
`PrintsOnScreen`, `MissingCallReturnsZero` and `FindsMain` do not hold.

## 5. Not modelled, and the plan

Not modelled, and why:

- boot (`efi_main` up to its loop), GDT, page tables and their 8 GB identity map: straight-line
  code run once. That the fixed regions (the heap at 0x10000000, the tables between 0x4000 and
  0x9000 and from 0x02000000 on) are free memory is assumed, not checked;
- `InitPS2Mouse` and its timeouts: `Input` starts behind it, with an empty buffer and any
  requests it may have left latched. No text says what a disturbed initialisation leaves;
- the rows the debugger draws and its memory dump, which change nothing but the screen;
- the well-formedness of a PE file's headers, which `run` does not check either;
- screens whose sides are no multiples of 8, and characters without a glyph: the grid of `Console`
  has neither;
- the zero-filling of `.bss` and relocations, which `run` does not do;
- the font and colours, the sums `mem` prints, the words the shell splits a line into;
- registers the interrupt wrappers do not save, and the compiler's choices in general. Without
  `-O` the compiler reloads `MouseMoved`, which is not volatile, on each turn of the main loop;
- `src/idt.c`, which nothing calls, and the build scripts.

What would come next:

1. `Fat32` composed with `Heap` in one module, so that a read past a buffer's end meets the
   next block's header.
2. `Console` composed with `Pointer`, so that `disturbed` becomes a statement about where the
   shell's cursor is.
