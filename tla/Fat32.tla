-------------------------------- MODULE Fat32 --------------------------------
(***************************************************************************)
(* The file system commands of src/src/fat32.c: InitFAT32 at boot, ls      *)
(* (ListRootDirectory), autopsy (AutopsyFirstFile) and run                 *)
(* (ExecuteFirstFile, up to the launch of what it loaded), with the        *)
(* buffers they take from a heap that may refuse any of them.              *)
(*                                                                         *)
(* The disk is chosen at the start and never written.  Its contents are    *)
(* represented by cluster numbers.  A step goes from one call of malloc or *)
(* of the drive to the next: every buffer is taken in one step and given   *)
(* back in a later one, where the code frees it.                           *)
(***************************************************************************)
EXTENDS Integers, Sequences

CONSTANTS
  Disks,        \* disks considered, see DiskAssumption
  SectorBytes,  \* 512
  Slots,        \* directory entries in a sector (16)
  Wrap,         \* 2^32: sizes and byte counts are UINT32
  RamChunks     \* how often the heap holds run's 2 MB (some 31)

VARIABLES
  disk,
  mounted,          \* InitFAT32 has set sectors_per_cluster
  cmd,              \* "boot", "idle", "ls", "autopsy" or "run"
  outcome,          \* how the last command ended
  i,                \* the directory entry looked at
  opened,           \* it has been taken for a file
  at,               \* what the command does next
  current_cluster,
  bytes_read,
  image,            \* exec_buffer: offset |-> the cluster read there
  held,             \* buffers allocated and not freed
  virtual_ram,      \* 2 MB blocks taken for PE files
  refused           \* malloc has returned NULL to the current command

volume == <<disk, mounted>>
control == <<cmd, outcome, i, opened>>
file == <<current_cluster, bytes_read, image>>
heap == <<held, virtual_ram, refused>>
vars == <<volume, control, at, file, heap>>

EOC == -1                 \* any value from 0x0FFFFFF8 on
Garbage == -2             \* what a buffer holds that no read has filled
RootCluster == 2

Lfn == {"readonly", "hidden", "system", "volume"}      \* attr 0x0F

(* What a file begins with: MZ and a PE header, code (everything that is   *)
(* neither PE nor ELF), or what does not run: ELF, MZ without PE.          *)
Kinds == {"PE", "raw", "other"}

(* The root's first cluster (the commands read no other) up to its         *)
(* terminating entry, the FAT by cluster number, what clusters begin with, *)
(* and what the drive cannot read: data clusters, sectors of the FAT.      *)
Attr == SUBSET (Lfn \cup {"directory", "archive"})
ASSUME SizesAssumption ==
  SectorBytes \in Nat \ {0} /\ Wrap \in Nat \ {0} /\ RamChunks \in Nat

ASSUME DiskAssumption == \A d \in Disks :
  /\ d.last \in Nat
  /\ d.dir \in Seq([name : {"used", "deleted"}, attr : Attr,
                    cluster : 0 .. d.last, size : 0 .. Wrap - 1])
  /\ d.fat \in [0 .. d.last -> 0 .. d.last \cup {EOC}]
  /\ d.begins \in [0 .. d.last -> Kinds]
  /\ Len(d.dir) <= d.spc * Slots
  /\ d.spc \in Nat \ {0}

Entry == disk.dir[i]
ClusterBytes == SectorBytes * disk.spc

-----------------------------------------------------------------------------
Init ==
  /\ disk \in Disks
  /\ mounted = FALSE /\ cmd = "boot" /\ at = "malloc" /\ outcome = "none"
  /\ i = 1 /\ opened = FALSE
  /\ current_cluster = EOC /\ bytes_read = 0 /\ image = << >>
  /\ held = {} /\ virtual_ram = 0 /\ refused = FALSE

Malloc(buffer) ==
  \/ held' = held \cup {buffer} /\ UNCHANGED refused
  \/ refused' = TRUE /\ UNCHANGED held
Free(buffers) == held' = held \ buffers

(* InitFAT32 returns at once without its buffer, and leaves the volume     *)
(* unmounted if sector 0 cannot be read.                                   *)
InitFAT32 ==
  /\ cmd = "boot" /\ at = "malloc"
  /\ Malloc("boot_sector_buffer")
  /\ cmd' = IF "boot_sector_buffer" \in held' THEN "boot" ELSE "idle"
  /\ at' = "read"
  /\ UNCHANGED <<volume, outcome, i, opened, file, virtual_ram>>

ReadBootSector ==
  /\ cmd = "boot" /\ at = "read"
  /\ mounted' \in BOOLEAN
  /\ Free({"boot_sector_buffer"})
  /\ cmd' = "idle"
  /\ UNCHANGED <<disk, outcome, i, opened, at, file, virtual_ram, refused>>

(* A command returns, having freed the buffers named.                      *)
Return(how, frees) ==
  /\ cmd' = "idle" /\ outcome' = how
  /\ Free(frees)
  /\ UNCHANGED <<volume, i, opened, at, file>>

(* The common start of the three commands.  An unmounted volume has 0      *)
(* sectors per cluster, and malloc(0) returns NULL.                        *)
TakeDirBuffer(c) ==
  /\ cmd = "idle"
  /\ i' = 1 /\ opened' = FALSE /\ image' = << >> /\ outcome' = "none"
  /\ \/ /\ mounted
        /\ cmd' = c /\ at' = "root"
        /\ held' = held \cup {"dir_buffer"} /\ refused' = FALSE
     \/ refused' = TRUE /\ UNCHANGED <<cmd, at, held>>
  /\ UNCHANGED <<volume, current_cluster, bytes_read, virtual_ram>>

ReadRoot ==
  /\ at = "root" /\ cmd \in {"ls", "autopsy", "run"}
  /\ RootCluster \notin disk.bad
  /\ at' = "entry"
  /\ UNCHANGED <<volume, control, file, heap>>

RootUnreadable ==
  /\ at = "root" /\ cmd \in {"ls", "autopsy", "run"}
  /\ RootCluster \in disk.bad
  /\ Return("not found", {"dir_buffer"})
  /\ UNCHANGED <<virtual_ram, refused>>

Scanning == at = "entry" /\ cmd \in {"ls", "autopsy", "run"}
AtEnd == i > Len(disk.dir)

SkipsVisible(e) ==                       \* mutant: deleted entries are opened
  e.attr = Lfn \/ (e.attr = {"directory"} /\ cmd # "ls")
Skips(e) ==
  e.name = "deleted" \/ e.attr = Lfn \/ (e.attr = {"directory"} /\ cmd # "ls")

(* ls prints the entry or skips it; the others skip it.                    *)
NextEntry ==
  /\ Scanning /\ ~AtEnd
  /\ cmd = "ls" \/ Skips(Entry)
  /\ i' = i + 1
  /\ UNCHANGED <<volume, cmd, outcome, opened, at, file, heap>>

EndOfDirectory ==
  /\ Scanning /\ AtEnd
  /\ Return(IF cmd = "ls" THEN "listed" ELSE "not found", {"dir_buffer"})
  /\ UNCHANGED <<virtual_ram, refused>>

(* The first entry not skipped.  run takes a buffer for the whole file and *)
(* does not test it.                                                       *)
OpenEntry ==
  /\ Scanning /\ ~AtEnd /\ cmd # "ls" /\ ~Skips(Entry)
  /\ opened' = TRUE /\ at' = "cluster"
  /\ current_cluster' = Entry.cluster /\ bytes_read' = 0
  /\ IF cmd = "run" THEN Malloc("exec_buffer") ELSE UNCHANGED <<held, refused>>
  /\ UNCHANGED <<volume, cmd, outcome, i, image, virtual_ram>>

-----------------------------------------------------------------------------
(* The loops over the clusters of a file.                                  *)

Reading(c) == opened /\ cmd = c
ToTheEnd == current_cluster # EOC         \* mutant: the size is no bound
More == current_cluster # EOC /\ bytes_read < Entry.size
Readable == current_cluster \notin disk.bad

(* autopsy: a buffer for every cluster, untested; only bytes of clusters   *)
(* that could be read are counted.                                         *)
TakeClusterBuffer ==
  /\ Reading("autopsy") /\ at = "cluster" /\ More
  /\ Malloc("cluster_buffer")
  /\ at' = "show"
  /\ UNCHANGED <<volume, control, file, virtual_ram>>

Shown(n) == IF n < Entry.size THEN n ELSE Entry.size

ShowCluster ==
  /\ Reading("autopsy") /\ at = "show"
  /\ bytes_read' = IF Readable THEN Shown(bytes_read + ClusterBytes) ELSE bytes_read
  /\ Free({"cluster_buffer"})
  /\ at' = "fat"
  /\ UNCHANGED <<volume, control, current_cluster, image, virtual_ram, refused>>

Stuck == IF Readable THEN (bytes_read + ClusterBytes) % Wrap ELSE bytes_read  \* mutant
Advanced == (bytes_read + ClusterBytes) % Wrap

(* run: the outcome of the read is not tested.                             *)
LoadCluster ==
  /\ Reading("run") /\ at = "cluster" /\ More
  /\ image' = [o \in DOMAIN image \cup {bytes_read} |->
       IF o # bytes_read THEN image[o]
       ELSE IF Readable THEN current_cluster ELSE Garbage]
  /\ bytes_read' = Advanced
  /\ at' = "fat"
  /\ UNCHANGED <<volume, control, current_cluster, heap>>

(* The FAT holds four bytes for every cluster, from byte 0 of its first    *)
(* sector on; GetNextCluster reads one sector of it.                       *)
FatSector(c) == (c * 4) \div SectorBytes
FatOffsetOfSector(c) == c % SectorBytes      \* mutant: an entry for a byte
FatOffset(c) == (c * 4) % SectorBytes
FatEntry(sector, offset) == disk.fat[(sector * SectorBytes + offset) \div 4]
Successor(c) == FatEntry(FatSector(c), FatOffset(c))

GetNextCluster ==
  /\ opened /\ cmd # "idle" /\ at = "fat"
  /\ Malloc("fat_buffer")
  /\ at' = "fat sector"
  /\ UNCHANGED <<volume, control, file, virtual_ram>>

FatUnread == "fat_buffer" \notin held \/ FatSector(current_cluster) \in disk.fatBad

ChainEndsKeepsBuffer ==                  \* mutant: the free of line 99 is missing
  /\ opened /\ cmd # "idle" /\ at = "fat sector" /\ FatUnread
  /\ current_cluster' = EOC
  /\ at' = "cluster"
  /\ UNCHANGED <<volume, control, bytes_read, image, heap>>
(* Without the buffer or the sector the file ends here.                    *)
ChainEnds ==
  /\ opened /\ cmd # "idle" /\ at = "fat sector" /\ FatUnread
  /\ Free({"fat_buffer"})
  /\ current_cluster' = EOC
  /\ at' = "cluster"
  /\ UNCHANGED <<volume, control, bytes_read, image, virtual_ram, refused>>

ChainGoesOn ==
  /\ opened /\ cmd # "idle" /\ at = "fat sector" /\ ~FatUnread
  /\ current_cluster' = Successor(current_cluster)
  /\ Free({"fat_buffer"})
  /\ at' = "cluster"
  /\ UNCHANGED <<volume, control, bytes_read, image, virtual_ram, refused>>

EndOfAutopsy ==
  /\ Reading("autopsy") /\ at = "cluster" /\ ~More
  /\ Return("shown", {"dir_buffer"})
  /\ UNCHANGED <<virtual_ram, refused>>

(* The first bytes of the buffer: those of the cluster read there, or      *)
(* whatever the heap held before.                                          *)
Signatures ==
  IF 0 \in DOMAIN image /\ image[0] # Garbage THEN {disk.begins[image[0]]} ELSE Kinds

(* run looks at the signature.  A PE file gets 2 MB, untested and never    *)
(* freed, a raw binary runs where it is, anything else does not run.       *)
Launch ==
  /\ Reading("run") /\ at = "cluster" /\ ~More
  /\ \E kind \in Signatures :
       /\ Return(IF kind = "other" THEN "not executable" ELSE "ran",
                 {"dir_buffer", "exec_buffer"})
       /\ \/ kind # "PE" /\ UNCHANGED <<virtual_ram, refused>>
          \/ /\ kind = "PE" /\ virtual_ram < RamChunks
             /\ virtual_ram' = virtual_ram + 1 /\ UNCHANGED refused
          \/ kind = "PE" /\ refused' = TRUE /\ UNCHANGED virtual_ram

Commands == ReadRoot \/ RootUnreadable \/ NextEntry \/ EndOfDirectory \/ OpenEntry
            \/ TakeClusterBuffer \/ ShowCluster \/ LoadCluster
            \/ GetNextCluster \/ ChainEnds \/ ChainGoesOn \/ EndOfAutopsy \/ Launch

Next == InitFAT32 \/ ReadBootSector
        \/ (\E c \in {"ls", "autopsy", "run"} : TakeDirBuffer(c)) \/ Commands

(* A command runs to its end inside the keyboard interrupt.                *)
Spec == Init /\ [][Next]_vars /\ WF_vars(Commands)

-----------------------------------------------------------------------------
Clusters == (Entry.size + ClusterBytes - 1) \div ClusterBytes

(* Every path of InitFAT32, of the commands and of GetNextCluster gives    *)
(* back its buffers, whatever malloc or the drive refuses: the early       *)
(* returns of fat32.c:74, 100 and 154 as well as the last lines.  Only the *)
(* 2 MB of a PE file (fat32.c:275), which no code frees, stay.             *)
BuffersReturned == cmd = "idle" => held = {}

(* fat32.c:223 adds 512 bytes to exec_buffer for what the last cluster has *)
(* beyond the file.  That is enough for clusters of one sector; a larger   *)
(* last cluster may go past the end of the buffer, by less than what it    *)
(* has more than one sector.  No other read does, if size + 512 has not    *)
(* wrapped around.                                                         *)
ReadsLandInBuffers ==
  LET room == Entry.size + SectorBytes
  IN  Reading("run") /\ "exec_buffer" \in held /\ room < Wrap =>
        \A o \in DOMAIN image :
          \/ o + ClusterBytes <= room
          \/ /\ disk.spc > 1 /\ o < Entry.size /\ o + ClusterBytes > Entry.size
             /\ o + ClusterBytes - room < ClusterBytes - SectorBytes

(* The cluster that comes kth in the file, by the entry and the FAT, if    *)
(* the ones before it were read to their places.                           *)
Place(k) == k * ClusterBytes
InChain(k) == IF k = 0 THEN Entry.cluster ELSE disk.fat[image[Place(k - 1)]]

(* The image holds the first n clusters of the file, each in its place,    *)
(* and nothing else.                                                       *)
Holds(n) ==
  /\ DOMAIN image = {Place(k) : k \in 0 .. n - 1}
  /\ \A k \in 0 .. n - 1 : image[Place(k)] = InChain(k) /\ InChain(k) # EOC

Undisturbed ==
  ~refused /\ disk.fatBad = {} /\ disk.bad = {} /\ Entry.size + ClusterBytes < Wrap

(* What run launches is the file: its clusters in FAT order, each at its   *)
(* offset, and no others, as many as its size asks for unless the chain    *)
(* ends before, if no buffer was refused and every sector read.            *)
ImageIsTheFile ==
  outcome = "ran" /\ Undisturbed =>
    \E n \in 0 .. Clusters : Holds(n) /\ (n = Clusters \/ InChain(n) = EOC)

IsFile(e) == e.name = "used" /\ e.attr \cap {"directory", "volume"} = {}

(* autopsy and run pass over no file, and report that there is none only   *)
(* when the root's first cluster has none or cannot be read.  What they    *)
(* open is the first file, or before it a volume label or a directory that *)
(* has another attribute too (fat32.c:122 and 220 compare whole bytes).    *)
(* run launches what it opened, or nothing: where README.md:60 says "the   *)
(* first valid executable", a first file that is none ends the command.    *)
FirstFileIsOpened ==
  LET files == {n \in 1 .. Len(disk.dir) : IsFile(disk.dir[n])}
  IN  /\ opened => \A n \in files : i <= n
      /\ opened /\ i \notin files =>
           \/ "volume" \in Entry.attr
           \/ "directory" \in Entry.attr /\ Entry.attr # {"directory"}
      /\ outcome = "not found" /\ RootCluster \notin disk.bad => files = {}
      /\ outcome \in {"ran", "not executable"} /\ Undisturbed /\ Entry.size > 0 =>
           (outcome = "ran" <=> disk.begins[Entry.cluster] # "other")

(* Every command returns, but autopsy in a chain it cannot read a byte of  *)
(* (fat32.c:133) and run when its byte count wraps around (fat32.c:232).   *)
CommandsReturn ==
  cmd \notin {"boot", "idle"} ~>
    \/ cmd = "idle"
    \/ [](cmd = "autopsy" /\ ~Readable)
    \/ [](Reading("run") /\ Entry.size + ClusterBytes > Wrap)
==============================================================================
