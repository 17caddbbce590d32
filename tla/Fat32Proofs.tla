----------------------------- MODULE Fat32Proofs -----------------------------
(***************************************************************************)
(* Every safety property of Fat32, for every set of disks, sector and      *)
(* cluster size and wrap that its assumptions admit.                       *)
(*                                                                         *)
(* The invariant says which buffers are out at which point of a command,   *)
(* that the scan of the directory has passed over no file, and that the    *)
(* loop of run keeps two things in step: the place in the buffer and the   *)
(* place in the chain, both named by the number of clusters read.          *)
(***************************************************************************)
EXTENDS Fat32, TLAPS

Command == cmd \in {"ls", "autopsy", "run"}
InFile == {"cluster", "show", "fat", "fat sector"}

(* A command has opened a file exactly when it is in the loop over         *)
(* clusters.                                                               *)
ControlOK ==
  /\ cmd \in {"boot", "idle", "ls", "autopsy", "run"}
  /\ cmd = "boot" => ~opened /\ at \in {"malloc", "read"}
  /\ Command => at \in (IF opened THEN InFile ELSE {"root", "entry"})
  /\ opened => cmd # "ls"
  /\ cmd = "run" => at # "show"

(* What may be out, by the point of the command.                           *)
Out ==
  IF cmd = "boot" THEN (IF at = "read" THEN {"boot_sector_buffer"} ELSE {})
  ELSE IF cmd = "idle" THEN {}
  ELSE {"dir_buffer"} \cup (IF Reading("run") THEN {"exec_buffer"} ELSE {})
       \cup (IF at = "show" THEN {"cluster_buffer"} ELSE {})
       \cup (IF at = "fat sector" THEN {"fat_buffer"} ELSE {})
HeldByCommand == held \subseteq Out

DiskOK == disk \in Disks /\ i \in Nat \ {0}

(* What is opened is an entry of the directory, and what is followed is a  *)
(* cluster of the disk.                                                    *)
OpenedOK ==
  opened => /\ i \in 1 .. Len(disk.dir)
            /\ current_cluster \in 0 .. disk.last \cup {EOC}
            /\ Command /\ at # "cluster" => current_cluster # EOC

(* A command that goes on has no outcome, and until it opens a file nothing *)
(* is in the buffer.                                                       *)
CommandGoesOn ==
  /\ cmd # "idle" => outcome = "none"
  /\ Command /\ ~opened => DOMAIN image = {}

FileEntries == {n \in 1 .. Len(disk.dir) : IsFile(disk.dir[n])}

(* No file lies behind the scan.                                           *)
NoFileSkipped ==
  /\ cmd \in {"autopsy", "run"} \/ opened => \A n \in FileEntries : i <= n
  /\ opened => ~Skips(Entry)
  /\ outcome = "not found" /\ RootCluster \notin disk.bad => FileEntries = {}

(* run writes only at offsets inside the file.                             *)
PlacesInFile ==
  Reading("run") =>
    bytes_read \in Nat /\ \A o \in DOMAIN image : o \in Nat /\ o < Entry.size

(* Without a refusal the buffer holds the first n clusters of the chain,   *)
(* and current_cluster is the next, or still the last of them.             *)
BufferHoldsChain ==
  Reading("run") /\ Undisturbed =>
    \E n \in 0 .. Clusters :
      /\ bytes_read = Place(n) /\ Holds(n)
      /\ at = "cluster" => current_cluster = InChain(n)
      /\ at # "cluster" => n # 0 /\ current_cluster = image[Place(n - 1)]

(* Then run has launched what the file begins with.                        *)
LaunchedKind ==
  outcome \in {"ran", "not executable"} /\ Undisturbed /\ Entry.size > 0 =>
    (outcome = "ran" <=> disk.begins[Entry.cluster] # "other")

(* Without a refusal GetNextCluster has its buffer.                         *)
BufferTaken == Command /\ at = "fat sector" => "fat_buffer" \in held \/ refused

Fat32Inv ==
  /\ ControlOK /\ HeldByCommand /\ DiskOK /\ OpenedOK /\ CommandGoesOn /\ NoFileSkipped
  /\ PlacesInFile /\ BufferHoldsChain /\ ImageIsTheFile /\ LaunchedKind

-----------------------------------------------------------------------------
LEMMA MulMonotone ==
  ASSUME NEW a \in Int, NEW b \in Int, NEW d \in Nat, a <= b
  PROVE  a * d <= b * d
OBVIOUS

LEMMA DivMod ==
  ASSUME NEW m \in Nat, NEW d \in Nat \ {0}
  PROVE  /\ m \div d \in Nat /\ m % d \in 0 .. d - 1
         /\ m = d * (m \div d) + (m % d)
OBVIOUS

LEMMA ModSmall ==
  ASSUME NEW m \in Nat, NEW w \in Nat, m < w
  PROVE  m % w = m
OBVIOUS

(* A quotient rounded up counts the multiples below its dividend.          *)
LEMMA CeilDiv ==
  ASSUME NEW n \in Nat, NEW d \in Nat \ {0}
  PROVE  /\ (n + d - 1) \div d \in Nat
         /\ \A k \in Nat : k * d < n <=> k < (n + d - 1) \div d
<1> DEFINE m == n + d - 1
           q == m \div d
           r == m % d
<1>1. m \in Nat
  OBVIOUS
<1>2. q \in Nat /\ r \in 0 .. d - 1 /\ m = d * q + r
  BY <1>1, DivMod
<1> HIDE DEF q, r
<1>3. ASSUME NEW k \in Nat PROVE k * d < n <=> k < q
  <2>1. q * d = d * q /\ (k + 1) * d = k * d + d
    BY <1>2
  <2>2. CASE k < q
    <3>1. (k + 1) * d <= q * d
      BY <1>2, <2>2, MulMonotone
    <3> QED BY <1>2, <2>1, <2>2, <3>1
  <2>3. CASE k >= q
    <3>1. q * d <= k * d
      BY <1>2, <2>3, MulMonotone
    <3> QED BY <1>2, <2>1, <2>3, <3>1
  <2> QED BY <1>2, <2>2, <2>3
<1> QED BY <1>2, <1>3 DEF q

LEMMA ElementType ==
  ASSUME NEW S, NEW s \in Seq(S), NEW k \in 1 .. Len(s)
  PROVE  s[k] \in S
OBVIOUS

LEMMA DiskTypes ==
  ASSUME disk \in Disks
  PROVE  /\ disk.last \in Nat
         /\ disk.dir \in Seq([name : {"used", "deleted"}, attr : Attr,
                          cluster : 0 .. disk.last, size : 0 .. Wrap - 1])
         /\ disk.fat \in [0 .. disk.last -> 0 .. disk.last \cup {EOC}]
         /\ Len(disk.dir) \in Nat
         /\ disk.spc \in Nat \ {0}
<1>1. /\ disk.last \in Nat
      /\ disk.dir \in Seq([name : {"used", "deleted"}, attr : Attr,
                       cluster : 0 .. disk.last, size : 0 .. Wrap - 1])
      /\ disk.fat \in [0 .. disk.last -> 0 .. disk.last \cup {EOC}]
      /\ disk.spc \in Nat \ {0}
  BY DiskAssumption
<1> HIDE DEF Attr
<1>2. Len(disk.dir) \in Nat
  BY <1>1
<1> QED BY <1>1, <1>2

LEMMA EntryCluster ==
  ASSUME DiskOK, i \in 1 .. Len(disk.dir)
  PROVE  Entry.cluster \in 0 .. disk.last
<1>1. disk.dir \in Seq([name : {"used", "deleted"}, attr : Attr,
                       cluster : 0 .. disk.last, size : 0 .. Wrap - 1])
  BY DiskTypes DEF DiskOK
<1>2. Entry \in [name : {"used", "deleted"}, attr : Attr,
                cluster : 0 .. disk.last, size : 0 .. Wrap - 1]
  BY <1>1, ElementType DEF Entry
<1> QED BY <1>2

(* The bytes GetNextCluster takes from a sector of the FAT are those of    *)
(* the cluster's entry.                                                    *)
LEMMA FatArithmetic ==
  ASSUME NEW c \in Nat
  PROVE  Successor(c) = disk.fat[c]
<1>1. SectorBytes \in Nat \ {0} /\ c * 4 \in Nat
  BY SizesAssumption
<1>2. c * 4 = SectorBytes * FatSector(c) + FatOffset(c)
      /\ FatSector(c) \in Nat /\ FatOffset(c) \in 0 .. SectorBytes - 1
  BY <1>1, DivMod DEF FatSector, FatOffset
<1>3. FatSector(c) * SectorBytes = SectorBytes * FatSector(c)
  BY <1>1, <1>2
<1>4. FatSector(c) * SectorBytes + FatOffset(c) = c * 4
  BY <1>2, <1>3
<1>5. (c * 4) \div 4 = c
  OBVIOUS
<1> QED BY <1>4, <1>5 DEF Successor, FatEntry

(* What the assumption says of an entry, and how its clusters are counted. *)
LEMMA EntryFacts ==
  ASSUME DiskOK, i \in 1 .. Len(disk.dir)
  PROVE  /\ Entry.size \in Nat /\ ClusterBytes \in Nat \ {0} /\ Clusters \in Nat
         /\ Place(0) = 0
         /\ \A k \in Nat : /\ Place(k) \in Nat
                           /\ Place(k + 1) = Place(k) + ClusterBytes
                           /\ Place(k) < Entry.size <=> k < Clusters
         /\ \A k, n \in Nat : k < n => Place(k) < Place(n)
<1>1. /\ disk.dir \in Seq([name : {"used", "deleted"}, attr : Attr,
                    cluster : 0 .. disk.last, size : 0 .. Wrap - 1])
      /\ disk.spc \in Nat \ {0}
  BY DiskAssumption DEF DiskOK
<1>2. SectorBytes \in Nat \ {0} /\ Wrap \in Nat \ {0}
  BY SizesAssumption
<1>3. Entry.size \in Nat
  <2>1. Entry \in [name : {"used", "deleted"}, attr : Attr,
                   cluster : 0 .. disk.last, size : 0 .. Wrap - 1]
    BY <1>1, ElementType DEF Entry
  <2> QED BY <1>2, <2>1
<1>4. ClusterBytes \in Nat \ {0}
  BY <1>1, <1>2 DEF ClusterBytes
<1>5. /\ Clusters \in Nat
      /\ \A k \in Nat : k * ClusterBytes < Entry.size <=> k < Clusters
  BY <1>3, <1>4, CeilDiv DEF Clusters
<1>6. ASSUME NEW k \in Nat
      PROVE  k * ClusterBytes \in Nat
             /\ (k + 1) * ClusterBytes = k * ClusterBytes + ClusterBytes
  BY <1>4
<1>7. ASSUME NEW k \in Nat, NEW n \in Nat, k < n
      PROVE  k * ClusterBytes < n * ClusterBytes
  <2>1. (k + 1) * ClusterBytes <= n * ClusterBytes
    BY <1>4, <1>7, MulMonotone
  <2> QED BY <1>4, <1>6, <2>1
<1>8. 0 * ClusterBytes = 0
  BY <1>4
<1> QED BY <1>3, <1>4, <1>5, <1>6, <1>7, <1>8 DEF Place

LEMMA AllRead ==
  ASSUME DiskOK, i \in 1 .. Len(disk.dir),
         NEW n \in 0 .. Clusters, ~(Place(n) < Entry.size)
  PROVE  n = Clusters
<1>1. Clusters \in Nat
  BY EntryFacts
<1>2. n \in Nat /\ n <= Clusters
  BY <1>1
<1>3. ~(n < Clusters)
  BY <1>2, EntryFacts
<1> QED BY <1>1, <1>2, <1>3

(* The definitions that only read these variables do not change without    *)
(* them.                                                                   *)
LEMMA SameFile ==
  ASSUME disk' = disk, i' = i, image' = image
  PROVE  /\ Entry' = Entry /\ ClusterBytes' = ClusterBytes /\ Clusters' = Clusters
         /\ FileEntries' = FileEntries
         /\ \A k : Place(k)' = Place(k) /\ InChain(k)' = InChain(k)
         /\ \A n : Holds(n)' <=> Holds(n)
BY DEF Entry, ClusterBytes, Clusters, Place, InChain, Holds, FileEntries

LEMMA SameSkips ==
  ASSUME disk' = disk, i' = i, cmd' \in {"autopsy", "run", "idle"}, cmd # "ls", ~Skips(Entry)
  PROVE  ~Skips(Entry)'
BY DEF Skips, Entry

(* A step that leaves the buffer alone and refuses no less.                *)
LEMMA OutcomeKept ==
  ASSUME ImageIsTheFile, LaunchedKind,
         disk' = disk, i' = i, image' = image, refused' = refused, outcome' = outcome
  PROVE  ImageIsTheFile' /\ LaunchedKind'
<1>1. Undisturbed' <=> Undisturbed
  BY SameFile DEF Undisturbed
<1>2. /\ Clusters' = Clusters /\ Entry' = Entry
      /\ \A n : InChain(n)' = InChain(n) /\ (Holds(n)' <=> Holds(n))
  BY SameFile
<1>3. ImageIsTheFile'
  BY <1>1, <1>2 DEF ImageIsTheFile
<1>4. LaunchedKind'
  BY <1>1, <1>2 DEF LaunchedKind
<1> QED BY <1>3, <1>4

LEMMA NotLaunched ==
  ASSUME outcome' \notin {"ran", "not executable"}
  PROVE  ImageIsTheFile' /\ LaunchedKind'
BY DEF ImageIsTheFile, LaunchedKind

(* A step that is none of run's loop.                                      *)
LEMMA NotInRun ==
  ASSUME ~Reading("run")'
  PROVE  PlacesInFile' /\ BufferHoldsChain'
BY DEF PlacesInFile, BufferHoldsChain, Reading

-----------------------------------------------------------------------------
LEMMA InitEstablishes == Init => Fat32Inv
<1> SUFFICES ASSUME Init PROVE Fat32Inv
  OBVIOUS
<1>1. /\ disk \in Disks /\ cmd = "boot" /\ outcome = "none" /\ at = "malloc"
      /\ i = 1 /\ opened = FALSE /\ held = {}
  BY DEF Init
<1>2. ControlOK /\ HeldByCommand /\ OpenedOK /\ CommandGoesOn
  BY <1>1 DEF ControlOK, HeldByCommand, OpenedOK, CommandGoesOn, Command
<1>3. DiskOK
  BY <1>1 DEF DiskOK
<1>4. NoFileSkipped /\ PlacesInFile /\ BufferHoldsChain /\ ImageIsTheFile /\ LaunchedKind
  BY <1>1 DEF NoFileSkipped, PlacesInFile, BufferHoldsChain, ImageIsTheFile, LaunchedKind, Reading
<1> QED BY <1>2, <1>3, <1>4 DEF Fat32Inv

(* The steps of InitFAT32.                                                 *)
LEMMA BootPreserves ==
  ASSUME Fat32Inv, InitFAT32 \/ ReadBootSector
  PROVE  Fat32Inv'
<1>1. /\ cmd = "boot" /\ cmd' \in {"boot", "idle"} /\ at' \in {"malloc", "read"}
      /\ disk' = disk /\ outcome' = outcome /\ i' = i /\ opened' = opened /\ image' = image
      /\ ~opened /\ outcome = "none"
  BY DEF InitFAT32, ReadBootSector, volume, file, Fat32Inv, ControlOK, CommandGoesOn
<1>2. ControlOK' /\ OpenedOK' /\ CommandGoesOn'
  BY <1>1 DEF ControlOK, OpenedOK, CommandGoesOn, Command
<1>3. HeldByCommand'
  <2>1. CASE InitFAT32
    <3>1. held = {}
      BY <2>1 DEF InitFAT32, Fat32Inv, HeldByCommand, Out
    <3>2. /\ held' = {"boot_sector_buffer"} \/ held' = {}
          /\ cmd' = IF "boot_sector_buffer" \in held' THEN "boot" ELSE "idle"
          /\ at' = "read"
      BY <2>1, <3>1 DEF InitFAT32, Malloc
    <3> QED BY <3>2 DEF HeldByCommand, Out
  <2>2. CASE ReadBootSector
    <3>1. held \subseteq {"boot_sector_buffer"} /\ cmd' = "idle"
          /\ held' = held \ {"boot_sector_buffer"}
      BY <2>2 DEF ReadBootSector, Fat32Inv, HeldByCommand, Out, Free
    <3> QED BY <3>1 DEF HeldByCommand
  <2> QED BY <2>1, <2>2
<1>4. DiskOK'
  BY <1>1 DEF Fat32Inv, DiskOK
<1>5. NoFileSkipped'
  BY <1>1 DEF NoFileSkipped
<1>6. PlacesInFile' /\ BufferHoldsChain'
  BY <1>1, NotInRun DEF Reading
<1>7. ImageIsTheFile' /\ LaunchedKind'
  BY <1>1, NotLaunched
<1> QED BY <1>2, <1>3, <1>4, <1>5, <1>6, <1>7 DEF Fat32Inv

LEMMA TakeDirBufferPreserves ==
  ASSUME Fat32Inv, NEW c \in {"ls", "autopsy", "run"}, TakeDirBuffer(c)
  PROVE  Fat32Inv'
<1>1. /\ cmd = "idle" /\ disk' = disk /\ i' = 1 /\ opened' = FALSE /\ outcome' = "none"
      /\ \/ cmd' = cmd /\ held' = held
         \/ cmd' = c /\ at' = "root" /\ held' = held \cup {"dir_buffer"}
  BY DEF TakeDirBuffer, volume
<1>2. DOMAIN image' = {}
  <2>1. image' = << >>
    BY DEF TakeDirBuffer
  <2>2. DOMAIN << >> = {}
    OBVIOUS
  <2> QED BY <2>1, <2>2
<1>3. HeldByCommand'
  <2>1. held = {}
    BY <1>1 DEF Fat32Inv, HeldByCommand, Out
  <2> QED BY <1>1, <2>1 DEF HeldByCommand, Out
<1>4. DiskOK'
  <2>1. disk' \in Disks
    BY <1>1 DEF Fat32Inv, DiskOK
  <2>2. i' = 1
    BY <1>1
  <2>3. i' \in Nat \ {0}
    BY <2>2
  <2> QED BY <2>1, <2>3 DEF DiskOK
<1>5. ControlOK' /\ OpenedOK' /\ CommandGoesOn'
  BY <1>1, <1>2 DEF ControlOK, OpenedOK, CommandGoesOn, Command
<1>6. NoFileSkipped'
  <2>1. ASSUME NEW n \in FileEntries' PROVE i' <= n
    <3>1. n \in Nat /\ 1 <= n
      BY DEF FileEntries
    <3> QED BY <1>1, <3>1
  <2> QED BY <1>1, <2>1 DEF NoFileSkipped
<1>7. PlacesInFile' /\ BufferHoldsChain'
  BY <1>1, NotInRun DEF Reading
<1>8. ImageIsTheFile' /\ LaunchedKind'
  BY <1>1, NotLaunched
<1> QED BY <1>3, <1>4, <1>5, <1>6, <1>7, <1>8 DEF Fat32Inv

LEMMA ReadRootPreserves ==
  ASSUME Fat32Inv, ReadRoot
  PROVE  Fat32Inv'
<1>1. /\ Command /\ ~opened /\ at = "root" /\ at' = "entry"
      /\ cmd' = cmd /\ disk' = disk /\ outcome' = outcome /\ i' = i /\ opened' = opened
      /\ image' = image /\ held' = held
  BY DEF ReadRoot, volume, control, file, heap, Fat32Inv, ControlOK, Command, InFile
<1>2. outcome' = "none"
  BY <1>1 DEF Fat32Inv, CommandGoesOn, Command
<1>3. ControlOK' /\ HeldByCommand' /\ DiskOK' /\ OpenedOK' /\ CommandGoesOn'
  BY <1>1 DEF Fat32Inv, ControlOK, HeldByCommand, Out, DiskOK, OpenedOK, CommandGoesOn, Command,
              Reading
<1>4. NoFileSkipped'
  BY <1>1, <1>2, SameFile DEF Fat32Inv, NoFileSkipped
<1>5. PlacesInFile' /\ BufferHoldsChain'
  BY <1>1, NotInRun DEF Reading
<1>6. ImageIsTheFile' /\ LaunchedKind'
  BY <1>2, NotLaunched
<1> QED BY <1>3, <1>4, <1>5, <1>6 DEF Fat32Inv

(* A command returns: everything it may hold has been given back.          *)
LEMMA ReturnPreserves ==
  ASSUME Fat32Inv, Command, NEW how, NEW frees, Out \subseteq frees, Return(how, frees),
         how = "not found" /\ RootCluster \notin disk.bad => FileEntries = {},
         ImageIsTheFile' /\ LaunchedKind'
  PROVE  Fat32Inv'
<1>1. /\ cmd' = "idle" /\ outcome' = how /\ held' = held \ frees
      /\ disk' = disk /\ i' = i /\ opened' = opened /\ image' = image
      /\ current_cluster' = current_cluster
  BY DEF Return, Free, volume, file
<1>2. HeldByCommand'
  BY <1>1 DEF Fat32Inv, HeldByCommand
<1>3. ControlOK' /\ DiskOK' /\ OpenedOK' /\ CommandGoesOn'
  BY <1>1 DEF Fat32Inv, ControlOK, DiskOK, OpenedOK, CommandGoesOn, Command
<1>4. NoFileSkipped'
  <2>1. opened => cmd # "ls" /\ ~Skips(Entry)
    BY DEF Fat32Inv, ControlOK, NoFileSkipped
  <2>2. opened' => ~Skips(Entry)'
    BY <1>1, <2>1, SameSkips
  <2> QED BY <1>1, <2>2, SameFile DEF Fat32Inv, NoFileSkipped
<1>5. PlacesInFile' /\ BufferHoldsChain'
  BY <1>1, NotInRun DEF Reading
<1> QED BY <1>2, <1>3, <1>4, <1>5 DEF Fat32Inv

LEMMA RootUnreadablePreserves ==
  ASSUME Fat32Inv, RootUnreadable
  PROVE  Fat32Inv'
<1>1. /\ Command /\ ~opened /\ at = "root" /\ RootCluster \in disk.bad
      /\ Return("not found", {"dir_buffer"})
  BY DEF RootUnreadable, Fat32Inv, ControlOK, Command, InFile
<1>2. Out \subseteq {"dir_buffer"}
  BY <1>1 DEF Out, Command, Reading
<1>3. ImageIsTheFile' /\ LaunchedKind'
  BY <1>1, NotLaunched DEF Return
<1> QED BY <1>1, <1>2, <1>3, ReturnPreserves

(* An entry a command other than ls skips is no file.                      *)
LEMMA SkippedIsNoFile ==
  ASSUME cmd # "ls", Skips(Entry)
  PROVE  i \notin FileEntries
<1>1. "volume" \in Lfn
  BY DEF Lfn
<1> QED BY <1>1 DEF Skips, IsFile, FileEntries, Entry

LEMMA NextEntryPreserves ==
  ASSUME Fat32Inv, NextEntry
  PROVE  Fat32Inv'
<1>1. /\ Command /\ at = "entry" /\ ~(i > Len(disk.dir))
      /\ cmd = "ls" \/ Skips(Entry)
      /\ i' = i + 1
      /\ cmd' = cmd /\ disk' = disk /\ outcome' = outcome /\ opened' = opened
      /\ image' = image /\ held' = held /\ at' = at
  BY DEF NextEntry, Scanning, AtEnd, volume, file, heap, Command
<1>2. ~opened
  BY <1>1 DEF Fat32Inv, ControlOK, InFile
<1>3. DiskOK'
  <2>1. i \in Nat \ {0} /\ disk' \in Disks
    BY <1>1 DEF Fat32Inv, DiskOK
  <2>2. i' \in Nat \ {0}
    BY <1>1, <2>1
  <2> QED BY <2>1, <2>2 DEF DiskOK
<1>4. ControlOK' /\ HeldByCommand' /\ OpenedOK' /\ CommandGoesOn'
  BY <1>1, <1>2 DEF Fat32Inv, ControlOK, HeldByCommand, Out, OpenedOK, CommandGoesOn, Command,
                    Reading
<1>5. outcome' = "none"
  BY <1>1 DEF Fat32Inv, CommandGoesOn, Command
<1>6. NoFileSkipped'
  <2> SUFFICES ASSUME cmd \in {"autopsy", "run"}
               PROVE  \A n \in FileEntries : i' <= n
    <3>1. FileEntries' = FileEntries
      BY <1>1 DEF FileEntries
    <3> QED BY <1>1, <1>2, <1>5, <3>1 DEF NoFileSkipped
  <2>1. \A n \in FileEntries : i <= n
    BY DEF Fat32Inv, NoFileSkipped
  <2>2. i \notin FileEntries
    BY <1>1, SkippedIsNoFile
  <2>3. ASSUME NEW n \in FileEntries PROVE i' <= n
    <3>1. n \in Nat /\ i <= n /\ i # n /\ i \in Nat
      BY <2>1, <2>2, <2>3 DEF FileEntries, Fat32Inv, DiskOK
    <3> QED BY <1>1, <3>1
  <2> QED BY <2>3
<1>7. PlacesInFile' /\ BufferHoldsChain'
  BY <1>1, <1>2, NotInRun DEF Reading
<1>8. ImageIsTheFile' /\ LaunchedKind'
  BY <1>5, NotLaunched
<1> QED BY <1>3, <1>4, <1>6, <1>7, <1>8 DEF Fat32Inv

LEMMA EndOfDirectoryPreserves ==
  ASSUME Fat32Inv, EndOfDirectory
  PROVE  Fat32Inv'
<1>1. /\ Command /\ at = "entry" /\ i > Len(disk.dir)
      /\ Return(IF cmd = "ls" THEN "listed" ELSE "not found", {"dir_buffer"})
  BY DEF EndOfDirectory, Scanning, AtEnd, Command
<1>2. ~opened
  BY <1>1 DEF Fat32Inv, ControlOK, InFile
<1>3. Out \subseteq {"dir_buffer"}
  BY <1>1, <1>2 DEF Out, Command, Reading
<1>4. ASSUME cmd # "ls" PROVE FileEntries = {}
  <2>1. \A n \in FileEntries : i <= n
    BY <1>1, <1>4 DEF Fat32Inv, NoFileSkipped, Command
  <2>2. i \in Nat /\ Len(disk.dir) \in Nat
    BY DiskTypes DEF Fat32Inv, DiskOK
  <2>3. ASSUME NEW n \in FileEntries PROVE FALSE
    <3>1. n \in Nat /\ n <= Len(disk.dir) /\ i <= n
      BY <2>1, <2>2, <2>3 DEF FileEntries
    <3>2. i > Len(disk.dir)
      BY <1>1
    <3> QED BY <2>2, <3>1, <3>2
  <2> QED BY <2>3
<1>5. ImageIsTheFile' /\ LaunchedKind'
  <2>1. outcome' \notin {"ran", "not executable"}
    BY <1>1 DEF Return
  <2> QED BY <2>1, NotLaunched
<1>6. CASE cmd = "ls"
  <2>1. Return("listed", {"dir_buffer"})
    BY <1>1, <1>6
  <2> QED BY <1>1, <1>3, <1>5, <2>1, ReturnPreserves
<1>7. CASE cmd # "ls"
  <2>1. Return("not found", {"dir_buffer"})
    BY <1>1, <1>7
  <2> QED BY <1>1, <1>3, <1>4, <1>5, <1>7, <2>1, ReturnPreserves
<1> QED BY <1>6, <1>7

LEMMA OpenEntryPreserves ==
  ASSUME Fat32Inv, OpenEntry
  PROVE  Fat32Inv'
<1>1. /\ cmd \in {"autopsy", "run"} /\ at = "entry" /\ ~(i > Len(disk.dir)) /\ ~Skips(Entry)
      /\ opened' = TRUE /\ at' = "cluster"
      /\ current_cluster' = Entry.cluster /\ bytes_read' = 0
      /\ held' = held \/ (cmd = "run" /\ held' = held \cup {"exec_buffer"})
      /\ cmd' = cmd /\ disk' = disk /\ i' = i /\ outcome' = outcome /\ image' = image
  BY DEF OpenEntry, Scanning, AtEnd, volume, Malloc
<1>2. ~opened
  BY <1>1 DEF Fat32Inv, ControlOK, InFile, Command
<1>3. outcome' = "none" /\ DOMAIN image' = {}
  BY <1>1, <1>2 DEF Fat32Inv, CommandGoesOn, Command
<1>4. DiskOK /\ i \in 1 .. Len(disk.dir)
  <2>1. DiskOK
    BY DEF Fat32Inv
  <2>2. i \in Nat \ {0} /\ Len(disk.dir) \in Nat
    BY <2>1, DiskTypes DEF DiskOK
  <2> QED BY <1>1, <2>1, <2>2
<1>5. DiskOK' /\ OpenedOK'
  <2>1. Entry.cluster \in 0 .. disk.last
    BY <1>4, EntryCluster
  <2> QED BY <1>1, <1>4, <2>1 DEF DiskOK, OpenedOK
<1>6. ControlOK' /\ CommandGoesOn'
  BY <1>1, <1>3 DEF ControlOK, CommandGoesOn, Command, InFile
<1>7. HeldByCommand'
  <2>1. held \subseteq {"dir_buffer"}
    BY <1>1, <1>2 DEF Fat32Inv, HeldByCommand, Out, Reading
  <2> QED BY <1>1, <2>1 DEF HeldByCommand, Out, Reading
<1>8. NoFileSkipped'
  <2>1. \A n \in FileEntries : i <= n
    BY <1>1 DEF Fat32Inv, NoFileSkipped
  <2>2. ~Skips(Entry)'
    BY <1>1, SameSkips
  <2> QED BY <1>1, <1>3, <2>1, <2>2, SameFile DEF NoFileSkipped
<1>9. 0 \in 0 .. Clusters' /\ bytes_read' = Place(0)'
  <2>1. 0 \in 0 .. Clusters /\ Place(0) = 0
    BY <1>4, EntryFacts
  <2> QED BY <1>1, <2>1, SameFile
<1>10. Holds(0)' /\ current_cluster' = InChain(0)'
  <2>1. 0 .. 0 - 1 = {}
    OBVIOUS
  <2>2. Holds(0)'
    BY <1>3, <2>1 DEF Holds
  <2>3. Entry' = Entry
    BY <1>1, SameFile
  <2> QED BY <1>1, <2>2, <2>3 DEF InChain
<1>11. BufferHoldsChain' /\ PlacesInFile'
  BY <1>1, <1>3, <1>9, <1>10 DEF BufferHoldsChain, PlacesInFile
<1>12. ImageIsTheFile' /\ LaunchedKind'
  BY <1>3, NotLaunched
<1> QED BY <1>5, <1>6, <1>7, <1>8, <1>11, <1>12 DEF Fat32Inv

-----------------------------------------------------------------------------
(* A step inside the loop over clusters: what was opened stays as it is.   *)
LEMMA LoopStep ==
  ASSUME Fat32Inv, opened, cmd \in {"autopsy", "run"}, at' \in InFile,
         cmd = "run" => at' # "show",
         UNCHANGED volume, UNCHANGED control
  PROVE  ControlOK' /\ DiskOK' /\ CommandGoesOn' /\ NoFileSkipped'
         /\ ImageIsTheFile' /\ LaunchedKind'
<1>1. disk' = disk /\ cmd' = cmd /\ outcome' = outcome /\ i' = i /\ opened' = opened
  BY DEF volume, control
<1>2. outcome' = "none"
  BY <1>1 DEF Fat32Inv, CommandGoesOn
<1>3. ControlOK' /\ DiskOK' /\ CommandGoesOn'
  BY <1>1, <1>2 DEF Fat32Inv, ControlOK, DiskOK, CommandGoesOn, Command
<1>4. NoFileSkipped'
  <2>1. FileEntries' = FileEntries /\ (Skips(Entry)' <=> Skips(Entry))
    BY <1>1 DEF FileEntries, Skips, Entry
  <2> QED BY <1>1, <1>2, <2>1 DEF Fat32Inv, NoFileSkipped
<1>5. ImageIsTheFile' /\ LaunchedKind'
  BY <1>2, NotLaunched
<1> QED BY <1>3, <1>4, <1>5

(* The two steps of autopsy: its buffer goes and comes back.               *)
LEMMA AutopsyPreserves ==
  ASSUME Fat32Inv, TakeClusterBuffer \/ ShowCluster
  PROVE  Fat32Inv'
<1>1. /\ cmd = "autopsy" /\ opened /\ at' \in {"show", "fat"}
      /\ UNCHANGED volume /\ UNCHANGED control /\ current_cluster' = current_cluster
      /\ current_cluster # EOC
  BY DEF TakeClusterBuffer, ShowCluster, Reading, More, file, Fat32Inv, OpenedOK, Command
<1>2. disk' = disk /\ cmd' = cmd /\ i' = i /\ opened' = opened
  BY <1>1 DEF volume, control
<1>3. HeldByCommand'
  <2>1. CASE TakeClusterBuffer
    <3>1. held \subseteq {"dir_buffer"} /\ at' = "show"
          /\ (held' = held \/ held' = held \cup {"cluster_buffer"})
      BY <2>1 DEF TakeClusterBuffer, Fat32Inv, HeldByCommand, Out, Reading, Malloc
    <3> QED BY <1>1, <1>2, <3>1 DEF HeldByCommand, Out
  <2>2. CASE ShowCluster
    <3>1. held \subseteq {"dir_buffer", "cluster_buffer"} /\ at' = "fat"
          /\ held' = held \ {"cluster_buffer"}
      BY <2>2 DEF ShowCluster, Fat32Inv, HeldByCommand, Out, Reading, Free
    <3> QED BY <1>1, <1>2, <3>1 DEF HeldByCommand, Out
  <2> QED BY <2>1, <2>2
<1>4. OpenedOK'
  BY <1>1, <1>2 DEF Fat32Inv, OpenedOK
<1>5. PlacesInFile' /\ BufferHoldsChain'
  BY <1>1, <1>2, NotInRun DEF Reading
<1>6. at' \in InFile /\ cmd # "run"
  BY <1>1 DEF InFile
<1> QED BY <1>1, <1>3, <1>4, <1>5, <1>6, LoopStep DEF Fat32Inv

(* As long as nothing wraps around, the byte count goes to the next place. *)
LEMMA CountAdvances ==
  ASSUME DiskOK, i \in 1 .. Len(disk.dir), Entry.size + ClusterBytes < Wrap,
         NEW n \in Nat, bytes_read = Place(n), bytes_read < Entry.size
  PROVE  n < Clusters /\ Advanced = Place(n + 1)
<1>1. /\ Entry.size \in Nat /\ ClusterBytes \in Nat \ {0} /\ Clusters \in Nat
      /\ Place(n) \in Nat /\ Place(n + 1) = Place(n) + ClusterBytes
      /\ n < Clusters
  BY EntryFacts
<1>2. Wrap \in Nat \ {0}
  BY SizesAssumption
<1>3. Place(n + 1) \in Nat /\ Place(n + 1) < Wrap
  BY <1>1, <1>2
<1> QED BY <1>1, <1>2, <1>3, ModSmall DEF Advanced

(* The cluster read goes behind those the buffer holds.                    *)
LEMMA OneMoreCluster ==
  ASSUME DiskOK, i \in 1 .. Len(disk.dir), disk' = disk, i' = i,
         NEW n \in Nat, Holds(n), current_cluster = InChain(n), current_cluster # EOC,
         image' = [o \in DOMAIN image \cup {Place(n)} |->
                     IF o # Place(n) THEN image[o] ELSE current_cluster]
  PROVE  Holds(n + 1)' /\ image'[Place(n)] = current_cluster
<1>1. /\ \A k : Place(k)' = Place(k)
      /\ Entry' = Entry
  BY DEF Place, ClusterBytes, Entry
<1>2. DOMAIN image' = DOMAIN image \cup {Place(n)} /\ image'[Place(n)] = current_cluster
  OBVIOUS
<1>3. ASSUME NEW k \in 0 .. n - 1
      PROVE  Place(k) \in DOMAIN image /\ Place(k) # Place(n)
             /\ image'[Place(k)] = image[Place(k)]
  <2>4. k \in Nat /\ k < n
    BY <1>3
  <2>1. Place(k) \in Nat /\ Place(k) < Place(n)
    BY <2>4, EntryFacts
  <2>2. Place(n) \in Nat
    BY EntryFacts
  <2>3. Place(k) \in DOMAIN image
    BY <1>3 DEF Holds
  <2> QED BY <2>1, <2>2, <2>3
<1>4. ASSUME NEW k \in 0 .. n PROVE InChain(k)' = InChain(k)
  <2>1. CASE k = 0
    BY <1>1, <2>1 DEF InChain
  <2>2. CASE k # 0
    <3>1. k - 1 \in 0 .. n - 1
      BY <1>4, <2>2
    <3>2. image'[Place(k - 1)] = image[Place(k - 1)]
      BY <1>3, <3>1
    <3> QED BY <1>1, <2>2, <3>2 DEF InChain
  <2> QED BY <2>1, <2>2
<1>5. DOMAIN image' = {Place(k) : k \in 0 .. n}
  <2>1. DOMAIN image = {Place(k) : k \in 0 .. n - 1}
    BY DEF Holds
  <2>2. 0 .. n = (0 .. n - 1) \cup {n}
    OBVIOUS
  <2> QED BY <1>2, <2>1, <2>2
<1>6. ASSUME NEW k \in 0 .. n
      PROVE  image'[Place(k)] = InChain(k)' /\ InChain(k)' # EOC
  <2>1. CASE k = n
    BY <1>2, <1>4, <2>1
  <2>2. CASE k # n
    <3>1. k \in 0 .. n - 1
      BY <1>6, <2>2
    <3>2. image[Place(k)] = InChain(k) /\ InChain(k) # EOC
      BY <3>1 DEF Holds
    <3> QED BY <1>3, <1>4, <3>1, <3>2
  <2> QED BY <2>1, <2>2
<1>7. 0 .. (n + 1) - 1 = 0 .. n
  OBVIOUS
<1> QED BY <1>1, <1>2, <1>5, <1>6, <1>7 DEF Holds

LEMMA LoadClusterPreserves ==
  ASSUME Fat32Inv, LoadCluster
  PROVE  Fat32Inv'
<1>1. /\ cmd = "run" /\ opened /\ at = "cluster" /\ at' = "fat"
      /\ current_cluster # EOC /\ bytes_read < Entry.size
      /\ UNCHANGED volume /\ UNCHANGED control
      /\ cmd' = cmd /\ disk' = disk /\ i' = i /\ opened' = opened
      /\ held' = held /\ refused' = refused
      /\ bytes_read' = Advanced /\ current_cluster' = current_cluster
      /\ image' = [o \in DOMAIN image \cup {bytes_read} |->
                    IF o # bytes_read THEN image[o]
                    ELSE IF Readable THEN current_cluster ELSE Garbage]
  BY DEF LoadCluster, Reading, More, volume, control, heap
<1>2. HeldByCommand'
  BY <1>1 DEF Fat32Inv, HeldByCommand, Out, Reading
<1>3. OpenedOK'
  BY <1>1 DEF Fat32Inv, OpenedOK
<1>4. DiskOK /\ i \in 1 .. Len(disk.dir) /\ Clusters \in Nat
      /\ Entry.size \in Nat /\ ClusterBytes \in Nat \ {0}
  BY <1>1, EntryFacts DEF Fat32Inv, OpenedOK
<1>5. /\ Entry' = Entry /\ ClusterBytes' = ClusterBytes /\ Clusters' = Clusters
      /\ \A k : Place(k)' = Place(k)
  BY <1>1 DEF Entry, ClusterBytes, Clusters, Place
<1>6. PlacesInFile'
  <2>1. bytes_read \in Nat /\ \A o \in DOMAIN image : o \in Nat /\ o < Entry.size
    BY <1>1 DEF Fat32Inv, PlacesInFile, Reading
  <2>2. DOMAIN image' = DOMAIN image \cup {bytes_read}
    BY <1>1
  <2>3. bytes_read' \in Nat
    <3>1. Wrap \in Nat \ {0} /\ bytes_read + ClusterBytes \in Nat
      BY <1>4, <2>1, SizesAssumption
    <3>2. (bytes_read + ClusterBytes) % Wrap \in 0 .. Wrap - 1
      BY <3>1, DivMod
    <3> QED BY <1>1, <3>1, <3>2 DEF Advanced
  <2> QED BY <1>1, <1>5, <2>1, <2>2, <2>3 DEF PlacesInFile
<1>7. BufferHoldsChain'
  <2> SUFFICES ASSUME Undisturbed'
               PROVE  \E n \in 0 .. Clusters : /\ bytes_read' = Place(n) /\ Holds(n)' /\ n # 0
                                               /\ current_cluster = image'[Place(n - 1)]
    BY <1>1, <1>5 DEF BufferHoldsChain
  <2>1. Undisturbed /\ disk.bad = {} /\ Entry.size + ClusterBytes < Wrap
    BY <1>1, <1>5 DEF Undisturbed
  <2>2. PICK n \in 0 .. Clusters :
          bytes_read = Place(n) /\ Holds(n) /\ current_cluster = InChain(n)
    BY <1>1, <2>1 DEF Fat32Inv, BufferHoldsChain, Reading
  <2>3. n \in Nat
    BY <1>4, <2>2
  <2>4. n < Clusters /\ bytes_read' = Place(n + 1)
    BY <1>1, <1>4, <2>1, <2>2, <2>3, CountAdvances
  <2>5. n + 1 \in 0 .. Clusters /\ n + 1 # 0 /\ (n + 1) - 1 = n
    BY <1>4, <2>3, <2>4
  <2>6. image' = [o \in DOMAIN image \cup {Place(n)} |->
                    IF o # Place(n) THEN image[o] ELSE current_cluster]
    BY <1>1, <2>1, <2>2 DEF Readable
  <2>7. Holds(n + 1)' /\ image'[Place(n)] = current_cluster
    BY <1>1, <1>4, <2>2, <2>3, <2>6, OneMoreCluster
  <2> QED BY <2>4, <2>5, <2>7
<1>8. at' \in InFile /\ at' # "show"
  BY <1>1 DEF InFile
<1> QED BY <1>1, <1>2, <1>3, <1>6, <1>7, <1>8, LoopStep DEF Fat32Inv

(* GetNextCluster takes its buffer.                                        *)
LEMMA GetNextClusterPreserves ==
  ASSUME Fat32Inv, GetNextCluster
  PROVE  Fat32Inv'
<1>1. /\ opened /\ cmd \in {"autopsy", "run"} /\ at = "fat" /\ at' = "fat sector"
      /\ UNCHANGED volume /\ UNCHANGED control
      /\ cmd' = cmd /\ disk' = disk /\ i' = i /\ opened' = opened /\ image' = image
      /\ bytes_read' = bytes_read /\ current_cluster' = current_cluster
      /\ \/ held' = held \cup {"fat_buffer"} /\ refused' = refused
         \/ held' = held /\ refused' = TRUE
  BY DEF GetNextCluster, volume, control, file, Malloc, Fat32Inv, ControlOK
<1>2. HeldByCommand'
  <2>1. held \subseteq {"dir_buffer"} \cup (IF Reading("run") THEN {"exec_buffer"} ELSE {})
    BY <1>1 DEF Fat32Inv, HeldByCommand, Out
  <2> QED BY <1>1, <2>1 DEF HeldByCommand, Out, Reading
<1>3. OpenedOK'
  BY <1>1 DEF Fat32Inv, OpenedOK, Command
<1>4. PlacesInFile'
  BY <1>1, SameFile DEF Fat32Inv, PlacesInFile, Reading
<1>5. BufferHoldsChain'
  <2> SUFFICES ASSUME cmd = "run", Undisturbed' PROVE BufferHoldsChain'
    BY <1>1 DEF BufferHoldsChain, Reading
  <2>1. Undisturbed
    <3>1. Entry' = Entry /\ ClusterBytes' = ClusterBytes
      BY <1>1, SameFile
    <3>2. ~refused' /\ disk.fatBad = {} /\ disk.bad = {} /\ Entry.size + ClusterBytes < Wrap
      BY <1>1, <3>1 DEF Undisturbed
    <3>3. ~refused
      BY <1>1, <3>2
    <3> QED BY <3>2, <3>3 DEF Undisturbed
  <2>2. PICK n \in 0 .. Clusters :
          bytes_read = Place(n) /\ Holds(n) /\ n # 0 /\ current_cluster = image[Place(n - 1)]
    BY <1>1, <2>1 DEF Fat32Inv, BufferHoldsChain, Reading
  <2> QED BY <1>1, <2>2, SameFile DEF BufferHoldsChain
<1>6. at' \in InFile /\ at' # "show"
  BY <1>1 DEF InFile
<1> QED BY <1>1, <1>2, <1>3, <1>4, <1>5, <1>6, LoopStep DEF Fat32Inv

(* GetNextCluster returns, on either path without its buffer.              *)
LEMMA ChainPreserves ==
  ASSUME Fat32Inv, BufferTaken, ChainEnds \/ ChainGoesOn
  PROVE  Fat32Inv'
<1>1. /\ opened /\ cmd \in {"autopsy", "run"} /\ at = "fat sector" /\ at' = "cluster"
      /\ UNCHANGED volume /\ UNCHANGED control
      /\ cmd' = cmd /\ disk' = disk /\ i' = i /\ opened' = opened /\ image' = image
      /\ bytes_read' = bytes_read
      /\ held' = held \ {"fat_buffer"} /\ refused' = refused
      /\ \/ current_cluster' = EOC /\ FatUnread
         \/ current_cluster' = Successor(current_cluster)
  BY DEF ChainEnds, ChainGoesOn, volume, control, Free, Fat32Inv, ControlOK
<1>2. DiskOK /\ i \in 1 .. Len(disk.dir) /\ current_cluster \in 0 .. disk.last
  BY <1>1 DEF Fat32Inv, OpenedOK, Command
<1>3. /\ disk.last \in Nat /\ disk.fat \in [0 .. disk.last -> 0 .. disk.last \cup {EOC}]
      /\ current_cluster \in Nat
  BY <1>2, DiskTypes DEF DiskOK
<1>4. Successor(current_cluster) = disk.fat[current_cluster]
  BY <1>3, FatArithmetic
<1>5. HeldByCommand'
  <2>1. held \subseteq {"dir_buffer", "fat_buffer"}
                     \cup (IF Reading("run") THEN {"exec_buffer"} ELSE {})
    BY <1>1 DEF Fat32Inv, HeldByCommand, Out
  <2> QED BY <1>1, <2>1 DEF HeldByCommand, Out, Reading
<1>6. OpenedOK'
  <2>1. current_cluster' \in 0 .. disk.last \cup {EOC}
    BY <1>1, <1>2, <1>3, <1>4
  <2> QED BY <1>1, <1>2, <2>1 DEF OpenedOK
<1>7. PlacesInFile'
  BY <1>1, SameFile DEF Fat32Inv, PlacesInFile, Reading
<1>8. BufferHoldsChain'
  <2> SUFFICES ASSUME cmd = "run", Undisturbed' PROVE BufferHoldsChain'
    BY <1>1 DEF BufferHoldsChain, Reading
  <2>1. Undisturbed /\ ~refused /\ disk.fatBad = {}
    BY <1>1, SameFile DEF Undisturbed
  <2>2. PICK n \in 0 .. Clusters :
          bytes_read = Place(n) /\ Holds(n) /\ n # 0 /\ current_cluster = image[Place(n - 1)]
    BY <1>1, <2>1 DEF Fat32Inv, BufferHoldsChain, Reading
  <2>3. current_cluster' = disk.fat[current_cluster]
    <3>1. "fat_buffer" \in held
      BY <1>1, <2>1 DEF BufferTaken, Command
    <3> QED BY <1>1, <1>4, <2>1, <3>1 DEF FatUnread
  <2>4. InChain(n) = disk.fat[image[Place(n - 1)]]
    BY <2>2 DEF InChain
  <2> QED BY <1>1, <2>2, <2>3, <2>4, SameFile DEF BufferHoldsChain
<1>9. at' \in InFile /\ at' # "show"
  BY <1>1 DEF InFile
<1> QED BY <1>1, <1>5, <1>6, <1>7, <1>8, <1>9, LoopStep DEF Fat32Inv

LEMMA EndOfAutopsyPreserves ==
  ASSUME Fat32Inv, EndOfAutopsy
  PROVE  Fat32Inv'
<1>1. cmd = "autopsy" /\ at = "cluster" /\ Return("shown", {"dir_buffer"})
  BY DEF EndOfAutopsy, Reading
<1>2. ImageIsTheFile' /\ LaunchedKind'
  <2>1. outcome' \notin {"ran", "not executable"}
    BY <1>1 DEF Return
  <2> QED BY <2>1, NotLaunched
<1>3. Command /\ Out \subseteq {"dir_buffer"}
  BY <1>1 DEF Command, Out, Reading
<1> QED BY <1>1, <1>2, <1>3, ReturnPreserves

(* The loop over the clusters has ended: with all clusters or at the end   *)
(* of the chain.                                                           *)
LEMMA LaunchPreserves ==
  ASSUME Fat32Inv, Launch
  PROVE  Fat32Inv'
<1>1. /\ cmd = "run" /\ opened /\ at = "cluster" /\ ~More
      /\ refused' = refused \/ refused' = TRUE
  BY DEF Launch, Reading
<1>2. PICK kind \in Signatures :
        Return(IF kind = "other" THEN "not executable" ELSE "ran", {"dir_buffer", "exec_buffer"})
  BY DEF Launch
<1> DEFINE how == IF kind = "other" THEN "not executable" ELSE "ran"
<1>3. disk' = disk /\ i' = i /\ image' = image /\ outcome' = how
  BY <1>2 DEF Return, volume, file
<1>4. DiskOK /\ i \in 1 .. Len(disk.dir)
  BY <1>1 DEF Fat32Inv, OpenedOK
<1>5. ASSUME Undisturbed'
      PROVE  \E n \in 0 .. Clusters : Holds(n) /\ (n = Clusters \/ InChain(n) = EOC)
  <2>1. Undisturbed
    <3>1. Entry' = Entry /\ ClusterBytes' = ClusterBytes
      BY <1>3, SameFile
    <3>2. ~refused' /\ disk.fatBad = {} /\ disk.bad = {} /\ Entry.size + ClusterBytes < Wrap
      BY <1>3, <1>5, <3>1 DEF Undisturbed
    <3>3. ~refused
      BY <1>1, <3>2
    <3> QED BY <3>2, <3>3 DEF Undisturbed
  <2>2. PICK n \in 0 .. Clusters :
          bytes_read = Place(n) /\ Holds(n) /\ current_cluster = InChain(n)
    BY <1>1, <2>1 DEF Fat32Inv, BufferHoldsChain, Reading
  <2>3. n = Clusters \/ InChain(n) = EOC
    <3>1. CASE current_cluster = EOC
      BY <2>2, <3>1
    <3>2. CASE ~(bytes_read < Entry.size)
      BY <1>4, <2>2, <3>2, AllRead
    <3> QED BY <1>1, <3>1, <3>2 DEF More
  <2> QED BY <2>2, <2>3
<1>6. ImageIsTheFile'
  BY <1>3, <1>5, SameFile DEF ImageIsTheFile
<1>7. LaunchedKind'
  <2> SUFFICES ASSUME Undisturbed', Entry.size > 0
               PROVE  how = "ran" <=> disk.begins[Entry.cluster] # "other"
    <3>1. Entry' = Entry
      BY <1>3, SameFile
    <3> QED BY <1>3, <3>1 DEF LaunchedKind
  <2>1. PICK n \in 0 .. Clusters : Holds(n) /\ (n = Clusters \/ InChain(n) = EOC)
    BY <1>5
  <2>2. /\ Clusters \in Nat /\ Place(0) = 0 /\ 0 < Clusters
    <3>1. Place(0) = 0 /\ (Place(0) < Entry.size <=> 0 < Clusters) /\ Clusters \in Nat
      BY <1>4, EntryFacts
    <3> QED BY <3>1
  <2>3. InChain(0) = Entry.cluster /\ Entry.cluster \in 0 .. disk.last /\ disk.last \in Nat
    BY <1>4, EntryCluster, DiskTypes DEF InChain, DiskOK
  <2>4. Entry.cluster # EOC /\ Entry.cluster # Garbage
    BY <2>3 DEF EOC, Garbage
  <2>5. n # 0
    BY <2>1, <2>2, <2>3, <2>4
  <2>6. 0 \in 0 .. n - 1
    BY <2>1, <2>2, <2>5
  <2>7. 0 \in DOMAIN image /\ image[0] = Entry.cluster
    BY <2>1, <2>2, <2>3, <2>6 DEF Holds
  <2>8. kind = disk.begins[Entry.cluster]
    BY <1>2, <2>4, <2>7 DEF Signatures
  <2> QED BY <2>8
<1>8. Command /\ Out \subseteq {"dir_buffer", "exec_buffer"}
  BY <1>1 DEF Command, Out
<1>9. Return(how, {"dir_buffer", "exec_buffer"}) /\ how # "not found"
  BY <1>2
<1> HIDE DEF how
<1> QED BY <1>6, <1>7, <1>8, <1>9, ReturnPreserves

-----------------------------------------------------------------------------
LEMMA StutterPreserves ==
  ASSUME Fat32Inv, UNCHANGED vars
  PROVE  Fat32Inv'
<1>1. /\ disk' = disk /\ cmd' = cmd /\ outcome' = outcome /\ i' = i /\ opened' = opened
      /\ current_cluster' = current_cluster /\ bytes_read' = bytes_read /\ image' = image
      /\ held' = held /\ refused' = refused /\ at' = at
  BY DEF vars, volume, control, file, heap
<1>2. ControlOK' /\ HeldByCommand' /\ DiskOK' /\ OpenedOK' /\ CommandGoesOn'
  BY <1>1 DEF Fat32Inv, ControlOK, HeldByCommand, Out, DiskOK, OpenedOK, CommandGoesOn, Command,
              Reading
<1>3. NoFileSkipped'
  <2>1. FileEntries' = FileEntries /\ (Skips(Entry)' <=> Skips(Entry))
    BY <1>1 DEF FileEntries, Skips, Entry
  <2> QED BY <1>1, <2>1 DEF Fat32Inv, NoFileSkipped
<1>4. ImageIsTheFile' /\ LaunchedKind'
  BY <1>1, OutcomeKept DEF Fat32Inv
<1>5. Clusters' = Clusters /\ (Undisturbed' <=> Undisturbed)
  BY <1>1, SameFile DEF Undisturbed
<1>6. PlacesInFile'
  BY <1>1, SameFile DEF Fat32Inv, PlacesInFile, Reading
<1>7. BufferHoldsChain'
  BY <1>1, <1>5, SameFile DEF Fat32Inv, BufferHoldsChain, Reading
<1> QED BY <1>2, <1>3, <1>4, <1>6, <1>7 DEF Fat32Inv

LEMMA BufferTakenPreserves ==
  ASSUME BufferTaken, [Next]_vars
  PROVE  BufferTaken'
<1>1. CASE InitFAT32 \/ ReadBootSector
  BY <1>1 DEF InitFAT32, ReadBootSector, BufferTaken, Command
<1>2. CASE \E c \in {"ls", "autopsy", "run"} : TakeDirBuffer(c)
  BY <1>2 DEF TakeDirBuffer, BufferTaken, Command
<1>3. CASE ReadRoot \/ NextEntry \/ OpenEntry
  BY <1>3 DEF ReadRoot, NextEntry, Scanning, OpenEntry, BufferTaken
<1>4. CASE RootUnreadable \/ EndOfDirectory \/ EndOfAutopsy \/ Launch
  BY <1>4 DEF RootUnreadable, EndOfDirectory, EndOfAutopsy, Launch, Return, BufferTaken, Command
<1>5. CASE TakeClusterBuffer \/ ShowCluster \/ LoadCluster \/ ChainEnds \/ ChainGoesOn
  BY <1>5 DEF TakeClusterBuffer, ShowCluster, LoadCluster, ChainEnds, ChainGoesOn, BufferTaken
<1>6. CASE GetNextCluster
  BY <1>6 DEF GetNextCluster, Malloc, BufferTaken
<1>7. CASE UNCHANGED vars
  BY <1>7 DEF vars, control, heap, BufferTaken, Command
<1> QED BY <1>1, <1>2, <1>3, <1>4, <1>5, <1>6, <1>7 DEF Next, Commands

(* The invariant on which the following theorems rest.                     *)
THEOREM Fat32Invariant == Spec => [](Fat32Inv /\ BufferTaken)
<1>1. Fat32Inv /\ BufferTaken /\ [Next]_vars => Fat32Inv'
  BY BootPreserves, TakeDirBufferPreserves, ReadRootPreserves, RootUnreadablePreserves,
    NextEntryPreserves, EndOfDirectoryPreserves, OpenEntryPreserves, AutopsyPreserves,
    LoadClusterPreserves, GetNextClusterPreserves, ChainPreserves, EndOfAutopsyPreserves,
    LaunchPreserves, StutterPreserves
  DEF Next, Commands
<1>2. BufferTaken /\ [Next]_vars => BufferTaken'
  BY BufferTakenPreserves
<1>3. Init => BufferTaken
  BY DEF Init, BufferTaken, Command
<1> QED BY InitEstablishes, <1>1, <1>2, <1>3, PTL DEF Spec

(* Whatever the heap and the drive refuse and whatever the directory       *)
(* holds, boot or a command that has returned holds no buffer: not those   *)
(* of the directory and the file, nor the one for the boot sector, for a   *)
(* cluster shown or for a sector of the FAT.                               *)
THEOREM Fat32BuffersReturned == Spec => []BuffersReturned
<1>1. Fat32Inv => BuffersReturned
  BY DEF Fat32Inv, HeldByCommand, Out, BuffersReturned
<1> QED BY <1>1, Fat32Invariant, PTL

(* run reads past the end of its buffer only with more than one sector per *)
(* cluster, only with the last cluster, and by less than the cluster has   *)
(* beyond one sector; for every size of sector, cluster and file for which *)
(* the size of the buffer has not wrapped around.                          *)
THEOREM Fat32ReadsLand == Spec => []ReadsLandInBuffers
<1>1. ASSUME Fat32Inv PROVE ReadsLandInBuffers
  <2> SUFFICES ASSUME Reading("run"), NEW o \in DOMAIN image,
                      ~(o + ClusterBytes <= Entry.size + SectorBytes)
               PROVE  /\ disk.spc > 1 /\ o < Entry.size /\ o + ClusterBytes > Entry.size
                      /\ o + ClusterBytes - (Entry.size + SectorBytes)
                           < ClusterBytes - SectorBytes
    BY DEF ReadsLandInBuffers
  <2>1. o \in Nat /\ o < Entry.size
    BY <1>1 DEF Fat32Inv, PlacesInFile
  <2>2. DiskOK /\ i \in 1 .. Len(disk.dir)
    BY <1>1 DEF Fat32Inv, OpenedOK, Reading
  <2>3. /\ Entry.size \in Nat /\ ClusterBytes \in Nat \ {0} /\ SectorBytes \in Nat \ {0}
        /\ disk.spc \in Nat \ {0}
    BY <2>2, EntryFacts, SizesAssumption, DiskTypes DEF DiskOK
  <2>4. disk.spc = 1 => ClusterBytes = SectorBytes
    BY <2>3 DEF ClusterBytes
  <2> QED BY <2>1, <2>3, <2>4
<1> QED BY <1>1, Fat32Invariant, PTL

(* What run launches is the file in FAT order, for every FAT, directory    *)
(* and size.                                                               *)
THEOREM Fat32ImageIsTheFile == Spec => []ImageIsTheFile
<1>1. Fat32Inv => ImageIsTheFile
  BY DEF Fat32Inv
<1> QED BY <1>1, Fat32Invariant, PTL

(* autopsy and run pass over no file of any directory, open nothing before *)
(* it but labels and directories with another attribute, and run launches  *)
(* what it opened if it begins like an executable.                         *)
THEOREM Fat32FirstFile == Spec => []FirstFileIsOpened
<1>1. ASSUME Fat32Inv PROVE FirstFileIsOpened
  <2>1. opened => \A n \in FileEntries : i <= n
    BY <1>1 DEF Fat32Inv, NoFileSkipped
  <2>2. ASSUME opened, i \notin FileEntries
        PROVE  \/ "volume" \in Entry.attr
               \/ "directory" \in Entry.attr /\ Entry.attr # {"directory"}
    <3>1. ~Skips(Entry) /\ cmd # "ls" /\ i \in 1 .. Len(disk.dir) /\ DiskOK
      BY <1>1, <2>2 DEF Fat32Inv, NoFileSkipped, ControlOK, OpenedOK
    <3>2. Entry.name \in {"used", "deleted"}
      <4>1. disk.dir \in Seq([name : {"used", "deleted"}, attr : Attr,
                             cluster : 0 .. disk.last, size : 0 .. Wrap - 1])
        BY <3>1, DiskTypes DEF DiskOK
      <4>2. Entry \in [name : {"used", "deleted"}, attr : Attr,
                      cluster : 0 .. disk.last, size : 0 .. Wrap - 1]
        BY <3>1, <4>1, ElementType DEF Entry
      <4> QED BY <4>2
    <3>3. Entry.name = "used" /\ ~IsFile(Entry)
      BY <2>2, <3>1, <3>2 DEF Skips, FileEntries, Entry
    <3> QED BY <3>1, <3>3 DEF Skips, IsFile
  <2>3. outcome = "not found" /\ RootCluster \notin disk.bad => FileEntries = {}
    BY <1>1 DEF Fat32Inv, NoFileSkipped
  <2>4. LaunchedKind
    BY <1>1 DEF Fat32Inv
  <2> QED BY <2>1, <2>2, <2>3, <2>4 DEF FirstFileIsOpened, FileEntries, LaunchedKind
<1> QED BY <1>1, Fat32Invariant, PTL
==============================================================================
