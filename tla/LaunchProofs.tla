---------------------------- MODULE LaunchProofs -----------------------------
(***************************************************************************)
(* What a payload finds when it starts: the loaded program of Loader, for  *)
(* every well-formed image, and every property of Manifold, for any list   *)
(* of up to 96 functions with names of up to 63 letters, any zone and any  *)
(* leftovers in memory.                                                    *)
(*                                                                         *)
(* The loader reads each list as the file has it, because the address      *)
(* tables it patches lie apart from the lists; so memory is always the     *)
(* mapped sections but for one stub per slot patched so far.               *)
(*                                                                         *)
(* What run builds stays alone at its place: nothing in memory overlaps    *)
(* it.  Each step stores in a region of its own and keeps the others.      *)
(***************************************************************************)
EXTENDS Launch, TLAPS

(* The imports by name that are patched when the loader stands at thunk t  *)
(* of descriptor j: those of the descriptors before it, and its own before *)
(* that thunk.                                                             *)
Before(j, t, k, u) == k < j \/ (k = j /\ u < t)
StubBy(m, j, t, a) ==
  \E k \in DOMAIN m.imports :
    \E u \in 0 .. Entries(m, m.imports[k]) - 1 :
      /\ Before(j, t, k, u) /\ a = m.imports[k].FirstThunk + u
      /\ Word(m, Lookup(m.imports[k]) + u).kind = "name"
StubAt(a) == StubBy(image, descriptor, thunk, a)

(* What address a holds after n sections.                                  *)
MappedBy(n, a) ==
  IF \E k \in 1 .. n : a \in Span(image.sections[k]) THEN Word(image, a) ELSE Stale

ImportNames(m) == {Word(m, a).n : a \in 0 .. RamCells - 1}

LoaderTypeOK ==
  /\ image \in Images
  /\ DOMAIN ram = 0 .. RamCells - 1
  /\ section \in 0 .. Len(image.sections)
  /\ descriptor \in 1 .. Len(image.imports) + 1
  /\ thunk \in Nat /\ pool \in Seq(ImportNames(image))

(* Patching starts behind the last section and keeps to the current list.  *)
LoadingInOrder ==
  /\ section < Len(image.sections) => descriptor = 1 /\ thunk = 0
  /\ descriptor <= Len(image.imports) => thunk <= Entries(image, Import)

Patched ==
  \A a \in 0 .. RamCells - 1 :
    /\ ~StubAt(a) => ram[a] = MappedBy(section, a)
    /\ StubAt(a) => /\ ram[a].kind = "stub" /\ ram[a].n \in 1 .. Len(pool)
                    /\ pool[ram[a].n] \in ImportedAt(a)
                    /\ \A b \in 0 .. RamCells - 1 : StubAt(b) /\ ram[b].n = ram[a].n => b = a

LoaderInv == LoaderTypeOK /\ LoadingInOrder /\ Patched

-----------------------------------------------------------------------------
LEMMA SectionFacts ==
  ASSUME NEW m \in Images
  PROVE  /\ Len(m.sections) \in Nat
         /\ \A k \in 1 .. Len(m.sections) : m.sections[k] \in Range(m.sections)
         /\ \A s \in Range(m.sections) : \E k \in 1 .. Len(m.sections) : s = m.sections[k]
         /\ \A r, s \in Range(m.sections) : r = s \/ Span(r) \cap Span(s) = {}
<1>1. SectionsOK(m)
  BY LoaderAssumption DEF LoaderAssumption
<1>2. Len(m.sections) \in Nat /\ DOMAIN m.sections = 1 .. Len(m.sections)
  BY <1>1 DEF SectionsOK
<1> QED BY <1>1, <1>2 DEF SectionsOK, Range

LEMMA WordOfSection ==
  ASSUME NEW m \in Images, NEW s \in Range(m.sections), NEW a \in Span(s)
  PROVE  Word(m, a) = FileWord(m, s, a)
<1> DEFINE covers == {r \in Range(m.sections) : a \in Span(r)}
<1>1. covers = {s}
  BY SectionFacts
<1>2. (CHOOSE r \in covers : TRUE) = s
  BY <1>1
<1> QED BY <1>1, <1>2 DEF Word

LEMMA WordOfNone ==
  ASSUME NEW m \in Images, NEW a, \A s \in Range(m.sections) : a \notin Span(s)
  PROVE  Word(m, a) = Stale
BY DEF Word

LEMMA ImportFacts ==
  ASSUME NEW m \in Images, NEW j \in DOMAIN m.imports, NEW d, d = m.imports[j]
  PROVE  /\ Len(m.imports) \in Nat /\ DOMAIN m.imports = 1 .. Len(m.imports)
         /\ d.FirstThunk \in Nat /\ Lookup(d) \in Nat
         /\ Entries(m, d) \in Nat /\ EndsAt(m, d, Entries(m, d))
         /\ d.FirstThunk + Entries(m, d) <= RamCells
         /\ d \in Range(m.imports) /\ RamCells \in Nat
<1>1. ImportsOK(m) /\ RamCells \in Nat
  BY LoaderAssumption DEF LoaderAssumption
<1>2. Len(m.imports) \in Nat /\ DOMAIN m.imports = 1 .. Len(m.imports)
      /\ d \in [OriginalFirstThunk : Nat, FirstThunk : Nat]
  <2>1. m.imports \in Seq([OriginalFirstThunk : Nat, FirstThunk : Nat])
    BY <1>1 DEF ImportsOK
  <2>2. Len(m.imports) \in Nat /\ DOMAIN m.imports = 1 .. Len(m.imports)
    BY <2>1
  <2>3. \A S, q : q \in Seq(S) => \A k \in DOMAIN q : q[k] \in S
    OBVIOUS
  <2>4. m.imports[j] \in [OriginalFirstThunk : Nat, FirstThunk : Nat]
    BY <2>1, <2>3, Zenon
  <2> QED BY <2>2, <2>4
<1>3. d.FirstThunk \in Nat /\ Lookup(d) \in Nat
  BY <1>2 DEF Lookup
<1>4. /\ \E n \in 0 .. RamCells : EndsAt(m, d, n)
      /\ d.FirstThunk + Entries(m, d) <= RamCells
  BY <1>1 DEF ImportsOK
<1>5. Entries(m, d) \in 0 .. RamCells /\ EndsAt(m, d, Entries(m, d))
  BY <1>4, Zenon DEF Entries
<1>6. d \in Range(m.imports)
  BY DEF Range
<1> QED BY <1>1, <1>2, <1>3, <1>4, <1>5, <1>6

(* All sections copied, memory holds what the image says.                  *)
LEMMA AllMapped ==
  ASSUME image \in Images, NEW a
  PROVE  MappedBy(Len(image.sections), a) = Word(image, a)
<1>1. CASE \E k \in 1 .. Len(image.sections) : a \in Span(image.sections[k])
  BY <1>1 DEF MappedBy
<1>2. CASE ~\E k \in 1 .. Len(image.sections) : a \in Span(image.sections[k])
  <2>1. \A s \in Range(image.sections) : a \notin Span(s)
    BY <1>2, SectionFacts
  <2>2. Word(image, a) = Stale
    BY <2>1, WordOfNone
  <2> QED BY <1>2, <2>2 DEF MappedBy
<1> QED BY <1>1, <1>2

(* Between the patches of a list, the thunks still to come are as the file *)
(* has them: no address table patched so far overlaps them.                *)
LEMMA ReadsTheFile ==
  ASSUME LoaderInv, Patching, NEW d, d = Import
  PROVE  /\ descriptor \in DOMAIN image.imports
         /\ thunk \in 0 .. Entries(image, d) /\ thunkRef \in 0 .. RamCells - 1
         /\ ~StubAt(thunkRef) /\ ram[thunkRef] = Word(image, thunkRef)
         /\ thunkRef = Lookup(d) + thunk
         /\ thunk < Entries(image, d) => ram[thunkRef].kind \in {"name", "ordinal"}
         /\ thunk = Entries(image, d) => ram[thunkRef] = Null
<1> DEFINE n == Entries(image, d)
<1>1. image \in Images /\ descriptor \in 1 .. Len(image.imports) /\ section = Len(image.sections)
  BY SectionFacts DEF LoaderInv, LoaderTypeOK, Patching
<1>2. /\ ImportsOK(image)
      /\ Len(image.imports) \in Nat /\ DOMAIN image.imports = 1 .. Len(image.imports)
  <2>1. ImportsOK(image)
    BY <1>1, LoaderAssumption DEF LoaderAssumption
  <2>2. image.imports \in Seq([OriginalFirstThunk : Nat, FirstThunk : Nat])
    BY <2>1 DEF ImportsOK
  <2>3. Len(image.imports) \in Nat /\ DOMAIN image.imports = 1 .. Len(image.imports)
    BY <2>2
  <2> QED BY <2>1, <2>3
<1>3. descriptor \in DOMAIN image.imports /\ d = image.imports[descriptor]
  BY <1>1, <1>2 DEF Import
<1>4. /\ d.FirstThunk \in Nat /\ Lookup(d) \in Nat
      /\ n \in Nat /\ EndsAt(image, d, n) /\ d.FirstThunk + n <= RamCells /\ RamCells \in Nat
  BY <1>1, <1>3, ImportFacts
<1>5. thunk \in 0 .. n /\ thunkRef = Lookup(d) + thunk
  BY <1>1, <1>4 DEF LoaderInv, LoaderTypeOK, LoadingInOrder, thunkRef
<1> HIDE DEF n
<1>6. Lookup(d) + n < RamCells /\ Word(image, Lookup(d) + n) = Null
      /\ \A t \in 0 .. n - 1 : Word(image, Lookup(d) + t).kind \in {"name", "ordinal"}
  BY <1>4 DEF EndsAt
<1>7. thunkRef \in 0 .. RamCells - 1 /\ thunkRef \in Lookup(d) .. Lookup(d) + n
  BY <1>4, <1>5, <1>6
<1>8. ~StubAt(thunkRef)
  <2> SUFFICES ASSUME StubAt(thunkRef) PROVE FALSE
    OBVIOUS
  <2>1. PICK j \in DOMAIN image.imports : \E t \in 0 .. Entries(image, image.imports[j]) - 1 :
          Before(descriptor, thunk, j, t) /\ thunkRef = image.imports[j].FirstThunk + t
    BY DEF StubAt, StubBy
  <2>2. PICK t \in 0 .. Entries(image, image.imports[j]) - 1 :
          Before(descriptor, thunk, j, t) /\ thunkRef = image.imports[j].FirstThunk + t
    BY <2>1
  <2>3. thunkRef \in Slots(image, image.imports[j])
    <3>1. image.imports[j].FirstThunk \in Nat /\ Entries(image, image.imports[j]) \in Nat
      BY <1>1, ImportFacts
    <3> QED BY <2>2, <3>1 DEF Slots
  <2>4. thunkRef \in List(image, d)
    BY <1>7 DEF List, n
  <2>5. j = descriptor /\ Lookup(d) = d.FirstThunk
    BY <1>2, <1>3, <2>3, <2>4 DEF ImportsOK
  <2>6. t < thunk
    BY <2>2, <2>5, <1>1 DEF Before
  <2> QED BY <1>3, <1>4, <1>5, <2>2, <2>5, <2>6
<1>9. ram[thunkRef] = Word(image, thunkRef)
  <2>1. ram[thunkRef] = MappedBy(section, thunkRef)
    BY <1>7, <1>8 DEF LoaderInv, Patched
  <2>2. MappedBy(Len(image.sections), thunkRef) = Word(image, thunkRef)
    BY <1>1, AllMapped
  <2> QED BY <1>1, <2>1, <2>2
<1>10. thunk < n => ram[thunkRef].kind \in {"name", "ordinal"}
  <2>1. thunk < n => thunk \in 0 .. n - 1
    BY <1>4, <1>5
  <2>2. thunk < n => Word(image, Lookup(d) + thunk).kind \in {"name", "ordinal"}
    BY <2>1, <1>6, Zenon
  <2> QED BY <2>2, <1>5, <1>9, Zenon
<1>11. thunk = n => ram[thunkRef] = Null
  BY <1>5, <1>6, <1>9
<1> QED BY <1>3, <1>5, <1>7, <1>8, <1>9, <1>10, <1>11 DEF n

(* How the set of patched slots grows.                                     *)
LEMMA NoStubYet ==
  ASSUME NEW m \in Images, NEW a PROVE ~StubBy(m, 1, 0, a)
<1> SUFFICES ASSUME NEW k \in DOMAIN m.imports, NEW u \in 0 .. Entries(m, m.imports[k]) - 1,
                    Before(1, 0, k, u)
             PROVE  FALSE
  BY DEF StubBy
<1>1. k \in Nat /\ k >= 1 /\ Entries(m, m.imports[k]) \in Nat
  BY ImportFacts
<1> QED BY <1>1 DEF Before

LEMMA StubOfThunk ==
  ASSUME NEW m \in Images, NEW j \in DOMAIN m.imports, NEW d, d = m.imports[j],
         NEW t \in 0 .. Entries(m, d) - 1, NEW a
  PROVE  StubBy(m, j, t + 1, a) <=>
           StubBy(m, j, t, a) \/ (a = d.FirstThunk + t /\ Word(m, Lookup(d) + t).kind = "name")
<1>1. \A k \in DOMAIN m.imports : k \in Nat /\ Entries(m, m.imports[k]) \in Nat
  BY ImportFacts
<1>2. \A k \in DOMAIN m.imports : \A u \in 0 .. Entries(m, m.imports[k]) - 1 :
        Before(j, t + 1, k, u) <=> Before(j, t, k, u) \/ (k = j /\ u = t)
  BY <1>1 DEF Before
<1> QED BY <1>2, Zenon DEF StubBy

LEMMA StubOfList ==
  ASSUME NEW m \in Images, NEW j \in DOMAIN m.imports, NEW d, d = m.imports[j], NEW a
  PROVE  StubBy(m, j + 1, 0, a) <=> StubBy(m, j, Entries(m, d), a)
<1>1. \A k \in DOMAIN m.imports : k \in Nat /\ Entries(m, m.imports[k]) \in Nat
  BY ImportFacts
<1>2. \A k \in DOMAIN m.imports : \A u \in 0 .. Entries(m, m.imports[k]) - 1 :
        Before(j + 1, 0, k, u) <=> Before(j, Entries(m, d), k, u)
  BY <1>1 DEF Before
<1> QED BY <1>2, Zenon DEF StubBy

(* A patched slot is that of an import by name, and in the end each is.    *)
LEMMA StubIsImported ==
  ASSUME image \in Images, NEW j, NEW t, NEW a, StubBy(image, j, t, a)
  PROVE  ImportedAt(a) # {}
<1>1. PICK k \in DOMAIN image.imports : \E u \in 0 .. Entries(image, image.imports[k]) - 1 :
        /\ a = image.imports[k].FirstThunk + u
        /\ Word(image, Lookup(image.imports[k]) + u).kind = "name"
  BY DEF StubBy
<1>2. PICK u \in 0 .. Entries(image, image.imports[k]) - 1 :
        /\ a = image.imports[k].FirstThunk + u
        /\ Word(image, Lookup(image.imports[k]) + u).kind = "name"
  BY <1>1
<1> DEFINE d == image.imports[k]
<1>3. d \in Range(image.imports) /\ d.FirstThunk \in Nat /\ Entries(image, d) \in Nat
  BY ImportFacts
<1>4. a \in Slots(image, d) /\ a - d.FirstThunk = u
  BY <1>2, <1>3 DEF Slots
<1>5. d \in ImportsAt(a)
  BY <1>2, <1>3, <1>4, Zenon DEF ImportsAt
<1> QED BY <1>5 DEF ImportedAt

LEMMA ImportedIsStub ==
  ASSUME image \in Images, NEW j \in Nat, j > Len(image.imports), NEW t, NEW a,
         ImportedAt(a) # {}
  PROVE  StubBy(image, j, t, a)
<1>1. PICK d \in Range(image.imports) :
        a \in Slots(image, d) /\ Word(image, Lookup(d) + (a - d.FirstThunk)).kind = "name"
  BY DEF ImportedAt, ImportsAt
<1>2. PICK k \in DOMAIN image.imports : d = image.imports[k]
  BY DEF Range
<1>3. d.FirstThunk \in Nat /\ Entries(image, d) \in Nat /\ k \in 1 .. Len(image.imports)
      /\ Len(image.imports) \in Nat
  BY <1>2, ImportFacts
<1> DEFINE u == a - d.FirstThunk
<1>4. u \in 0 .. Entries(image, d) - 1 /\ a = d.FirstThunk + u
  BY <1>1, <1>3 DEF Slots
<1>5. Before(j, t, k, u)
  BY <1>3 DEF Before
<1>6. Word(image, Lookup(d) + u).kind = "name"
  BY <1>1
<1> HIDE DEF u
<1> QED BY <1>2, <1>4, <1>5, <1>6, Zenon DEF StubBy

-----------------------------------------------------------------------------
LEMMA LoaderInitially == LoaderInit => LoaderInv
<1> SUFFICES ASSUME LoaderInit PROVE LoaderInv
  OBVIOUS
<1>1. image \in Images /\ RamCells \in Nat /\ Len(image.sections) \in Nat
  BY LoaderAssumption, SectionFacts DEF LoaderInit, LoaderAssumption
<1>2. Len(image.imports) \in Nat
  <2>1. ImportsOK(image)
    BY <1>1, LoaderAssumption DEF LoaderAssumption
  <2> QED BY <2>1 DEF ImportsOK
<1>3. pool \in Seq(ImportNames(image))
  BY DEF LoaderInit
<1>4. LoaderTypeOK
  BY <1>1, <1>2, <1>3 DEF LoaderTypeOK, LoaderInit
<1>5. LoadingInOrder
  <2>1. descriptor <= Len(image.imports) => thunk <= Entries(image, Import)
    <3> SUFFICES ASSUME descriptor <= Len(image.imports) PROVE thunk <= Entries(image, Import)
      OBVIOUS
    <3>1. ImportsOK(image)
      BY <1>1, LoaderAssumption DEF LoaderAssumption
    <3>2. 1 \in DOMAIN image.imports
      BY <3>1, <1>2 DEF ImportsOK, LoaderInit
    <3>3. Entries(image, image.imports[1]) \in Nat
      BY <1>1, <3>2, ImportFacts
    <3> QED BY <3>3 DEF LoaderInit, Import
  <2> QED BY <2>1 DEF LoadingInOrder, LoaderInit
<1>6. Patched
  <2> SUFFICES ASSUME NEW a \in 0 .. RamCells - 1
               PROVE  ~StubAt(a) /\ ram[a] = MappedBy(section, a)
    BY DEF Patched
  <2>1. ~StubAt(a)
    BY <1>1, NoStubYet DEF StubAt, LoaderInit
  <2>2. ram[a] = Stale
    BY DEF LoaderInit
  <2>3. MappedBy(section, a) = Stale
    BY DEF MappedBy, LoaderInit
  <2> QED BY <2>1, <2>2, <2>3
<1> QED BY <1>4, <1>5, <1>6 DEF LoaderInv

LEMMA MapSectionKeepsInv == ASSUME LoaderInv, MapSection PROVE LoaderInv'
<1> DEFINE s == image.sections[section + 1]
<1>1. /\ image \in Images /\ section \in Nat /\ section < Len(image.sections)
      /\ Len(image.sections) \in Nat /\ descriptor = 1 /\ thunk = 0
      /\ DOMAIN ram = 0 .. RamCells - 1 /\ s \in Range(image.sections)
  BY SectionFacts DEF LoaderInv, LoaderTypeOK, LoadingInOrder, MapSection
<1>2. /\ image' = image /\ descriptor' = descriptor /\ thunk' = thunk /\ pool' = pool
      /\ section' = section + 1 /\ ram' = Copied(s, ram)
  BY DEF MapSection
<1>3. LoaderTypeOK'
  <2>1. DOMAIN ram' = 0 .. RamCells - 1
    BY <1>1, <1>2 DEF Copied
  <2> QED BY <1>1, <1>2, <2>1 DEF LoaderInv, LoaderTypeOK
<1>4. LoadingInOrder'
  BY <1>1, <1>2 DEF LoaderInv, LoadingInOrder, Import
<1>5. Patched'
  <2> SUFFICES ASSUME NEW a \in 0 .. RamCells - 1
               PROVE  ~StubAt(a)' /\ ram'[a] = MappedBy(section, a)'
    BY DEF Patched
  <2>1. ~StubAt(a) /\ ~StubAt(a)'
    BY <1>1, <1>2, NoStubYet DEF StubAt
  <2>2. ram[a] = MappedBy(section, a)
    BY <2>1 DEF LoaderInv, Patched
  <2>3. MappedBy(section, a)' = MappedBy(section + 1, a)
    BY <1>2 DEF MappedBy
  <2>4. CASE a \in Span(s)
    <3>1. ram'[a] = FileWord(image, s, a)
      BY <1>1, <1>2, <2>4 DEF Copied
    <3>2. Word(image, a) = FileWord(image, s, a)
      BY <1>1, <2>4, WordOfSection
    <3>3. MappedBy(section + 1, a) = Word(image, a)
      BY <1>1, <2>4 DEF MappedBy
    <3> QED BY <2>1, <2>3, <3>1, <3>2, <3>3
  <2>5. CASE a \notin Span(s)
    <3>1. ram'[a] = ram[a]
      BY <1>1, <1>2, <2>5 DEF Copied
    <3>2. MappedBy(section + 1, a) = MappedBy(section, a)
      <4>1. (\E k \in 1 .. section + 1 : a \in Span(image.sections[k]))
              <=> \E k \in 1 .. section : a \in Span(image.sections[k])
        <5>1. \A k \in 1 .. section + 1 : k \in 1 .. section \/ k = section + 1
          BY <1>1
        <5>2. \A k \in 1 .. section : k \in 1 .. section + 1
          BY <1>1
        <5> QED BY <5>1, <5>2, <2>5, Zenon
      <4> QED BY <4>1, Zenon DEF MappedBy
    <3> QED BY <2>1, <2>2, <2>3, <3>1, <3>2
  <2> QED BY <2>4, <2>5
<1> QED BY <1>3, <1>4, <1>5 DEF LoaderInv

(* Steps that leave memory and pool alone and patch nothing.               *)
LEMMA NoPatchKeepsPatched ==
  ASSUME Patched, UNCHANGED <<image, ram, section, pool>>,
         \A a \in 0 .. RamCells - 1 : StubAt(a)' <=> StubAt(a)
  PROVE  Patched'
<1>1. image' = image /\ ram' = ram /\ section' = section /\ pool' = pool
  OBVIOUS
<1>2. \A a : MappedBy(section, a)' = MappedBy(section, a)
  BY <1>1 DEF MappedBy
<1>3. \A a : ImportedAt(a)' = ImportedAt(a)
  BY <1>1 DEF ImportedAt, ImportsAt
<1> QED BY <1>1, <1>2, <1>3, Zenon DEF Patched

LEMMA SkipOrdinalKeepsInv == ASSUME LoaderInv, SkipOrdinal PROVE LoaderInv'
<1> DEFINE d == Import
<1>1. /\ image' = image /\ descriptor' = descriptor /\ thunk' = thunk + 1 /\ pool' = pool
      /\ section' = section /\ ram' = ram /\ Patching /\ ram[thunkRef].kind = "ordinal"
  BY DEF SkipOrdinal
<1>2. /\ descriptor \in DOMAIN image.imports /\ thunk \in 0 .. Entries(image, d)
      /\ ram[thunkRef] = Word(image, Lookup(d) + thunk) /\ image \in Images
      /\ thunk = Entries(image, d) => ram[thunkRef] = Null
  BY <1>1, ReadsTheFile DEF LoaderInv, LoaderTypeOK
<1>3. d = image.imports[descriptor] /\ Entries(image, d) \in Nat
  BY <1>2, ImportFacts DEF Import
<1>4. thunk \in 0 .. Entries(image, d) - 1
  <2>1. Null.kind = "null"
    BY DEF Null, Cell
  <2>2. thunk # Entries(image, d)
    BY <1>1, <1>2, <2>1
  <2> QED BY <1>2, <1>3, <2>2
<1>5. Word(image, Lookup(d) + thunk).kind # "name"
  BY <1>1, <1>2
<1> HIDE DEF d
<1>6. \A a \in 0 .. RamCells - 1 : StubAt(a)' <=> StubAt(a)
  BY <1>1, <1>2, <1>3, <1>4, <1>5, StubOfThunk DEF StubAt
<1>7. Patched'
  BY <1>1, <1>6, NoPatchKeepsPatched DEF LoaderInv
<1>8. LoaderTypeOK'
  BY <1>1, <1>2 DEF LoaderInv, LoaderTypeOK
<1>9. LoadingInOrder'
  <2>1. Import' = d
    BY <1>1 DEF d, Import
  <2> QED BY <1>1, <1>3, <1>4, <2>1 DEF LoaderInv, LoadingInOrder, Patching
<1> QED BY <1>7, <1>8, <1>9 DEF LoaderInv

LEMMA NextDescriptorKeepsInv == ASSUME LoaderInv, NextDescriptor PROVE LoaderInv'
<1> DEFINE d == Import
<1>1. /\ image' = image /\ descriptor' = descriptor + 1 /\ thunk' = 0 /\ pool' = pool
      /\ section' = section /\ ram' = ram /\ Patching /\ ram[thunkRef] = Null
  BY DEF NextDescriptor
<1>2. /\ descriptor \in DOMAIN image.imports /\ thunk \in 0 .. Entries(image, d)
      /\ image \in Images
      /\ thunk < Entries(image, d) => ram[thunkRef].kind \in {"name", "ordinal"}
  BY <1>1, ReadsTheFile DEF LoaderInv, LoaderTypeOK
<1>3. /\ d = image.imports[descriptor] /\ Entries(image, d) \in Nat
      /\ Len(image.imports) \in Nat /\ DOMAIN image.imports = 1 .. Len(image.imports)
  BY <1>2, ImportFacts DEF Import
<1>4. thunk = Entries(image, d)
  <2>1. Null.kind = "null"
    BY DEF Null, Cell
  <2>2. ~(thunk < Entries(image, d))
    BY <1>1, <1>2, <2>1
  <2> QED BY <1>2, <1>3, <2>2
<1> HIDE DEF d
<1>5. \A a \in 0 .. RamCells - 1 : StubAt(a)' <=> StubAt(a)
  BY <1>1, <1>2, <1>3, <1>4, StubOfList DEF StubAt
<1>6. Patched'
  BY <1>1, <1>5, NoPatchKeepsPatched DEF LoaderInv
<1>7. LoaderTypeOK'
  BY <1>1, <1>2, <1>3 DEF LoaderInv, LoaderTypeOK
<1>8. LoadingInOrder'
  <2>1. ASSUME descriptor + 1 <= Len(image.imports) PROVE 0 <= Entries(image, Import)'
    <3>1. descriptor + 1 \in DOMAIN image.imports
      BY <1>2, <1>3, <2>1
    <3>2. Entries(image, image.imports[descriptor + 1]) \in Nat
      BY <1>2, <3>1, ImportFacts
    <3>3. Entries(image, Import)' = Entries(image, image.imports[descriptor + 1])
      BY <1>1 DEF Import
    <3> QED BY <3>2, <3>3
  <2> QED BY <1>1, <2>1 DEF LoadingInOrder, Patching
<1> QED BY <1>6, <1>7, <1>8 DEF LoaderInv

LEMMA LoaderStutters == ASSUME LoaderInv, UNCHANGED loading PROVE LoaderInv'
<1>1. /\ image' = image /\ descriptor' = descriptor /\ thunk' = thunk /\ pool' = pool
      /\ section' = section /\ ram' = ram
  BY DEF loading
<1>2. Patched'
  BY <1>1, NoPatchKeepsPatched DEF LoaderInv, StubAt
<1>3. LoaderTypeOK' /\ LoadingInOrder'
  BY <1>1 DEF LoaderInv, LoaderTypeOK, LoadingInOrder, Import
<1> QED BY <1>2, <1>3 DEF LoaderInv

(* A stub's number is the length of the pool with its name, so no other    *)
(* stub has it; a slot patched before keeps its own.                       *)
LEMMA PatchNameKeepsInv == ASSUME LoaderInv, PatchName PROVE LoaderInv'
<1> DEFINE d == Import
           name == ram[thunkRef].n
           stub == Cell("stub", Len(pool) + 1)
<1>1. /\ image' = image /\ descriptor' = descriptor /\ thunk' = thunk + 1
      /\ section' = section /\ Patching /\ ram[thunkRef].kind \notin {"null", "ordinal"}
      /\ pool' = Append(pool, name) /\ ram' = [ram EXCEPT ![funcRef] = stub]
  BY DEF PatchName
<1>2. /\ descriptor \in DOMAIN image.imports /\ thunk \in 0 .. Entries(image, d)
      /\ ram[thunkRef] = Word(image, Lookup(d) + thunk) /\ image \in Images
      /\ thunkRef \in 0 .. RamCells - 1 /\ thunkRef = Lookup(d) + thunk
      /\ thunk < Entries(image, d) => ram[thunkRef].kind \in {"name", "ordinal"}
      /\ thunk = Entries(image, d) => ram[thunkRef] = Null
  BY <1>1, ReadsTheFile DEF LoaderInv, LoaderTypeOK
<1>3. /\ d = image.imports[descriptor] /\ Entries(image, d) \in Nat /\ RamCells \in Nat
      /\ d.FirstThunk \in Nat /\ d.FirstThunk + Entries(image, d) <= RamCells
  BY <1>2, ImportFacts DEF Import
<1>4. thunk \in 0 .. Entries(image, d) - 1
  <2>1. Null.kind = "null"
    BY DEF Null, Cell
  <2>2. thunk # Entries(image, d)
    BY <1>1, <1>2, <2>1
  <2> QED BY <1>2, <1>3, <2>2
<1>5. Word(image, Lookup(d) + thunk).kind = "name" /\ name = Word(image, Lookup(d) + thunk).n
  BY <1>1, <1>2, <1>3, <1>4
<1>6. funcRef = d.FirstThunk + thunk /\ funcRef \in 0 .. RamCells - 1
  BY <1>3, <1>4 DEF funcRef
<1>7. pool \in Seq(ImportNames(image)) /\ name \in ImportNames(image)
      /\ DOMAIN ram = 0 .. RamCells - 1
  BY <1>2 DEF LoaderInv, LoaderTypeOK, ImportNames
<1> HIDE DEF d, name
<1>8. stub.kind = "stub" /\ stub.n = Len(pool) + 1
  BY DEF Cell
<1> HIDE DEF stub
<1>9. /\ Len(pool) \in Nat /\ pool' \in Seq(ImportNames(image)) /\ Len(pool') = Len(pool) + 1
      /\ pool'[Len(pool) + 1] = name /\ \A k \in 1 .. Len(pool) : pool'[k] = pool[k]
  BY <1>1, <1>7
<1>10. DOMAIN ram' = 0 .. RamCells - 1 /\ ram'[funcRef] = stub
       /\ \A a \in 0 .. RamCells - 1 : a # funcRef => ram'[a] = ram[a]
  BY <1>1, <1>6, <1>7
<1>11. \A a : StubAt(a)' <=> StubAt(a) \/ a = funcRef
  <2>1. \A a : StubAt(a)' <=> StubBy(image, descriptor, thunk + 1, a)
    BY <1>1 DEF StubAt
  <2>2. \A a : StubBy(image, descriptor, thunk + 1, a) <=>
               StubBy(image, descriptor, thunk, a)
                 \/ (a = d.FirstThunk + thunk /\ Word(image, Lookup(d) + thunk).kind = "name")
    BY <1>2, <1>3, <1>4, StubOfThunk
  <2> QED BY <1>5, <1>6, <2>1, <2>2 DEF StubAt
<1>12. name \in ImportedAt(funcRef)
  <2>1. d \in Range(image.imports)
    BY <1>2, <1>3, ImportFacts
  <2>2. funcRef \in Slots(image, d) /\ funcRef - d.FirstThunk = thunk
    BY <1>3, <1>4, <1>6 DEF Slots
  <2>3. d \in ImportsAt(funcRef)
    BY <1>5, <2>1, <2>2, Zenon DEF ImportsAt
  <2> QED BY <1>5, <2>2, <2>3 DEF ImportedAt
<1>13. /\ \A a : ImportedAt(a)' = ImportedAt(a)
       /\ \A a : MappedBy(section, a)' = MappedBy(section, a)
  BY <1>1 DEF ImportedAt, ImportsAt, MappedBy
<1>14. Patched'
  <2> SUFFICES ASSUME NEW a \in 0 .. RamCells - 1
               PROVE  /\ ~StubAt(a)' => ram'[a] = MappedBy(section, a)'
                      /\ StubAt(a)' =>
                           /\ ram'[a].kind = "stub" /\ ram'[a].n \in 1 .. Len(pool')
                           /\ pool'[ram'[a].n] \in ImportedAt(a)'
                           /\ \A b \in 0 .. RamCells - 1 :
                                StubAt(b)' /\ ram'[b].n = ram'[a].n => b = a
    BY DEF Patched
  <2>1. /\ ~StubAt(a) => ram[a] = MappedBy(section, a)
        /\ StubAt(a) => /\ ram[a].kind = "stub" /\ ram[a].n \in 1 .. Len(pool)
                        /\ pool[ram[a].n] \in ImportedAt(a)
                        /\ \A b \in 0 .. RamCells - 1 :
                             StubAt(b) /\ ram[b].n = ram[a].n => b = a
    BY DEF LoaderInv, Patched
  <2>2. \A b \in 0 .. RamCells - 1 : StubAt(b) => ram[b].n \in 1 .. Len(pool)
    BY DEF LoaderInv, Patched
  <2>3. CASE a = funcRef
    <3>1. \A b \in 0 .. RamCells - 1 : StubAt(b)' /\ ram'[b].n = stub.n => b = a
      BY <1>8, <1>9, <1>10, <1>11, <2>2, <2>3
    <3>2. ram'[a].n \in 1 .. Len(pool') /\ pool'[ram'[a].n] = name
      BY <1>8, <1>9, <1>10, <2>3
    <3> QED BY <1>8, <1>10, <1>11, <1>12, <1>13, <2>3, <3>1, <3>2, Zenon
  <2>4. CASE a # funcRef
    <3>1. ram'[a] = ram[a] /\ (StubAt(a)' <=> StubAt(a))
      BY <1>10, <1>11, <2>4
    <3>2. ~StubAt(a)' => ram'[a] = MappedBy(section, a)'
      BY <1>13, <2>1, <3>1
    <3>3. ASSUME StubAt(a)
          PROVE  /\ ram[a].n \in 1 .. Len(pool')
                 /\ pool'[ram[a].n] = pool[ram[a].n]
                 /\ \A b \in 0 .. RamCells - 1 :
                      StubAt(b)' /\ ram'[b].n = ram[a].n => b = a
      BY <1>8, <1>9, <1>10, <1>11, <2>1, <3>3
    <3> QED BY <1>13, <2>1, <3>1, <3>2, <3>3, Zenon
  <2> QED BY <2>3, <2>4
<1>15. LoaderTypeOK'
  BY <1>1, <1>2, <1>9, <1>10 DEF LoaderInv, LoaderTypeOK
<1>16. LoadingInOrder'
  <2>1. Import' = d
    BY <1>1 DEF d, Import
  <2> QED BY <1>1, <1>3, <1>4, <2>1 DEF LoaderInv, LoadingInOrder, Patching
<1> QED BY <1>14, <1>15, <1>16 DEF LoaderInv

(* The loader proceeds in order, reads every list as the file has it, and  *)
(* memory is the mapped sections but for one stub per slot patched so far. *)
THEOREM LoaderInvariant == LoaderSpec => []LoaderInv
<1>1. LoaderInv /\ [LoaderNext]_loaderVars => LoaderInv'
  <2> SUFFICES ASSUME LoaderInv, [LoaderNext]_loaderVars PROVE LoaderInv'
    OBVIOUS
  <2>1. CASE MapSection
    BY <2>1, MapSectionKeepsInv
  <2>2. CASE PatchName
    BY <2>2, PatchNameKeepsInv
  <2>3. CASE SkipOrdinal
    BY <2>3, SkipOrdinalKeepsInv
  <2>4. CASE NextDescriptor
    BY <2>4, NextDescriptorKeepsInv
  <2>5. CASE FindMain \/ UNCHANGED loaderVars
    BY <2>5, LoaderStutters DEF FindMain, loaderVars
  <2> QED BY <2>1, <2>2, <2>3, <2>4, <2>5 DEF LoaderNext
<1> QED BY <1>1, LoaderInitially, PTL DEF LoaderSpec

(* What run hands to the program, for every well-formed image: each import *)
(* by name a stub of its own that carries the name, everything else as the *)
(* file's sections have it.                                                *)
THEOREM LoaderProgramIsLoaded == LoaderSpec => []ProgramIsLoaded
<1>1. LoaderInv => ProgramIsLoaded
  <2> SUFFICES ASSUME LoaderInv, Done, NEW a \in DOMAIN ram
               PROVE  IF ImportedAt(a) = {} THEN ram[a] = Word(image, a)
                      ELSE /\ ram[a].kind = "stub" /\ pool[ram[a].n] \in ImportedAt(a)
                           /\ \A b \in DOMAIN ram :
                                ImportedAt(b) # {} /\ ram[b].n = ram[a].n => b = a
    BY DEF ProgramIsLoaded
  <2>1. /\ image \in Images /\ DOMAIN ram = 0 .. RamCells - 1 /\ descriptor \in Nat
        /\ descriptor > Len(image.imports) /\ section = Len(image.sections)
    BY DEF LoaderInv, LoaderTypeOK, Done
  <2>2. \A b : StubAt(b) <=> ImportedAt(b) # {}
    BY <2>1, StubIsImported, ImportedIsStub DEF StubAt
  <2>3. MappedBy(section, a) = Word(image, a)
    BY <2>1, AllMapped
  <2> QED BY <2>1, <2>2, <2>3 DEF LoaderInv, Patched
<1> QED BY <1>1, LoaderInvariant, PTL

-----------------------------------------------------------------------------
(* The manifold.                                                           *)

(* Fields are somewhere and cover something.                               *)
FieldsOK == \A f \in mem : f.at \in Nat /\ f.size \in Nat \ {0}

(* The field is in memory, and nothing overlaps it.                        *)
Alone(g) ==
  /\ g.at \in Nat /\ g.size \in Nat \ {0}
  /\ g \in mem
  /\ \A f \in mem : f = g \/ Apart(f, g)

ZoneWord(w) == Number(Zone + 8 * w, 8, AmnesiaStub)
ZoneFilled == \A w \in ZoneIndices : Alone(ZoneWord(w))

ChainFields ==
  {Number(Peb + 24, 8, Ldr), Number(Teb + 96, 8, Peb), Number(48, 8, Teb), Number(96, 8, Peb)}
  \cup Links \cup NamesOf("ntdll") \cup NamesOf("kernel32")
ChainBuilt == \A g \in ChainFields : Alone(g)

(* Nothing stands at the head's link back.                                 *)
Blink == 24616
NoBlink == \A f \in mem : f.at # Blink

(* A module's headers and its first n exports.                             *)
Table(dll, n) ==
  /\ \A g \in Headers(Base(dll), dll) : Alone(g)
  /\ \A k \in 0 .. n - 1 : \A g \in Export(Base(dll), k) : Alone(g)

AbyssStub == Field(0, 17, "stub", Abyss)

Finished(dll) ==
  step \in {"abyss", "running"} \/ (dll = "ntdll" /\ step \in {"kernel32", "kernel32 exports"})

BuiltInOrder ==
  /\ step \in {"zone", "chain", "ntdll", "ntdll exports", "kernel32", "kernel32 exports",
               "abyss", "running"}
  /\ i \in 0 .. ApiCount
  /\ step # "zone" => ZoneFilled
  /\ step \notin {"zone", "chain"} => ChainBuilt /\ NoBlink
  /\ \A dll \in Dlls : /\ step = Exports(dll) => Table(dll, i)
                       /\ Finished(dll) => Table(dll, ApiCount)
  /\ Running => Alone(AbyssStub)

(* The payload has called nothing before it runs.                          *)
CallsInOrder ==
  /\ called = [what |-> called.what, api |-> called.api]
  /\ called.what = "nothing" => rax = "none"
  /\ ~Running => called.what = "nothing"

ManifoldInv == FieldsOK /\ BuiltInOrder /\ CallsInOrder /\ CallsAreAnswered

-----------------------------------------------------------------------------
(* What is loaded from the place of a field that is alone is its value.    *)
LEMMA LoadAlone ==
  ASSUME NEW g, Alone(g)
  PROVE  Load(g.at, g.size, g.kind) = g.value
<1> DEFINE found == {f \in mem : f.at = g.at /\ f.kind = g.kind /\ f.size = g.size}
<1>1. ASSUME NEW f \in found PROVE f = g
  BY DEF Alone, Apart
<1>2. found = {g}
  BY <1>1 DEF Alone
<1>3. (CHOOSE f \in found : TRUE) = g
  BY <1>2
<1> QED BY <1>2, <1>3 DEF Load

LEMMA FieldParts ==
  ASSUME NEW at, NEW size, NEW kind, NEW value
  PROVE  LET f == Field(at, size, kind, value)
         IN  f.at = at /\ f.size = size /\ f.kind = kind /\ f.value = value
BY DEF Field

(* A field found at the place of one that is alone is that field.          *)
LEMMA FoundAlone ==
  ASSUME NEW g, Alone(g), FieldsOK, NEW f \in mem, f.at = g.at
  PROVE  f = g
BY DEF Alone, Apart, FieldsOK

(* The fields do not overlap each other.                                   *)
Tidy(S) ==
  \A g \in S : /\ g.at \in Nat /\ g.size \in Nat \ {0}
               /\ \A f \in S : f = g \/ Apart(f, g)

LEMMA StoredAreAlone ==
  ASSUME NEW fields, Tidy(fields), fields \subseteq mem',
         \A h \in mem' : h \in fields \/ \A f \in fields : Apart(f, h)
  PROVE  \A g \in fields : Alone(g)'
<1> SUFFICES ASSUME NEW g \in fields PROVE Alone(g)'
  OBVIOUS
<1>1. g.at \in Nat /\ g.size \in Nat \ {0} /\ g \in mem'
  BY DEF Tidy
<1>2. ASSUME NEW f \in mem' PROVE f = g \/ Apart(f, g)
  BY DEF Tidy, Apart
<1> QED BY <1>1, <1>2 DEF Alone

(* A step that stores between lo and hi keeps what is alone elsewhere.     *)
Outside(g, lo, hi) == g.at + g.size <= lo \/ hi <= g.at
Inside(g, lo, hi) == lo <= g.at /\ g.at + g.size <= hi
Keeps(lo, hi) == \A g : Alone(g) /\ Outside(g, lo, hi) => Alone(g)'

LEMMA StoringKeeps ==
  ASSUME NEW fields, NEW lo \in Nat, NEW hi \in Nat, mem' \subseteq mem \cup fields,
         \A f \in fields : f.at \in Nat /\ f.size \in Nat /\ Inside(f, lo, hi),
         \A g \in mem : Alone(g) /\ Outside(g, lo, hi) => g \in mem'
  PROVE  Keeps(lo, hi)
<1> SUFFICES ASSUME NEW g, Alone(g), Outside(g, lo, hi) PROVE Alone(g)'
  BY DEF Keeps
<1>1. g \in mem' /\ g.at \in Nat /\ g.size \in Nat \ {0}
  BY DEF Alone
<1>2. ASSUME NEW f \in mem' PROVE f = g \/ Apart(f, g)
  <2>1. CASE f \in mem
    BY <2>1 DEF Alone
  <2>2. CASE f \in fields
    BY <1>1, <2>2 DEF Inside, Outside, Apart
  <2> QED BY <2>1, <2>2
<1> QED BY <1>1, <1>2 DEF Alone

LEMMA StoreFacts ==
  ASSUME NEW fields, mem' = Store(fields), FieldsOK, Tidy(fields),
         NEW lo \in Nat, NEW hi \in Nat, \A f \in fields : Inside(f, lo, hi)
  PROVE  /\ FieldsOK'
         /\ \A g \in fields : Alone(g)'
         /\ Keeps(lo, hi)
<1>1. /\ mem' \subseteq mem \cup fields /\ fields \subseteq mem'
      /\ \A h \in mem' : h \in fields \/ \A f \in fields : Apart(f, h)
  BY DEF Store
<1>2. \A f \in fields : f.at \in Nat /\ f.size \in Nat \ {0}
  BY DEF Tidy
<1>3. FieldsOK'
  BY <1>1, <1>2 DEF FieldsOK
<1>4. ASSUME NEW g \in mem, Alone(g), Outside(g, lo, hi) PROVE g \in mem'
  <2>1. \A f \in fields : Apart(f, g)
    BY <1>2, <1>4 DEF Alone, Outside, Inside, Apart
  <2> QED BY <2>1 DEF Store
<1> QED BY <1>1, <1>2, <1>3, <1>4, StoredAreAlone, StoringKeeps

-----------------------------------------------------------------------------
(* Where the fields are.                                                   *)

LEMMA ZoneTidy ==
  /\ Tidy({ZoneWord(w) : w \in ZoneIndices})
  /\ \A w \in ZoneIndices : Inside(ZoneWord(w), Zone, Zone + 8 * ZoneWords)
<1>1. ASSUME NEW w \in ZoneIndices
      PROVE  /\ w \in Nat /\ w < ZoneWords /\ ZoneWords \in Nat
             /\ ZoneWord(w).at = Zone + 8 * w /\ ZoneWord(w).size = 8
  BY ManifoldAssumption DEF ManifoldAssumption, ZoneIndices, ZoneWord, Number, Field
<1>2. ASSUME NEW v \in ZoneIndices, NEW w \in ZoneIndices
      PROVE  ZoneWord(v) = ZoneWord(w) \/ Apart(ZoneWord(v), ZoneWord(w))
  BY <1>1 DEF Apart, Zone
<1>3. ASSUME NEW w \in ZoneIndices
      PROVE  /\ ZoneWord(w).at \in Nat /\ ZoneWord(w).size \in Nat \ {0}
             /\ Inside(ZoneWord(w), Zone, Zone + 8 * ZoneWords)
  BY <1>1 DEF Zone, Inside
<1> QED BY <1>2, <1>3 DEF Tidy

LEMMA HeadersTidy ==
  ASSUME NEW dll \in Dlls
  PROVE  /\ Tidy(Headers(Base(dll), dll))
         /\ \A g \in Headers(Base(dll), dll) : Inside(g, Base(dll), Base(dll) + 512)
<1> DEFINE b == Base(dll)
<1>1. b \in Nat
  BY DEF Base
<1> HIDE DEF b
<1>2. ApiCount \in Nat
  BY ManifoldAssumption DEF ManifoldAssumption
<1>3. \A g \in Headers(b, dll) : g.at \in Nat /\ g.size \in Nat \ {0} /\ Inside(g, b, b + 512)
  BY <1>1, <1>2 DEF Headers, Number, Field, Inside
<1>4. \A g, f \in Headers(b, dll) : f = g \/ Apart(f, g)
  BY <1>1 DEF Headers, Number, Field, Apart
<1> QED BY <1>3, <1>4 DEF Tidy, b

LEMMA NameLengths ==
  \A j \in Apis : /\ j \in Nat /\ j < 96 /\ j < ApiCount /\ NameLength[j] \in Nat
                  /\ 1 <= NameLength[j] /\ NameLength[j] <= 63
<1> SUFFICES ASSUME NEW j \in Apis
             PROVE  /\ j \in Nat /\ j < 96 /\ j < ApiCount /\ NameLength[j] \in Nat
                    /\ 1 <= NameLength[j] /\ NameLength[j] <= 63
  OBVIOUS
<1>1. ApiCount \in 1 .. 96 /\ NameLength \in [0 .. ApiCount - 1 -> 1 .. 63]
  BY ManifoldAssumption DEF ManifoldAssumption
<1>2. NameLength[j] \in 1 .. 63
  BY <1>1 DEF Apis
<1>3. ApiCount \in Nat /\ ApiCount <= 96
  BY <1>1
<1>4. j \in Nat /\ j < ApiCount
  BY <1>3 DEF Apis
<1>5. NameLength[j] \in Nat /\ 1 <= NameLength[j] /\ NameLength[j] <= 63
  BY <1>2
<1> QED BY <1>3, <1>4, <1>5

LEMMA ExportsTidy ==
  ASSUME NEW dll \in Dlls, NEW k \in Apis
  PROVE  /\ Tidy(Export(Base(dll), k))
         /\ \A g \in Export(Base(dll), k) : Inside(g, Base(dll) + 512, Base(dll) + 20480)
         /\ \A j \in Apis : j # k => \A f \in Export(Base(dll), j), g \in Export(Base(dll), k) :
              Apart(f, g)
<1> DEFINE b == Base(dll)
<1>1. b \in Nat
  BY DEF Base
<1> HIDE DEF b
<1>2. \A j \in Apis : j \in Nat /\ j < 96 /\ NameLength[j] \in Nat
                     /\ 1 <= NameLength[j] /\ NameLength[j] <= 63
  BY NameLengths
<1>3. ASSUME NEW j \in Apis
      PROVE  \A g \in Export(b, j) : /\ g.at \in Nat /\ g.size \in Nat \ {0}
                                    /\ Inside(g, b + 512, b + 20480)
  BY <1>1, <1>2 DEF Export, String, NamePointer, Ordinal, Stub, Function, Number, Field,
    Inside, func_array_rva, name_array_rva, ord_array_rva, string_pool_rva, tramp_pool_rva,
    StringStride, TrampStride
<1>4. \A f, g \in Export(b, k) : f = g \/ Apart(f, g)
  BY <1>1, <1>2 DEF Export, String, NamePointer, Ordinal, Stub, Function, Number, Field,
    Apart, func_array_rva, name_array_rva, ord_array_rva, string_pool_rva, tramp_pool_rva,
    StringStride, TrampStride
<1>5. ASSUME NEW j \in Apis, j # k
      PROVE  \A f \in Export(b, j), g \in Export(b, k) : Apart(f, g)
  BY <1>1, <1>2, <1>5 DEF Export, String, NamePointer, Ordinal, Stub, Function, Number, Field,
    Apart, func_array_rva, name_array_rva, ord_array_rva, string_pool_rva, tramp_pool_rva,
    StringStride, TrampStride
<1> QED BY <1>3, <1>4, <1>5 DEF Tidy, b

LEMMA ChainTidy ==
  /\ Tidy(ChainFields)
  /\ \A g \in ChainFields : Inside(g, 48, 65536)
<1>1. \A g \in ChainFields : g.at \in Nat /\ g.size \in Nat \ {0} /\ Inside(g, 48, 65536)
  BY DEF ChainFields, Links, NamesOf, ListEnd, Entry, Base, Text, Teb, Peb, Ldr, Number, Field,
    Inside
<1>2. \A g, f \in ChainFields : f = g \/ Apart(f, g)
  BY DEF ChainFields, Links, NamesOf, ListEnd, Entry, Base, Text, Teb, Peb, Ldr, Number, Field,
    Apart
<1> QED BY <1>1, <1>2 DEF Tidy

-----------------------------------------------------------------------------
(* What a step that stores elsewhere leaves standing.                      *)

LEMMA ZoneKept ==
  ASSUME ZoneFilled, NEW lo \in Nat, NEW hi \in Nat, hi <= Zone, Keeps(lo, hi)
  PROVE  ZoneFilled'
<1>1. ASSUME NEW w \in ZoneIndices PROVE Alone(ZoneWord(w))'
  <2>1. Alone(ZoneWord(w)) /\ Outside(ZoneWord(w), lo, hi)
    BY ZoneTidy DEF ZoneFilled, Outside, Inside, Alone, Zone
  <2> QED BY <2>1 DEF Keeps
<1> QED BY <1>1 DEF ZoneFilled, ZoneWord

LEMMA ChainKept ==
  ASSUME ChainBuilt, NEW lo \in Nat, NEW hi \in Nat, hi <= 48 \/ 65536 <= lo, Keeps(lo, hi)
  PROVE  ChainBuilt'
<1>1. ASSUME NEW g \in ChainFields PROVE Alone(g)'
  <2>1. Alone(g) /\ Outside(g, lo, hi)
    BY ChainTidy DEF ChainBuilt, Outside, Inside, Alone
  <2> QED BY <2>1 DEF Keeps
<1>2. ChainFields' = ChainFields
  BY DEF ChainFields, Links, NamesOf, ListEnd
<1> QED BY <1>1, <1>2 DEF ChainBuilt

LEMMA TableKept ==
  ASSUME NEW dll \in Dlls, NEW n \in 0 .. ApiCount, Table(dll, n),
         NEW lo \in Nat, NEW hi \in Nat,
         hi <= Base(dll) \/ Base(dll) + 20480 <= lo, Keeps(lo, hi)
  PROVE  Table(dll, n)'
<1>1. Base(dll) \in Nat
  BY DEF Base
<1>2. ASSUME NEW g \in Headers(Base(dll), dll) PROVE Alone(g)'
  <2>1. Alone(g) /\ Outside(g, lo, hi)
    BY <1>1, HeadersTidy DEF Table, Outside, Inside, Alone
  <2> QED BY <2>1 DEF Keeps
<1>3. ASSUME NEW k \in 0 .. n - 1, NEW g \in Export(Base(dll), k) PROVE Alone(g)'
  <2>1. k \in Apis
    BY ManifoldAssumption DEF ManifoldAssumption, Apis
  <2>2. Alone(g) /\ Outside(g, lo, hi)
    BY <1>1, <2>1, ExportsTidy DEF Table, Outside, Inside, Alone
  <2> QED BY <2>2 DEF Keeps
<1> QED BY <1>2, <1>3 DEF Table

-----------------------------------------------------------------------------
LEMMA InitEstablishes == Init => ManifoldInv
<1> SUFFICES ASSUME Init PROVE ManifoldInv
  OBVIOUS
<1>1. /\ mem \in {Leftovers, {}} /\ step = "zone" /\ i = 0
      /\ called = [what |-> "nothing", api |-> 0] /\ rax = "none"
  BY DEF Init
<1>2. FieldsOK
  BY <1>1, ManifoldAssumption DEF FieldsOK, ManifoldAssumption
<1>3. BuiltInOrder
  <2>1. 0 \in 0 .. ApiCount
    BY ManifoldAssumption DEF ManifoldAssumption
  <2> QED BY <1>1, <2>1 DEF BuiltInOrder, Exports, Finished, Running
<1>4. CallsInOrder /\ CallsAreAnswered
  BY <1>1 DEF CallsInOrder, CallsAreAnswered, Running
<1> QED BY <1>2, <1>3, <1>4 DEF ManifoldInv

LEMMA CallsKept ==
  ASSUME CallsInOrder, CallsAreAnswered, ~Running, UNCHANGED calls
  PROVE  CallsInOrder' /\ CallsAreAnswered'
BY DEF CallsInOrder, CallsAreAnswered, calls

LEMMA DeployPreserves ==
  ASSUME ManifoldInv, DeployGodObject
  PROVE  ManifoldInv'
<1> DEFINE fields == {ZoneWord(w) : w \in ZoneIndices}
<1>1. step = "zone" /\ step' = "chain" /\ i' = i /\ UNCHANGED calls /\ mem' = Store(fields)
  BY DEF DeployGodObject, ZoneWord
<1> HIDE DEF fields
<1>2. Tidy(fields) /\ \A f \in fields : Inside(f, Zone, Zone + 8 * ZoneWords)
  BY ZoneTidy DEF fields
<1>3. Zone \in Nat /\ Zone + 8 * ZoneWords \in Nat
  BY ManifoldAssumption DEF ManifoldAssumption, Zone
<1>4. FieldsOK' /\ \A g \in fields : Alone(g)'
  BY <1>1, <1>2, <1>3, StoreFacts DEF ManifoldInv
<1>5. ZoneFilled'
  BY <1>4 DEF fields, ZoneFilled, ZoneWord
<1>6. BuiltInOrder'
  BY <1>1, <1>5 DEF ManifoldInv, BuiltInOrder, Exports, Finished, Running
<1> QED BY <1>1, <1>4, <1>6, CallsKept DEF ManifoldInv, Running

LEMMA ChainPreserves ==
  ASSUME ManifoldInv, BuildChain
  PROVE  ManifoldInv'
<1> DEFINE pages == {Teb, Peb, Ldr, Entry("ntdll"), Entry("kernel32")}
           Kept(f) == \A p \in pages : Apart(f, Field(p, 256, "page", 0))
<1>1. step = "chain" /\ step' = "ntdll" /\ i' = i /\ UNCHANGED calls
  BY DEF BuildChain
<1>2. mem' = {g \in mem : Kept(g) /\ \A f \in ChainFields : Apart(f, g)} \cup ChainFields
  BY DEF BuildChain, ChainFields
<1>3. /\ mem' \subseteq mem \cup ChainFields /\ ChainFields \subseteq mem'
      /\ \A h \in mem' : h \in ChainFields \/ \A f \in ChainFields : Apart(f, h)
  BY <1>2
<1>4. \A f \in ChainFields : f.at \in Nat /\ f.size \in Nat \ {0} /\ Inside(f, 48, 65536)
  BY ChainTidy DEF Tidy
<1>5. FieldsOK'
  BY <1>3, <1>4 DEF ManifoldInv, FieldsOK
<1>6. ChainBuilt'
  <2>1. \A g \in ChainFields : Alone(g)'
    BY <1>3, ChainTidy, StoredAreAlone
  <2>2. ChainFields' = ChainFields
    BY DEF ChainFields, Links, NamesOf, ListEnd
  <2> QED BY <2>1, <2>2 DEF ChainBuilt
<1>7. Keeps(0, 65536)
  <2>1. ASSUME NEW g \in mem, Alone(g), Outside(g, 0, 65536) PROVE g \in mem'
    <3>1. g.at \in Nat /\ g.size \in Nat \ {0} /\ 65536 <= g.at
      BY <2>1 DEF Alone, Outside
    <3>2. \A f \in ChainFields : Apart(f, g)
      BY <1>4, <3>1 DEF Apart, Inside
    <3>3. Kept(g)
      BY <3>1 DEF Apart, Field, Teb, Peb, Ldr, Entry
    <3> QED BY <1>2, <3>2, <3>3
  <2>2. \A f \in ChainFields : f.at \in Nat /\ f.size \in Nat /\ Inside(f, 0, 65536)
    BY <1>4 DEF Inside
  <2> QED BY <1>3, <2>1, <2>2, StoringKeeps
<1>8. ZoneFilled'
  BY <1>1, <1>7, ZoneKept DEF ManifoldInv, BuiltInOrder, Zone
<1>10. NoBlink'
  <2>1. \A f \in ChainFields : f.at # Blink
    BY DEF ChainFields, Links, NamesOf, ListEnd, Entry, Teb, Peb, Ldr, Number, Field, Blink
  <2>2. ASSUME NEW f \in mem, Kept(f) PROVE f.at # Blink
    <3>1. f.at \in Nat /\ f.size \in Nat \ {0} /\ Apart(f, Field(Ldr, 256, "page", 0))
      BY <2>2 DEF ManifoldInv, FieldsOK
    <3> QED BY <3>1 DEF Apart, Field, Ldr, Blink
  <2> QED BY <1>2, <2>1, <2>2 DEF NoBlink
<1>9. BuiltInOrder'
  BY <1>1, <1>6, <1>8, <1>10 DEF ManifoldInv, BuiltInOrder, Exports, Finished, Running
<1> QED BY <1>1, <1>5, <1>9, CallsKept DEF ManifoldInv, Running

-----------------------------------------------------------------------------
(* The steps of one table keep the zone, the chain and the other table.    *)
LEMMA TableSteps ==
  ASSUME NEW dll \in Dlls, step \in {dll, Exports(dll)}
  PROVE  /\ step \notin {"zone", "chain"} /\ ~Running
         /\ dll = "kernel32" => Finished("ntdll")
<1>1. CASE dll = "ntdll"
  <2>1. step \in {"ntdll", "ntdll exports"}
    BY <1>1 DEF Exports
  <2> QED BY <1>1, <2>1 DEF Running
<1>2. CASE dll = "kernel32"
  <2>1. step \in {"kernel32", "kernel32 exports"}
    BY <1>2 DEF Exports
  <2> QED BY <1>2, <2>1 DEF Finished, Running
<1> QED BY <1>1, <1>2 DEF Dlls

LEMMA BuiltSoFar ==
  ASSUME BuiltInOrder, NEW dll \in Dlls, step \in {dll, Exports(dll)}
  PROVE  /\ ZoneFilled /\ ChainBuilt /\ NoBlink
         /\ dll = "kernel32" => Table("ntdll", ApiCount)
         /\ step = Exports(dll) => Table(dll, i)
<1>1. step \notin {"zone", "chain"} /\ (dll = "kernel32" => Finished("ntdll"))
  BY TableSteps
<1>2. step # "zone" /\ step \notin {"zone", "chain"}
  BY <1>1
<1>3. ZoneFilled /\ ChainBuilt /\ NoBlink
  BY <1>2, Zenon DEF BuiltInOrder
<1>4. "ntdll" \in Dlls
  BY DEF Dlls
<1>5. \A d \in Dlls : (step = Exports(d) => Table(d, i)) /\ (Finished(d) => Table(d, ApiCount))
  BY Zenon DEF BuiltInOrder
<1> QED BY <1>1, <1>3, <1>4, <1>5, Zenon

LEMMA OthersKept ==
  ASSUME NEW dll \in Dlls, step \in {dll, Exports(dll)}, BuiltInOrder,
         NEW lo \in Nat, NEW hi \in Nat, lo = Base(dll), hi = lo + 20480, Keeps(lo, hi),
         NEW fields, mem' \subseteq mem \cup fields,
         \A f \in fields : f.at \in Nat /\ f.size \in Nat \ {0} /\ Inside(f, lo, hi)
  PROVE  /\ ZoneFilled' /\ ChainBuilt' /\ NoBlink'
         /\ dll = "kernel32" => Table("ntdll", ApiCount)'
<1>1. hi <= Zone /\ 65536 <= lo
  BY DEF Base, Zone
<1>3. ZoneFilled' /\ ChainBuilt'
  <2>1. ZoneFilled /\ ChainBuilt
    BY BuiltSoFar
  <2> QED BY <1>1, <2>1, ZoneKept, ChainKept
<1>2. NoBlink'
  <2>1. NoBlink
    BY BuiltSoFar
  <2>2. \A f \in fields : f.at # Blink
    BY <1>1 DEF Inside, Blink
  <2> QED BY <2>1, <2>2 DEF NoBlink
<1>4. ASSUME dll = "kernel32" PROVE Table("ntdll", ApiCount)'
  <2>1. "ntdll" \in Dlls
    BY DEF Dlls
  <2>2. Table("ntdll", ApiCount)
    BY <1>4, BuiltSoFar
  <2>3. Base("ntdll") + 20480 <= lo
    BY <1>4 DEF Base
  <2>4. ApiCount \in 0 .. ApiCount
    BY ManifoldAssumption DEF ManifoldAssumption
  <2> QED BY <2>1, <2>2, <2>3, <2>4, TableKept
<1> QED BY <1>2, <1>3, <1>4

(* The invariant while a table is built, in the state after a step.        *)
LEMMA TableGoesOn ==
  ASSUME NEW dll \in Dlls, step' = Exports(dll), i' \in 0 .. ApiCount,
         ZoneFilled', ChainBuilt', NoBlink', dll = "kernel32" => Table("ntdll", ApiCount)',
         Table(dll, i)'
  PROVE  BuiltInOrder'
<1>1. CASE dll = "ntdll"
  <2>1. step' = "ntdll exports"
    BY <1>1 DEF Exports
  <2>2. \A d \in Dlls : (step' = Exports(d) => d = dll) /\ ~Finished(d)'
    BY <1>1, <2>1 DEF Exports, Finished, Dlls
  <2>3. ~Running'
    BY <2>1 DEF Running
  <2> QED BY <2>1, <2>2, <2>3 DEF BuiltInOrder, Exports
<1>2. CASE dll = "kernel32"
  <2>1. step' = "kernel32 exports"
    BY <1>2 DEF Exports
  <2>2. \A d \in Dlls : (step' = Exports(d) => d = dll) /\ (Finished(d)' => d = "ntdll")
    BY <1>2, <2>1 DEF Exports, Finished, Dlls
  <2>3. ~Running'
    BY <2>1 DEF Running
  <2> QED BY <1>2, <2>1, <2>2, <2>3 DEF BuiltInOrder, Exports
<1> QED BY <1>1, <1>2 DEF Dlls

LEMMA StartTablePreserves ==
  ASSUME ManifoldInv, NEW dll \in Dlls, StartTable(dll)
  PROVE  ManifoldInv'
<1> DEFINE b == Base(dll)
           fields == Headers(b, dll)
<1>1. step = dll /\ step' = Exports(dll) /\ i' = 0 /\ UNCHANGED calls
  BY DEF StartTable
<1>2. mem' = {g \in mem : Apart(g, Field(b, 20480, "module", 0))} \cup fields
  BY DEF StartTable
<1>3. b \in Nat /\ b + 20480 \in Nat
  BY DEF Base
<1>4. Tidy(fields) /\ \A f \in fields : Inside(f, b, b + 512)
  BY HeadersTidy
<1> HIDE DEF b, fields
<1>5. \A f \in fields : f.at \in Nat /\ f.size \in Nat \ {0} /\ Inside(f, b, b + 20480)
  BY <1>3, <1>4 DEF Tidy, Inside
<1>6. \A g \in mem : Apart(g, Field(b, 20480, "module", 0)) <=> Outside(g, b, b + 20480)
  BY <1>3 DEF Apart, Outside, Field, ManifoldInv, FieldsOK
<1>7. /\ mem' \subseteq mem \cup fields /\ fields \subseteq mem'
      /\ \A g \in mem : Outside(g, b, b + 20480) => g \in mem'
      /\ \A h \in mem' : h \in fields \/ (h \in mem /\ Outside(h, b, b + 20480))
  BY <1>2, <1>6
<1>8. FieldsOK'
  BY <1>5, <1>7 DEF ManifoldInv, FieldsOK
<1>9. \A g \in fields : Alone(g)'
  <2>1. ASSUME NEW h \in mem', h \notin fields PROVE \A f \in fields : Apart(f, h)
    <3>1. h \in mem /\ Outside(h, b, b + 20480) /\ h.at \in Nat /\ h.size \in Nat \ {0}
      BY <1>7, <2>1 DEF ManifoldInv, FieldsOK
    <3> QED BY <1>3, <1>5, <3>1 DEF Outside, Inside, Apart
  <2> QED BY <1>4, <1>7, <2>1, StoredAreAlone
<1>10. Keeps(b, b + 20480)
  <2>1. \A f \in fields : f.at \in Nat /\ f.size \in Nat /\ Inside(f, b, b + 20480)
    BY <1>5
  <2>2. \A g \in mem : Alone(g) /\ Outside(g, b, b + 20480) => g \in mem'
    BY <1>7
  <2>3. mem' \subseteq mem \cup fields
    BY <1>7
  <2> QED BY <1>3, <2>1, <2>2, <2>3, StoringKeeps
<1>11. /\ ZoneFilled' /\ ChainBuilt' /\ NoBlink'
       /\ dll = "kernel32" => Table("ntdll", ApiCount)'
  BY <1>1, <1>3, <1>5, <1>7, <1>10, OthersKept DEF ManifoldInv, b
<1>12. Table(dll, i)'
  <2>1. 0 .. 0 - 1 = {}
    OBVIOUS
  <2>2. 0 .. i' - 1 = {}
    BY <1>1, <2>1
  <2> QED BY <1>9, <2>2 DEF Table, b, fields, Headers
<1>13. BuiltInOrder'
  <2>1. i' \in 0 .. ApiCount
    BY <1>1, ManifoldAssumption DEF ManifoldAssumption
  <2> QED BY <1>1, <1>11, <1>12, <2>1, TableGoesOn
<1> QED BY <1>1, <1>8, <1>13, CallsKept, TableSteps DEF ManifoldInv

LEMMA AddExportPreserves ==
  ASSUME ManifoldInv, NEW dll \in Dlls, AddExport(dll)
  PROVE  ManifoldInv'
<1> DEFINE b == Base(dll)
           fields == Export(b, i)
<1>1. /\ step = Exports(dll) /\ i < ApiCount /\ i' = i + 1 /\ step' = step
      /\ UNCHANGED calls /\ mem' = Store(fields)
  BY DEF AddExport
<1>2. b \in Nat /\ b + 512 \in Nat /\ b + 20480 \in Nat
  BY DEF Base
<1>3. i \in Apis /\ i \in Nat /\ i + 1 \in 0 .. ApiCount /\ i \in 0 .. ApiCount
  <2>1. i \in 0 .. ApiCount
    BY DEF ManifoldInv, BuiltInOrder
  <2>2. ApiCount \in Nat
    BY ManifoldAssumption DEF ManifoldAssumption
  <2>3. i < ApiCount
    BY <1>1
  <2> QED BY <2>1, <2>2, <2>3 DEF Apis
<1>4. /\ Tidy(fields) /\ \A f \in fields : Inside(f, b + 512, b + 20480)
      /\ \A k \in Apis : k # i => \A f \in Export(b, k), g \in fields : Apart(f, g)
  BY <1>3, ExportsTidy
<1> HIDE DEF b, fields
<1>5. \A f \in fields : f.at \in Nat /\ f.size \in Nat \ {0} /\ Inside(f, b, b + 20480)
  BY <1>2, <1>4 DEF Tidy, Inside
<1>6. FieldsOK' /\ (\A g \in fields : Alone(g)') /\ Keeps(b, b + 20480) /\ Keeps(b + 512, b + 20480)
  BY <1>1, <1>2, <1>4, <1>5, StoreFacts DEF ManifoldInv
<1>7. /\ ZoneFilled' /\ ChainBuilt' /\ NoBlink'
      /\ dll = "kernel32" => Table("ntdll", ApiCount)'
  <2>1. mem' \subseteq mem \cup fields
    BY <1>1 DEF Store
  <2> QED BY <1>1, <1>2, <1>5, <1>6, <2>1, OthersKept DEF ManifoldInv, b
<1>8. Table(dll, i)
  BY <1>1, BuiltSoFar DEF ManifoldInv
<1>9. ASSUME NEW g \in Headers(b, dll) PROVE Alone(g)'
  <2>1. Alone(g) /\ Inside(g, b, b + 512)
    BY <1>8, HeadersTidy DEF Table, b
  <2>2. Outside(g, b + 512, b + 20480)
    BY <2>1 DEF Inside, Outside
  <2> QED BY <1>6, <2>1, <2>2 DEF Keeps
<1>10. ASSUME NEW k \in 0 .. i, NEW g \in Export(b, k) PROVE Alone(g)'
  <2>1. CASE k = i
    BY <1>6, <2>1 DEF fields
  <2>2. CASE k # i
    <3>1. k \in 0 .. i - 1 /\ k \in Apis
      <4>1. ApiCount \in Nat
        BY ManifoldAssumption DEF ManifoldAssumption
      <4>2. i \in Nat /\ i < ApiCount
        BY <1>1, <1>3
      <4> QED BY <2>2, <4>1, <4>2 DEF Apis
    <3>2. Alone(g) /\ \A f \in fields : Apart(g, f)
      BY <1>4, <1>8, <2>2, <3>1 DEF Table, b
    <3>3. \A f \in fields : Apart(f, g)
      BY <3>2 DEF Apart
    <3>4. g \in mem' /\ \A h \in mem' : h \in mem \/ h \in fields
      BY <1>1, <3>2, <3>3 DEF Store, Alone
    <3> QED BY <3>2, <3>3, <3>4 DEF Alone
  <2> QED BY <2>1, <2>2
<1>11. Table(dll, i)'
  <2>1. i' - 1 = i
    BY <1>1, <1>3
  <2> QED BY <1>9, <1>10, <2>1 DEF Table, b
<1>12. BuiltInOrder'
  <2>1. step' = Exports(dll) /\ i' \in 0 .. ApiCount
    BY <1>1, <1>3
  <2> QED BY <1>7, <1>11, <2>1, TableGoesOn
<1> QED BY <1>1, <1>6, <1>12, CallsKept, TableSteps DEF ManifoldInv

LEMMA SameMemory ==
  ASSUME mem' = mem
  PROVE  /\ \A g : Alone(g)' <=> Alone(g)
         /\ FieldsOK' <=> FieldsOK
         /\ ZoneFilled' <=> ZoneFilled
         /\ ChainBuilt' <=> ChainBuilt
         /\ NoBlink' <=> NoBlink
         /\ \A dll, n : Table(dll, n)' <=> Table(dll, n)
<1>1. \A g : Alone(g)' <=> Alone(g)
  BY DEF Alone
<1>2. ChainFields' = ChainFields
  BY DEF ChainFields, Links, NamesOf, ListEnd
<1>3. \A dll, b, k : Headers(b, dll)' = Headers(b, dll) /\ Export(b, k)' = Export(b, k)
  BY DEF Headers, Export, String, NamePointer, Ordinal, Stub, Function
<1>4. \A w : ZoneWord(w)' = ZoneWord(w)
  BY DEF ZoneWord
<1>5. FieldsOK' <=> FieldsOK
  BY DEF FieldsOK
<1>6. NoBlink' <=> NoBlink
  BY DEF NoBlink
<1> QED BY <1>1, <1>2, <1>3, <1>4, <1>5, <1>6 DEF ZoneFilled, ChainBuilt, Table

LEMMA EndTablePreserves ==
  ASSUME ManifoldInv, NEW dll \in Dlls, EndTable(dll)
  PROVE  ManifoldInv'
<1>1. /\ step = Exports(dll) /\ i = ApiCount /\ mem' = mem /\ i' = i /\ UNCHANGED calls
      /\ step' = (IF dll = "ntdll" THEN "kernel32" ELSE "abyss")
  BY DEF EndTable
<1>2. /\ ZoneFilled /\ ChainBuilt /\ NoBlink /\ Table(dll, ApiCount)
      /\ dll = "kernel32" => Table("ntdll", ApiCount)
  BY <1>1, BuiltSoFar DEF ManifoldInv
<1>3. ZoneFilled' /\ ChainBuilt' /\ NoBlink' /\ FieldsOK'
  BY <1>1, <1>2, SameMemory DEF ManifoldInv
<1>4. Table(dll, ApiCount)' /\ (dll = "kernel32" => Table("ntdll", ApiCount)')
  BY <1>1, <1>2, SameMemory
<1>5. i' \in 0 .. ApiCount
  BY <1>1 DEF ManifoldInv, BuiltInOrder
<1>6. BuiltInOrder'
  <2>1. CASE dll = "ntdll"
    <3>1. step' = "kernel32"
      BY <1>1, <2>1
    <3>2. \A d \in Dlls : step' # Exports(d) /\ (Finished(d)' => d = dll) /\ ~Running'
      BY <2>1, <3>1 DEF Exports, Finished, Running
    <3> QED BY <1>3, <1>4, <1>5, <3>1, <3>2 DEF BuiltInOrder, Exports
  <2>2. CASE dll = "kernel32"
    <3>1. step' = "abyss"
      BY <1>1, <2>2
    <3>2. \A d \in Dlls : step' # Exports(d) /\ ~Running'
      BY <3>1 DEF Exports, Running
    <3>3. \A d \in Dlls : Table(d, ApiCount)'
      BY <1>4, <2>2 DEF Dlls
    <3> QED BY <1>3, <1>5, <3>1, <3>2, <3>3 DEF BuiltInOrder, Exports
  <2> QED BY <2>1, <2>2 DEF Dlls
<1> QED BY <1>1, <1>3, <1>6, CallsKept, TableSteps DEF ManifoldInv

LEMMA AbyssPreserves ==
  ASSUME ManifoldInv, PlantAbyss
  PROVE  ManifoldInv'
<1>1. /\ step = "abyss" /\ step' = "running" /\ i' = i /\ UNCHANGED calls
      /\ mem' = Store({AbyssStub})
  BY DEF PlantAbyss, AbyssStub
<1>2. Tidy({AbyssStub}) /\ \A f \in {AbyssStub} : Inside(f, 0, 17)
  BY DEF Tidy, Inside, AbyssStub, Field
<1>3. FieldsOK' /\ Alone(AbyssStub)' /\ Keeps(0, 17)
  BY <1>1, <1>2, StoreFacts DEF ManifoldInv
<1>4. /\ ZoneFilled /\ ChainBuilt /\ NoBlink /\ ApiCount \in 0 .. ApiCount
      /\ \A dll \in Dlls : Table(dll, ApiCount)
  BY <1>1, ManifoldAssumption DEF ManifoldAssumption, ManifoldInv, BuiltInOrder, Finished
<1>5. ZoneFilled' /\ ChainBuilt' /\ NoBlink'
  <2>1. ZoneFilled' /\ ChainBuilt'
    BY <1>3, <1>4, ZoneKept, ChainKept DEF Zone
  <2>2. mem' \subseteq mem \cup {AbyssStub}
    BY <1>1 DEF Store
  <2>3. NoBlink'
    <3>1. AbyssStub.at # Blink
      BY DEF AbyssStub, Field, Blink
    <3>2. \A f \in mem : f.at # Blink
      BY <1>4 DEF NoBlink
    <3>3. \A f \in mem' : f.at # Blink
      BY <2>2, <3>1, <3>2
    <3>4. Blink' = Blink
      BY DEF Blink
    <3> QED BY <3>3, <3>4 DEF NoBlink
  <2> QED BY <2>1, <2>3
<1>6. \A dll \in Dlls : Table(dll, ApiCount)'
  <2>1. \A dll \in Dlls : 17 <= Base(dll)
    BY DEF Base
  <2> QED BY <1>3, <1>4, <2>1, TableKept
<1>7. BuiltInOrder'
  <2>1. \A d \in Dlls : step' # Exports(d)
    BY <1>1 DEF Exports
  <2>2. AbyssStub' = AbyssStub
    BY DEF AbyssStub
  <2> QED BY <1>1, <1>3, <1>5, <1>6, <2>1, <2>2 DEF BuiltInOrder, ManifoldInv
<1> QED BY <1>1, <1>3, <1>7, CallsKept DEF ManifoldInv, Running

(* The payload changes nothing in memory.                                  *)
LEMMA PayloadPreserves ==
  ASSUME ManifoldInv, mem' = mem, step' = step, i' = i, CallsInOrder', CallsAreAnswered'
  PROVE  ManifoldInv'
<1>1. FieldsOK'
  BY SameMemory DEF ManifoldInv
<1>2. BuiltInOrder'
  <2>1. AbyssStub' = AbyssStub
    BY DEF AbyssStub
  <2> QED BY <2>1, SameMemory DEF ManifoldInv, BuiltInOrder, Exports, Finished, Running
<1> QED BY <1>1, <1>2 DEF ManifoldInv

-----------------------------------------------------------------------------
(* What the payload finds.                                                 *)

LEMMA NumberAlone ==
  ASSUME NEW at, NEW size, NEW n, Alone(Number(at, size, n))
  PROVE  Load(at, size, "number") = n
<1>1. /\ Number(at, size, n).at = at /\ Number(at, size, n).size = size
      /\ Number(at, size, n).kind = "number" /\ Number(at, size, n).value = n
  BY DEF Number, Field
<1> QED BY <1>1, LoadAlone

(* The search finds a name at one place, and there its own stub.           *)
LEMMA ResolvesTo ==
  ASSUME FieldsOK, NEW dll \in Dlls, Table(dll, ApiCount), NEW api \in Apis
  PROVE  Resolve(Base(dll), api) = {api}
<1> DEFINE b == Base(dll)
           dir == b + Dword(b + Dword(b + 60) + 136)
           found == {j \in 0 .. Dword(dir + 24) - 1 :
                       \E f \in mem : f.kind = "string" /\ f.value = api
                          /\ f.at = b + Dword(b + Dword(dir + 32) + 4 * j)}
           Target(j) == b + Dword(b + Dword(dir + 28)
                                  + 4 * Load(b + Dword(dir + 36) + 2 * j, 2, "number"))
           stubs == {g \in mem : g.kind = "stub" /\ \E j \in found : g.at = Target(j)}
<1>1. b \in Nat
  BY DEF Base
<1>2. \A g \in Headers(b, dll) : Alone(g)
  BY DEF Table
<1>3. \A j \in Apis : \A g \in Export(b, j) : Alone(g)
  BY DEF Table, Apis
<1> HIDE DEF b
<1>4. Dword(b + 60) = 64 /\ Dword(b + 200) = 256
  <2>1. Number(b + 60, 4, 64) \in Headers(b, dll) /\ Number(b + 200, 4, 256) \in Headers(b, dll)
    BY DEF Headers
  <2> QED BY <1>2, <2>1, NumberAlone DEF Dword
<1>5. /\ Dword(b + 280) = ApiCount /\ Dword(b + 284) = 512
      /\ Dword(b + 288) = 1024 /\ Dword(b + 292) = 1536
  <2>1. /\ Number(b + 280, 4, ApiCount) \in Headers(b, dll)
        /\ Number(b + 284, 4, 512) \in Headers(b, dll)
        /\ Number(b + 288, 4, 1024) \in Headers(b, dll)
        /\ Number(b + 292, 4, 1536) \in Headers(b, dll)
    BY DEF Headers, func_array_rva, name_array_rva, ord_array_rva
  <2> QED BY <1>2, <2>1, NumberAlone DEF Dword
<1>6. dir = b + 256
  <2>1. b + 64 + 136 = b + 200
    BY <1>1
  <2> QED BY <1>4, <2>1
<1>7. dir + 24 = b + 280 /\ dir + 28 = b + 284 /\ dir + 32 = b + 288 /\ dir + 36 = b + 292
  BY <1>1, <1>6
<1>8. /\ Dword(dir + 24) = ApiCount /\ Dword(dir + 28) = 512
      /\ Dword(dir + 32) = 1024 /\ Dword(dir + 36) = 1536
  BY <1>5, <1>7
<1>9. ASSUME NEW j \in Apis
      PROVE  /\ Dword(b + 1024 + 4 * j) = 2048 + 64 * j
             /\ Load(b + 1536 + 2 * j, 2, "number") = j
             /\ Dword(b + 512 + 4 * j) = 8192 + 32 * j
  <2>1. /\ Number(b + 1024 + 4 * j, 4, 2048 + 64 * j) \in Export(b, j)
        /\ Number(b + 1536 + 2 * j, 2, j) \in Export(b, j)
        /\ Number(b + 512 + 4 * j, 4, 8192 + 32 * j) \in Export(b, j)
    BY DEF Export, NamePointer, Ordinal, Function, func_array_rva, name_array_rva, ord_array_rva,
      string_pool_rva, tramp_pool_rva, StringStride, TrampStride
  <2> QED BY <1>3, <2>1, NumberAlone DEF Dword
<1>10. ASSUME NEW j \in Apis
       PROVE  /\ b + Dword(b + Dword(dir + 32) + 4 * j) = String(b, j).at
              /\ Target(j) = Stub(b, j).at
  <2>1. j \in Nat
    BY NameLengths
  <2>2. String(b, j).at = b + 2048 + 64 * j /\ Stub(b, j).at = b + 8192 + 32 * j
    BY DEF String, Stub, Field, string_pool_rva, tramp_pool_rva, StringStride, TrampStride
  <2>3. b + Dword(b + Dword(dir + 32) + 4 * j) = b + (2048 + 64 * j)
    BY <1>8, <1>9
  <2>4. Target(j) = b + (8192 + 32 * j)
    BY <1>8, <1>9
  <2> QED BY <1>1, <2>1, <2>2, <2>3, <2>4
<1>11. ASSUME NEW j \in Apis, NEW f \in mem
       PROVE  /\ f.at = String(b, j).at => f = String(b, j)
              /\ f.at = Stub(b, j).at => f = Stub(b, j)
  <2>1. Alone(String(b, j)) /\ Alone(Stub(b, j))
    BY <1>3 DEF Export
  <2> QED BY <2>1, FoundAlone
<1>12. \A j \in Apis : /\ String(b, j) \in mem /\ String(b, j).kind = "string"
                       /\ String(b, j).value = j
                       /\ Stub(b, j) \in mem /\ Stub(b, j).kind = "stub" /\ Stub(b, j).value = j
  BY <1>3 DEF Export, Alone, String, Stub, Field
<1>13. 0 .. Dword(dir + 24) - 1 = Apis
  BY <1>8 DEF Apis
<1> HIDE DEF dir, Target
<1>14. found = {api}
  <2>1. ASSUME NEW j \in found PROVE j = api
    <3>1. j \in Apis
      BY <1>13
    <3>2. PICK f \in mem : f.value = api /\ f.at = b + Dword(b + Dword(dir + 32) + 4 * j)
      OBVIOUS
    <3>3. f = String(b, j)
      BY <1>10, <1>11, <3>1, <3>2
    <3> QED BY <1>12, <3>1, <3>2, <3>3
  <2>2. api \in found
    <3>1. api \in 0 .. Dword(dir + 24) - 1
      BY <1>13
    <3>2. /\ String(b, api) \in mem /\ String(b, api).kind = "string"
          /\ String(b, api).value = api
          /\ String(b, api).at = b + Dword(b + Dword(dir + 32) + 4 * api)
      BY <1>10, <1>12
    <3> QED BY <3>1, <3>2
  <2> QED BY <2>1, <2>2
<1> HIDE DEF found
<1>15. stubs = {Stub(b, api)}
  BY <1>10, <1>11, <1>12, <1>14
<1>16. Resolve(b, api) = {f.value : f \in stubs}
  BY DEF Resolve, found, stubs, Target, dir
<1> QED BY <1>12, <1>15, <1>16 DEF b

(* A caught call is reported by its own number.                            *)
LEMMA CaughtPreserves ==
  ASSUME ManifoldInv, CallExport \/ CallNull
  PROVE  ManifoldInv'
<1>1. CASE CallExport
  <2>1. PICK dll \in Dlls, api \in Apis :
          Calls("export", api) /\ \E stub \in Resolve(Base(dll), api) : UniversalApiTrap(stub)
    BY <1>1 DEF CallExport
  <2>2. /\ Running /\ mem' = mem /\ step' = step /\ i' = i
        /\ called' = [what |-> "export", api |-> api]
    BY <2>1 DEF Calls, Running
  <2>3. FieldsOK /\ Table(dll, ApiCount)
    BY <2>2 DEF ManifoldInv, BuiltInOrder, Finished, Running
  <2>4. UniversalApiTrap(api)
    BY <2>1, <2>3, ResolvesTo
  <2>5. GlobalLastAPI' = api
    <3>1. api < ApiCount
      BY NameLengths
    <3> QED BY <2>4, <3>1 DEF UniversalApiTrap
  <2>6. CallsInOrder' /\ CallsAreAnswered'
    BY <2>2, <2>5 DEF CallsInOrder, CallsAreAnswered, Running
  <2> QED BY <2>2, <2>6, PayloadPreserves
<1>2. CASE CallNull
  <2>1. /\ Running /\ mem' = mem /\ step' = step /\ i' = i
        /\ called' = [what |-> "null", api |-> Abyss]
        /\ UniversalApiTrap(Load(0, 17, "stub"))
    BY <1>2 DEF CallNull, Calls, Running
  <2>2. Load(0, 17, "stub") = Abyss
    <3>1. Alone(AbyssStub)
      BY <2>1 DEF ManifoldInv, BuiltInOrder
    <3>2. /\ AbyssStub.at = 0 /\ AbyssStub.size = 17
          /\ AbyssStub.kind = "stub" /\ AbyssStub.value = Abyss
      BY DEF AbyssStub, Field
    <3>3. Load(AbyssStub.at, AbyssStub.size, AbyssStub.kind) = AbyssStub.value
      BY <3>1, LoadAlone
    <3> QED BY <3>2, <3>3
  <2>3. GlobalLastAPI' = Abyss
    BY <2>1, <2>2 DEF UniversalApiTrap
  <2>4. CallsInOrder' /\ CallsAreAnswered'
    BY <2>1, <2>3 DEF CallsInOrder, CallsAreAnswered, Running
  <2> QED BY <2>1, <2>4, PayloadPreserves
<1> QED BY <1>1, <1>2

LEMMA CallImportPreserves ==
  ASSUME ManifoldInv, CallImport
  PROVE  ManifoldInv'
<1>1. PICK api \in Apis : /\ Calls("import", api)
                          /\ rax' = IF api \in AntiDebug THEN "zero" ELSE "zone"
  BY DEF CallImport
<1>2. /\ Running /\ mem' = mem /\ step' = step /\ i' = i
      /\ called' = [what |-> "import", api |-> api] /\ rax' # "halted"
  BY <1>1 DEF Calls, Running
<1>3. CallsInOrder' /\ CallsAreAnswered'
  BY <1>2 DEF CallsInOrder, CallsAreAnswered, Running
<1> QED BY <1>2, <1>3, PayloadPreserves

(* Only a payload that has been given the zone's address calls it.         *)
LEMMA CallZonePreserves ==
  ASSUME ManifoldInv, CallZone
  PROVE  ManifoldInv'
<1>1. mem' = mem /\ step' = step /\ i' = i /\ called.what = "import"
  BY DEF CallZone
<1>2. called = [what |-> called.what, api |-> called.api] /\ Running
  BY <1>1 DEF ManifoldInv, CallsInOrder
<1>3. ZoneFilled
  BY <1>2 DEF ManifoldInv, BuiltInOrder, Running
<1>4. /\ called'.what \in {"zone", "table"}
      /\ called' = [what |-> called'.what, api |-> called'.api]
      /\ rax' # "halted"
      /\ called'.what = "table" => rax' = "zero"
      /\ called'.what = "zone" => rax' = "lost"
  <2>1. ASSUME called' = [called EXCEPT !.what = "zone"],
               rax' = IF HoldsCode(Zone) THEN "zero" ELSE "lost"
        PROVE  /\ called'.what = "zone"
               /\ called' = [what |-> called'.what, api |-> called'.api]
               /\ rax' = "lost"
    <3>1. Alone(ZoneWord(0)) /\ ZoneWord(0).at = Zone /\ ZoneWord(0).kind = "number"
      BY <1>3, ManifoldAssumption DEF ZoneFilled, ZoneIndices, ZoneWord, Number, Field, Zone
    <3>2. \A f \in mem : f.at = Zone => f = ZoneWord(0)
      BY <3>1, FoundAlone DEF ManifoldInv
    <3>3. ~HoldsCode(Zone)
      BY <3>1, <3>2 DEF HoldsCode
    <3> QED BY <1>2, <2>1, <3>3
  <2>2. ASSUME NEW w \in 0 .. ZoneWords - 1, called' = [called EXCEPT !.what = "table"],
               rax' = IF Qword(Zone + 8 * w) = AmnesiaStub THEN "zero" ELSE "lost"
        PROVE  /\ called'.what = "table"
               /\ called' = [what |-> called'.what, api |-> called'.api]
               /\ rax' = "zero"
    <3>1. Alone(Number(Zone + 8 * w, 8, AmnesiaStub))
      BY <1>3 DEF ZoneFilled, ZoneWord, ZoneIndices
    <3>2. Qword(Zone + 8 * w) = AmnesiaStub
      BY <3>1, NumberAlone DEF Qword
    <3> QED BY <1>2, <2>2, <3>2
  <2> QED BY <2>1, <2>2 DEF CallZone
<1>5. CallsInOrder' /\ CallsAreAnswered'
  BY <1>1, <1>2, <1>4 DEF CallsInOrder, CallsAreAnswered, Running
<1> QED BY <1>1, <1>5, PayloadPreserves

-----------------------------------------------------------------------------
(* Every field run has built so far (api_manifold.c) is in memory with     *)
(* nothing overlapping it, and calls are answered as they are caught.      *)
THEOREM ManifoldInvariant == Spec => []ManifoldInv
<1>1. ManifoldInv /\ [Next]_vars => ManifoldInv'
  <2> SUFFICES ASSUME ManifoldInv, [Next]_vars PROVE ManifoldInv'
    OBVIOUS
  <2>1. CASE DeployGodObject \/ BuildChain
    BY <2>1, DeployPreserves, ChainPreserves
  <2>2. ASSUME NEW dll \in Dlls, StartTable(dll) \/ AddExport(dll) \/ EndTable(dll)
        PROVE  ManifoldInv'
    BY <2>2, StartTablePreserves, AddExportPreserves, EndTablePreserves
  <2>3. CASE PlantAbyss
    BY <2>3, AbyssPreserves
  <2>4. CASE CallExport \/ CallNull \/ CallImport \/ CallZone
    BY <2>4, CaughtPreserves, CallImportPreserves, CallZonePreserves
  <2>5. CASE UNCHANGED vars
    <3>1. mem' = mem /\ step' = step /\ i' = i /\ UNCHANGED calls
      BY <2>5 DEF vars
    <3>2. CallsInOrder' /\ CallsAreAnswered'
      BY <3>1 DEF ManifoldInv, CallsInOrder, CallsAreAnswered, calls, Running
    <3> QED BY <3>1, <3>2, PayloadPreserves
  <2> QED BY <2>1, <2>2, <2>3, <2>4, <2>5 DEF Next
<1> QED BY InitEstablishes, <1>1, PTL DEF Spec

(* Whatever earlier payloads left behind, every name of a list of up to 96 *)
(* names is found in both modules, with the stub that reports it.          *)
THEOREM ManifoldApisResolve == Spec => []ApisResolve
<1>1. ASSUME ManifoldInv PROVE ApisResolve
  <2> SUFFICES ASSUME Running, NEW dll \in Dlls, NEW api \in Apis
               PROVE  Resolve(Base(dll), api) = {api}
    BY DEF ApisResolve
  <2>1. FieldsOK /\ Table(dll, ApiCount)
    BY <1>1 DEF ManifoldInv, BuiltInOrder, Finished, Running
  <2> QED BY <2>1, ResolvesTo
<1> QED BY <1>1, ManifoldInvariant, PTL

(* The list of modules that a payload walks is closed forwards and names   *)
(* both; backwards it ends at the head, whose link back is 0.              *)
THEOREM ManifoldModulesListed == Spec => []ModulesAreListed
<1>1. ASSUME ManifoldInv PROVE ModulesAreListed
  <2> SUFFICES ASSUME Running PROVE ModulesAreListed
    BY DEF ModulesAreListed
  <2>1. \A g \in ChainFields : Alone(g)
    BY <1>1 DEF ManifoldInv, BuiltInOrder, Running, ChainBuilt
  <2>2. /\ Qword(96) = 20480 /\ Qword(20504) = 24576 /\ Qword(24608) = 28688
        /\ Qword(28688) = 32784 /\ Qword(32784) = 24608
        /\ Qword(28696) = 24608 /\ Qword(32792) = 28688
    <3>1. /\ Number(96, 8, 20480) \in ChainFields /\ Number(20504, 8, 24576) \in ChainFields
          /\ Number(24608, 8, 28688) \in ChainFields /\ Number(28688, 8, 32784) \in ChainFields
          /\ Number(32784, 8, 24608) \in ChainFields
          /\ Number(28696, 8, 24608) \in ChainFields /\ Number(32792, 8, 28688) \in ChainFields
      BY DEF ChainFields, Links, ListEnd, Entry, Peb, Ldr
    <3> QED BY <2>1, <3>1, NumberAlone DEF Qword
  <2>3. ASSUME NEW dll \in Dlls
        PROVE  LET link == Entry(dll) + 16 IN
               /\ Qword(link + 32) = Base(dll)
               /\ Load(Qword(link + 80), Load(link + 74, 2, "number"), "string") = Text(dll)
    <3> DEFINE e == Entry(dll)
               size == IF dll = "ntdll" THEN 20 ELSE 26
    <3>1. /\ e \in Nat
          /\ Number(e + 48, 8, Base(dll)) \in ChainFields
          /\ Number(e + 96, 8, e + 1280) \in ChainFields
          /\ Number(e + 90, 2, size) \in ChainFields
          /\ Field(e + 1280, size, "string", Text(dll)) \in ChainFields
      <4>1. CASE dll = "ntdll"
        BY <4>1 DEF ChainFields, NamesOf, Entry
      <4>2. CASE dll = "kernel32"
        BY <4>2 DEF ChainFields, NamesOf, Entry
      <4> QED BY <4>1, <4>2 DEF Dlls
    <3>2. /\ Qword(e + 48) = Base(dll) /\ Qword(e + 96) = e + 1280
          /\ Load(e + 90, 2, "number") = size
      BY <2>1, <3>1, NumberAlone DEF Qword
    <3>3. Load(e + 1280, size, "string") = Text(dll)
      <4> DEFINE name == Field(e + 1280, size, "string", Text(dll))
      <4>1. Load(name.at, name.size, name.kind) = name.value
        BY <2>1, <3>1, LoadAlone
      <4> QED BY <4>1, FieldParts
    <3>4. e + 16 + 32 = e + 48 /\ e + 16 + 80 = e + 96 /\ e + 16 + 74 = e + 90
      BY <3>1
    <3> QED BY <3>2, <3>3, <3>4
  <2>4. Entry("ntdll") + 16 = 28688 /\ Entry("kernel32") + 16 = 32784
    BY DEF Entry
  <2>5. Qword(24616) = 0
    <3>1. NoBlink
      BY <1>1 DEF ManifoldInv, BuiltInOrder, Running
    <3>2. {f \in mem : f.at = 24616 /\ f.kind = "number" /\ f.size = 8} = {}
      BY <3>1 DEF NoBlink, Blink
    <3> QED BY <3>2 DEF Qword, Load
  <2> QED BY <2>2, <2>3, <2>4, <2>5 DEF ModulesAreListed, Dlls
<1> QED BY <1>1, ManifoldInvariant, PTL

(* A caught call is reported by the number of the function called; the     *)
(* zone answers 0 as a table of functions, and a call of the zone itself   *)
(* is never answered.                                                      *)
THEOREM ManifoldCallsAnswered == Spec => []CallsAreAnswered
<1>1. ManifoldInv => CallsAreAnswered
  BY DEF ManifoldInv
<1> QED BY <1>1, ManifoldInvariant, PTL

-----------------------------------------------------------------------------
(* run as a whole behaves as the loader and as the manifold: loading does  *)
(* not touch what the manifold builds, and the manifold leaves the program *)
(* alone.                                                                  *)
THEOREM LaunchImplements == LaunchSpec => LoaderSpec /\ Spec
<1>1. LaunchInit => LoaderInit /\ Init
  BY DEF LaunchInit
<1>2. [LaunchNext]_launchVars => [LoaderNext]_loaderVars /\ [Next]_vars
  BY DEF LaunchNext, LoadProgram, Surround, launchVars
<1> QED BY <1>1, <1>2, PTL DEF LaunchSpec, LoaderSpec, Spec

(* So a payload starts with its program loaded and its surroundings built, *)
(* and its calls are caught as CallsAreAnswered says.                      *)
THEOREM LaunchIsSafe ==
  LaunchSpec => [](ProgramIsLoaded /\ ModulesAreListed /\ ApisResolve /\ CallsAreAnswered)
BY LaunchImplements, LoaderProgramIsLoaded, ManifoldModulesListed, ManifoldApisResolve,
   ManifoldCallsAnswered, PTL
==============================================================================
