---------------------------- MODULE HandoffProofs ---------------------------
(***************************************************************************)
(* The safety invariants of Handoff hold for every machine: any number of  *)
(* pages, any contents, any order and splitting of the descriptors, any    *)
(* interference of the firmware.                                           *)
(***************************************************************************)
EXTENDS Handoff, TLAPS

Descriptors == [type : MemoryTypes, start : Nat, pages : Nat \ {0}]
Entries == [type : AnyMeaning, base : Nat, length : Nat \ {0}]

\* What the firmware reports for a memory describes it.
LEMMA MapDescribes ==
    ASSUME NEW m \in Memories, NEW d \in MapsOf(m)
    PROVE  Describes(d, m)
  BY MemoriesAssumption

LEMMA MapLength ==
    ASSUME NEW m \in Memories, NEW d \in MapsOf(m)
    PROVE  d \in Seq(Descriptors) /\ Len(d) \in Nat
<1>1. d \in Seq(Descriptors)
  <2>1. Describes(d, m)
    BY MapDescribes
  <2> QED BY <2>1 DEF Describes, Descriptors
<1> QED BY <1>1

\* A type is translated to something the kernel may find in an entry.
LEMMA MeaningsType ==
    ASSUME NEW ldr \in Loaders, NEW t \in MemoryTypes
    PROVE  MeaningsOf(ldr, t) \subseteq AnyMeaning
<1>1. TableRow(ldr, t) \in AnyMeaning
  BY DEF TableRow, ReclaimedAs, AnyMeaning, Meanings
<1> QED BY <1>1 DEF MeaningsOf, AnyMeaning, Meanings

\* A change of one page leaves a possible memory with a map of it.
LEMMA RetypeType ==
    ASSUME NEW p, NEW t, Retype(p, t), key \in Nat
    PROVE  memory' \in Memories /\ map' \in MapsOf(memory') /\ key' \in Nat /\ key' > key
  BY DEF Retype

\* Extending the last entry adds the descriptor to its region.
LEMMA ExtendRegion ==
    ASSUME NEW e \in Entries, NEW d \in Descriptors, e.base + e.length = d.start
    PROVE  /\ [e EXCEPT !.length = @ + d.pages] \in Entries
           /\ EntryRegion([e EXCEPT !.length = @ + d.pages]) = EntryRegion(e) \cup Region(d)
  BY DEF Entries, Descriptors, EntryRegion, Region

\* A new entry has the region of its descriptor.
LEMMA NewRegion ==
    ASSUME NEW meaning \in AnyMeaning, NEW d \in Descriptors
    PROVE  /\ NewEntry(meaning, d) \in Entries
           /\ EntryRegion(NewEntry(meaning, d)) = Region(d)
  BY DEF Entries, Descriptors, EntryRegion, Region, NewEntry

\* Before the size query the invariant holds.
LEMMA InitIInv == Init => IInv
  BY RoomAssumption, GrowthAssumption
  DEF Init, IInv, TypeOK, SnapshotCurrent, EntriesSound, EntriesComplete, EntriesDisjoint,
      LastRemembered, Coalesced, RoomSuffices, QuietExit, OutputOwned, Translating, PCs, NoPage,
      AnyMeaning, NoType

\* One iteration of the translation loop: the entries then describe one descriptor
\* more, still without overlap, and the last two cannot be merged.
LEMMA TranslateIInv ==
    ASSUME IInv, Translate
    PROVE  IInv'
<1> DEFINE n == Len(entries)
           d == descs[next]
<1>1. /\ next \in 1 .. Len(descs) /\ next \in Nat /\ next' = next + 1 /\ n \in Nat
      /\ descs \in Seq(Descriptors) /\ entries \in Seq(Entries)
      /\ d \in Descriptors /\ DOMAIN entries = 1 .. n /\ DOMAIN descs = 1 .. Len(descs)
      /\ descs' = descs /\ loader' = loader /\ loader \in Loaders
  <2>1. next \in 1 .. Len(descs) + 1 /\ descs \in Seq(Descriptors) /\ entries \in Seq(Entries)
        /\ loader \in Loaders
    BY DEF IInv, TypeOK, Descriptors, Entries
  <2>2. next <= Len(descs) /\ next' = next + 1 /\ descs' = descs /\ loader' = loader
    BY DEF Translate, snapshot
  <2> HIDE DEF Descriptors, Entries
  <2> QED BY <2>1, <2>2
<1>2. Describes(descs, memory)
  BY MapDescribes DEF IInv, TypeOK, SnapshotCurrent, Translating, Translate
<1>3. \A i \in 1 .. next - 1 : Region(descs[i]) \cap Region(d) = {}
  <2>1. \A i, j \in DOMAIN descs : i # j => Region(descs[i]) \cap Region(descs[j]) = {}
    BY <1>2 DEF Describes
  <2>2. \A i \in 1 .. next - 1 : i \in DOMAIN descs /\ i # next
    BY <1>1
  <2> QED BY <1>1, <2>1, <2>2
<1>4. \A k \in 1 .. n : EntryRegion(entries[k]) \cap Region(d) = {}
  BY <1>1, <1>3 DEF IInv, EntriesSound
<1>5. PICK meaning \in MeaningsOf(loader, d.type) :
        /\ entries' = IF CanMerge(meaning, d)
                      THEN [entries EXCEPT ![n].length = @ + d.pages]
                      ELSE Append(entries, NewEntry(meaning, d))
        /\ lastType' = meaning
        /\ lastEnd' = d.start + d.pages
  BY DEF Translate, EndOf
<1>6. meaning \in AnyMeaning
  BY <1>1, <1>5, MeaningsType DEF Descriptors
<1>7. lastEnd' \in Nat
  BY <1>1, <1>5 DEF Descriptors
<1> DEFINE e == IF CanMerge(meaning, d) THEN [entries[n] EXCEPT !.length = @ + d.pages]
                ELSE NewEntry(meaning, d)
           last == IF CanMerge(meaning, d) THEN n ELSE n + 1
\* Either way the entries are the old ones but for the last, which is e.
<1>8. CanMerge(meaning, d) =>
        /\ n > 0 /\ entries[n] \in Entries /\ entries[n].type = meaning
        /\ entries[n].base + entries[n].length = d.start
  BY <1>1, <1>6 DEF CanMerge, IInv, LastRemembered, AnyMeaning, Meanings, NoType
<1>9. /\ e \in Entries /\ e.type = meaning
      /\ e.base + e.length = d.start + d.pages
      /\ e.base = IF CanMerge(meaning, d) THEN entries[n].base ELSE d.start
      /\ EntryRegion(e) = IF CanMerge(meaning, d) THEN EntryRegion(entries[n]) \cup Region(d) ELSE Region(d)
  <2>1. CASE CanMerge(meaning, d)
    <3>1. e = [entries[n] EXCEPT !.length = @ + d.pages]
      BY <2>1
    <3>2. e.type = entries[n].type /\ e.base = entries[n].base /\ e.length = entries[n].length + d.pages
      BY <1>8, <2>1, <3>1 DEF Entries
    <3>3. e \in Entries /\ EntryRegion(e) = EntryRegion(entries[n]) \cup Region(d)
      BY <1>1, <1>8, <2>1, <3>1, ExtendRegion
    <3> HIDE DEF e, d, n
    <3>4. entries[n].base \in Nat /\ entries[n].length \in Nat /\ d.start \in Nat /\ d.pages \in Nat
      BY <1>1, <1>8, <2>1 DEF Entries, Descriptors
    <3> QED BY <1>8, <2>1, <3>2, <3>3, <3>4
  <2>2. CASE ~CanMerge(meaning, d)
    BY <1>1, <1>6, <2>2, NewRegion DEF NewEntry, Descriptors
  <2> QED BY <2>1, <2>2
<1>10. /\ last \in Nat \ {0} /\ entries' \in Seq(Entries) /\ Len(entries') = last
       /\ entries'[last] = e /\ \A k \in 1 .. last - 1 : k \in 1 .. n /\ entries'[k] = entries[k]
  <2>1. CASE CanMerge(meaning, d)
    BY <1>1, <1>5, <1>8, <1>9, <2>1
  <2>2. CASE ~CanMerge(meaning, d)
    BY <1>1, <1>5, <1>9, <2>2
  <2> QED BY <2>1, <2>2
<1>11. DOMAIN entries' = 1 .. last
  BY <1>10
<1> HIDE DEF e, d, n
<1>12. TypeOK'
  <2>1. next' \in 1 .. Len(descs') + 1
    BY <1>1
  <2>2. UNCHANGED <<memory, map, key, interference, loader, pc, room, mapPage, outPage, mapKey, descs>>
    BY DEF Translate, firmware, buffers, snapshot
  <2> QED BY <1>5, <1>6, <1>7, <1>10, <2>1, <2>2 DEF IInv, TypeOK, Entries
<1>13. (SnapshotCurrent /\ RoomSuffices /\ QuietExit /\ OutputOwned)'
  BY <1>1 DEF IInv, SnapshotCurrent, RoomSuffices, QuietExit, OutputOwned, Translate, Translating,
              firmware, buffers, snapshot
<1>14. EntriesSound'
  <2> SUFFICES ASSUME NEW k \in 1 .. last, NEW p \in EntryRegion(entries'[k])
               PROVE  \E i \in 1 .. next :
                        p \in Region(descs[i]) /\ entries'[k].type \in MeaningsOf(loader, descs[i].type)
    <3>1. next' - 1 = next /\ descs' = descs /\ loader' = loader
      BY <1>1
    <3> QED BY <1>11, <3>1 DEF EntriesSound
  <2>1. CASE p \in Region(d) /\ k = last
    <3>1. entries'[k].type \in MeaningsOf(loader, descs[next].type) /\ p \in Region(descs[next])
      BY <1>5, <1>9, <1>10, <2>1 DEF d
    <3>2. next \in 1 .. next
      BY <1>1
    <3> QED BY <3>1, <3>2
  <2>2. CASE p \notin Region(d) \/ k # last
    <3>1. \E j \in 1 .. n : p \in EntryRegion(entries[j]) /\ entries'[k].type = entries[j].type
      <4>1. CASE k # last
        <5>1. k \in 1 .. last - 1
          BY <1>10, <4>1
        <5> QED BY <1>10, <5>1
      <4>2. CASE k = last
        <5>1. CanMerge(meaning, d) /\ p \in EntryRegion(entries[n])
          BY <1>9, <1>10, <2>2, <4>2
        <5>2. n \in 1 .. n /\ entries'[k].type = entries[n].type
          BY <1>1, <1>8, <1>9, <1>10, <4>2, <5>1
        <5> QED BY <5>1, <5>2
      <4> QED BY <4>1, <4>2
    <3>2. PICK j \in 1 .. n : p \in EntryRegion(entries[j]) /\ entries'[k].type = entries[j].type
      BY <3>1
    <3>3. PICK i \in 1 .. next - 1 :
             p \in Region(descs[i]) /\ entries[j].type \in MeaningsOf(loader, descs[i].type)
      BY <1>1, <3>2 DEF IInv, EntriesSound
    <3> QED BY <1>1, <3>2, <3>3
  <2> QED BY <2>1, <2>2
<1>15. EntriesComplete'
  <2> SUFFICES ASSUME NEW i \in 1 .. next, NEW p \in Region(descs[i])
               PROVE  \E k \in 1 .. last : p \in EntryRegion(entries'[k])
    <3>1. next' - 1 = next /\ descs' = descs
      BY <1>1
    <3> QED BY <1>11, <3>1 DEF EntriesComplete
  <2>1. CASE i = next
    BY <1>9, <1>10, <2>1 DEF d
  <2>2. CASE i # next
    <3>1. PICK k \in 1 .. n : p \in EntryRegion(entries[k])
      BY <1>1, <2>2 DEF IInv, EntriesComplete
    <3>2. CASE k < last
      BY <1>1, <1>10, <3>1, <3>2
    <3>3. CASE k >= last
      BY <1>1, <1>8, <1>9, <1>10, <3>1, <3>3
    <3> QED BY <1>1, <1>10, <3>2, <3>3
  <2> QED BY <2>1, <2>2
<1>16. EntriesDisjoint'
  <2>1. \A k \in 1 .. last - 1 : EntryRegion(entries'[k]) \cap EntryRegion(entries'[last]) = {}
    BY <1>1, <1>4, <1>8, <1>9, <1>10 DEF IInv, EntriesDisjoint
  <2>2. \A j, k \in 1 .. last - 1 : j # k => EntryRegion(entries'[j]) \cap EntryRegion(entries'[k]) = {}
    BY <1>1, <1>10 DEF IInv, EntriesDisjoint
  <2>3. \A k \in 1 .. last : k = last \/ k \in 1 .. last - 1
    BY <1>10
  <2> QED BY <1>11, <2>1, <2>2, <2>3 DEF EntriesDisjoint
<1>17. LastRemembered'
  <2>1. last <= next
    BY <1>1 DEF IInv, LastRemembered, n
  <2>2. entries' # <<>>
    BY <1>10
  <2>3. Len(entries') <= next' - 1
    BY <1>1, <1>10, <2>1
  <2>4. lastType' = entries'[Len(entries')].type
        /\ lastEnd' = entries'[Len(entries')].base + entries'[Len(entries')].length
    BY <1>5, <1>9, <1>10
  <2> QED BY <2>2, <2>3, <2>4 DEF LastRemembered
<1>18. Coalesced'
  <2> SUFFICES ASSUME loader # "mb2", NEW k \in 1 .. last - 1
               PROVE  ~ /\ entries'[k].type = entries'[k + 1].type
                        /\ entries'[k].base + entries'[k].length = entries'[k + 1].base
    BY <1>1, <1>10 DEF Coalesced
  <2>1. CASE k + 1 # last
    BY <1>1, <1>10, <2>1 DEF IInv, Coalesced
  <2>2. CASE k + 1 = last /\ CanMerge(meaning, d)
    <3>1. entries'[k] = entries[k] /\ k \in 1 .. n - 1 /\ k + 1 = n /\ k \in 1 .. Len(entries) - 1
      BY <1>1, <1>10, <2>2 DEF n
    <3>2. entries'[k + 1].type = entries[k + 1].type /\ entries'[k + 1].base = entries[k + 1].base
      BY <1>8, <1>9, <1>10, <2>2, <3>1
    <3> QED BY <3>1, <3>2 DEF IInv, Coalesced
  <2>3. CASE k + 1 = last /\ ~CanMerge(meaning, d)
    <3>1. e.base = d.start /\ k = n /\ entries'[k] = entries[n]
      BY <1>1, <1>9, <1>10, <2>3
    <3>2. lastType = entries[n].type /\ lastEnd = entries[n].base + entries[n].length
      BY <1>1, <3>1 DEF IInv, LastRemembered, n
    <3> QED BY <1>9, <1>10, <2>3, <3>1, <3>2 DEF CanMerge
  <2> QED BY <2>1, <2>2, <2>3
<1> QED BY <1>12, <1>13, <1>14, <1>15, <1>16, <1>17, <1>18 DEF IInv

Progress == EntriesSound /\ EntriesComplete /\ EntriesDisjoint /\ LastRemembered /\ Coalesced

\* Steps outside the loop leave what it has done, which is nothing before it runs.
LEMMA ProgressKept ==
    ASSUME IInv, UNCHANGED <<loop, loader>>, UNCHANGED descs \/ ~Translating
    PROVE  Progress'
<1>1. UNCHANGED <<next, entries, lastType, lastEnd, loader>>
  BY DEF loop
<1>2. CASE UNCHANGED descs
  BY <1>1, <1>2 DEF IInv, Progress, EntriesSound, EntriesComplete, EntriesDisjoint, LastRemembered, Coalesced
<1>3. CASE ~Translating
  <2>1. entries' = <<>> /\ next' = 1 /\ lastType' = NoType
    BY <1>1, <1>3 DEF IInv, SnapshotCurrent, LastRemembered
  <2> QED BY <2>1 DEF Progress, EntriesSound, EntriesComplete, EntriesDisjoint, LastRemembered, Coalesced
<1> QED BY <1>2, <1>3

\* A pool call keeps the firmware's part of the type invariant, adds at most Growth
\* descriptors, and owns the page it returns.
LEMMA AllocateType ==
    ASSUME TypeOK, NEW type, NEW page, Allocate(type, page)
    PROVE  /\ memory' \in Memories /\ map' \in MapsOf(memory') /\ key' \in Nat
           /\ Len(map') \in Nat /\ Len(map') <= Len(map) + Growth
           /\ page \in Pages \cup {NoPage} /\ (page # NoPage => memory'[page] = type)
<1>1. Len(map) \in Nat
  BY MapLength DEF TypeOK
<1>2. memory \in [Pages -> MemoryTypes]
  BY MemoriesAssumption DEF TypeOK
<1>3. CASE UNCHANGED firmware /\ page \in Pages /\ memory[page] = type
  BY <1>1, <1>3, RoomAssumption, GrowthAssumption DEF TypeOK, firmware
<1>4. CASE page \in Pages /\ Retype(page, type) /\ Len(map') <= Len(map) + Growth
  BY <1>2, <1>4, RetypeType DEF TypeOK, Retype
<1>5. CASE page = NoPage /\ UNCHANGED firmware
  BY <1>1, <1>5, RoomAssumption, GrowthAssumption DEF TypeOK, firmware
<1>6. memory' \in Memories /\ map' \in MapsOf(memory')
  BY <1>3, <1>4, <1>5 DEF Allocate
<1>7. Len(map') \in Nat
  BY <1>6, MapLength
<1> QED BY <1>3, <1>4, <1>5, <1>7 DEF Allocate

\* Every step of the loader and of the firmware preserves the invariant.
THEOREM StepIInv == IInv /\ [Next]_vars => IInv'
<1> SUFFICES ASSUME IInv, [Next]_vars PROVE IInv'
  OBVIOUS
<1> USE DEF Translating, firmware, buffers, snapshot, Goto
<1>0. /\ Len(map) \in Nat /\ map \in Seq(Descriptors) /\ memory \in [Pages -> MemoryTypes]
      /\ Len(descs) \in Nat
  <2>1. memory \in Memories /\ map \in MapsOf(memory) /\ descs \in Seq(Descriptors)
    BY DEF IInv, TypeOK, Descriptors
  <2> QED BY <2>1, MapLength, MemoriesAssumption
<1>1. CASE SizeQuery
  <2> USE <1>1 DEF SizeQuery
  <2>6. room' = Len(map) + Slack
    BY DEF MapRoom
  <2>1. TypeOK'
    BY <1>0, <2>6, RoomAssumption, GrowthAssumption DEF IInv, TypeOK, PCs, loop
  <2>2. SnapshotCurrent'
    BY DEF IInv, SnapshotCurrent, loop
  <2>3. Progress'
    BY ProgressKept
  <2>4. (RoomSuffices /\ QuietExit)'
    BY <1>0, <2>6, RoomAssumption, GrowthAssumption DEF IInv, RoomSuffices, QuietExit
  <2>5. OutputOwned'
    BY DEF IInv, OutputOwned
  <2> QED BY <2>1, <2>2, <2>3, <2>4, <2>5 DEF IInv, Progress
<1>2. CASE AllocateMap
  <2> USE <1>2 DEF AllocateMap
  <2>0. PICK page \in Pages \cup {NoPage} : Allocate("BootServicesData", page) /\ mapPage' = page
    OBVIOUS
  <2>6. /\ memory' \in Memories /\ map' \in MapsOf(memory') /\ key' \in Nat
        /\ Len(map') \in Nat /\ Len(map') <= Len(map) + Growth
    BY <2>0, AllocateType DEF IInv
  <2>7. \/ memory' = memory
        \/ memory[page] = "Conventional" /\ memory' = [memory EXCEPT ![page] = "BootServicesData"]
    BY <2>0 DEF Allocate, Retype
  <2>1. TypeOK'
    BY <1>0, <2>0, <2>6 DEF IInv, TypeOK, PCs, loop
  <2>2. SnapshotCurrent'
    BY <2>6 DEF IInv, SnapshotCurrent, loop
  <2>3. Progress'
    BY ProgressKept
  <2>4. (RoomSuffices /\ QuietExit)'
    BY <1>0, <2>6, RoomAssumption, GrowthAssumption DEF IInv, RoomSuffices, QuietExit, TypeOK
  <2>5. OutputOwned'
    BY <1>0, <2>7 DEF IInv, OutputOwned, OutputType, TypeOK, NoPage
  <2> QED BY <2>1, <2>2, <2>3, <2>4, <2>5 DEF IInv, Progress
<1>3. CASE AllocateOutput
  <2> USE <1>3 DEF AllocateOutput
  <2>0. PICK page \in Pages \cup {NoPage} : Allocate(OutputType(loader), page) /\ outPage' = page
    OBVIOUS
  <2>6. /\ memory' \in Memories /\ map' \in MapsOf(memory') /\ key' \in Nat
        /\ Len(map') \in Nat /\ Len(map') <= Len(map) + Growth /\ (page # NoPage => memory'[page] = OutputType(loader))
    BY <2>0, AllocateType DEF IInv
  <2>1. TypeOK'
    BY <1>0, <2>0, <2>6 DEF IInv, TypeOK, PCs, loop
  <2>2. SnapshotCurrent'
    BY <2>6 DEF IInv, SnapshotCurrent, loop
  <2>3. Progress'
    BY ProgressKept
  <2>4. (RoomSuffices /\ QuietExit)'
    BY <1>0, <2>6, RoomAssumption, GrowthAssumption DEF IInv, RoomSuffices, QuietExit, TypeOK
  <2>5. OutputOwned'
    BY <1>0, <2>0, <2>6 DEF IInv, OutputOwned
  <2> QED BY <2>1, <2>2, <2>3, <2>4, <2>5 DEF IInv, Progress
<1>4. CASE FreeOld
  <2> USE <1>4 DEF FreeOld
  <2>6. /\ memory' \in Memories /\ map' \in MapsOf(memory') /\ key' \in Nat
        /\ Len(map') \in Nat /\ Len(map') <= Len(map) + Growth
    BY <1>0, RetypeType, MapLength, RoomAssumption, GrowthAssumption DEF IInv, TypeOK
  <2>1. TypeOK'
    BY <1>0, <2>6 DEF IInv, TypeOK, PCs, loop
  <2>2. SnapshotCurrent'
    BY DEF IInv, SnapshotCurrent, loop
  <2>3. Progress'
    BY ProgressKept
  <2>4. (RoomSuffices /\ QuietExit)'
    BY <1>0, <2>6, RoomAssumption, GrowthAssumption DEF IInv, RoomSuffices, QuietExit, TypeOK
  <2>5. OutputOwned'
    BY <1>0 DEF IInv, OutputOwned, Retype, TypeOK
  <2> QED BY <2>1, <2>2, <2>3, <2>4, <2>5 DEF IInv, Progress
<1>5. CASE GetMap
  <2> USE <1>5 DEF GetMap
  <2>6. descs' \in Seq(Descriptors) /\ mapKey' \in Nat /\ pc' \in PCs
    BY <1>0 DEF IInv, TypeOK, PCs, Descriptors
  <2>7. next = 1 /\ next \in 1 .. Len(descs') + 1
    BY <1>0 DEF IInv, SnapshotCurrent
  <2>1. TypeOK'
    BY <2>6, <2>7 DEF IInv, TypeOK, loop, Descriptors
  <2>2. SnapshotCurrent'
    BY <1>0 DEF IInv, SnapshotCurrent, loop, TypeOK
  <2>3. Progress'
    BY ProgressKept
  <2>4. (RoomSuffices /\ QuietExit)'
    BY <1>0, RoomAssumption, GrowthAssumption DEF IInv, RoomSuffices, QuietExit, TypeOK
  <2>5. OutputOwned'
    BY DEF IInv, OutputOwned
  <2> QED BY <2>1, <2>2, <2>3, <2>4, <2>5 DEF IInv, Progress
<1>6. CASE Exit
  <2> USE <1>6 DEF Exit
  <2>1. TypeOK'
    BY DEF IInv, TypeOK, PCs, loop
  <2>2. SnapshotCurrent'
    BY DEF IInv, SnapshotCurrent, loop, TypeOK, ExitSucceeds
  <2>3. Progress'
    BY ProgressKept
  <2>4. (RoomSuffices /\ QuietExit)'
    BY DEF IInv, RoomSuffices, QuietExit, TypeOK, ExitSucceeds
  <2>5. OutputOwned'
    BY DEF IInv, OutputOwned
  <2> QED BY <2>1, <2>2, <2>3, <2>4, <2>5 DEF IInv, Progress
<1>7. CASE Jump
  <2> USE <1>7 DEF Jump
  <2>1. TypeOK'
    BY DEF IInv, TypeOK, PCs, loop
  <2>2. SnapshotCurrent'
    BY <1>0 DEF IInv, SnapshotCurrent, loop, TypeOK
  <2>3. Progress'
    BY ProgressKept
  <2>4. (RoomSuffices /\ QuietExit)'
    BY DEF IInv, RoomSuffices, QuietExit
  <2>5. OutputOwned'
    BY DEF IInv, OutputOwned
  <2> QED BY <2>1, <2>2, <2>3, <2>4, <2>5 DEF IInv, Progress
<1>8. CASE FirmwareChangesMap
  <2> USE <1>8 DEF FirmwareChangesMap, CallbackRetypes
  <2>6. memory' \in Memories /\ map' \in MapsOf(memory') /\ key' \in Nat /\ key' > key
    BY RetypeType DEF IInv, TypeOK
  <2>1. TypeOK'
    BY <1>0, <2>6, RoomAssumption, GrowthAssumption DEF IInv, TypeOK, PCs, loop
  <2>2. SnapshotCurrent'
    BY <2>6 DEF IInv, SnapshotCurrent, loop, BootServices, TypeOK
  <2>3. Progress'
    BY ProgressKept
  <2>4. (RoomSuffices /\ QuietExit)'
    BY <2>6, RoomAssumption, GrowthAssumption DEF IInv, RoomSuffices, QuietExit, TypeOK, BootServices
  <2>5. OutputOwned'
    BY <1>0 DEF IInv, OutputOwned, Retype, TypeOK
  <2> QED BY <2>1, <2>2, <2>3, <2>4, <2>5 DEF IInv, Progress
<1>9. CASE UNCHANGED vars
  <2>1. Progress'
    BY <1>9, ProgressKept DEF vars, loop
  <2> QED BY <1>9, <2>1 DEF vars, loop, IInv, TypeOK, SnapshotCurrent, RoomSuffices, QuietExit, OutputOwned, Progress
<1>10. CASE Translate
  BY <1>10, TranslateIInv
<1> QED BY <1>1, <1>2, <1>3, <1>4, <1>5, <1>6, <1>7, <1>8, <1>9, <1>10 DEF Next, LoaderStep

-----------------------------------------------------------------------------
\* In every reachable state the inductive invariant holds.
THEOREM Invariance == Spec => []IInv
  BY InitIInv, StepIInv, PTL DEF Spec

\* Every variable keeps its type; in particular no index leaves its sequence.
THEOREM TypeCorrect == Spec => []TypeOK
<1>1. IInv => TypeOK
  BY DEF IInv
<1> QED BY <1>1, Invariance, PTL

\* When the kernel is entered the entries are an exact description of memory.
LEMMA ExactWhenJumped == IInv => KernelMapExact
<1> SUFFICES ASSUME IInv, pc = "jumped" PROVE KernelMapExact
  BY DEF KernelMapExact
<1>1. Describes(descs, memory) /\ DOMAIN descs = 1 .. next - 1
  BY MapDescribes, MapLength DEF IInv, TypeOK, SnapshotCurrent, Translating
<1>2. \A k \in DOMAIN entries : \A p \in EntryRegion(entries[k]) :
        p \in Pages /\ entries[k].type \in MeaningsOf(loader, memory[p])
  <2> SUFFICES ASSUME NEW k \in DOMAIN entries, NEW p \in EntryRegion(entries[k])
               PROVE  p \in Pages /\ entries[k].type \in MeaningsOf(loader, memory[p])
    OBVIOUS
  <2>1. PICK i \in 1 .. next - 1 :
          p \in Region(descs[i]) /\ entries[k].type \in MeaningsOf(loader, descs[i].type)
    BY DEF IInv, EntriesSound
  <2>2. p \in Pages /\ memory[p] = descs[i].type
    BY <1>1, <2>1 DEF Describes
  <2> QED BY <2>1, <2>2
<1>3. \A p \in Pages : \E k \in DOMAIN entries : p \in EntryRegion(entries[k])
  BY <1>1 DEF Describes, IInv, EntriesComplete
<1> QED BY <1>2, <1>3 DEF KernelMapExact, IInv, EntriesDisjoint

\* The kernel is told of every page exactly once and by a meaning its type has at
\* that moment, on every machine and with every interference of the firmware.
THEOREM MapExact == Spec => []KernelMapExact
  BY Invariance, ExactWhenJumped, PTL

\* The translation loops of the three loaders stay within the buffer they allocated
\* before the map was known.
THEOREM LoopInBounds == Spec => []NoOverrun
<1>1. IInv => NoOverrun
  <2> SUFFICES ASSUME IInv PROVE Len(entries) <= room
    BY DEF NoOverrun, OutputRoom
  <2>1. CASE Translating
    <3>1. Len(entries) \in Nat /\ Len(descs) \in Nat /\ next \in 1 .. Len(descs) + 1 /\ room \in Nat
      BY DEF IInv, TypeOK
    <3> QED BY <2>1, <3>1 DEF IInv, SnapshotCurrent, LastRemembered
  <2>2. CASE ~Translating
    BY <2>2 DEF IInv, TypeOK, SnapshotCurrent
  <2> QED BY <2>1, <2>2
<1> QED BY <1>1, Invariance, PTL

\* The stivale loaders leave no two neighbours of one meaning apart.
THEOREM FullyMerged == Spec => []Coalesced
<1>1. IInv => Coalesced
  BY DEF IInv
<1> QED BY <1>1, Invariance, PTL

\* A hand-off the firmware does not disturb succeeds while there is memory.
THEOREM ExitsWhenQuiet == Spec => []QuietExit
<1>1. IInv => QuietExit
  BY DEF IInv
<1> QED BY <1>1, Invariance, PTL

\* The memory map, the kernel and its modules are never told to be free memory.
THEOREM PagesKept == Spec => []OwnPagesKept
<1>1. IInv => OwnPagesKept
  <2> SUFFICES ASSUME IInv, pc = "jumped", loader # "mb2",
                      NEW k \in DOMAIN entries, NEW p \in EntryRegion(entries[k]),
                      p = outPage \/ memory[p] = KernelType
               PROVE  entries[k].type \in {"reserved", "bootloader_reclaim", "kernel_modules"}
    BY DEF OwnPagesKept
  <2>1. p \in Pages /\ entries[k].type \in MeaningsOf(loader, memory[p])
    BY ExactWhenJumped DEF KernelMapExact
  <2>2. CASE memory[p] = KernelType
    BY <2>1, <2>2 DEF MeaningsOf
  <2>3. CASE memory[p] # KernelType
    <3>1. memory[p] = OutputType(loader)
      BY <2>1, <2>3, PagesAssumption DEF IInv, OutputOwned, NoPage
    <3>2. memory[p] \in Listed(loader)
      BY <3>1 DEF OutputType, Listed, ListedTypes, Reclaimable
    <3>3. TableRow(loader, memory[p]) \in {"reserved", "bootloader_reclaim"}
      BY <3>1 DEF OutputType, TableRow, ReclaimedAs, Reclaimable
    <3> QED BY <2>1, <2>3, <3>2, <3>3 DEF MeaningsOf
  <2> QED BY <2>2, <2>3
<1> QED BY <1>1, Invariance, PTL

-----------------------------------------------------------------------------
\* In an exact map every page is looked up with a meaning of its type.
LookUpFits == DOMAIN LookUp = Pages /\ \A p \in Pages : LookUp[p] \in MeaningsOf(loader, memory[p])
LEMMA LookUpExact == KernelMapExact /\ pc = "jumped" => LookUpFits
<1> SUFFICES ASSUME KernelMapExact, pc = "jumped", NEW p \in Pages
             PROVE  LookUp[p] \in MeaningsOf(loader, memory[p])
  BY DEF LookUpFits, LookUp
<1> DEFINE k == CHOOSE i \in DOMAIN entries : p \in EntryRegion(entries[i])
<1>1. k \in DOMAIN entries /\ p \in EntryRegion(entries[k])
  BY DEF KernelMapExact
<1> QED BY <1>1 DEF KernelMapExact, LookUp

\* A step of the loader or the firmware is a step of KernelView: only Jump enters the
\* kernel, and memory is used by all others.
LEMMA StepKernelView ==
    ASSUME IInv, [Next]_vars, IInv', (IInv => KernelMapExact)'
    PROVE  [KV!Next]_(KV!vars)
<1> DEFINE View == IF pc = "jumped" THEN LookUp ELSE [p \in {} |-> p]
<1> USE DEF firmware, buffers, snapshot, Goto
<1>1. memory' \in Memories
  BY DEF IInv, TypeOK
<1>2. CASE Jump
  <2>1. Phase = "loading" /\ Phase' = "kernel" /\ UNCHANGED <<memory, loader>> /\ pc' = "jumped"
    BY <1>2 DEF Jump, Phase
  <2>2. (KernelMapExact /\ pc = "jumped" => LookUpFits)'
    BY LookUpExact, PTL
  <2>3. LookUpFits'
    BY <2>1, <2>2
  <2> QED BY <2>1, <2>3 DEF KV!Next, KV!EnterKernel, LookUpFits
<1>3. CASE SizeQuery \/ AllocateMap \/ AllocateOutput \/ FreeOld \/ GetMap \/ Exit \/ Translate \/ FirmwareChangesMap
  <2>1. Phase = "loading" /\ pc # "jumped" /\ pc' # "jumped" /\ loader' = loader
    BY <1>3 DEF SizeQuery, AllocateMap, AllocateOutput, FreeOld, GetMap, Exit, Translate, FirmwareChangesMap, CallbackRetypes,
                BootServices, Phase, IInv, TypeOK, PCs
  <2>2. Phase' \in {"loading", "returned"}
    BY <2>1 DEF Phase
  <2> QED BY <1>1, <2>1, <2>2 DEF KV!Next, KV!UseMemory, KV!GiveUp
<1>4. CASE UNCHANGED vars
  <2>1. UNCHANGED <<memory, loader, pc, entries>>
    BY <1>4 DEF vars, loop
  <2>2. Phase' = Phase /\ View' = View
    BY <2>1 DEF Phase, LookUp
  <2> QED BY <2>1, <2>2 DEF KV!vars
<1> QED BY <1>2, <1>3, <1>4 DEF Next, LoaderStep

\* The hand-off implements KernelView: however it is interleaved with the firmware,
\* the kernel is entered with memory as it is at that moment, or not at all.
THEOREM Refinement == Spec => ImplementsKernelView
<1>1. Init => KV!Init
  BY DEF Init, KV!Init, Phase, KV!NoView
<1>2. IInv /\ [Next]_vars /\ IInv' => [KV!Next]_(KV!vars)
  <2>1. (IInv => KernelMapExact)'
    BY ExactWhenJumped, PTL
  <2> QED BY <2>1, StepKernelView
<1> QED BY <1>1, <1>2, Invariance, PTL DEF Spec, ImplementsKernelView, KV!Spec
=============================================================================
