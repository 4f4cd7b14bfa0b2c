------------------------- MODULE LinuxHandoffProofs -------------------------
(***************************************************************************)
(* The safety invariants of LinuxHandoff hold for every machine: any pages *)
(* and contents, any order and splitting of the descriptors, any header,   *)
(* any room in the tables, any interference of the firmware.               *)
(***************************************************************************)
EXTENDS LinuxHandoff, TLAPS

Descriptors == [type : MemoryTypes, start : Nat, pages : Nat \ {0}]
Entries == [type : E820Types, addr : Nat, size : Nat \ {0}]

-----------------------------------------------------------------------------
(* The inductive invariant.                                                *)

Translated == {"Translate", "Exit", "Jump", "jumped"}

\* Before the map is read there is nothing, then an unchanged key means that the
\* descriptors are the firmware's, and after a successful exit nothing changes.
SnapshotCurrent ==
    /\ pc \notin Translated => descs = <<>> /\ index = 1 /\ at = 1 /\ e820 = <<>>
    /\ pc \in {"Translate", "Exit"} => mapKey <= key /\ (mapKey = key => descs = map)
    /\ exited => pc \in {"Jump", "jumped"} /\ descs = map

\* The descriptors named no page twice when they were read.
DescriptorsApart ==
    \A i, j \in DOMAIN descs : i # j => Region(descs[i]) \cap Region(descs[j]) = {}

\* An entry tells of a page what the descriptor of that page says.
EntriesSound ==
    \A k \in DOMAIN e820 : \A p \in E820Region(e820[k]) :
        \E i \in 1 .. at - 1 : p \in Region(descs[i]) /\ e820[k].type = E820Of(descs[i].type)

EntriesComplete == \A i \in 1 .. at - 1 : Region(descs[i]) \subseteq ToldPages

EntriesDisjoint ==
    \A j, k \in DOMAIN e820 : j # k => E820Region(e820[j]) \cap E820Region(e820[k]) = {}

LastRemembered ==
    e820 # <<>> => lastEnd = e820[Len(e820)].addr + e820[Len(e820)].size

\* The pointer to the descriptor falls behind the counter only at a descriptor that is
\* passed over, which it never leaves.
Stuck ==
    /\ at < index => at \in DOMAIN descs /\ PassOver(descs[at])
    /\ pc \in {"Exit", "Jump", "jumped"} => index = Len(descs) + 1 \/ Len(e820) = E820Max

\* While the firmware keeps quiet, the buffer suffices and the key stays right.
Quiet ==
    interference = 0 =>
        /\ pc = "AllocateMap" => Len(map) + Slack <= room
        /\ pc = "GetMap" => Len(map) <= room
        /\ pc \in {"Translate", "Exit"} => mapKey = key
        /\ pc \in {"Jump", "jumped"} => exited
        /\ pc = "asserted" => \A p \in Pages : memory[p] # "Conventional"

Progress == EntriesSound /\ EntriesComplete /\ EntriesDisjoint /\ LastRemembered

IInv == TypeOK /\ SnapshotCurrent /\ DescriptorsApart /\ Progress /\ Stuck /\ Quiet
-----------------------------------------------------------------------------
(* What a map and a pool call are.                                         *)

LEMMA MapDescribes ==
    ASSUME NEW m \in Memories, NEW d \in MapsOf(m)
    PROVE  Describes(d, m)
  BY MemoriesAssumption

\* What the firmware reports is a sequence of descriptors.
LEMMA MapSequence ==
    ASSUME NEW m \in Memories, NEW d \in MapsOf(m)
    PROVE  d \in Seq(Descriptors) /\ Len(d) \in Nat
<1>1. d \in Seq(Descriptors)
  <2>1. Describes(d, m)
    BY MapDescribes
  <2> QED BY <2>1 DEF Describes, Descriptors
<1> QED BY <1>1

\* Every type is translated to a type of the E820 table.
LEMMA E820OfType == \A t : E820Of(t) \in E820Types
  BY DEF E820Of, E820Types

\* A pool call keeps the firmware's part of the type invariant, adds at most Growth
\* descriptors, and fails only for want of memory.
LEMMA AllocateType ==
    ASSUME TypeOK, NEW type, NEW page, Allocate(type, page)
    PROVE  /\ memory' \in Memories /\ map' \in MapsOf(memory') /\ key' \in Nat
           /\ Len(map') \in Nat /\ Len(map') <= Len(map) + Growth
           /\ page = NoPage => \A p \in Pages : memory'[p] # "Conventional"
<1>1. Len(map) \in Nat
  BY MapSequence DEF TypeOK
<1>2. CASE UNCHANGED firmware /\ page \in Pages
  BY <1>1, <1>2, PagesAssumption, GrowthAssumption DEF TypeOK, firmware, NoPage
<1>3. CASE page \in Pages /\ Retype(page, type) /\ Len(map') <= Len(map) + Growth
  <2>1. memory' \in Memories /\ map' \in MapsOf(memory') /\ key' \in Nat
    BY <1>3 DEF Retype, TypeOK
  <2>2. Len(map') \in Nat
    BY <2>1, MapSequence
  <2> QED BY <1>3, <2>1, <2>2, PagesAssumption DEF NoPage
<1>4. CASE UNCHANGED firmware /\ \A p \in Pages : memory[p] # "Conventional"
  BY <1>1, <1>4, GrowthAssumption DEF TypeOK, firmware
<1> QED BY <1>2, <1>3, <1>4 DEF Allocate

\* Extending an entry adds the descriptor to its region.
LEMMA ExtendRegion ==
    ASSUME NEW e \in Entries, NEW d \in Descriptors, e.addr + e.size = d.start
    PROVE  /\ [e EXCEPT !.size = @ + d.pages] \in Entries
           /\ E820Region([e EXCEPT !.size = @ + d.pages]) = E820Region(e) \cup Region(d)
  BY DEF Entries, Descriptors, E820Region, Region

\* A new entry has the region of its descriptor.
LEMMA NewRegion ==
    ASSUME NEW t \in E820Types, NEW d \in Descriptors
    PROVE  /\ [type |-> t, addr |-> d.start, size |-> d.pages] \in Entries
           /\ E820Region([type |-> t, addr |-> d.start, size |-> d.pages]) = Region(d)
  BY DEF Entries, Descriptors, E820Region, Region

-----------------------------------------------------------------------------
(* Every step preserves the inductive invariant.                           *)

LEMMA InitIInv == Init => IInv
<1> SUFFICES ASSUME Init PROVE IInv
  OBVIOUS
<1>1. TypeOK
  <2>1. Len(descs) = 0 /\ Len(e820) = 0 /\ Len(e820) <= E820Max /\ index = 1 /\ at = 1
    BY LinuxAssumption DEF Init
  <2>2. index \in 1 .. Len(descs) + 1 /\ at \in 1 .. index /\ interference \in 0 .. MaxInterference
    BY <2>1, LinuxAssumption DEF Init
  <2>3. descs \in Seq(Descriptors) /\ e820 \in Seq(Entries)
    BY DEF Init
  <2>4. /\ memory \in Memories /\ map \in MapsOf(memory) /\ hdr \in Headers /\ pc \in PCs
        /\ room \in Nat /\ mapPage \in Pages \cup {NoPage} /\ mapKey \in Nat /\ key \in Nat
        /\ lastEnd \in Nat /\ exited \in BOOLEAN
    BY DEF Init, PCs
  <2> QED BY <2>1, <2>2, <2>3, <2>4 DEF TypeOK, Descriptors, Entries
<1>2. SnapshotCurrent /\ DescriptorsApart /\ Stuck /\ Quiet
  BY DEF Init, SnapshotCurrent, DescriptorsApart, Stuck, Quiet, Translated
<1>3. Progress
  BY DEF Init, Progress, EntriesSound, EntriesComplete, EntriesDisjoint, LastRemembered
<1> QED BY <1>1, <1>2, <1>3 DEF IInv

\* The iteration tells one descriptor more: it extends the last entry, or appends one.
LEMMA TellIInv ==
    ASSUME IInv, Translate, ~PassOver(descs[at]), ~TableFull \/ Merges(descs[at])
    PROVE  IInv'
<1> DEFINE n == Len(e820)
           d == descs[at]
<1>1. /\ at \in 1 .. Len(descs) /\ at \in Nat /\ index \in 1 .. Len(descs) /\ at <= index
      /\ Len(descs) \in Nat /\ n \in Nat /\ n <= E820Max
      /\ descs \in Seq(Descriptors) /\ e820 \in Seq(Entries)
      /\ d \in Descriptors /\ DOMAIN e820 = 1 .. n /\ DOMAIN descs = 1 .. Len(descs)
  <2>1. /\ descs \in Seq(Descriptors) /\ e820 \in Seq(Entries)
        /\ index \in 1 .. Len(descs) + 1 /\ at \in 1 .. index /\ Len(e820) <= E820Max
    BY DEF IInv, TypeOK, Descriptors, Entries
  <2>2. index <= Len(descs)
    BY DEF Translate
  <2> HIDE DEF Descriptors, Entries
  <2> QED BY <2>1, <2>2
<1>2. /\ UNCHANGED <<memory, map, key, interference, hdr, pc, room, mapPage, mapKey, descs, exited>>
      /\ pc = "Translate" /\ index' = index + 1 /\ at' = at + 1
      /\ lastEnd' = IF Merges(d) THEN lastEnd + d.pages ELSE d.start + d.pages
      /\ e820' = IF Merges(d) THEN [e820 EXCEPT ![n].size = @ + d.pages]
                 ELSE Append(e820, [type |-> E820Of(d.type), addr |-> d.start, size |-> d.pages])
  BY DEF Translate, firmware, snapshot
<1>3. \A i \in 1 .. at - 1 : Region(descs[i]) \cap Region(d) = {}
  BY <1>1 DEF IInv, DescriptorsApart
<1>4. \A k \in 1 .. n : E820Region(e820[k]) \cap Region(d) = {}
  BY <1>1, <1>3 DEF IInv, Progress, EntriesSound
<1> DEFINE e == IF Merges(d) THEN [e820[n] EXCEPT !.size = @ + d.pages]
                ELSE [type |-> E820Of(d.type), addr |-> d.start, size |-> d.pages]
           last == IF Merges(d) THEN n ELSE n + 1
\* Either way the entries are the old ones but for the last, which is e.
<1>5. Merges(d) =>
        /\ n > 0 /\ e820[n] \in Entries /\ e820[n].type = E820Of(d.type)
        /\ d.start = lastEnd /\ e820[n].addr + e820[n].size = d.start
  BY <1>1 DEF Merges, IInv, Progress, LastRemembered
<1>6. /\ e \in Entries /\ e.type = E820Of(d.type)
      /\ e.addr + e.size = d.start + d.pages
      /\ E820Region(e) = IF Merges(d) THEN E820Region(e820[n]) \cup Region(d) ELSE Region(d)
  <2>1. CASE Merges(d)
    <3>1. e = [e820[n] EXCEPT !.size = @ + d.pages]
      BY <2>1
    <3>2. e.type = e820[n].type /\ e.addr = e820[n].addr /\ e.size = e820[n].size + d.pages
      BY <1>5, <2>1, <3>1 DEF Entries
    <3>3. e \in Entries /\ E820Region(e) = E820Region(e820[n]) \cup Region(d)
      BY <1>1, <1>5, <2>1, <3>1, ExtendRegion
    <3> HIDE DEF e, d, n
    <3>4. e820[n].addr \in Nat /\ e820[n].size \in Nat /\ d.start \in Nat /\ d.pages \in Nat
      BY <1>1, <1>5, <2>1 DEF Entries, Descriptors
    <3> QED BY <1>5, <2>1, <3>2, <3>3, <3>4
  <2>2. CASE ~Merges(d)
    BY <1>1, <2>2, NewRegion, E820OfType DEF Descriptors
  <2> QED BY <2>1, <2>2
<1>7. /\ last \in Nat \ {0} /\ e820' \in Seq(Entries) /\ Len(e820') = last
      /\ e820'[last] = e /\ \A k \in 1 .. last - 1 : k \in 1 .. n /\ e820'[k] = e820[k]
  <2>1. CASE Merges(d)
    BY <1>1, <1>2, <1>5, <1>6, <2>1
  <2>2. CASE ~Merges(d)
    BY <1>1, <1>2, <1>6, <2>2
  <2> QED BY <2>1, <2>2
<1>8. DOMAIN e820' = 1 .. last
  BY <1>7
<1>9. lastEnd' = d.start + d.pages /\ lastEnd' \in Nat
  BY <1>1, <1>2, <1>5 DEF Descriptors
<1>10. last <= E820Max
  BY <1>1, LinuxAssumption DEF TableFull
<1> HIDE DEF e, d, n, last
<1>11. TypeOK'
  <2>1. index' \in 1 .. Len(descs') + 1 /\ at' \in 1 .. index'
    BY <1>1, <1>2
  <2> QED BY <1>2, <1>7, <1>9, <1>10, <2>1 DEF IInv, TypeOK, Entries
<1>12. (SnapshotCurrent /\ DescriptorsApart /\ Quiet)'
  BY <1>2 DEF IInv, SnapshotCurrent, DescriptorsApart, Quiet, Translated
<1>13. EntriesSound'
  <2> SUFFICES ASSUME NEW k \in 1 .. last, NEW p \in E820Region(e820'[k])
               PROVE  \E i \in 1 .. at : p \in Region(descs[i]) /\ e820'[k].type = E820Of(descs[i].type)
    <3>1. at' - 1 = at /\ descs' = descs
      BY <1>1, <1>2
    <3> QED BY <1>8, <3>1 DEF EntriesSound
  <2>1. CASE p \in Region(d) /\ k = last
    <3>1. e820'[k].type = E820Of(descs[at].type) /\ p \in Region(descs[at]) /\ at \in 1 .. at
      BY <1>1, <1>6, <1>7, <2>1 DEF d
    <3> QED BY <3>1
  <2>2. CASE p \notin Region(d) \/ k # last
    <3>1. PICK j \in 1 .. n : p \in E820Region(e820[j]) /\ e820'[k].type = e820[j].type
      <4>1. CASE k # last
        <5>1. k \in 1 .. last - 1
          BY <1>7, <4>1
        <5> QED BY <1>7, <5>1
      <4>2. CASE k = last
        <5>1. Merges(d) /\ p \in E820Region(e820[n])
          BY <1>6, <1>7, <2>2, <4>2
        <5>2. n \in 1 .. n /\ e820'[k].type = e820[n].type
          BY <1>1, <1>5, <1>6, <1>7, <4>2, <5>1
        <5> QED BY <5>1, <5>2
      <4> QED BY <4>1, <4>2
    <3>2. PICK i \in 1 .. at - 1 : p \in Region(descs[i]) /\ e820[j].type = E820Of(descs[i].type)
      BY <1>1, <3>1 DEF IInv, Progress, EntriesSound
    <3> QED BY <1>1, <3>1, <3>2
  <2> QED BY <2>1, <2>2
<1>14. ToldPages \cup Region(d) \subseteq ToldPages'
  <2>1. ASSUME NEW k \in 1 .. n, NEW p \in E820Region(e820[k])
        PROVE  \E j \in 1 .. last : p \in E820Region(e820'[j])
    <3>1. CASE k < last
      BY <1>1, <1>7, <3>1
    <3>2. CASE k >= last
      BY <1>1, <1>5, <1>6, <1>7, <3>2 DEF last
    <3> QED BY <1>1, <1>7, <3>1, <3>2
  <2>2. ASSUME NEW p \in Region(d)
        PROVE  \E j \in 1 .. last : p \in E820Region(e820'[j])
    BY <1>6, <1>7
  <2> QED BY <1>1, <1>8, <2>1, <2>2 DEF ToldPages
<1>15. EntriesComplete'
  <2>1. \A i \in 1 .. at - 1 : Region(descs[i]) \subseteq ToldPages
    BY DEF IInv, Progress, EntriesComplete
  <2>2. \A i \in 1 .. at' - 1 : i = at \/ i \in 1 .. at - 1
    BY <1>1, <1>2
  <2> QED BY <1>2, <1>14, <2>1, <2>2 DEF EntriesComplete, d
<1>16. EntriesDisjoint'
  <2>1. \A k \in 1 .. last - 1 : E820Region(e820'[k]) \cap E820Region(e820'[last]) = {}
    <3> SUFFICES ASSUME NEW k \in 1 .. last - 1
                 PROVE  E820Region(e820[k]) \cap E820Region(e) = {}
      BY <1>7
    <3>1. k \in 1 .. n /\ E820Region(e820[k]) \cap Region(d) = {}
      BY <1>4, <1>7
    <3>2. CASE Merges(d)
      <4>1. n \in 1 .. n /\ k # n
        BY <1>1, <1>5, <3>1, <3>2 DEF last
      <4>2. E820Region(e820[k]) \cap E820Region(e820[n]) = {}
        BY <1>1, <3>1, <4>1 DEF IInv, Progress, EntriesDisjoint
      <4> QED BY <1>6, <3>1, <3>2, <4>2
    <3>3. CASE ~Merges(d)
      BY <1>6, <3>1, <3>3
    <3> QED BY <3>2, <3>3
  <2>2. \A j, k \in 1 .. last - 1 : j # k => E820Region(e820'[j]) \cap E820Region(e820'[k]) = {}
    BY <1>1, <1>7 DEF IInv, Progress, EntriesDisjoint
  <2>3. \A k \in 1 .. last : k = last \/ k \in 1 .. last - 1
    BY <1>7
  <2> QED BY <1>8, <2>1, <2>2, <2>3 DEF EntriesDisjoint
<1>17. LastRemembered'
  BY <1>6, <1>7, <1>9 DEF LastRemembered
\* The pointer has never fallen behind, for it would stand at a type that is passed over.
<1>18. Stuck'
  <2>1. at = index
    BY <1>1 DEF IInv, Stuck, d
  <2> QED BY <1>1, <1>2, <2>1 DEF Stuck
<1> QED BY <1>11, <1>12, <1>13, <1>15, <1>16, <1>17, <1>18 DEF IInv, Progress

\* Steps outside the loop leave what it has done, which is nothing before it runs.
LEMMA ProgressKept ==
    ASSUME IInv, UNCHANGED <<at, e820, lastEnd>>, UNCHANGED descs \/ pc \notin Translated
    PROVE  Progress'
<1>1. CASE UNCHANGED descs
  <2>1. ToldPages' = ToldPages
    BY DEF ToldPages
  <2>2. (EntriesSound /\ EntriesComplete)'
    BY <1>1, <2>1 DEF IInv, Progress, EntriesSound, EntriesComplete
  <2>3. (EntriesDisjoint /\ LastRemembered)'
    BY DEF IInv, Progress, EntriesDisjoint, LastRemembered
  <2> QED BY <2>2, <2>3 DEF Progress
<1>2. CASE pc \notin Translated
  <2>1. e820' = <<>> /\ at' = 1
    BY <1>2 DEF IInv, SnapshotCurrent
  <2> QED BY <2>1 DEF Progress, EntriesSound, EntriesComplete, EntriesDisjoint, LastRemembered
<1> QED BY <1>1, <1>2

\* Every step of the loader and of the firmware preserves the invariant.
THEOREM StepIInv == IInv /\ [Next]_vars => IInv'
<1> SUFFICES ASSUME IInv, [Next]_vars PROVE IInv'
  OBVIOUS
<1> USE DEF firmware, snapshot, Translated
<1>0. /\ Len(map) \in Nat /\ map \in Seq(Descriptors) /\ Len(descs) \in Nat /\ TypeOK
      /\ Slack \in Nat /\ Growth \in Nat /\ Growth <= Slack /\ MaxInterference \in Nat
  <2>1. memory \in Memories /\ map \in MapsOf(memory) /\ descs \in Seq(Descriptors) /\ TypeOK
    BY DEF IInv, TypeOK, Descriptors
  <2> QED BY <2>1, MapSequence, LinuxAssumption, GrowthAssumption
\* The steps before the map is read.
<1>1. CASE LoadLinux
  <2> USE <1>1 DEF LoadLinux
  <2>1. /\ memory' \in Memories /\ map' \in MapsOf(memory') /\ key' \in Nat
        /\ pc' = "asserted" => \A p \in Pages : memory'[p] # "Conventional"
    BY <1>0, AllocateType DEF TypeOK
  <2>2. pc' \in {"returned", "asserted", "Handover", "SizeQuery"}
    OBVIOUS
  <2>3. TypeOK'
    BY <1>0, <2>1, <2>2 DEF TypeOK, PCs, loop
  <2>4. (SnapshotCurrent /\ DescriptorsApart /\ Stuck /\ Quiet)'
    BY <2>1, <2>2 DEF IInv, SnapshotCurrent, DescriptorsApart, Stuck, Quiet, loop
  <2>5. Progress'
    BY ProgressKept DEF loop
  <2> QED BY <2>3, <2>4, <2>5 DEF IInv
<1>2. CASE Handover
  <2> USE <1>2 DEF Handover
  <2>1. TypeOK'
    BY <1>0 DEF TypeOK, PCs, loop
  <2>2. (SnapshotCurrent /\ DescriptorsApart /\ Stuck /\ Quiet)'
    BY DEF IInv, SnapshotCurrent, DescriptorsApart, Stuck, Quiet, loop
  <2>3. Progress'
    BY ProgressKept DEF loop
  <2> QED BY <2>1, <2>2, <2>3 DEF IInv
<1>3. CASE SizeQuery
  <2> USE <1>3 DEF SizeQuery
  <2>1. room' = Len(map) + Slack
    BY DEF MapRoom
  <2>2. TypeOK'
    BY <1>0, <2>1 DEF TypeOK, PCs, loop
  <2>3. (SnapshotCurrent /\ DescriptorsApart /\ Stuck)'
    BY DEF IInv, SnapshotCurrent, DescriptorsApart, Stuck, loop
  <2>4. Quiet'
    BY <1>0, <2>1 DEF Quiet
  <2>5. Progress'
    BY ProgressKept DEF loop
  <2> QED BY <2>2, <2>3, <2>4, <2>5 DEF IInv
<1>4. CASE AllocateMap
  <2> USE <1>4 DEF AllocateMap
  <2>1. PICK page \in Pages \cup {NoPage} :
           /\ Allocate("LoaderData", page) /\ mapPage' = page
           /\ pc' = IF page = NoPage THEN "asserted" ELSE "GetMap"
    OBVIOUS
  <2>2. /\ memory' \in Memories /\ map' \in MapsOf(memory') /\ key' \in Nat
        /\ Len(map') \in Nat /\ Len(map') <= Len(map) + Growth
        /\ pc' = "asserted" => \A p \in Pages : memory'[p] # "Conventional"
    BY <1>0, <2>1, AllocateType
  <2>3. TypeOK'
    BY <1>0, <2>1, <2>2 DEF TypeOK, PCs, loop
  <2>4. (SnapshotCurrent /\ DescriptorsApart /\ Stuck)'
    BY <2>1 DEF IInv, SnapshotCurrent, DescriptorsApart, Stuck, loop
  <2>5. Quiet'
    BY <1>0, <2>1, <2>2 DEF IInv, Quiet, TypeOK
  <2>6. Progress'
    BY ProgressKept DEF loop
  <2> QED BY <2>3, <2>4, <2>5, <2>6 DEF IInv
\* The map names no page twice, and is current.
<1>5. CASE GetMap
  <2> USE <1>5 DEF GetMap
  <2>1. descs' \in Seq(Descriptors) /\ mapKey' \in Nat /\ pc' \in {"Translate", "asserted"}
    BY <1>0 DEF TypeOK, Descriptors
  <2>2. at = 1 /\ index = 1 /\ index \in 1 .. Len(descs') + 1 /\ at \in 1 .. index
    BY <2>1 DEF IInv, SnapshotCurrent
  <2>3. TypeOK'
    BY <1>0, <2>1, <2>2 DEF TypeOK, PCs, loop, Descriptors
  <2>4. (SnapshotCurrent /\ Stuck)'
    BY <1>0, <2>1, <2>2 DEF IInv, SnapshotCurrent, Stuck, loop, TypeOK
  <2>5. DescriptorsApart'
    <3>1. Describes(map, memory)
      BY <1>0, MapDescribes DEF TypeOK
    <3>2. descs' = map \/ descs' = descs
      OBVIOUS
    <3> QED BY <3>1, <3>2 DEF IInv, DescriptorsApart, Describes
  <2>6. Quiet'
    BY <1>0, <2>1 DEF IInv, Quiet, TypeOK
  <2>7. Progress'
    BY ProgressKept DEF loop
  <2> QED BY <2>3, <2>4, <2>5, <2>6, <2>7 DEF IInv
\* The loop.
<1>6. CASE Translate
  <2>1. CASE ~PassOver(descs[at]) /\ (~TableFull \/ Merges(descs[at]))
    BY <1>6, <2>1, TellIInv
  <2>2. CASE PassOver(descs[at])
    <3> USE <1>6, <2>2
    <3>1. /\ index' = index + 1 /\ index \in 1 .. Len(descs) /\ at \in 1 .. index /\ at' = at
          /\ UNCHANGED <<pc, e820, lastEnd, memory, map, key, interference, hdr, snapshot, exited>>
      BY <1>0 DEF Translate, TypeOK
    <3>2. TypeOK'
      BY <1>0, <3>1 DEF TypeOK
    <3>3. (SnapshotCurrent /\ DescriptorsApart /\ Quiet)'
      BY <1>6, <3>1 DEF IInv, SnapshotCurrent, DescriptorsApart, Quiet, Translate
    <3>4. Stuck'
      BY <1>0, <1>6, <3>1 DEF Stuck, Translate
    <3>5. Progress'
      BY <3>1, ProgressKept
    <3> QED BY <3>2, <3>3, <3>4, <3>5 DEF IInv
  <2>3. CASE ~PassOver(descs[at]) /\ ~Merges(descs[at]) /\ TableFull
    <3>1. /\ pc = "Translate" /\ pc' = "Exit"
          /\ UNCHANGED <<memory, map, key, interference, hdr, snapshot, loop, exited>>
      BY <1>6, <2>3 DEF Translate
    <3>2. Len(e820) = E820Max
      BY <1>0, <2>3, LinuxAssumption DEF TableFull, TypeOK
    <3>3. TypeOK'
      BY <1>0, <3>1 DEF TypeOK, PCs, loop
    <3>4. (SnapshotCurrent /\ DescriptorsApart /\ Stuck /\ Quiet)'
      BY <3>1, <3>2 DEF IInv, SnapshotCurrent, DescriptorsApart, Stuck, Quiet, loop
    <3>5. Progress'
      BY <3>1, ProgressKept DEF loop
    <3> QED BY <3>3, <3>4, <3>5 DEF IInv
  <2> QED BY <2>1, <2>2, <2>3
<1>7. CASE TranslateEnds
  <2> USE <1>7 DEF TranslateEnds
  <2>1. TypeOK'
    BY <1>0 DEF TypeOK, PCs, loop
  <2>2. (SnapshotCurrent /\ DescriptorsApart /\ Quiet)'
    BY DEF IInv, SnapshotCurrent, DescriptorsApart, Quiet, loop
  <2>3. Stuck'
    BY <1>0 DEF IInv, Stuck, loop, TypeOK
  <2>4. Progress'
    BY ProgressKept DEF loop
  <2> QED BY <2>1, <2>2, <2>3, <2>4 DEF IInv
\* The steps after the loop.
<1>8. CASE Exit
  <2> USE <1>8 DEF Exit, ExitSucceeds
  <2>1. TypeOK'
    BY <1>0 DEF TypeOK, PCs, loop
  <2>2. (SnapshotCurrent /\ DescriptorsApart /\ Stuck /\ Quiet)'
    BY DEF IInv, SnapshotCurrent, DescriptorsApart, Stuck, Quiet, loop
  <2>3. Progress'
    BY ProgressKept DEF loop
  <2> QED BY <2>1, <2>2, <2>3 DEF IInv
<1>9. CASE Jump
  <2> USE <1>9 DEF Jump
  <2>1. TypeOK'
    BY <1>0 DEF TypeOK, PCs, loop
  <2>2. (SnapshotCurrent /\ DescriptorsApart /\ Stuck /\ Quiet)'
    BY DEF IInv, SnapshotCurrent, DescriptorsApart, Stuck, Quiet, loop
  <2>3. Progress'
    BY ProgressKept DEF loop
  <2> QED BY <2>1, <2>2, <2>3 DEF IInv
\* The firmware leaves the loader's variables alone, and its key moves on.
<1>10. CASE FirmwareChangesMap
  <2> USE <1>10 DEF FirmwareChangesMap
  <2>1. /\ memory' \in Memories /\ map' \in MapsOf(memory') /\ key' = key + 1 /\ key \in Nat
        /\ ~exited /\ pc \notin Ended /\ interference' \in 1 .. MaxInterference
        /\ UNCHANGED <<hdr, pc, snapshot, loop, exited>>
    BY <1>0 DEF CallbackRetypes, Retype, TypeOK
  <2>2. TypeOK'
    BY <1>0, <2>1 DEF TypeOK, loop
  <2>3. (DescriptorsApart /\ Stuck)'
    BY <2>1 DEF IInv, DescriptorsApart, Stuck, loop
  <2>4. SnapshotCurrent'
    BY <1>0, <2>1 DEF IInv, SnapshotCurrent, loop, TypeOK
  <2>5. Quiet'
    BY <2>1 DEF Quiet
  <2>6. Progress'
    BY <2>1, ProgressKept DEF loop
  <2> QED BY <2>2, <2>3, <2>4, <2>5, <2>6 DEF IInv
<1>11. CASE UNCHANGED vars
  <2>1. Progress'
    BY <1>11, ProgressKept DEF vars, loop
  <2> QED BY <1>11, <2>1 DEF vars, loop, IInv, TypeOK, SnapshotCurrent, DescriptorsApart, Stuck, Quiet
<1> QED BY <1>1, <1>2, <1>3, <1>4, <1>5, <1>6, <1>7, <1>8, <1>9, <1>10, <1>11 DEF Next, LinuxStep

-----------------------------------------------------------------------------
\* In every reachable state the inductive invariant holds.
THEOREM Invariance == Spec => []IInv
  BY InitIInv, StepIInv, PTL DEF Spec

\* Every variable keeps its type: neither the descriptor pointer nor the E820 table
\* leaves its array, on any map.
THEOREM TypeCorrect == Spec => []TypeOK
<1>1. IInv => TypeOK
  BY DEF IInv
<1> QED BY <1>1, Invariance, PTL

\* Whatever the firmware does meanwhile, a kernel that boot services have ended for gets
\* two true maps.
THEOREM TrueMaps == Spec => []MapsTrue
<1>1. IInv => MapsTrue
  <2> SUFFICES ASSUME IInv, pc = "jumped", exited PROVE Describes(descs, memory) /\ E820True
    BY DEF MapsTrue
  <2>1. Describes(descs, memory)
    BY MapDescribes DEF IInv, TypeOK, SnapshotCurrent
  <2>2. ASSUME NEW k \in DOMAIN e820, NEW p \in E820Region(e820[k])
        PROVE  p \in Pages /\ e820[k].type = E820Of(memory[p])
    <3>1. PICK i \in 1 .. at - 1 : p \in Region(descs[i]) /\ e820[k].type = E820Of(descs[i].type)
      BY DEF IInv, Progress, EntriesSound
    <3>2. i \in DOMAIN descs
      BY DEF IInv, TypeOK
    <3> QED BY <2>1, <3>1, <3>2 DEF Describes
  <2> QED BY <2>1, <2>2 DEF E820True, IInv, Progress, EntriesDisjoint
<1> QED BY <1>1, Invariance, PTL

\* What the E820 table leaves out is whole descriptors, behind one that is passed over
\* or for want of room.
THEOREM TailOnly == Spec => []OnlyTailLost
<1>1. IInv => OnlyTailLost
  <2> SUFFICES ASSUME IInv, pc = "jumped", NEW i \in DOMAIN descs
               PROVE  \/ Region(descs[i]) \subseteq ToldPages
                      \/ /\ Region(descs[i]) \cap ToldPages = {}
                         /\ Len(e820) = E820Max \/ \E j \in 1 .. i : PassOver(descs[j])
    BY DEF OnlyTailLost
  <2>1. /\ i \in 1 .. Len(descs) /\ Len(descs) \in Nat
        /\ index \in 1 .. Len(descs) + 1 /\ at \in 1 .. index
    BY DEF IInv, TypeOK
  <2>2. CASE i < at
    BY <2>1, <2>2 DEF IInv, Progress, EntriesComplete
  <2>3. CASE i >= at
    <3>1. Region(descs[i]) \cap ToldPages = {}
      <4> SUFFICES ASSUME NEW k \in DOMAIN e820, NEW p \in E820Region(e820[k]), p \in Region(descs[i])
                   PROVE  FALSE
        BY DEF ToldPages
      <4>1. PICK j \in 1 .. at - 1 : p \in Region(descs[j])
        BY DEF IInv, Progress, EntriesSound
      <4>2. j \in DOMAIN descs /\ j # i
        BY <2>1, <2>3, <4>1
      <4> QED BY <4>1, <4>2 DEF IInv, DescriptorsApart
    <3>2. index = Len(descs) + 1 \/ Len(e820) = E820Max
      BY DEF IInv, Stuck
    <3>3. CASE index = Len(descs) + 1
      <4>1. PassOver(descs[at]) /\ at \in 1 .. i
        BY <2>1, <2>3, <3>3 DEF IInv, Stuck
      <4> QED BY <3>1, <4>1
    <3> QED BY <3>1, <3>2, <3>3
  <2> QED BY <2>1, <2>2, <2>3
<1> QED BY <1>1, Invariance, PTL

\* LoadLinux does not defeat itself.
THEOREM ExitsWhenQuiet == Spec => []QuietExit
<1>1. IInv => QuietExit
  BY DEF IInv, Quiet, QuietExit
<1> QED BY <1>1, Invariance, PTL
=============================================================================
