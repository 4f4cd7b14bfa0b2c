------------------------------ MODULE Handoff -------------------------------
(***************************************************************************)
(* The last part of LoadMB2Kernel, LoadStivaleKernel and                   *)
(* LoadStivale2Kernel: the size query, the allocations, the memory map     *)
(* that is kept, ExitBootServices, its translation for the kernel, and the *)
(* jump.  Until boot services end, the firmware may change the memory map  *)
(* between any two steps.                                                  *)
(***************************************************************************)
EXTENDS FirmwareMemory

CONSTANTS
    KernelType,      \* gKernelAndModulesMemoryType
    Slack,           \* EFI_PAGE_SIZE / DescriptorSize, the spare descriptors
    MaxInterference  \* bound: how often the firmware changes the map

\* main.c: 0x80000000, or the port space type on old AMI firmware.
ASSUME KernelTypeAssumption == KernelType \in {"KernelAndModules", "MemoryMappedIOPortSpace"}

\* The spare room holds what the loader's own pool calls add: two of them in the
\* stivale loaders, three in the multiboot2 loader.
ASSUME RoomAssumption ==
    /\ Slack \in Nat /\ MaxInterference \in Nat
    /\ 3 * Growth <= Slack

Loaders == {"mb2", "stivale", "stivale2"}
PCs == {"SizeQuery", "AllocateMap", "AllocateOutput", "FreeOld", "GetMap", "Exit",
        "Translate", "jumped", "failed", "undefined"}

NoType == "-1" \* LastType before the first entry

VARIABLES
    interference, \* history: how often the firmware changed the map by itself
    loader,       \* the loader that runs
    pc,           \* where it is
    room,         \* MemoryMapSize after the size query, in descriptors
    mapPage,      \* where MemoryMap is, NoPage if it is NULL
    outPage,      \* where the entries for the kernel are
    mapKey,       \* MapKey
    descs,        \* the contents of MemoryMap
    next,         \* i + 1 of the translation loop
    entries,      \* the entries for the kernel
    lastType,     \* LastType
    lastEnd       \* LastEnd

buffers == <<room, mapPage, outPage>>
snapshot == <<mapKey, descs>>
loop == <<next, entries, lastType, lastEnd>>
vars == <<firmware, interference, loader, pc, buffers, snapshot, loop>>

-----------------------------------------------------------------------------
(* The translation of memory types.                                        *)

Meanings == {"usable", "reserved", "acpi_reclaim", "acpi_nvs", "bad",
             "bootloader_reclaim", "kernel_modules"}

\* The rows of the three tables.
ReclaimedAsUsable(ldr) == "usable"
ReclaimedAs(ldr) == IF ldr = "mb2" THEN "usable" ELSE "bootloader_reclaim"
TableRow(ldr, t) ==
    CASE t \in Reclaimable -> ReclaimedAs(ldr)
      [] t = "Conventional" -> "usable"
      [] t = "Unusable" -> "bad"
      [] t = "ACPIReclaim" -> "acpi_reclaim"
      [] t = "ACPINVS" -> "acpi_nvs"
      [] OTHER -> "reserved"
Listed(ldr) == IF ldr = "stivale2" THEN ListedTypes \cup {"Persistent"} ELSE ListedTypes

\* What is read behind the end of a table.
AnyMeaning == Meanings \cup {"garbage"}

\* Only the stivale loaders look for the kernel's own type and leave out the
\* numbers from EfiMaxMemoryType on; a type below that has to be in the table.
MeaningsOf(ldr, t) ==
    IF ldr # "mb2" /\ t = KernelType THEN {"kernel_modules"}
    ELSE IF t \in Listed(ldr) THEN {TableRow(ldr, t)}
    ELSE IF ldr # "mb2" /\ t # "Persistent" THEN {"reserved"}
    ELSE AnyMeaning

-----------------------------------------------------------------------------
(* The firmware.                                                           *)

BootServices == pc \notin {"Translate", "jumped", "failed", "undefined"}

\* A timer or event callback allocates or frees a page of its own.
FirmwareChangesMap ==
    /\ BootServices
    /\ interference < MaxInterference
    /\ \E p \in Pages \ {mapPage, outPage} : CallbackRetypes(p)
    /\ interference' = interference + 1
    /\ UNCHANGED <<loader, pc, buffers, snapshot, loop>>

-----------------------------------------------------------------------------
(* The loader.                                                             *)

Init ==
    /\ memory \in Memories /\ map \in MapsOf(memory)
    /\ key = 0 /\ interference = 0
    /\ loader \in Loaders /\ pc = "SizeQuery"
    /\ room = 0 /\ mapPage = NoPage /\ outPage = NoPage
    /\ mapKey = 0 /\ descs = <<>>
    /\ next = 1 /\ entries = <<>> /\ lastType = NoType /\ lastEnd = 0

Goto(label) == pc' = label

MapRoomWithoutSlack(length) == length
\* MemoryMapSize += EFI_PAGE_SIZE.
MapRoom(length) == length + Slack

\* The first GetMemoryMap, into a buffer of one byte: EFI_BUFFER_TOO_SMALL.
SizeQuery ==
    /\ pc = "SizeQuery"
    /\ room' = MapRoom(Len(map))
    /\ Goto("AllocateMap")
    /\ UNCHANGED <<firmware, interference, loader, mapPage, outPage, snapshot, loop>>

AllocateMap ==
    /\ pc = "AllocateMap"
    /\ \E page \in Pages \cup {NoPage} : Allocate("BootServicesData", page) /\ mapPage' = page
    /\ Goto("AllocateOutput")
    /\ UNCHANGED <<interference, loader, room, outPage, snapshot, loop>>

OutputRoomOfQuery == room - Slack
\* The entries there is room for: MemoryMapSize / DescriptorSize.
OutputRoom == room

OutputType(ldr) == IF ldr = "stivale" THEN "Reserved" ELSE "BootServicesData"

\* The result is used unchecked: with NULL the loader writes to page zero.
AllocateOutput ==
    /\ pc = "AllocateOutput"
    /\ \E page \in Pages \cup {NoPage} : Allocate(OutputType(loader), page) /\ outPage' = page
    /\ Goto(IF outPage' = NoPage THEN "undefined" ELSE IF loader = "mb2" THEN "FreeOld" ELSE "GetMap")
    /\ UNCHANGED <<interference, loader, room, mapPage, snapshot, loop>>

\* PushBootParams frees the shorter buffer it copied from.
FreeOld ==
    /\ pc = "FreeOld"
    /\ \/ UNCHANGED firmware
       \/ \E p \in Pages \ {mapPage, outPage} :
            /\ memory[p] = "BootServicesData"
            /\ Retype(p, "Conventional") /\ Len(map') <= Len(map) + Growth
    /\ Goto("GetMap")
    /\ UNCHANGED <<interference, loader, buffers, snapshot, loop>>

\* GetMemoryMap refuses a NULL buffer and one that is too small.
GetMap ==
    /\ pc = "GetMap"
    /\ IF mapPage # NoPage /\ Len(map) <= room
       THEN descs' = map /\ mapKey' = key /\ Goto("Exit")
       ELSE Goto("failed") /\ UNCHANGED snapshot
    /\ UNCHANGED <<firmware, interference, loader, buffers, loop>>

ExitUnchecked == TRUE
\* The status of ExitBootServices, which is what EFI_CHECK looks at.
ExitSucceeds == mapKey = key

\* ExitBootServices ends boot services, or fails and the loader returns.
Exit ==
    /\ pc = "Exit"
    /\ Goto(IF ExitSucceeds THEN "Translate" ELSE "failed")
    /\ UNCHANGED <<firmware, interference, loader, buffers, snapshot, loop>>

CanMergeInclusive(meaning, d) == loader # "mb2" /\ lastType = meaning /\ lastEnd - 1 = d.start
CanMergeAnywhere(meaning, d) == loader # "mb2" /\ lastType = meaning
\* The multiboot2 loader does not merge.
CanMerge(meaning, d) == loader # "mb2" /\ lastType = meaning /\ lastEnd = d.start

EndOf(d) == d.start + d.pages

NewEntryInclusive(meaning, d) ==
    [type |-> meaning, base |-> d.start, length |-> EndOf(d) - 1 - d.start]
NewEntry(meaning, d) == [type |-> meaning, base |-> d.start, length |-> d.pages]

\* One iteration of the translation loop.
Translate ==
    /\ pc = "Translate" /\ next <= Len(descs)
    /\ LET d == descs[next] IN
       \E meaning \in MeaningsOf(loader, d.type) :
          /\ entries' = IF CanMerge(meaning, d)
                        THEN [entries EXCEPT ![Len(entries)].length = @ + d.pages]
                        ELSE Append(entries, NewEntry(meaning, d))
          /\ lastType' = meaning
          /\ lastEnd' = EndOf(d)
    /\ next' = next + 1
    /\ UNCHANGED <<firmware, interference, loader, pc, buffers, snapshot>>

Jump ==
    /\ pc = "Translate" /\ next > Len(descs)
    /\ Goto("jumped")
    /\ UNCHANGED <<firmware, interference, loader, buffers, snapshot, loop>>

LoaderStep == SizeQuery \/ AllocateMap \/ AllocateOutput \/ FreeOld \/ GetMap \/ Exit \/ Translate \/ Jump

Next == LoaderStep \/ FirmwareChangesMap

Spec == Init /\ [][Next]_vars

-----------------------------------------------------------------------------
(* Invariants.                                                             *)

EntryRegion(e) == e.base .. e.base + e.length - 1

\* Every variable has its type.
TypeOK ==
    /\ memory \in Memories /\ map \in MapsOf(memory)
    /\ key \in Nat /\ interference \in 0 .. MaxInterference
    /\ loader \in Loaders /\ pc \in PCs
    /\ room \in Nat /\ mapPage \in Pages \cup {NoPage} /\ outPage \in Pages \cup {NoPage}
    /\ mapKey \in Nat /\ descs \in Seq([type : MemoryTypes, start : Nat, pages : Nat \ {0}])
    /\ next \in 1 .. Len(descs) + 1
    /\ entries \in Seq([type : AnyMeaning, base : Nat, length : Nat \ {0}])
    /\ lastType \in AnyMeaning \cup {NoType} /\ lastEnd \in Nat

\* The kernel is told of every page of the machine exactly once, of nothing else,
\* and with a meaning the page's type has at that moment: whatever the firmware
\* did while the map was prepared, in whatever order it lists its descriptors.
KernelMapExact ==
    pc = "jumped" =>
        /\ \A k \in DOMAIN entries : \A p \in EntryRegion(entries[k]) :
             p \in Pages /\ entries[k].type \in MeaningsOf(loader, memory[p])
        /\ \A p \in Pages : \E k \in DOMAIN entries : p \in EntryRegion(entries[k])
        /\ \A j, k \in DOMAIN entries :
             j # k => EntryRegion(entries[j]) \cap EntryRegion(entries[k]) = {}

\* The loop never writes behind the buffer that was allocated before the map was
\* known: "all the space we will need (hopefully)".
NoOverrun == Len(entries) <= OutputRoom

\* Two consecutive entries are never one: the stivale loaders merge what is
\* adjacent and means the same.
Coalesced ==
    loader # "mb2" =>
        \A k \in 1 .. Len(entries) - 1 :
            ~ /\ entries[k].type = entries[k + 1].type
              /\ entries[k].base + entries[k].length = entries[k + 1].base

\* The loader does not defeat itself: as long as the firmware leaves the memory
\* map alone and there is memory, the hand-off does not fail, although the loader
\* changes the map between its size query and ExitBootServices.
QuietExit == pc = "failed" => interference > 0 \/ mapPage = NoPage

\* A stivale kernel that takes what is usable at once does not overwrite the
\* memory map it was given, nor its own image and modules.
OwnPagesKept ==
    pc = "jumped" /\ loader # "mb2" =>
        \A k \in DOMAIN entries : \A p \in EntryRegion(entries[k]) :
            p = outPage \/ memory[p] = KernelType => entries[k].type \in {"reserved", "bootloader_reclaim", "kernel_modules"}

-----------------------------------------------------------------------------
(* The inductive invariant: what the safety invariants rest on.            *)

Translating == pc \in {"Translate", "jumped"}

\* MemoryMap is the current map if the key says so, and fits the rooms.
SnapshotCurrent ==
    /\ pc = "Exit" => Len(descs) <= room /\ mapKey <= key /\ (mapKey = key => descs = map)
    /\ Translating => Len(descs) <= room /\ descs = map
    /\ pc = "jumped" => next = Len(descs) + 1
    /\ ~Translating => next = 1 /\ entries = <<>>

\* What the loop has done after next - 1 descriptors.
EntriesSound ==
    \A k \in DOMAIN entries : \A p \in EntryRegion(entries[k]) :
        \E i \in 1 .. next - 1 :
            p \in Region(descs[i]) /\ entries[k].type \in MeaningsOf(loader, descs[i].type)
EntriesComplete ==
    \A i \in 1 .. next - 1 : \A p \in Region(descs[i]) :
        \E k \in DOMAIN entries : p \in EntryRegion(entries[k])
EntriesDisjoint ==
    \A j, k \in DOMAIN entries : j # k => EntryRegion(entries[j]) \cap EntryRegion(entries[k]) = {}
LastRemembered ==
    /\ Len(entries) <= next - 1
    /\ entries = <<>> => lastType = NoType
    /\ entries # <<>> =>
         LET e == entries[Len(entries)] IN lastType = e.type /\ lastEnd = e.base + e.length

\* How far the map can have grown if only the loader changed it.
RoomSuffices ==
    interference = 0 =>
        /\ pc = "AllocateMap" => Len(map) + Slack <= room
        /\ pc = "AllocateOutput" => Len(map) + Slack <= room + Growth
        /\ pc = "FreeOld" => Len(map) + Slack <= room + 2 * Growth
        /\ pc = "GetMap" => Len(map) + Slack <= room + 3 * Growth
        /\ pc = "Exit" => mapKey = key

OutputOwned == outPage # NoPage => memory[outPage] = OutputType(loader)

IInv ==
    /\ TypeOK /\ SnapshotCurrent
    /\ EntriesSound /\ EntriesComplete /\ EntriesDisjoint /\ LastRemembered /\ Coalesced
    /\ RoomSuffices /\ QuietExit /\ OutputOwned

-----------------------------------------------------------------------------
(* What the hand-off implements.                                           *)

Phase ==
    CASE pc = "jumped" -> "kernel"
      [] pc \in {"failed", "undefined"} -> "returned"
      [] OTHER -> "loading"

\* What the kernel finds when it looks a page up.
LookUp == [p \in Pages |-> entries[CHOOSE k \in DOMAIN entries : p \in EntryRegion(entries[k])].type]

KV == INSTANCE KernelView WITH
        Told <- MeaningsOf, phase <- Phase,
        view <- IF pc = "jumped" THEN LookUp ELSE [p \in {} |-> p]

\* Query, retry-free exit and translation together are one atomic hand-over of the
\* machine's memory as it is when the kernel is entered.
ImplementsKernelView == KV!Spec
=============================================================================
