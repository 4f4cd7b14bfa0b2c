---------------------------- MODULE LinuxHandoff ----------------------------
(***************************************************************************)
(* LoadLinux of LoadLinuxLib, the last call of the linux loader: the       *)
(* descriptor tables, the EFI handover of new kernels, and for the others  *)
(* the memory map, its translation to an E820 table, ExitBootServices, and *)
(* the jump.  The firmware may change the memory map between any two steps *)
(* while its boot services are alive.                                      *)
(***************************************************************************)
EXTENDS FirmwareMemory

CONSTANTS
    Headers,         \* the setup headers of kernels, see HeaderForm
    Slack,           \* EFI_PAGE_SIZE / DescriptorSize, the spare descriptors
    E820Max,         \* ARRAY_SIZE (Bp->e820_map)
    MaxInterference  \* bound: how often the firmware changes the map

\* signed says that the two signatures are there, handover that handover_offset is
\* set, and xload64 that xloadflags has BIT3.
HeaderForm ==
    [signed : BOOLEAN, version : Nat, relocatable : BOOLEAN, handover : BOOLEAN, xload64 : BOOLEAN]

ASSUME LinuxAssumption ==
    /\ Headers \subseteq HeaderForm
    /\ Slack \in Nat /\ E820Max \in Nat \ {0} /\ MaxInterference \in Nat
    /\ Growth <= Slack

VARIABLES
    interference, \* history: how often the firmware changed the map by itself
    hdr,          \* the setup header
    pc,           \* where LoadLinux is
    room,         \* MemoryMapSize after the size query, in descriptors
    mapPage,      \* where the buffer for the map is
    mapKey,       \* MapKey
    descs,        \* the contents of the buffer, and of what efi_memmap points to
    index,        \* Index + 1
    at,           \* the descriptor MemoryMap points to
    e820,         \* e820_map, up to e820_entries
    lastEnd,      \* LastEndAddr
    exited        \* whether boot services have ended

snapshot == <<room, mapPage, mapKey, descs>>
loop == <<index, at, e820, lastEnd>>
vars == <<firmware, interference, hdr, pc, snapshot, loop, exited>>

PCs == {"LoadLinux", "Handover", "SizeQuery", "AllocateMap", "GetMap", "Translate", "Exit", "Jump",
        "jumped", "handedOver", "returned", "asserted"}
Ended == {"jumped", "handedOver", "returned", "asserted"}

-----------------------------------------------------------------------------
(* The setup header.                                                       *)

Version(major, minor) == 256 * major + minor

\* LoadLinuxCheckKernelSetup: only relocatable kernels are supported.
CheckKernelSetup(h) == h.signed /\ h.version >= Version(2, 5) /\ h.relocatable

HasHandover(h) == h.version >= Version(2, 12) /\ h.handover /\ h.xload64

-----------------------------------------------------------------------------
(* The firmware.                                                           *)

FirmwareChangesMap ==
    /\ pc \notin Ended /\ ~exited
    /\ interference < MaxInterference
    /\ \E p \in Pages : CallbackRetypes(p)
    /\ interference' = interference + 1
    /\ UNCHANGED <<hdr, pc, snapshot, loop, exited>>

-----------------------------------------------------------------------------
(* LoadLinux                                                               *)

Init ==
    /\ memory \in Memories /\ map \in MapsOf(memory) /\ key = 0 /\ interference = 0
    /\ hdr \in Headers /\ pc = "LoadLinux"
    /\ room = 0 /\ mapPage = NoPage /\ mapKey = 0 /\ descs = <<>>
    /\ index = 1 /\ at = 1 /\ e820 = <<>> /\ lastEnd = 0
    /\ exited = FALSE

\* The check of the header, and InitLinuxDescriptorTables, which asserts that there is
\* memory for the table.
LoadLinux ==
    /\ pc = "LoadLinux"
    /\ \/ ~CheckKernelSetup(hdr) /\ pc' = "returned" /\ UNCHANGED firmware
       \/ /\ CheckKernelSetup(hdr)
          /\ \E page \in Pages \cup {NoPage} :
                /\ Allocate("RuntimeServicesData", page)
                /\ pc' = IF page = NoPage THEN "asserted"
                         ELSE IF HasHandover(hdr) THEN "Handover" ELSE "SizeQuery"
    /\ UNCHANGED <<interference, hdr, snapshot, loop, exited>>

\* The kernel is called with boot services alive.  If it returns, it is entered a
\* second time, in the old way.
Handover ==
    /\ pc = "Handover"
    /\ pc' \in {"handedOver", "SizeQuery"}
    /\ UNCHANGED <<firmware, interference, hdr, snapshot, loop, exited>>

MapRoomWithoutSlack(length) == length
\* MemoryMapSize += EFI_PAGE_SIZE.
MapRoom(length) == length + Slack

\* SetupLinuxMemmap, up to its first GetMemoryMap.
SizeQuery ==
    /\ pc = "SizeQuery" /\ pc' = "AllocateMap"
    /\ room' = MapRoom(Len(map))
    /\ UNCHANGED <<firmware, interference, hdr, mapPage, mapKey, descs, loop, exited>>

AllocateMap ==
    /\ pc = "AllocateMap"
    /\ \E page \in Pages \cup {NoPage} :
          /\ Allocate("LoaderData", page) /\ mapPage' = page
          /\ pc' = IF page = NoPage THEN "asserted" ELSE "GetMap"
    /\ UNCHANGED <<interference, hdr, room, mapKey, descs, loop, exited>>

\* The second GetMemoryMap, which has to succeed.
GetMap ==
    /\ pc = "GetMap"
    /\ IF Len(map) <= room
       THEN descs' = map /\ mapKey' = key /\ pc' = "Translate"
       ELSE pc' = "asserted" /\ UNCHANGED <<descs, mapKey>>
    /\ UNCHANGED <<firmware, interference, hdr, room, mapPage, loop, exited>>

E820Types == {"RAM", "RESERVED", "ACPI", "NVS", "UNUSABLE"}

E820Of(t) ==
    CASE t \in Reclaimable \cup {"Conventional"} -> "RAM"
      [] t = "Unusable" -> "UNUSABLE"
      [] t = "ACPIReclaim" -> "ACPI"
      [] t = "ACPINVS" -> "NVS"
      [] OTHER -> "RESERVED"

\* A descriptor of another type is passed over by counting it, and the pointer to
\* the descriptor stays where it is.
PassOver(d) == d.type \notin ListedTypes

MergesAnywhere(d) == e820 # <<>> /\ e820[Len(e820)].type = E820Of(d.type)
Merges(d) == e820 # <<>> /\ e820[Len(e820)].type = E820Of(d.type) /\ d.start = lastEnd

TableFullLate == Len(e820) > E820Max
TableFullEarly == Len(e820) >= E820Max - 1
TableFull == Len(e820) >= E820Max

\* One iteration of the loop over descriptors.
Translate ==
    /\ pc = "Translate" /\ index <= Len(descs)
    /\ LET d == descs[at]
       IN  \/ PassOver(d) /\ index' = index + 1 /\ UNCHANGED <<pc, at, e820, lastEnd>>
           \/ /\ ~PassOver(d) /\ Merges(d)
              /\ e820' = [e820 EXCEPT ![Len(e820)].size = @ + d.pages]
              /\ lastEnd' = lastEnd + d.pages
              /\ index' = index + 1 /\ at' = at + 1 /\ UNCHANGED pc
           \/ ~PassOver(d) /\ ~Merges(d) /\ TableFull /\ pc' = "Exit" /\ UNCHANGED loop
           \/ /\ ~PassOver(d) /\ ~Merges(d) /\ ~TableFull
              /\ e820' = Append(e820, [type |-> E820Of(d.type), addr |-> d.start, size |-> d.pages])
              /\ lastEnd' = d.start + d.pages
              /\ index' = index + 1 /\ at' = at + 1 /\ UNCHANGED pc
    /\ UNCHANGED <<firmware, interference, hdr, snapshot, exited>>

TranslateEnds ==
    /\ pc = "Translate" /\ index > Len(descs) /\ pc' = "Exit"
    /\ UNCHANGED <<firmware, interference, hdr, snapshot, loop, exited>>

ExitUnchecked == TRUE
ExitSucceeds == mapKey = key

\* The status of ExitBootServices is not looked at.
Exit ==
    /\ pc = "Exit" /\ pc' = "Jump"
    /\ exited' = ExitSucceeds
    /\ UNCHANGED <<firmware, interference, hdr, snapshot, loop>>

Jump ==
    /\ pc = "Jump" /\ pc' = "jumped"
    /\ UNCHANGED <<firmware, interference, hdr, snapshot, loop, exited>>

LinuxStep ==
    LoadLinux \/ Handover \/ SizeQuery \/ AllocateMap \/ GetMap \/ Translate \/ TranslateEnds \/ Exit \/ Jump

Next == LinuxStep \/ FirmwareChangesMap

Spec == Init /\ [][Next]_vars

-----------------------------------------------------------------------------
(* Invariants.                                                             *)

\* Every variable has its type, and the table its size.
TypeOK ==
    /\ memory \in Memories /\ map \in MapsOf(memory) /\ key \in Nat
    /\ interference \in 0 .. MaxInterference /\ hdr \in Headers /\ pc \in PCs
    /\ room \in Nat /\ mapPage \in Pages \cup {NoPage} /\ mapKey \in Nat
    /\ descs \in Seq([type : MemoryTypes, start : Nat, pages : Nat \ {0}])
    /\ index \in 1 .. Len(descs) + 1 /\ at \in 1 .. index
    /\ e820 \in Seq([type : E820Types, addr : Nat, size : Nat \ {0}]) /\ Len(e820) <= E820Max
    /\ lastEnd \in Nat /\ exited \in BOOLEAN

E820Region(e) == e.addr .. e.addr + e.size - 1
ToldPages == UNION {E820Region(e820[k]) : k \in DOMAIN e820}

E820True ==
    /\ \A k \in DOMAIN e820 : \A p \in E820Region(e820[k]) :
         p \in Pages /\ e820[k].type = E820Of(memory[p])
    /\ \A j, k \in DOMAIN e820 : j # k => E820Region(e820[j]) \cap E820Region(e820[k]) = {}

\* A kernel that boot services have ended for gets two true maps, whatever the firmware
\* did meanwhile and in whatever order it lists its descriptors: its own descriptors are
\* all of the machine's memory, and the E820 table tells of every page it names the
\* type, of no page twice, and of no page that is not there.
MapsTrue == pc = "jumped" /\ exited => Describes(descs, memory) /\ E820True

\* A descriptor is told whole or not at all; one that is not told stands behind a
\* descriptor of a type without meaning, such as the rest of the kernel's file, or the
\* table is full.
OnlyTailLost ==
    pc = "jumped" =>
        \A i \in DOMAIN descs :
            \/ Region(descs[i]) \subseteq ToldPages
            \/ /\ Region(descs[i]) \cap ToldPages = {}
               /\ Len(e820) = E820Max \/ \E j \in 1 .. i : PassOver(descs[j])

\* LoadLinux does not defeat itself: with memory left, and a firmware that leaves the map
\* alone, no assertion fails and the kernel is not entered with boot services alive,
\* although the allocation of the buffer changes the map after its size was asked for.
QuietExit ==
    interference = 0 =>
        /\ pc = "jumped" => exited
        /\ pc = "asserted" => \A p \in Pages : memory[p] # "Conventional"
=============================================================================
