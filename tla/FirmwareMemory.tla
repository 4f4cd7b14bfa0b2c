--------------------------- MODULE FirmwareMemory ---------------------------
(***************************************************************************)
(* The memory services of the firmware, as the loaders use them between    *)
(* the size query of the memory map and the jump to the kernel.            *)
(*                                                                         *)
(* memory says what each page is; map is the sequence of descriptors the   *)
(* firmware reports for it, in no particular order and not always with the *)
(* fewest descriptors.                                                     *)
(***************************************************************************)
EXTENDS Integers, Sequences

CONSTANTS
    Pages,           \* the physical pages, with holes
    Memories,        \* the contents memory may have
    MapsOf(_),       \* the sequences of descriptors reported for a memory
    Growth           \* how many descriptors one pool call may add

\* The types below EfiPersistentMemory, which all loaders know.
Reclaimable == {"LoaderCode", "LoaderData", "BootServicesCode", "BootServicesData"}
ListedTypes == Reclaimable \cup
    {"Reserved", "RuntimeServicesCode", "RuntimeServicesData", "Conventional", "Unusable",
     "ACPIReclaim", "ACPINVS", "MemoryMappedIO", "MemoryMappedIOPortSpace", "PalCode"}

\* "Persistent" is EfiPersistentMemory, the last type below EfiMaxMemoryType;
\* "KernelAndModules" is 0x80000000; "Oem" stands for all other numbers.
MemoryTypes == ListedTypes \cup {"Persistent", "KernelAndModules", "Oem"}

Region(d) == d.start .. d.start + d.pages - 1

\* The descriptors name every page once and by its type.
Describes(descs, m) ==
    /\ descs \in Seq([type : MemoryTypes, start : Nat, pages : Nat \ {0}])
    /\ \A i \in DOMAIN descs : \A p \in Region(descs[i]) : p \in Pages /\ m[p] = descs[i].type
    /\ \A p \in Pages : \E i \in DOMAIN descs : p \in Region(descs[i])
    /\ \A i, j \in DOMAIN descs : i # j => Region(descs[i]) \cap Region(descs[j]) = {}

ASSUME PagesAssumption == Pages \subseteq Nat

ASSUME MemoriesAssumption ==
    /\ Memories \subseteq [Pages -> MemoryTypes]
    /\ \A m \in Memories : MapsOf(m) # {} /\ \A descs \in MapsOf(m) : Describes(descs, m)

ASSUME GrowthAssumption == Growth \in Nat

VARIABLES
    memory, \* what each page is
    map,    \* the firmware's descriptors
    key     \* the firmware's map key: it changes when the map does

firmware == <<memory, map, key>>

NoPage == -1 \* the NULL of a failed allocation

Retype(p, t) ==
    /\ memory' = [memory EXCEPT ![p] = t]
    /\ memory' \in Memories
    /\ map' \in MapsOf(memory')
    /\ key' = key + 1

\* A timer or event callback allocates or frees a page of its own.
CallbackRetypes(p) ==
    \/ memory[p] = "Conventional" /\ Retype(p, "BootServicesData")
    \/ memory[p] = "BootServicesData" /\ Retype(p, "Conventional")

\* AllocatePool and its relatives: from a page the pool has, from a new one, or
\* NULL when there is none.  page is the address.
Allocate(type, page) ==
    \/ /\ page \in Pages /\ memory[page] = type
       /\ UNCHANGED firmware
    \/ /\ page \in Pages /\ memory[page] = "Conventional"
       /\ Retype(page, type) /\ Len(map') <= Len(map) + Growth
    \/ /\ page = NoPage /\ \A p \in Pages : memory[p] # "Conventional"
       /\ UNCHANGED firmware
=============================================================================
