------------------------------- MODULE Stivale ------------------------------
(***************************************************************************)
(* The loaders of the stivale and stivale2 protocols, LoadStivaleKernel    *)
(* and LoadStivale2Kernel with their assembly stubs: the kernel's header,  *)
(* the graphics mode, what the kernel is told, the page tables, and the    *)
(* jump.  Any step may fail and return to the menu, from which the next    *)
(* attempt starts with the display and page tables the last one left.      *)
(* Memory for the kernel's pages and files is in Loading, and the memory   *)
(* map, with the end of boot services, in Handoff.                         *)
(***************************************************************************)
EXTENDS GfxUtils, TimeUtils, FiniteSetsExt

CONSTANTS
    Kernels,    \* the kernels, see KernelForm
    Machines,   \* the machines, see MachineForm
    Configs,    \* the boot configurations, as far as the loaders use them
    Dates,      \* what the clock may say
    MaxAttempts \* bound: calls of the loaders

-----------------------------------------------------------------------------
(* Addresses.                                                              *)

\* A canonical virtual address: its entries in the top table and in the table below,
\* and whether it is the first byte of what that entry maps, or a later one.
Address == [top : {0, 256, 511}, slot : 0 .. 511, off : {0, 1}]
At(top, slot, off) == [top |-> top, slot |-> slot, off |-> off]

Null == At(0, 0, 0)
HigherHalfBase == At(511, 510, 0) \* 0xffffffff80000000

AtOrAboveBase(a) == a.top = 511 /\ a.slot >= 510
AboveBase(a) == a.top = 511 /\ (a.slot > 510 \/ (a.slot = 510 /\ a.off > 0))

\* The difference to the base, and to the base of the direct map, as an address.
MinusBase(a) == At(0, a.slot - 510, a.off)

-----------------------------------------------------------------------------
(* Kernels and machines.                                                   *)

Idents == {"PML5", "FRAMEBUFFER", "SMP", "other"}
HeaderTags == [ident : Idents, width : Nat, height : Nat]

\* section tells whether the file has a header section of the right size.  vaddr and
\* paddr are those of the segment with the entry and the stack; graphics, pml5,
\* width and height are the wishes of a stivale header, tags those of a stivale2 header.
KernelForm ==
    [version : {1, 2}, section : BOOLEAN, vaddr : Address, paddr : Address, entry : Address,
     entryPoint : Address, stack : Address, graphics : BOOLEAN, pml5 : BOOLEAN, width : Nat,
     height : Nat, tags : Seq(HeaderTags), modules : Nat]

\* The entry of the header takes the place of the file's, if there is one.
EntryOf(k) == IF k.entryPoint # Null THEN k.entryPoint ELSE k.entry

\* A kernel that can be loaded where its addresses say: the segment is linked low, or
\* high, and its physical address is what the higher half maps it to, or is left as
\* the virtual one; its entry is in that segment.
Consistent(k) ==
    /\ k.vaddr.off = 0
    /\ k.vaddr.top = 0 \/ AtOrAboveBase(k.vaddr)
    /\ k.paddr = k.vaddr \/ (k.vaddr.top = 511 /\ k.paddr = MinusBase(k.vaddr))
    /\ [EntryOf(k) EXCEPT !.off = 0] \in {k.vaddr, k.paddr}

DaySeconds == 86400

MachineForm == [modes : SizedModeTables, pml5 : BOOLEAN, acpi20 : BOOLEAN, acpi10 : BOOLEAN]

ASSUME StivaleAssumption ==
    /\ Kernels # {} /\ Kernels \subseteq KernelForm /\ \A k \in Kernels : Consistent(k)
    /\ Machines \subseteq MachineForm
    /\ Configs # {} /\ Configs \subseteq [gfxMode : Int, overrideGfx : BOOLEAN]
    /\ Dates \subseteq [year : Nat, month : 1 .. 12, day : 1 .. 31, second : 0 .. DaySeconds - 1]
    /\ MaxAttempts \in Nat

VARIABLES
    pc, attempts,
    machine,    \* the machine
    gopMode,    \* the mode of the display
    pml4,       \* the entries of the top page table that matter, and of the tables they point to
    config,     \* the boot configuration
    kernel,     \* the kernel that is loaded
    higherHalf, \* HigherHalf
    loadedAt,   \* where the segment was loaded, Null before
    next,       \* the loops over header tags and modules
    wishes,     \* RequestedPml5 and FramebufferReq
    links,      \* the list the kernel gets: the Next of each of its nodes
    tail,       \* the node whose Next is written next
    told,       \* what is in the nodes: mode, RSDP, epoch
    clock,      \* history: the date that was read
    cpu         \* the registers at the jump

display == <<gopMode, wishes>>
list == <<links, tail, told, clock>>
image == <<kernel, config, higherHalf, loadedAt>>
vars == <<pc, attempts, machine, display, pml4, image, next, list, cpu>>

Steps == {"Header", "Mode", "Elf", "HeaderTags", "Struct", "Epoch", "Modules", "PageTables", "HandOff", "Jump"}
\* "shutdown" is a processor that cannot deliver an exception.
PCs == Steps \cup {"menu", "jumped", "asserted", "shutdown"}

\* Nodes of the list.
Node(kind, n) == [kind |-> kind, n |-> n]
Tag(kind) == Node(kind, 0)
End == Tag("null")
\* A list of one node, and a list with a new node linked behind one of its nodes.
OnlyNode(node) == [n \in {node} |-> End]
Behind(node, chain, new) ==
    [n \in DOMAIN chain \cup {new} |-> IF n = node THEN new ELSE IF n = new THEN End ELSE chain[n]]

NoMapping == -1
GBs == 0 .. 3
\* The firmware maps its memory to itself.
FirmwareTable == [slot \in {510, 511} \cup GBs |-> IF slot \in GBs THEN slot ELSE NoMapping]
NoTable == [slot \in DOMAIN FirmwareTable |-> NoMapping]

NoWishes == [pml5 |-> FALSE, width |-> 0, height |-> 0]
NothingTold == [mode |-> NoMode, rsdp |-> "none", epoch |-> <<0, 0>>]
NoCpu == [ip |-> Null, sp |-> Null]
NoDate == [year |-> 0, month |-> 1, day |-> 1, second |-> 0]

-----------------------------------------------------------------------------
(* LoadKernel, for the two protocols.                                      *)

Init ==
    /\ pc = "menu" /\ attempts = 0 /\ machine \in Machines
    /\ gopMode \in {m \in 0 .. Len(machine.modes) - 1 : Supported(machine.modes, m)}
    /\ pml4 = [top \in {0, 256, 511} |-> IF top = 0 THEN FirmwareTable ELSE NoTable]
    /\ kernel = (CHOOSE k \in Kernels : TRUE) /\ config = (CHOOSE c \in Configs : TRUE)
    /\ higherHalf = FALSE /\ loadedAt = Null /\ next = 1 /\ wishes = NoWishes
    /\ links = OnlyNode(Tag("struct")) /\ tail = Tag("struct") /\ told = NothingTold
    /\ clock = NoDate /\ cpu = NoCpu

LoadKernel ==
    /\ pc = "menu" /\ attempts < MaxAttempts /\ attempts' = attempts + 1
    /\ kernel' \in Kernels /\ config' \in Configs
    /\ higherHalf' = FALSE /\ loadedAt' = Null /\ next' = 1 /\ wishes' = NoWishes
    /\ links' = OnlyNode(Tag("struct")) /\ tail' = Tag("struct") /\ told' = NothingTold
    /\ clock' = NoDate
    /\ pc' = "Header"
    /\ UNCHANGED <<machine, gopMode, pml4, cpu>>

Return == pc' = "menu"

\* Files that are not there or not read, pages that are taken, a clock that cannot be
\* read, a firmware that does not let boot services end.
Fail ==
    /\ pc \in {"Header", "Elf", "Epoch", "Modules", "HandOff"}
    /\ Return
    /\ UNCHANGED <<attempts, machine, display, pml4, image, next, list, cpu>>

\* LoadStivaleHeader
LoadHeader ==
    /\ pc = "Header"
    /\ IF kernel.section
       THEN /\ pc' = IF kernel.version = 1 THEN "Mode" ELSE "Elf"
            /\ higherHalf' = AboveBase(EntryOf(kernel))
       ELSE Return /\ UNCHANGED higherHalf
    /\ UNCHANGED <<attempts, machine, display, pml4, kernel, config, loadedAt, next, list, cpu>>

LoadBase == IF higherHalf THEN MinusBase(kernel.vaddr) ELSE kernel.paddr

HasMemoryEverywhere(a) == TRUE
\* AllocatePages, for a given address, fails where there is no memory.
HasMemory(a) == a.top = 0 /\ a.slot \in GBs

LoadElf ==
    /\ pc = "Elf"
    /\ IF HasMemory(LoadBase)
       THEN /\ loadedAt' = LoadBase
            /\ pc' = IF kernel.version = 1 THEN "Struct" ELSE "HeaderTags"
       ELSE Return /\ UNCHANGED loadedAt
    /\ UNCHANGED <<attempts, machine, display, pml4, kernel, config, higherHalf, next, list, cpu>>

-----------------------------------------------------------------------------
(* The wishes of the kernel.                                               *)

FramebufferReq(tag) == [wishes EXCEPT !.width = tag.width, !.height = tag.height]

\* One iteration of the loop over header tags.  The case for SMP is empty.
HeaderTag ==
    /\ pc = "HeaderTags" /\ next <= Len(kernel.tags)
    /\ LET tag == kernel.tags[next]
       IN  wishes' = CASE tag.ident = "PML5" -> [wishes EXCEPT !.pml5 = TRUE]
                       [] tag.ident = "FRAMEBUFFER" -> FramebufferReq(tag)
                       [] OTHER -> wishes
    /\ next' = next + 1
    /\ UNCHANGED <<pc, attempts, machine, gopMode, pml4, image, list, cpu>>

Pml5(asked) == asked /\ machine.pml5

HeaderTagsEnd ==
    /\ pc = "HeaderTags" /\ next > Len(kernel.tags)
    /\ wishes' = [wishes EXCEPT !.pml5 = Pml5(@)]
    /\ pc' = "Mode" /\ next' = 1
    /\ UNCHANGED <<attempts, machine, gopMode, pml4, image, list, cpu>>

ChosenModes(w) ==
    IF ~config.overrideGfx /\ w.width # 0 /\ w.height # 0
    THEN GetBestGfxMode(machine.modes, w.width, w.height)
    ELSE {config.gfxMode}

\* stivale refuses kernels that want text; SetMode is asserted to succeed.
ChooseMode ==
    /\ pc = "Mode"
    /\ LET w == IF kernel.version = 2 THEN wishes
                ELSE [pml5 |-> Pml5(kernel.pml5), width |-> kernel.width, height |-> kernel.height]
       IN  \/ kernel.version = 1 /\ ~kernel.graphics /\ Return /\ UNCHANGED display
           \/ /\ kernel.version = 1 => kernel.graphics
              /\ wishes' = w
              /\ \E mode \in ChosenModes(w) :
                   IF Queryable(machine.modes, mode)
                   THEN gopMode' = mode /\ pc' = IF kernel.version = 1 THEN "Elf" ELSE "Struct"
                   ELSE pc' = "asserted" /\ UNCHANGED gopMode
    /\ UNCHANGED <<attempts, machine, pml4, image, next, list, cpu>>

-----------------------------------------------------------------------------
(* What the kernel is told.                                                *)

Rsdp == IF machine.acpi20 THEN "2.0" ELSE IF machine.acpi10 THEN "1.0" ELSE "none"

BehindRsdpForgotten == Tag("framebuffer")
\* Next, after the RSDP.
BehindRsdp == IF Rsdp = "none" THEN Tag("framebuffer") ELSE Tag("rsdp")

\* The structure and, of stivale2, the tags up to the firmware's.
BuildStruct ==
    /\ pc = "Struct" /\ pc' = "Epoch"
    /\ told' = [told EXCEPT !.mode = gopMode, !.rsdp = Rsdp]
    /\ IF kernel.version = 1 THEN UNCHANGED <<links, tail>>
       ELSE LET first == Behind(Tag("cmdline"), Behind(tail, links, Tag("cmdline")), Tag("framebuffer"))
                rsdp == IF Rsdp = "none" THEN first ELSE Behind(Tag("framebuffer"), first, Tag("rsdp"))
            IN  /\ links' = Behind(BehindRsdp, rsdp, Tag("firmware"))
                /\ tail' = Tag("firmware")
    /\ UNCHANGED <<attempts, machine, display, pml4, image, next, clock, cpu>>

SetEpoch ==
    /\ pc = "Epoch" /\ pc' = "Modules"
    /\ clock' \in Dates
    /\ told' = [told EXCEPT !.epoch = GetUnixEpoch(clock')]
    /\ IF kernel.version = 1 THEN UNCHANGED <<links, tail>>
       ELSE links' = Behind(tail, links, Tag("epoch")) /\ tail' = Tag("epoch")
    /\ UNCHANGED <<attempts, machine, display, pml4, image, next, cpu>>

\* A module is linked to the one before it, or it is the next of an array in one tag.
LoadModule ==
    /\ pc = "Modules" /\ next <= kernel.modules
    /\ LET node == IF kernel.version = 1 THEN Node("module", next) ELSE Tag("modules")
       IN  IF node \in DOMAIN links THEN UNCHANGED <<links, tail>>
           ELSE links' = Behind(tail, links, node) /\ tail' = node
    /\ next' = next + 1
    /\ UNCHANGED <<pc, attempts, machine, display, pml4, image, told, clock, cpu>>

ModulesEnd ==
    /\ pc = "Modules" /\ next > kernel.modules /\ pc' = "PageTables"
    /\ UNCHANGED <<attempts, machine, display, pml4, image, next, list, cpu>>

-----------------------------------------------------------------------------
(* Page tables and jump.                                                   *)

HigherHalfOfFirstGB(table) == [NoTable EXCEPT ![510] = table[0], ![511] = table[0]]
\* Pml3High, the table for the last two gigabytes.
HigherHalf(table) == [NoTable EXCEPT ![510] = table[0], ![511] = table[1]]

MapHigherHalf ==
    /\ pc = "PageTables" /\ pc' = "HandOff"
    /\ pml4' = [pml4 EXCEPT ![256] = pml4[0], ![511] = HigherHalf(pml4[0])]
    /\ UNCHANGED <<attempts, machine, display, image, next, list, cpu>>

\* stivale2 links the memory map.
HandOff ==
    /\ pc = "HandOff" /\ pc' = "Jump"
    /\ IF kernel.version = 1 THEN UNCHANGED <<links, tail>>
       ELSE links' = Behind(tail, links, Tag("memmap")) /\ tail' = Tag("memmap")
    /\ UNCHANGED <<attempts, machine, display, pml4, image, next, told, clock, cpu>>

\* With four levels the stub sets the stack and goes to the kernel; that of stivale2
\* leaves a zero on the stack.
Jump ==
    /\ pc = "Jump" /\ ~wishes.pml5 /\ pc' = "jumped"
    /\ cpu' = [ip |-> EntryOf(kernel), sp |-> kernel.stack]
    /\ UNCHANGED <<attempts, machine, display, pml4, image, next, list>>

\* For five levels it leaves long mode with a data segment of one byte, its stack
\* segment too.  Paging is off when it stores into the table of the fifth level: that
\* is beyond the limit, and so is the stack of every exception.
Translate5Level ==
    /\ pc = "Jump" /\ wishes.pml5 /\ pc' = "shutdown"
    /\ UNCHANGED <<attempts, machine, display, pml4, image, next, list, cpu>>

Next ==
    \/ LoadKernel \/ Fail \/ LoadHeader \/ LoadElf
    \/ HeaderTag \/ HeaderTagsEnd \/ ChooseMode
    \/ BuildStruct \/ SetEpoch \/ LoadModule \/ ModulesEnd
    \/ MapHigherHalf \/ HandOff \/ Jump \/ Translate5Level

Spec == Init /\ [][Next]_vars

-----------------------------------------------------------------------------
(* Invariants.                                                             *)

NodeKinds == {"struct", "cmdline", "framebuffer", "rsdp", "firmware", "epoch", "modules", "memmap", "module", "null"}
Nodes == [kind : NodeKinds, n : Nat]

\* Every variable has its type; the kernel lies in memory.
TypeOK ==
    /\ pc \in PCs /\ attempts \in 0 .. MaxAttempts /\ machine \in Machines
    /\ Queryable(machine.modes, gopMode)
    /\ pml4 \in [{0, 256, 511} -> [DOMAIN FirmwareTable -> GBs \cup {NoMapping}]]
    /\ kernel \in Kernels /\ config \in Configs /\ higherHalf \in BOOLEAN
    /\ loadedAt \in Address /\ loadedAt.top = 0 /\ loadedAt.slot \in GBs /\ next \in Nat \ {0}
    /\ wishes \in [pml5 : BOOLEAN, width : Nat, height : Nat]
    /\ DOMAIN links \subseteq Nodes /\ tail \in DOMAIN links
    /\ \A node \in DOMAIN links : links[node] \in DOMAIN links \cup {End}
    /\ told \in [mode : Int, rsdp : {"none", "1.0", "2.0"}, epoch : Int \X Nat]
    /\ clock \in Dates \cup {NoDate}
    /\ cpu \in [ip : Address, sp : Address]

-----------------------------------------------------------------------------
(* The list.                                                               *)

\* The structure and the nodes behind it, with the first one's number 0.
NodeAt(nodes, i) == IF i = 0 THEN Tag("struct") ELSE nodes[i]

\* Following the list from the structure one meets these nodes, then its end; there is
\* no other node.
Leads(chain, nodes) ==
    /\ DOMAIN chain = {NodeAt(nodes, i) : i \in 0 .. Len(nodes)}
    /\ \A i \in 0 .. Len(nodes) :
          chain[NodeAt(nodes, i)] = IF i = Len(nodes) THEN End ELSE nodes[i + 1]

AppendIf(condition, nodes, node) == IF condition THEN Append(nodes, node) ELSE nodes

\* What there is to tell: in stivale the first n modules; in stivale2 what comes first,
\* then with n modules, and all of it.
ModuleNodes(n) == [i \in 1 .. n |-> Node("module", i)]
FirstTags ==
    Append(AppendIf(machine.acpi20 \/ machine.acpi10, <<Tag("cmdline"), Tag("framebuffer")>>, Tag("rsdp")),
           Tag("firmware"))
TagsWith(n) == AppendIf(n > 0, Append(FirstTags, Tag("epoch")), Tag("modules"))
Tellable ==
    IF kernel.version = 1 THEN ModuleNodes(kernel.modules)
    ELSE Append(TagsWith(kernel.modules), Tag("memmap"))

\* Whatever is there and whatever is not, the list leads the kernel through everything
\* there is to tell, in order, and ends there; nothing of a failed attempt is in it.
ListComplete == pc = "jumped" => Leads(links, Tellable)

-----------------------------------------------------------------------------
(* The state of the machine at the jump.                                   *)

\* Where an address leads, and where it should lead: the higher half to the first two
\* gigabytes, and the direct map, like the low half, to the first four.
Translate(a) == IF a.slot \in DOMAIN FirmwareTable THEN pml4[a.top][a.slot] ELSE NoMapping
Meant(a) == IF AtOrAboveBase(a) THEN a.slot - 510 ELSE IF a.top # 511 /\ a.slot \in GBs THEN a.slot ELSE NoMapping

\* Is there a PML5 tag among the first n?
AskedAmong(n) == \E i \in 1 .. n : kernel.tags[i].ident = "PML5"
AskedForPml5 == IF kernel.version = 1 THEN kernel.pml5 ELSE AskedAmong(Len(kernel.tags))

\* Linked low or high, on the first attempt or a later one: the entry the kernel is
\* called at is mapped to where its code was loaded, and its stack, in either half or
\* the direct map, to the memory that the address stands for.  A kernel that asks for
\* five levels, on a processor that has them, is not entered with four, and the
\* processor shuts down for no other kernel.
EnteredAsAsked ==
    /\ pc = "jumped" => Translate(cpu.ip) = loadedAt.slot /\ Translate(cpu.sp) = Meant(kernel.stack)
    /\ pc = "jumped" => ~(AskedForPml5 /\ machine.pml5)
    /\ pc = "shutdown" => AskedForPml5 /\ machine.pml5

-----------------------------------------------------------------------------
(* The mode.                                                               *)

\* The size that is wished for last among the first n header tags.
LastFramebuffer(n) == Max({i \in 1 .. n : kernel.tags[i].ident = "FRAMEBUFFER"} \cup {0})
SizeAmong(n) == IF LastFramebuffer(n) = 0 THEN [width |-> 0, height |-> 0] ELSE kernel.tags[LastFramebuffer(n)]
Wished == IF kernel.version = 1 THEN kernel ELSE SizeAmong(Len(kernel.tags))

Larger(a, b) == a.width > b.width /\ a.height > b.height

Fitting ==
    {m \in 0 .. Len(machine.modes) - 1 :
        machine.modes[m + 1].bgr /\ ~Larger(machine.modes[m + 1], Wished)}
Exact == {m \in Fitting : IsSize(machine.modes[m + 1], Wished.width, Wished.height)}

\* Of any two modes one is larger in both dimensions, or they are of one size.
Chain ==
    \A a, b \in Range(machine.modes) :
        Larger(a, b) \/ Larger(b, a) \/ IsSize(a, b.width, b.height)

\* A kernel that wishes for a size, unless the user overrides it, gets exactly this size
\* if a supported mode has it, and never one that is larger in both dimensions; if
\* modes differ in both dimensions, whatever their order, it gets the largest that
\* fits.  Else it gets the mode of the configuration.  The display is in the mode that
\* is told.
BestMode ==
    pc = "jumped" =>
        /\ told.mode = gopMode
        /\ IF config.overrideGfx \/ Wished.width = 0 \/ Wished.height = 0 THEN gopMode = config.gfxMode
           ELSE \/ Fitting = {} \* goodOption is uninitialised
                \/ /\ gopMode \in (IF Exact # {} THEN Exact ELSE Fitting)
                   /\ Chain => \A m \in Fitting : ~Larger(machine.modes[m + 1], machine.modes[gopMode + 1])

-----------------------------------------------------------------------------
(* The time.                                                               *)

\* The years with the low byte of this one.
YearsLike(year) == {y \in 0 .. year : (year - y) % 256 = 0}

\* Apart from the year, of which it keeps the low byte at least, the epoch is that of
\* the clock, in leap years too: the arithmetic of Julian days agrees with the lengths
\* of the months.
EpochOfClock ==
    pc = "jumped" => \E y \in YearsLike(clock.year) : told.epoch = UnixTime([clock EXCEPT !.year = y])

-----------------------------------------------------------------------------
(* The inductive invariant, step by step: what the steps so far have left  *)
(* for the others.                                                         *)

\* The steps that both protocols take last.
Late == {"Struct", "Epoch", "Modules", "PageTables", "HandOff", "Jump", "jumped", "shutdown"}
Attempting == Steps \cup {"jumped"}

\* Which version is at a step, when its loops start and how far they are.
Counted ==
    /\ pc = "HeaderTags" => kernel.version = 2
    /\ pc \in {"Header", "Elf", "Mode", "Struct", "Epoch"} => next = 1
    /\ pc = "HeaderTags" => next <= Len(kernel.tags) + 1
    /\ pc = "Modules" => next <= kernel.modules + 1
    /\ pc \in {"PageTables", "HandOff", "Jump", "jumped"} => next = kernel.modules + 1

HeaderRead == pc \in Attempting \ {"Header"} => higherHalf = AboveBase(EntryOf(kernel))

SegmentLoaded ==
    pc \in Late \/ (kernel.version = 2 /\ pc \in {"HeaderTags", "Mode"}) =>
        loadedAt = LoadBase /\ HasMemory(LoadBase)

Wishes(pml5, size) == (wishes.pml5 <=> pml5) /\ wishes.width = size.width /\ wishes.height = size.height

\* The mode is chosen before the segment is loaded, or after it.
ModeChosen == pc \in Late \/ (kernel.version = 1 /\ pc = "Elf")

WishesRead ==
    /\ pc = "Header" \/ (kernel.version = 2 /\ pc = "Elf") => wishes = NoWishes
    /\ pc = "HeaderTags" => Wishes(AskedAmong(next - 1), SizeAmong(next - 1))
    /\ ModeChosen \/ (kernel.version = 2 /\ pc = "Mode") => Wishes(AskedForPml5 /\ machine.pml5, Wished)

ModeSet ==
    /\ ModeChosen => gopMode \in ChosenModes(wishes)
    /\ pc \in Late \ {"Struct"} => told.mode = gopMode

Mapped ==
    /\ pml4[0] = FirmwareTable
    /\ pc \in {"HandOff", "Jump", "jumped"} => pml4[256] = FirmwareTable /\ pml4[511] = HigherHalf(FirmwareTable)

\* What has been told so far.
ToldNodes ==
    IF kernel.version = 1 THEN ModuleNodes(IF pc \in Late THEN next - 1 ELSE 0)
    ELSE CASE pc = "Epoch" -> FirstTags
           [] pc \in {"Modules", "PageTables", "HandOff"} -> TagsWith(next - 1)
           [] pc \in {"Jump", "jumped"} -> Append(TagsWith(next - 1), Tag("memmap"))
           [] OTHER -> <<>>

ListBuilt ==
    pc \in Attempting => Leads(links, ToldNodes) /\ tail = NodeAt(ToldNodes, Len(ToldNodes))

\* The clock has been read, and its date is told.
ClockRead ==
    pc \in {"Modules", "PageTables", "HandOff", "Jump", "jumped"} =>
        clock \in Dates /\ told.epoch = GetUnixEpoch(clock)

Entered ==
    /\ pc = "jumped" => ~wishes.pml5 /\ cpu = [ip |-> EntryOf(kernel), sp |-> kernel.stack]
    /\ pc = "shutdown" => wishes.pml5

IInv ==
    /\ TypeOK /\ Counted /\ HeaderRead /\ SegmentLoaded
    /\ WishesRead /\ ModeSet /\ Mapped /\ ListBuilt /\ ClockRead /\ Entered
=============================================================================
