----------------------------- MODULE BootParams -----------------------------
(***************************************************************************)
(* The boot information of the multiboot2 loader: what LoadMB2Kernel reads *)
(* of the kernel's header, and the tags it pushes into a buffer that grows *)
(* with each of them.  Sizes and offsets are in bytes.  What the memory    *)
(* map says is in Handoff; here it is a number of descriptors.             *)
(***************************************************************************)
EXTENDS Integers, Sequences

CONSTANTS
    Kernels,        \* what may be loaded, see KernelForm
    Machines,       \* what the firmware has, see MachineForm
    Configs,        \* saved configurations: mode and OverrideGfx
    Modes,          \* the graphics modes
    DescriptorSize, \* bytes of one descriptor of the memory map
    Slack,          \* EFI_PAGE_SIZE
    MaxAttempts     \* bound: kernels loaded

HeaderTypes ==
    {"INFORMATION_REQUEST", "ADDRESS", "ENTRY_ADDRESS", "CONSOLE_FLAGS", "FRAMEBUFFER",
     "MODULE_ALIGN", "EFI_BS", "ENTRY_ADDRESS_EFI32", "ENTRY_ADDRESS_EFI64", "RELOCATABLE"}

\* What the loader has of the information a kernel may request.
Supported ==
    {"CMDLINE", "BOOT_LOADER_NAME", "MODULE", "MMAP", "EFI_MMAP", "FRAMEBUFFER", "ELF_SECTIONS",
     "ACPI_OLD", "ACPI_NEW"}

\* A tag of the header.  optional is its flag, for CONSOLE_FLAGS that no console
\* is required; value is the entry address, or the mode GetBestGfxMode finds for a
\* framebuffer, 0 if the tag asks for none and Unfit if every mode is too big.
Unfit == -1

HeaderTag(type, optional, requests, value) ==
    [type |-> type, optional |-> optional, requests |-> requests, value |-> value]

\* The tags of the header before its end, the entry point of the ELF file, the lengths
\* of the command line and of the modules' strings, and the section headers.
KernelForm ==
    [header : Seq([type : STRING, optional : BOOLEAN, requests : SUBSET STRING, value : Int]),
     entry : Nat, cmdline : Nat, modules : Seq(Nat), sections : Nat, sectionSize : Nat]

\* Whether there is an ACPI 1.0 and an ACPI 2.0 table, and the descriptors of the map.
MachineForm == [old : BOOLEAN, new : BOOLEAN, descriptors : Nat \ {0}]

ASSUME BootParamsAssumption ==
    /\ Kernels \subseteq KernelForm /\ Machines \subseteq MachineForm
    /\ Modes \subseteq Nat \ {0} /\ Configs \subseteq [GfxMode : Modes, OverrideGfx : BOOLEAN]
    /\ DescriptorSize \in Nat /\ DescriptorSize >= 40 /\ DescriptorSize % 8 = 0
    /\ Slack \in Nat /\ MaxAttempts \in Nat

\* GetBestGfxMode finds a mode, and an entry address is an address.
ASSUME HeaderAssumption ==
    \A k \in Kernels : \A i \in DOMAIN k.header :
        /\ k.header[i].type = "FRAMEBUFFER" => k.header[i].value \in Modes \cup {0, Unfit}
        /\ k.header[i].type = "ENTRY_ADDRESS" => k.header[i].value \in Nat

VARIABLES
    pc,       \* "menu", a step of LoadMB2Kernel, "fault", "asserted", or "jumped"
    kernel,   \* the kernel that is loaded
    machine,
    config,
    next,     \* the header tag or the module that is next
    must,     \* MustHaveOldAcpi and MustHaveNewAcpi
    notElf,   \* NotElf
    start,    \* EntryAddressOverride, 0 if there is none
    mode,     \* the graphics mode
    buffer,   \* mBootParamsBuffer: the tags written to it, by their offsets
    size,     \* mBootParamsSize, the length of the buffer
    startFrom, \* start_from, where the tags of the memory map will be
    attempts  \* bound: kernels loaded

header == <<next, must, notElf, start, mode>>
vars == <<pc, kernel, machine, config, header, buffer, size, startFrom, attempts>>

\* ALIGN_VALUE to MULTIBOOT_TAG_ALIGN.
Align(n) == ((n + 7) \div 8) * 8

\* A tag: its type and size fields, and what it tells, of which most tags have nothing
\* that this module could confuse.
Tag(type, length, tells) == [type |-> type, size |-> length, tells |-> tells]

NoDemand == [r \in {"ACPI_OLD", "ACPI_NEW"} |-> FALSE]

Init ==
    /\ pc = "menu" /\ kernel \in Kernels /\ machine \in Machines /\ config \in Configs
    /\ next = 1 /\ must = NoDemand
    /\ notElf = FALSE /\ start = 0 /\ mode = config.GfxMode
    /\ buffer = << >> /\ size = 0 /\ startFrom = 0 /\ attempts = 0

\* The first eight bytes are left for the size and something else; nothing is
\* written to them.
FirstSizeFour == 4
FirstSize == 8

\* LoadMB2Kernel up to its loop over header tags.  The configured mode is set first;
\* without a header there is no new buffer.
LoadMB2Kernel ==
    /\ pc = "menu" /\ attempts < MaxAttempts /\ attempts' = attempts + 1
    /\ kernel' \in Kernels /\ mode' = config.GfxMode
    /\ next' = 1 /\ must' = NoDemand /\ notElf' = FALSE /\ start' = 0
    /\ \/ pc' = "menu" /\ UNCHANGED <<buffer, size>>
       \/ pc' = "HeaderTags" /\ buffer' = << >> /\ size' = FirstSize
    /\ UNCHANGED <<machine, config, startFrom>>

\* A tag that is refused, a module or kernel that is not loaded: LoadMB2Kernel
\* returns, and leaves the buffer as it is.
Return ==
    /\ pc' = "menu"
    /\ UNCHANGED <<kernel, machine, config, header, buffer, size, startFrom, attempts>>

-----------------------------------------------------------------------------
(* The loop over header tags.                                              *)

Refused(tag) ==
    \/ tag.type \notin HeaderTypes
    \/ /\ tag.type \in {"CONSOLE_FLAGS", "EFI_BS", "ENTRY_ADDRESS_EFI32", "ENTRY_ADDRESS_EFI64",
                        "RELOCATABLE"}
       /\ ~tag.optional
    \/ tag.type = "INFORMATION_REQUEST" /\ ~tag.optional /\ ~(tag.requests \subseteq Supported)

\* A request for an ACPI table says whether the kernel must have it; the last one
\* decides.
MustHaveOptional(tag, r) ==
    IF tag.type = "INFORMATION_REQUEST" /\ r \in tag.requests THEN tag.optional ELSE must[r]
MustHave(tag, r) ==
    IF tag.type = "INFORMATION_REQUEST" /\ r \in tag.requests THEN ~tag.optional ELSE must[r]

\* A framebuffer tag sets the mode it asks for, if the configuration does not override
\* it.  GetBestGfxMode returns something if no mode fits, and SetMode asserts that it
\* is a mode.
AsksInverted(tag) == config.OverrideGfx /\ tag.value # 0
Asks(tag) == ~config.OverrideGfx /\ tag.value # 0

SetMode(tag) ==
    \/ ~Asks(tag) /\ mode' = config.GfxMode /\ UNCHANGED pc
    \/ Asks(tag) /\ tag.value # Unfit /\ mode' = tag.value /\ UNCHANGED pc
    \/ Asks(tag) /\ tag.value = Unfit /\ mode' \in Modes /\ UNCHANGED pc
    \/ Asks(tag) /\ tag.value = Unfit /\ pc' = "asserted" /\ UNCHANGED mode

ReadHeaderTag ==
    /\ pc = "HeaderTags" /\ next <= Len(kernel.header)
    /\ LET tag == kernel.header[next]
       IN  IF Refused(tag) THEN Return
           ELSE /\ next' = next + 1
                /\ must' = [r \in DOMAIN must |-> MustHave(tag, r)]
                /\ notElf' = (notElf \/ tag.type = "ADDRESS")
                /\ start' = IF tag.type = "ENTRY_ADDRESS" THEN tag.value ELSE start
                /\ IF tag.type = "FRAMEBUFFER" THEN SetMode(tag) ELSE UNCHANGED <<pc, mode>>
                /\ UNCHANGED <<kernel, machine, config, buffer, size, startFrom, attempts>>

-----------------------------------------------------------------------------
(* Pushing tags.                                                           *)

\* PushBootParams: the buffer is moved to one that has room for the tag as well.  Each
\* caller writes its tag before anything moves the buffer again: that is one step here.
AllocationSizeOf(length) == length
AllocationSize(length) == Align(length)

Push(tag, room) ==
    /\ buffer' = [o \in DOMAIN buffer \cup {size} |-> IF o = size THEN tag ELSE buffer[o]]
    /\ size' = size + AllocationSize(room)

PushTag(type, length, tells) == Push(Tag(type, length, tells), length)

\* The strings are pushed after the last tag of the header.
PushStrings ==
    /\ pc = "HeaderTags" /\ next > Len(kernel.header)
    /\ PushTag("CMDLINE", kernel.cmdline + 1 + 8, 0)
    /\ pc' = "Name"
    /\ UNCHANGED <<kernel, machine, config, header, startFrom, attempts>>

\* Room is made for another name, which is longer.
PushName ==
    /\ pc = "Name" /\ pc' = "Modules"
    /\ PushTag("BOOT_LOADER_NAME", 18 + 8, 0)
    /\ next' = 1
    /\ UNCHANGED <<kernel, machine, config, must, notElf, start, mode, startFrom, attempts>>

ModuleTagSize(i) == 16 + kernel.modules[i] + 1

PushModule ==
    /\ pc = "Modules" /\ next <= Len(kernel.modules)
    /\ PushTag("MODULE", ModuleTagSize(next), next)
    /\ next' = next + 1
    /\ UNCHANGED <<pc, kernel, machine, config, must, notElf, start, mode, startFrom, attempts>>

PushFramebuffer ==
    /\ pc = "Modules" /\ next > Len(kernel.modules) /\ pc' = "OldAcpi"
    /\ PushTag("FRAMEBUFFER", 40, mode)
    /\ UNCHANGED <<kernel, machine, config, header, startFrom, attempts>>

PushAcpi(present, type, length) ==
    \/ present /\ PushTag(type, length, 0)
    \/ ~present /\ ~must[type] /\ UNCHANGED <<buffer, size>>

PushOldAcpi ==
    /\ pc = "OldAcpi" /\ pc' = "NewAcpi"
    /\ PushAcpi(machine.old, "ACPI_OLD", 20 + 8)
    /\ UNCHANGED <<kernel, machine, config, header, startFrom, attempts>>

PushNewAcpi ==
    /\ pc = "NewAcpi" /\ pc' = "Elf"
    /\ PushAcpi(machine.new, "ACPI_NEW", 36 + 8)
    /\ UNCHANGED <<kernel, machine, config, header, startFrom, attempts>>

\* The number of section headers is found by a division by the size of one.
PushElf ==
    /\ pc = "Elf" /\ ~notElf
    /\ LET length == kernel.sections * kernel.sectionSize
       IN  PushTag("ELF_SECTIONS", 20 + length, kernel.sections)
    /\ pc' = IF kernel.sectionSize = 0 THEN "fault" ELSE "Map"
    /\ start' = IF start = 0 THEN kernel.entry ELSE start
    /\ UNCHANGED <<kernel, machine, config, next, must, notElf, mode, startFrom, attempts>>

-----------------------------------------------------------------------------
(* The memory map.                                                         *)

\* What the firmware is asked for: the map as it was a moment ago, and some more.
MapSize == machine.descriptors * DescriptorSize + Slack

\* The map is pushed before it is known, once for each of its two tags.
MapRoomOnce == 16 + 16 + MapSize
MapRoom == 16 + MapSize + 16 + MapSize

PushMap ==
    /\ pc = "Map" /\ pc' = "Exit"
    /\ startFrom' = size
    /\ size' = size + AllocationSize(MapRoom)
    /\ UNCHANGED <<kernel, machine, config, header, buffer, attempts>>

\* How many descriptors the map may turn out to have.
Counts == {n \in 1 .. MapSize : n * DescriptorSize <= MapSize}

\* Any map that fits is read and boot services are left with it, or not.  The tags
\* follow one another from startFrom, the end tag last.
NextTag(o, tag) == Align(o + tag.size)

ExitAndJump ==
    /\ pc = "Exit" /\ pc' = "jumped"
    /\ \E n \in Counts :
         LET mmap == Tag("MMAP", 16 + n * 24, n)
             efiMmap == Tag("EFI_MMAP", 16 + n * DescriptorSize, n)
             efiAt == NextTag(startFrom, mmap)
             endAt == NextTag(efiAt, efiMmap)
         IN  buffer' = [o \in DOMAIN buffer \cup {startFrom, efiAt, endAt} |->
                           CASE o = startFrom -> mmap
                             [] o = efiAt -> efiMmap
                             [] o = endAt -> Tag("END", 8, 0)
                             [] OTHER -> buffer[o]]
    /\ UNCHANGED <<kernel, machine, config, header, size, startFrom, attempts>>

\* What may fail: LoadBootModule, a missing ACPI table, a kernel that is no ELF file,
\* both calls of GetMemoryMap, ExitBootServices.
Fail ==
    /\ \/ pc \in {"Elf", "Map", "Exit"}
       \/ pc = "Modules" /\ next <= Len(kernel.modules)
       \/ pc = "OldAcpi" /\ ~machine.old /\ must["ACPI_OLD"]
       \/ pc = "NewAcpi" /\ ~machine.new /\ must["ACPI_NEW"]
    /\ Return

Next ==
    \/ LoadMB2Kernel \/ ReadHeaderTag
    \/ PushStrings \/ PushName \/ PushModule \/ PushFramebuffer \/ PushOldAcpi \/ PushNewAcpi
    \/ PushElf \/ PushMap \/ ExitAndJump \/ Fail

Spec == Init /\ [][Next]_vars

-----------------------------------------------------------------------------
(* Invariants.                                                             *)

Steps == {"HeaderTags", "Name", "Modules", "OldAcpi", "NewAcpi", "Elf", "Map", "Exit"}

\* Every variable has its type; the buffer is whole tag units.
TypeOK ==
    /\ pc \in {"menu", "fault", "asserted", "jumped"} \cup Steps
    /\ kernel \in Kernels /\ machine \in Machines /\ config \in Configs
    /\ next \in 1 .. Len(kernel.header) + Len(kernel.modules) + 1
    /\ must \in [{"ACPI_OLD", "ACPI_NEW"} -> BOOLEAN] /\ notElf \in BOOLEAN
    /\ start \in Nat /\ mode \in Modes
    /\ size \in Nat /\ size % 8 = 0 /\ startFrom \in Nat /\ attempts \in 0 .. MaxAttempts
    /\ DOMAIN buffer \subseteq {o \in 0 .. size : o % 8 = 0}

\* No tag reaches past the end of the buffer or into the next tag, at any time: not
\* while the buffer moves, nor when the tags of the memory map are put into the room
\* that was made for them before the map was known.
TagsDisjoint ==
    \A o \in DOMAIN buffer :
        /\ o + buffer[o].size <= size
        /\ \A p \in DOMAIN buffer : p > o => o + buffer[o].size <= p

\* The types and contents of the tags as the kernel finds them: from the ninth byte
\* on, each one an aligned size after the one before, up to the end tag.
Junk == [type |-> "junk", tells |-> 0]
Found(tag) == [type |-> tag.type, tells |-> tag.tells]
TagsFrom[o \in 0 .. size] ==
    CASE o \notin DOMAIN buffer -> <<Junk>>
      [] o \in DOMAIN buffer /\ buffer[o].type = "END" -> <<>>
      [] OTHER -> <<Found(buffer[o])>> \o TagsFrom[o + Align(buffer[o].size)]

\* What there is to tell, in the order of the code: the strings and the first modules,
\* the mode, the tables that the machine has, and the sections.
Told(type, tells) == [type |-> type, tells |-> tells]
AppendIf(condition, tags, tag) == IF condition THEN Append(tags, tag) ELSE tags

ToldModules(n) ==
    <<Told("CMDLINE", 0), Told("BOOT_LOADER_NAME", 0)>> \o [i \in 1 .. n |-> Told("MODULE", i)]
ToldMode == Append(ToldModules(Len(kernel.modules)), Told("FRAMEBUFFER", mode))
ToldOldAcpi == AppendIf(machine.old, ToldMode, Told("ACPI_OLD", 0))
ToldNewAcpi == AppendIf(machine.new, ToldOldAcpi, Told("ACPI_NEW", 0))
ToldSections == Append(ToldNewAcpi, Told("ELF_SECTIONS", kernel.sections))
ToldMaps(n) == Append(Append(ToldSections, Told("MMAP", n)), Told("EFI_MMAP", n))

\* The kernel finds what the entry, the machine and the graphics mode have, in the
\* order of the code, each once, and as many descriptors in one form as in the other;
\* whatever was pushed in attempts that failed.
TagsComplete == pc = "jumped" => \E n \in Counts : TagsFrom[8] = ToldMaps(n)

\* The header tags that were read so far, and those of them that have a type.
ReadTags == IF pc = "HeaderTags" THEN 1 .. next - 1 ELSE DOMAIN kernel.header
TagsOf(type) == {i \in ReadTags : kernel.header[i].type = type}

Demands(i, r) == r \in kernel.header[i].requests /\ ~kernel.header[i].optional
Waives(i, r) == r \in kernel.header[i].requests /\ kernel.header[i].optional
HasTag(type) == \E o \in DOMAIN buffer : buffer[o].type = type

\* What the header demands is there, or the kernel is not entered: information, but
\* modules if there are none; and an ACPI table, unless a later request for it waives
\* the demand.  Nothing that the loader cannot do is demanded.
RequestsMet ==
    pc = "jumped" =>
        /\ \A i \in TagsOf("INFORMATION_REQUEST") : \A r \in kernel.header[i].requests :
              Demands(i, r) =>
                 \/ r = "MODULE" \/ HasTag(r)
                 \/ r \in DOMAIN must /\ \E j \in TagsOf("INFORMATION_REQUEST") : j > i /\ Waives(j, r)
        /\ \A i \in DOMAIN kernel.header :
              kernel.header[i].type \in {"EFI_BS", "ENTRY_ADDRESS_EFI32", "ENTRY_ADDRESS_EFI64",
                                       "CONSOLE_FLAGS", "RELOCATABLE"} => kernel.header[i].optional
        /\ TagsOf("ADDRESS") = {}

Decides(type, i) == i \in TagsOf(type) /\ \A j \in TagsOf(type) : j <= i

\* The last tag of its kind in the header decides on the graphics mode, if it asks for
\* one that fits and the saved configuration does not override it, and on the entry
\* point.
ModeObeyed ==
    /\ config.OverrideGfx \/ TagsOf("FRAMEBUFFER") = {} => mode = config.GfxMode
    /\ \A i \in ReadTags :
          Decides("FRAMEBUFFER", i) /\ ~config.OverrideGfx /\ kernel.header[i].value # Unfit =>
              mode = IF kernel.header[i].value = 0 THEN config.GfxMode ELSE kernel.header[i].value

EntryOr(none) ==
    /\ TagsOf("ENTRY_ADDRESS") = {} => start = none
    /\ \A i \in ReadTags :
          Decides("ENTRY_ADDRESS", i) =>
              start = IF kernel.header[i].value = 0 THEN none ELSE kernel.header[i].value

HeaderObeyed == pc = "jumped" => ModeObeyed /\ EntryOr(kernel.entry)

-----------------------------------------------------------------------------
(* The inductive invariant of the proofs.                                  *)

BufferShape ==
    \A o \in DOMAIN buffer : o \in Nat /\ o % 8 = 0 /\ buffer[o].size \in Nat \ {0}

\* The room that is left for the memory map.
RoomLeft ==
    pc = "Exit" =>
        /\ startFrom % 8 = 0 /\ startFrom + AllocationSize(MapRoom) = size
        /\ \A o \in DOMAIN buffer : o + buffer[o].size <= startFrom

Running == Steps \cup {"jumped"}

\* What the loop over the header knows of the tags it has read.
HeaderKnown ==
    /\ pc = "HeaderTags" => next <= Len(kernel.header) + 1
    /\ pc \in Running =>
         /\ \A i \in ReadTags : ~Refused(kernel.header[i])
         /\ TagsOf("ADDRESS") # {} => notElf
         /\ \A i \in TagsOf("INFORMATION_REQUEST") : \A r \in DOMAIN must :
               Demands(i, r) => \/ must[r]
                                \/ \E j \in TagsOf("INFORMATION_REQUEST") : j > i /\ Waives(j, r)
         /\ ModeObeyed
    /\ pc \in Steps \ {"Map", "Exit"} => EntryOr(0)
    /\ pc \in {"Map", "Exit", "jumped"} => EntryOr(kernel.entry) /\ ~notElf

\* The tags that are pushed at each step.
TagsPresent ==
    /\ pc \in Running \ {"HeaderTags"} => HasTag("CMDLINE")
    /\ pc \in Running \ {"HeaderTags", "Name"} => HasTag("BOOT_LOADER_NAME")
    /\ pc \in Running \ {"HeaderTags", "Name", "Modules"} => HasTag("FRAMEBUFFER")
    /\ pc \in {"NewAcpi", "Elf", "Map", "Exit", "jumped"} /\ must["ACPI_OLD"] => HasTag("ACPI_OLD")
    /\ pc \in {"Elf", "Map", "Exit", "jumped"} /\ must["ACPI_NEW"] => HasTag("ACPI_NEW")
    /\ pc \in {"Map", "Exit", "jumped"} => HasTag("ELF_SECTIONS")
    /\ pc = "jumped" => HasTag("MMAP") /\ HasTag("EFI_MMAP")

IInv == TypeOK /\ BufferShape /\ TagsDisjoint /\ RoomLeft /\ HeaderKnown /\ TagsPresent
=============================================================================
