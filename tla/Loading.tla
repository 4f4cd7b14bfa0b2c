------------------------------- MODULE Loading ------------------------------
(***************************************************************************)
(* What the loaders do to memory: LoadKernel and LoadBootModule, the linux *)
(* loader, the ELF loaders, and the loops over modules of the multiboot2   *)
(* and stivale loaders, over several attempts, any step of which may fail. *)
(* The hand-off itself is in Handoff.                                      *)
(*                                                                         *)
(* Sizes are counted in units, of which a page has UnitsPerPage.  Where    *)
(* the code passes a size in bytes for a number of pages, the model passes *)
(* a number of units.                                                      *)
(***************************************************************************)
EXTENDS Integers, Sequences, FiniteSets

CONSTANTS
    PageCount,    \* pages of memory, from 0
    FourGB,       \* the first page above BASE_4GB
    OneGB,        \* the first page above BASE_1GB
    CommandLineLimit, \* the first page above 0xa0000
    KernelStep,   \* twice the alignment of kernels, in pages
    UnitsPerPage,
    FirmwarePages, \* the sets of pages that may be allocated to others
    Entries,      \* the boot entries
    Offsets,      \* what a VirtualOffset that is never set may shift segments by
    MaxAttempts   \* bound: calls of LoadKernel

Pages == 0 .. PageCount - 1

Protocols == {"BOOT_LINUX", "BOOT_MB2", "BOOT_STIVALE", "BOOT_STIVALE2", "BOOT_INVALID"}

\* size is that of the kernel file and setup that of its first part, in units,
\* initSize the init_size of a header above version 0x20a, or NoInitSize, ramdiskMax
\* the first page above its limit for the initrd, segments are the PT_LOAD headers
\* that are not empty, modules the sizes of the module files.
NoInitSize == -1
EntryForm ==
    [protocol : Protocols, size : Nat, setup : Nat \ {0}, initSize : Nat \cup {NoInitSize},
     ramdiskMax : 0 .. FourGB, segments : Seq([base : Pages, count : Nat \ {0}]), modules : Seq(Nat)]

ASSUME LoadingAssumption ==
    /\ PageCount \in Nat \ {0} /\ FourGB \in Nat \ {0} /\ UnitsPerPage \in Nat \ {0}
    /\ OneGB \in 0 .. FourGB /\ CommandLineLimit \in 0 .. OneGB /\ KernelStep \in Nat \ {0}
    /\ FirmwarePages \subseteq SUBSET Pages
    /\ Entries \subseteq EntryForm
    /\ Offsets \subseteq Int /\ 0 \in Offsets
    /\ MaxAttempts \in Nat

\* EFI_SIZE_TO_PAGES.
ToPages(size) == (size + UnitsPerPage - 1) \div UnitsPerPage

\* What a page is used for: "leaked" is what earlier attempts left allocated.
Owner(kind, n) == [kind |-> kind, n |-> n]
Free == Owner("free", 0)
Firmware == Owner("firmware", 0)
Leaked == Owner("leaked", 0)
Kinds == {"image", "setup", "kernel", "cmdline", "initrdFile", "initrd", "segment", "module"}
Owners == {Free, Firmware, Leaked} \cup [kind : Kinds, n : Nat]

VARIABLES
    pc,        \* "menu", a step of a loader, "jumped" to the kernel, or "asserted"
    memory,    \* the owner of each page
    entry,     \* the entry that is loaded
    image,     \* KernelImage and KernelSize of the linux loader
    initrdRead, \* history: the status of loading the initrd, which nobody looks at
    offset,    \* the shift of segments by elf_info.VirtualOffset
    next,      \* the loop over segments or modules
    given,     \* what the kernel will be told or finds: owner and pages of each part
    attempts   \* bound: calls of LoadKernel

vars == <<pc, memory, entry, image, initrdRead, offset, next, given, attempts>>

NoImage == -1 \* KernelImage is NULL

PageRange(base, count) == base .. base + count - 1

-----------------------------------------------------------------------------
(* Memory services of the firmware.                                        *)

\* The memories in which count pages have gone to owner, somewhere below a limit
\* or exactly at a base.  No pages are never allocated.
Allocations(m, owner, count, limit) ==
    {[base |-> b, memory |-> [p \in Pages |-> IF p \in PageRange(b, count) THEN owner ELSE m[p]]] :
        b \in {b \in Pages : /\ count > 0 /\ b + count <= limit
                             /\ \A p \in PageRange(b, count) : p \in Pages /\ m[p] = Free}}

AllocationsAt(m, owner, count, base) ==
    {a \in Allocations(m, owner, count, PageCount) : a.base = base}

\* FreePages: pages that are allocated, to whomever, are freed.  If there are none,
\* or not all are allocated, it fails, and may have freed those before the first
\* that is not.
FreeResults(m, base, count) ==
    LET freed(n) == [p \in Pages |-> IF p \in PageRange(base, n) THEN Free ELSE m[p]]
        allocated(n) == \A p \in PageRange(base, n) : p \in Pages /\ m[p] # Free
    IN  IF count > 0 /\ allocated(count) THEN {[ok |-> TRUE, memory |-> freed(count)]}
        ELSE {[ok |-> FALSE, memory |-> freed(n)] : n \in {n \in 0 .. count : allocated(n)}}

-----------------------------------------------------------------------------
(* LoadBootModule                                                          *)

\* The error path frees *Base and *Size, whatever they are.
CleanupSparing(m, base, count) == {m}
Cleanup(m, base, count) == {r.memory : r \in FreeResults(m, base, count)}

\* Its outcomes: the file is not opened, its size not found, no pages, not read, or
\* loaded.  *Base and *Size are set as far as the function comes; the callers pass
\* a size of zero, and base is what they pass.
Outcome(ok, base, size, m) == [ok |-> ok, base |-> base, size |-> size, memory |-> m]
ModuleResults(m, owner, size, base) ==
    LET taken == Allocations(m, owner, ToPages(size), FourGB)
        unread(a) == {Outcome(FALSE, a.base, size, n) : n \in Cleanup(a.memory, a.base, ToPages(size))}
    IN  {Outcome(FALSE, base, 0, m), Outcome(FALSE, FourGB, 0, m)}
        \cup {Outcome(FALSE, FourGB, size, n) : n \in Cleanup(m, FourGB, ToPages(size))}
        \cup (UNION {unread(a) : a \in taken})
        \cup {Outcome(TRUE, a.base, size, a.memory) : a \in taken}

-----------------------------------------------------------------------------
(* LoadKernel                                                              *)

Init ==
    /\ pc = "menu" /\ entry \in Entries /\ attempts = 0
    /\ \E f \in FirmwarePages : memory = [p \in Pages |-> IF p \in f THEN Firmware ELSE Free]
    /\ image = [base |-> NoImage, size |-> 0]
    /\ initrdRead = TRUE
    /\ offset = 0 /\ next = 1 /\ given = {}

\* What an attempt that returns has not freed stays allocated.
Abandoned(m) == [p \in Pages |-> IF m[p] \in {Free, Firmware} THEN m[p] ELSE Leaked]

Return(m) == pc' = "menu" /\ memory' = Abandoned(m)

FirstStep(protocol) ==
    CASE protocol = "BOOT_LINUX" -> "LoadImage"
      [] protocol = "BOOT_MB2" -> "LoadModules"
      [] protocol \in {"BOOT_STIVALE", "BOOT_STIVALE2"} -> "LoadElf"
      [] protocol = "BOOT_INVALID" -> "menu"

\* The menus load any entry, any number of times.  Only the multiboot2 loader
\* leaves VirtualOffset unset.
LoadKernel ==
    /\ pc = "menu" /\ attempts < MaxAttempts
    /\ \E e \in Entries :
         /\ entry' = e
         /\ pc' = FirstStep(e.protocol)
         /\ offset' \in (IF e.protocol = "BOOT_MB2" THEN Offsets ELSE {0})
    /\ image' = [base |-> NoImage, size |-> 0]
    /\ initrdRead' = TRUE
    /\ next' = 1 /\ given' = {}
    /\ attempts' = attempts + 1
    /\ UNCHANGED memory

-----------------------------------------------------------------------------
(* LoadLinuxKernel                                                         *)

\* FreePages of MemoryAllocationLib asserts that the firmware could free the pages.
Asserted(m) == pc' = "asserted" /\ memory' = m

\* The cleanup of the linux loader, with a size for a number of pages.
FailLinux(img, m) ==
    /\ image' = img
    /\ IF img.base = NoImage THEN Return(m)
       ELSE \E r \in FreeResults(m, img.base, img.size) :
               IF r.ok THEN Return(r.memory) ELSE Asserted(r.memory)

Part(owner, base, count) == [owner |-> owner, base |-> base, count |-> count]

LoadImage ==
    /\ pc = "LoadImage"
    /\ \E r \in ModuleResults(memory, Owner("image", 1), entry.size, NoImage) :
         LET img == [base |-> r.base, size |-> r.size]
         IN  IF r.ok THEN pc' = "LoadSetup" /\ memory' = r.memory /\ image' = img
             ELSE FailLinux(img, r.memory)
    /\ UNCHANGED <<entry, initrdRead, offset, next, given, attempts>>

SetupFitsAlways == TRUE
\* CHECK(SetupSize < KernelSize).
SetupFits == entry.setup < image.size

\* The setup is copied and checked; from then on KernelSize is the rest.
LoadSetup ==
    /\ pc = "LoadSetup"
    /\ LET count == ToPages(entry.setup)
           rest == [image EXCEPT !.size = @ - entry.setup]
       IN  \/ ~SetupFits /\ FailLinux(image, memory) /\ UNCHANGED given
           \/ SetupFits /\ FailLinux(rest, memory) /\ UNCHANGED given
           \/ /\ SetupFits
              /\ \E a \in Allocations(memory, Owner("setup", 1), count, OneGB) :
                   \/ FailLinux(rest, a.memory) /\ UNCHANGED given
                   \/ /\ pc' = "LoadKernelBuf" /\ memory' = a.memory /\ image' = rest
                      /\ given' = given \cup {Part(Owner("setup", 1), a.base, count)}
    /\ UNCHANGED <<entry, initrdRead, offset, next, attempts>>

\* The pages of the file that are freed, and KernelImage after that.
PagesOfImageUnconverted == image.size
PagesOfImageRoundedDown == image.size \div UnitsPerPage
PagesOfImage == ToPages(image.size)
ForgetImageNot == image.base
ForgetImage == NoImage

\* LoadLinuxGetKernelSize: old kernels are given room for decompression.
KernelInitialSize == IF entry.initSize # NoInitSize THEN entry.initSize ELSE 3 * image.size

\* LoadLinuxAllocateKernelPages: the first of 511 addresses where the pages are free.
KernelAllocations(m, count) ==
    LET tries == UNION {AllocationsAt(m, Owner("kernel", 1), count, KernelStep * loop) : loop \in 1 .. 511}
    IN  {a \in tries : \A b \in tries : a.base <= b.base}

\* The kernel is copied to pages of its own, and the pages that KernelSize says the
\* file has are freed.
LoadKernelBuf ==
    /\ pc = "LoadKernelBuf"
    /\ \/ FailLinux(image, memory) /\ UNCHANGED given
       \/ \E a \in KernelAllocations(memory, ToPages(KernelInitialSize)) :
            /\ given' = given \cup {Part(Owner("kernel", 1), a.base, ToPages(KernelInitialSize))}
            /\ \E r \in FreeResults(a.memory, image.base, PagesOfImage) :
                 IF r.ok THEN /\ pc' = "LoadCommandLine" /\ memory' = r.memory
                              /\ image' = [image EXCEPT !.base = ForgetImage]
                 ELSE Asserted(r.memory) /\ UNCHANGED image
    /\ UNCHANGED <<entry, initrdRead, offset, next, attempts>>

\* A line of the configuration file fits into one page.
LoadCommandLine ==
    /\ pc = "LoadCommandLine"
    /\ \/ FailLinux(image, memory) /\ UNCHANGED given
       \/ \E a \in Allocations(memory, Owner("cmdline", 1), 1, CommandLineLimit) :
            \/ FailLinux(image, a.memory) /\ UNCHANGED given
            \/ /\ pc' = "LoadInitrd" /\ memory' = a.memory /\ UNCHANGED image
               /\ given' = given \cup {Part(Owner("cmdline", 1), a.base, 1)}
    /\ UNCHANGED <<entry, initrdRead, offset, next, attempts>>

\* The first module, if there is one.  Whether it was loaded is not looked at.
LoadInitrd ==
    /\ pc = "LoadInitrd"
    /\ IF entry.modules = <<>>
       THEN pc' = "CallLinux" /\ UNCHANGED <<memory, image, initrdRead, given>>
       ELSE \E r \in ModuleResults(memory, Owner("initrdFile", 1), entry.modules[1], NoImage) :
              LET count == ToPages(r.size)
              IN  /\ initrdRead' = r.ok
                  /\ \/ FailLinux(image, r.memory) /\ UNCHANGED given
                     \/ \E a \in Allocations(r.memory, Owner("initrd", 1), count, entry.ramdiskMax) :
                          /\ given' = given \cup {Part(Owner("initrd", 1), a.base, count)}
                          /\ \E f \in FreeResults(a.memory, r.base, count) :
                               IF f.ok THEN pc' = "CallLinux" /\ memory' = f.memory
                               ELSE Asserted(f.memory)
                          /\ UNCHANGED image
    /\ UNCHANGED <<entry, offset, next, attempts>>

CallLinux ==
    /\ pc = "CallLinux"
    /\ \/ FailLinux(image, memory)
       \/ pc' = "jumped" /\ UNCHANGED <<memory, image>>
    /\ UNCHANGED <<entry, initrdRead, offset, next, given, attempts>>

-----------------------------------------------------------------------------
(* LoadElf32, LoadElf64, and the loops over modules.                       *)

linuxVars == <<image, initrdRead>>

\* A loader fails between the steps below: nothing is freed.
FailElf ==
    /\ pc \in {"LoadElf", "LoadModules", "HandOff"}
    /\ Return(memory)
    /\ UNCHANGED <<linuxVars, entry, offset, next, given, attempts>>

\* A segment is allocated where it belongs, or not at all, and read.
LoadSegment ==
    /\ pc = "LoadElf" /\ next <= Len(entry.segments)
    /\ LET segment == entry.segments[next]
           owner == Owner("segment", next)
       IN  \E a \in AllocationsAt(memory, owner, segment.count, segment.base + offset) :
             \/ Return(a.memory) /\ UNCHANGED <<next, given>>
             \/ /\ memory' = a.memory /\ next' = next + 1
                /\ given' = given \cup {Part(owner, a.base, segment.count)}
                /\ UNCHANGED pc
    /\ UNCHANGED <<linuxVars, entry, offset, attempts>>

LoadModule ==
    /\ pc = "LoadModules" /\ next <= Len(entry.modules)
    /\ LET size == entry.modules[next]
           owner == Owner("module", next)
       IN  \E r \in ModuleResults(memory, owner, size, 0) :
             IF r.ok THEN /\ memory' = r.memory /\ next' = next + 1
                          /\ given' = given \cup {Part(owner, r.base, ToPages(size))}
                          /\ UNCHANGED pc
             ELSE Return(r.memory) /\ UNCHANGED <<next, given>>
    /\ UNCHANGED <<linuxVars, entry, offset, attempts>>

\* The multiboot2 loader loads the modules first, the stivale loaders the kernel.
Loaded ==
    /\ \/ /\ pc = "LoadElf" /\ next > Len(entry.segments)
          /\ pc' = IF entry.protocol = "BOOT_MB2" THEN "HandOff" ELSE "LoadModules"
       \/ /\ pc = "LoadModules" /\ next > Len(entry.modules)
          /\ pc' = IF entry.protocol = "BOOT_MB2" THEN "LoadElf" ELSE "HandOff"
    /\ next' = 1
    /\ UNCHANGED <<linuxVars, memory, entry, offset, given, attempts>>

HandOff ==
    /\ pc = "HandOff" /\ pc' = "jumped"
    /\ UNCHANGED <<linuxVars, memory, entry, offset, next, given, attempts>>

Next ==
    \/ LoadKernel
    \/ LoadImage \/ LoadSetup \/ LoadKernelBuf \/ LoadCommandLine \/ LoadInitrd \/ CallLinux
    \/ LoadSegment \/ LoadModule \/ Loaded \/ HandOff \/ FailElf

Spec == Init /\ [][Next]_vars

-----------------------------------------------------------------------------
(* Invariants.                                                             *)

LinuxSteps == {"LoadImage", "LoadSetup", "LoadKernelBuf", "LoadCommandLine", "LoadInitrd", "CallLinux"}
ElfSteps == {"LoadElf", "LoadModules", "HandOff"}

\* Every variable has its type; sizes are not negative.
TypeOK ==
    /\ pc \in {"menu", "jumped", "asserted"} \cup LinuxSteps \cup ElfSteps
    /\ memory \in [Pages -> Owners]
    /\ entry \in Entries
    /\ image \in [base : {NoImage} \cup Nat, size : Nat]
    /\ initrdRead \in BOOLEAN /\ offset \in Offsets
    /\ next \in Nat \ {0} /\ attempts \in 0 .. MaxAttempts
    /\ given \subseteq [owner : [kind : Kinds, n : Nat], base : Pages, count : Nat \ {0}]

\* What the kernel needs: for linux the setup, the kernel, the command line and an
\* initrd if there are modules; else every segment and every module.
Parts ==
    IF entry.protocol = "BOOT_LINUX"
    THEN {Owner(kind, 1) : kind \in {"setup", "kernel", "cmdline"}}
         \cup (IF entry.modules = <<>> THEN {} ELSE {Owner("initrd", 1)})
    ELSE {Owner("segment", i) : i \in DOMAIN entry.segments}
         \cup {Owner("module", i) : i \in DOMAIN entry.modules}

\* The kernel is entered with all of its parts, each still in the pages allocated for
\* it, whatever earlier attempts left behind and freed; the exception is an
\* initrd that could not be read.
Intact ==
    pc = "jumped" /\ initrdRead =>
        /\ {part.owner : part \in given} = Parts
        /\ \A part \in given : \A p \in PageRange(part.base, part.count) : memory[p] = part.owner

\* The frees of the linux loader succeed as long as its reads do: an assertion stops
\* it only when it gives up before the kernel is in place, or after an initrd it
\* could not load.  The other loaders never stop so.
AssertExplained ==
    pc = "asserted" =>
        /\ entry.protocol = "BOOT_LINUX"
        /\ ~initrdRead \/ ~\E part \in given : part.owner.kind = "kernel"

PagesOf(kind) == {p \in Pages : memory[p].kind = kind}

\* Of the files that are copied, no more stays allocated than the pages that the
\* setup adds to the kernel file, and a module that failed to load leaves none.
FilesFreed ==
    /\ pc \in {"LoadCommandLine", "LoadInitrd", "CallLinux", "jumped"} =>
         Cardinality(PagesOf("image")) <= ToPages(entry.size) - ToPages(entry.size - entry.setup)
    /\ pc \in {"CallLinux", "jumped"} => PagesOf("initrdFile") = {}

\* Pages of others, and those left by earlier attempts, are never touched below 4 GB,
\* but by a linux attempt that ends there.
ForeignPagesKept ==
    [][\A p \in Pages :
          memory[p] \in {Firmware, Leaked} /\ memory'[p] # memory[p] =>
              p >= FourGB \/ (entry.protocol = "BOOT_LINUX" /\ pc' \in {"menu", "asserted"})]_vars

\* An attempt that fails leaves allocated what it had loaded, and not the module
\* whose load failed.
OnlyLoadedLeaks ==
    [][pc' = "menu" /\ pc \in ElfSteps =>
          \A p \in Pages : memory[p] = Free /\ memory'[p] # Free => pc = "LoadElf"]_vars
=============================================================================
