# TomatBoot in TLA+

TomatBoot is a UEFI boot loader: it reads a configuration file, shows menus,
loads a kernel and its modules with one of four protocols (linux, multiboot2,
stivale, stivale2), leaves boot services and jumps to the kernel.  This
directory holds specifications of it, the TLC configurations that check them on
small instances, and proofs about them checked by TLAPS.  Paths below are
relative to the repository's `src/` unless they start with another directory;
`PROJECT.json` maps each definition to its lines of code.

## 1. Inventory

One processor runs one thread of code.  What makes the system hard is not
parallelism inside it, but what happens around a sequential program: keys and a
timer event arrive in any order, the firmware changes its memory map while the
loader prepares to leave, power is cut at any point with one variable surviving
it, hardware and files change between boots, and almost every step can fail
halfway with something allocated.

| component | state | operations | interacts with |
|---|---|---|---|
| startup (`main.c`) | the type given to kernel pages, `gDefaultEntry` | `EfiMain` | everything below, once, in order |
| boot configuration (`config/BootConfig.c`) | a non-volatile variable, `gBootConfigOverride` | `LoadBootConfig`, `SaveBootConfig` | read by startup, every menu and every loader; written by SETUP and by the first load |
| configuration file (`config/BootEntries.c`) | `gBootEntries`: entries with path, protocol, modules | `GetBootEntries`, `LoadBootEntries`, `ParseUri`, `GetBootEntryAt` | sets the override; its entries go to the menus and the loaders |
| menus (`menus/`) | `current_menu`, a timer event, a countdown, cursors | `StartMenus`, `EnterMainMenu`, `EnterBootMenu`, `EnterSetupMenu` | key queue and timer of the firmware, configuration, `LoadKernel` |
| graphics modes (`util/GfxUtils.c`) | none; the firmware's mode table | `GetModeCommon` and its three callers, `GetBestGfxMode` | SETUP, default configuration, loaders |
| loader dispatch (`loaders/Loaders.c`) | pages | `LoadKernel`, `LoadBootModule` | menus, the four loaders |
| linux loader (`loaders/linux/`, `lib/uefi/Library/LoadLinuxLib/`) | pages; memory map, E820 table | `LoadLinuxKernel`, `LoadLinux`, `SetupLinuxMemmap` | `LoadBootModule`, firmware memory map |
| ELF loaders (`loaders/elf/`) | pages at the addresses of the segments | `LoadElf32`, `LoadElf64` | multiboot2 and stivale loaders |
| multiboot2 loader (`loaders/mb2/`) | a growing buffer of tags | `LoadMB2Header`, `PushBootParams`, `LoadMB2Kernel` | ELF loaders, modules, firmware memory map |
| stivale loaders (`loaders/stivale*/`) | a structure or list of tags, page tables | `LoadStivaleHeader`, `LoadStivale(2)Kernel` | ELF loader, modules, firmware memory map |
| hand-off to the kernel (last part of those three) | size query, buffers, memory map and its key, entries | `GetMemoryMap` twice, `ExitBootServices`, translation, jump | the firmware, which owns the map until boot services end |
| SMP trampoline (`loaders/stivale2/smp.nasm`) | a flag and a parameter block shared with the processors | start each processor, wait for it | unreachable at this commit |
| ACPI lookup, epoch (`util/`) | none | `GetAcpiTable`, `GetUnixEpoch` | startup, stivale loaders |
| ACPI timer (`uefi/AcpiTimerLib.c`) | a port number | constructor; delays for the SMP code only | startup |
| device paths (`util/DPUtils.c`) | none | conversions | URIs |
| drawing (`util/DrawUtils.c`), file reads, EDK2 libraries (`lib/`) | screen, files | output and input only | - |

What would make each of them correct:

* **Boot configuration**: what is saved is usable at any later boot; a delay in
  seconds is the delay counted; overrides win over the saved values.
* **Menus**: the timer event is owned, cancelled and closed exactly once; no
  unattended boot after a person took over; the unattended boot takes the
  effective delay and boots the effective default; a row chosen is the row booted;
  the cursor stays on a line; every countdown ends; assertions stop the program
  only for reasons that can be named.
* **Hand-off**: the kernel is told of every page exactly once and by a right type,
  as memory is when it is entered; buffers sized before the map is known suffice;
  the loader does not invalidate its own map; neighbours are merged; the kernel is
  not told that its own pages or the map are free.
* **Configuration file**: keys apply to their own entry and to no other, or globally;
  module strings are matched in order; a bad line has a defined effect.
* **Loading**: pages are freed exactly when, and as, they were allocated; a failed
  load can be tried again; each module's range is what the kernel is told.
* **Boot information**: every tag lies within the buffer, in order, the sizes add up,
  no pointer into the buffer is used after the buffer moved.
* **Stivale loaders**: the kernel is entered where it was loaded, linked high or low, with
  as many levels of page tables as it asks for; it finds everything there is to tell; its wishes
  for a graphics mode are met where they can be.
* **LoadLinux**: both maps a kernel gets are true; what is left out of the E820 table has
  a reason; the loader does not spoil its own exit.
* **Pure functions**: the table with the signature or none; the nearest mode that
  fits; seconds since 1970.

## 2. Plan

Most important behaviour first.  *Done* marks what this directory holds.

1. `GfxUtils`, `BootConfig`, `Menus` over power cycles, the abstract `AutoBoot`. *Done.*
2. `Handoff`, the abstract `KernelView`. *Done.*
3. `BootEntries`: the file as a sequence of kinds of line; the parser loop with the
   current entry and the module waiting for a string; against a declarative reading of
   the file.  *Done.*  Composes with `Menus` through its `file` record (step 8).
4. `Loading`: which pages are allocated, for what, through `LoadBootModule`, the ELF
   loaders and the linux loader, over several attempts with every step failing.  *Done.*
5. `BootParams`: the header and the tag buffer of multiboot2 against the sequence of
   tags a kernel should find.  *Done.*
6. `LinuxHandoff`: what `LoadLinux` tells of memory, over the firmware memory it shares
   with `Handoff` (`FirmwareMemory`).  *Done.*
7. `Stivale`: header, mode, list of tags, page tables and jump of both stivale protocols,
   with the pure algorithms they rest on: `GetBestGfxMode` in `GfxUtils`, `GetUnixEpoch`
   in `TimeUtils`; and `GetAcpiTable` in `AcpiUtils`, on which startup rests.  *Done.*
8. Proofs about `Stivale`, about what `Loading` frees, about which line of the file decides
   and which is to blame, and about the buffer as a multiboot2 kernel reads it; the
   refinement of `AutoBoot`.  *Done.*
9. The arithmetic of `GetJdn` against the calendar, for every date, and `EpochOfClock` from it;
   which dates a kernel is told a wrong epoch for, and that the size of the boot information
   is never written; when the mode search ends.  *Done.*
10. If the SMP tag is enabled again: the trampoline as a flag protocol between two
   processors, with the 24-bit delay.

Which module composes which: `Menus` is built on `BootConfig`, `GfxUtils` and `AcpiUtils`, and
implements `AutoBoot`; `Handoff` and `LinuxHandoff` on `FirmwareMemory`, `Handoff` implementing
`KernelView`; `Stivale` on `GfxUtils` and `TimeUtils`.  `Menus` has a configuration file as the
record that `BootEntries` makes of its lines, and `LoadKernel` as a call that enters a
kernel or returns; `Loading` is what happens to pages in that call, `BootParams` and `Stivale`
what happens to what kernels are told, `Handoff` and `LinuxHandoff` how it ends.

## 3. Modules

### `GfxUtils` - `util/GfxUtils.c`

Operators on the mode table, a sequence of records that say whether a mode has the
supported pixel format; mode number *m* is element *m + 1*.  `GetModeCommon` is the
circular search written as "the first iteration that stops"; `GetBestGfxMode` is its loop, with
any number as the result when `goodOption` was never set.  `GetModeReturns` is when
the C loop ends at all: from -1 with no supported mode it spins for ever, as
`looped_once` is set only on a path that also ends the loop.

### `AcpiUtils` - `util/AcpiUtils.c`

A table is its signature.  `GetAcpiTable` returns the last table it looked at when none
has the signature, and something that is no table when the firmware has only the RSDT,
whose 32-bit addresses it reads two at a time.

### `TimeUtils` - `util/TimeUtils.c`

`GetJdn` with the division of C, `GetUnixEpoch` with the year in a byte, and the calendar
they are compared with: it counts the leap years before a year and adds up, by a recursive
function, the lengths of the months before a month.

### `BootConfig` - `config/BootConfig.[ch]`, the global keys, `INITIAL_TIMEOUT_COUNTER`

The saved record, its defaults, the overrides, and the delay arithmetic with C widths:
the product `BootDelay * 10000000` is an `INT32` (signed overflow: either the wrapped or
the wide value, as the build has no `-fwrapv`), the division a `UINTN` one.  The widths
and time units are constants, so that TLC can use small ones.

### `Menus` - `main.c`, `menus/*.c`

| variable | code |
|---|---|
| `nv` | the UEFI variable |
| `file`, `machine` | what a boot finds: the parsed configuration file, ACPI tables and display modes |
| `pc`, `menu`, `first` | where the program is, `current_menu`, `first` of `StartMenus` |
| `override`, `defaultEntry` | `gBootConfigOverride`, `gDefaultEntry` |
| `keys`, `event`, `count`, `counter` | the firmware's key queue, `events[1]`, `count`, `timeout_counter` |
| `config`, `selected`, `selectedEntry` | the locals of SETUP and BOOTMENU |
| `entry` | the argument of the last `LoadKernel` |
| `boots`, `ticks` | bound and history variable |

Boot entries are their indexes.  The actions are the program's (`EfiMain`, one per menu
entry, per way `WaitForEvent` returns and per kind of key), the firmware's
(`TimerFires`), the user's (`PressKey`) and the power switch's (`PowerOn`, enabled in
every state).  A redraw is part of the action that causes it, since drawing SETUP changes
the configuration and drawing BOOTMENU the selected entry.  `LoadKernel` boots or
returns an error, as any loader may.

### `AutoBoot`

What the menus promise about what boots: no menus, keys or timers, but phases.  The
mapping is in `Menus` (`Phase`, `DefaultTarget`, `AB`).

### `MenusClaims`

Statements of the documentation and the assertions that the code does not keep; one
violation run each.

### `FirmwareMemory`

What the two hand-offs share: the firmware's memory, the descriptors it reports for it,
its map key, allocation from the pool, and the callbacks that change memory.  `BlockMaps`
has the firmware tables of the small instances.

### `Handoff` - the end of `LoadMB2Kernel`, `LoadStivaleKernel`, `LoadStivale2Kernel`

| variable | code |
|---|---|
| `memory`, `map`, `key` | the firmware's memory, the descriptors it reports, its map key |
| `room`, `mapPage`, `outPage` | `MemoryMapSize` in descriptors, the two buffers |
| `mapKey`, `descs` | `MapKey`, the contents of `MemoryMap` |
| `next`, `entries`, `lastType`, `lastEnd` | the translation loop |
| `loader`, `pc` | which loader runs and where |
| `interference` | bound and history: how often the firmware changed the map by itself |

One action per call: size query, two allocations (each may take a page the pool has, a
new one, or fail), the free inside `PushBootParams`, the map, `ExitBootServices`, one per
loop iteration, the jump.  `FirmwareChangesMap` may happen between any two of them until
boot services end.  The three loaders differ by their table, the type of the output
buffer, whether they merge, and whether they look for the kernel's own type.  What is
read behind the end of a type table is any value.

### `LinuxHandoff` - `LoadLinux` of `lib/uefi/Library/LoadLinuxLib/Linux.c`

| variable | code |
|---|---|
| `memory`, `map`, `key` | as in `Handoff` |
| `hdr` | the setup header: signatures, version, `relocatable_kernel`, `handover_offset`, `xloadflags` |
| `room`, `mapPage`, `mapKey`, `descs` | `MemoryMapSize`, the buffer, `MapKey`, its contents, which the kernel gets too |
| `index`, `at` | `Index`, and which descriptor `MemoryMap` points to: they part when one is passed over |
| `e820`, `lastEnd` | the table, `LastEndAddr` |
| `exited` | whether boot services ended: the code does not look at the status |

One action per call and per iteration; a failed `ASSERT_EFI_ERROR` ends in `asserted`.  A
kernel with the EFI handover is called with boot services alive; if it returns, it is
entered again in the old way.

### `KernelView`

What a loader promises about memory: it may give up; if it enters the kernel, it does so
in one step that tells it of each page by a meaning of the type it has then.

### `BootEntries` - `config/BootEntries.c`

| variable | code |
|---|---|
| `pc` | in `LoadBootEntries`, or returned: `parsed` is success, `refused` an error |
| `lines` | history: the lines read |
| `entries` | `*Head`, with `BootModules` of each; `CurrentEntry` is the last one |
| `moduleString` | `CurrentModuleString`, as an index into the modules of `CurrentEntry` |
| `override` | `gBootConfigOverride`, as which line was assigned |

One action per kind of line.  A line is its key, and the part of its value the parser
looks at: a protocol, or a URI as its resource and root.  Names, paths, command lines
and strings are never looked at, so each is represented by the number of its line, which
makes "who gets which value" a statement about numbers.  `ParseUri` is two operators:
whether the URI resolves, and to which of the file systems, identified by drive,
partition number and GPT signature.  A URI without `:` or `/` is split through a null
pointer and ends the model in `undefined`.  The properties read the file backwards: for
each value, which line of the file it should come from.

### `BootEntriesClaims`

Two statements of CONFIG.md the parser does not keep, one violation run each: that global
assignments may stand anywhere, and which partition `boot:///` names.  `AssignmentsTied` of
`BootEntries` is neutral in both: it asserts nothing of global assignments behind the first
entry but that they do not make up values, and nothing of the file system of a path without
a root when another path of the entry had one.

### `Loading` - `loaders/Loaders.c`, `loaders/linux/linux.c`, `loaders/elf/*`, module loops

| variable | code |
|---|---|
| `pc` | the step of the loader; `asserted`, in the breakpoint of a failed `ASSERT`; `jumped`, in the kernel |
| `memory` | for each page, free, somebody else's, left by an earlier attempt, or what this attempt uses it for |
| `image` | `KernelImage`, `KernelSize` of the linux loader |
| `initrdRead` | history: whether the initrd was loaded; the code does not look |
| `offset` | what `VirtualOffset` shifts segments by; uninitialised in the multiboot2 loader |
| `given` | what the kernel is told or finds, with the pages it was given |

One action per allocation with what follows it up to the next one, in the order of the
code.  A size is a number of units of which `UnitsPerPage` make a page, so that rounding
up, and a size in bytes passed for a number of pages, come out as they do in the code.
`FreeResults` is the firmware's `FreePages`: it frees what it is told to free, whoever
owns it; if not all of it is allocated it reports an error, having freed a part at most.
`ModuleResults` is `LoadBootModule` as a whole, with the error path that frees `*Base`
whether or not it was allocated.  What a failed attempt leaves becomes `leaked`: a second
attempt at an ELF kernel whose segments leaked cannot have the same pages again and fails.

The rules of LoadLinuxLib for where its parts may lie are constants (`OneGB`,
`CommandLineLimit`, `KernelStep`) or fields of the entry (`initSize`, `ramdiskMax`): old kernels
get three times their size, new ones what they ask for, at the first multiple of twice
their alignment that is free.

### `LoadingClaims`

What `MemoryAllocationLib` asserts of the pages freed through it.

### `BootParams` - `loaders/mb2/mb2.c`

| variable | code |
|---|---|
| `pc` | the step of `LoadMB2Kernel`; `fault` is the division by zero, `asserted` a `SetMode` that fails |
| `next` | `tag` of the loop over the header, `Link` of the loop over modules |
| `must`, `notElf`, `start`, `mode` | `MustHaveOldAcpi` and `MustHaveNewAcpi`, `NotElf`, `EntryAddressOverride`, the mode of the display |
| `buffer`, `size` | what is written to `mBootParamsBuffer`, by offset, and `mBootParamsSize` |
| `startFrom` | `start_from` |

One action per header tag and per tag pushed, with the sizes of the code in bytes.  The
properties read the buffer as a kernel does: from byte 8 on, each tag the aligned size of
the one before further, up to the end tag (`TagsFrom`).  What the kernel should find is
stated from the entry and the machine alone (`TagsComplete`).  A kernel's header is the
sequence of its tags, so a tag of size zero, at which the loop never ends, is left out; a
pool that is exhausted as well.

### `Stivale` - `loaders/stivale/*`, `loaders/stivale2/*`

| variable | code |
|---|---|
| `pc`, `next` | the step of the loader, the loops over header tags and modules |
| `machine`, `gopMode` | display modes, five-level support, ACPI tables; the mode of the display |
| `pml4` | entries 0, 256 and 511 of the top page table, and of the tables they point to the slots of the first four and the last two gigabytes |
| `kernel`, `config` | the file with its header, the boot configuration |
| `higherHalf`, `loadedAt` | `HigherHalf`, where the segment of the entry and the stack went |
| `wishes` | `RequestedPml5`, `FramebufferReq` |
| `links`, `tail`, `told` | the `Next` of each node of the list, the node `Next` or `LastModule` points into, what is in the nodes |
| `cpu` | instruction pointer and stack pointer at the jump |

An address is its entry in the top table, its entry in the table below, and whether it is
the first byte there: what the comparison with the base of the higher half, the
subtraction of the base and the page tables tell apart.  `Fail` is every step that may
return to the menu; display and page tables then stay as they are, and the next attempt
starts from there.  Memory for kernel and modules is in `Loading`, the memory map in
`Handoff`; here each succeeds or fails.

The stub jumps with four levels of page tables (`Jump`).  For five it first leaves long
mode (`Translate5Level`), with a segment for data and stack that has a limit of 0 and no
granularity bit (`loaders/stivale2/stivale2.nasm:34-39`, loaded at 77-82).  In long mode
limits are not looked at; once paging is off, the stores into the table of the fifth level
(104-105) are beyond this one and fault.  The stack for the exception is beyond it too, so
nothing can be delivered, and the processor shuts down.  The model ends there, in
`shutdown`, and has nothing of the lines behind; those of `stivale.nasm` are the same.

### `StivaleClaims`

What README.md says of five levels of page tables.

## 4. Runs

All runs are exhaustive over their instance.

| run | instance | shows |
|---|---|---|
| `menus` | two boots; four machines (three modes of which the middle one is not supported, no usable mode, no FACP table among others, 32-bit ACPI tables only, none); files with no and two entries, with and without overrides, one malformed; delays 0 to 2; fairness | type invariant, timer ownership, countdown only unattended, row booted is row selected, saved configuration usable, delay exact, every assertion that can stop the program has a reason, refinement of `AutoBoot`; once nobody types, every countdown ends |
| `menus_claim_wait` | the smallest instance with the case | a disagreement, section 6 |
| `handoff` | five pages in two blocks, one of a type that is told, unlisted in some table, or unknown, one the kernel's, every content of the other three; one descriptor per block in two orders; two changes by the firmware | everything about the map, refinement of `KernelView` |
| `linux` | four pages with a hole, each of any of six types; two orders; three setup headers; a table of three entries; one change by the firmware | both maps are true when boot services ended; what is not told has a reason; an undisturbed exit succeeds |
| `entries` | files of up to four of 18 lines, every kind among them, and of up to nine lines of four kinds; four file systems | the last assignment of a section wins, and none reaches another entry; strings are matched to modules in order whatever the order of the lines; a file is refused because of the line it is refused at, and only then |
| `entries_claim_boot_uri` | four kinds of line | a disagreement, section 6 |
| `entries_claim_globals` | the same | a disagreement, section 6 |
| `loading` | three attempts at nine entries of every protocol, eight pages of which two lie above 4 GB, four sets of pages that others own, segments shifted or not | a kernel that is entered has all its parts, in the pages allocated for them; other owners' pages are not freed by what succeeds; what is freed and what leaks; when assertions stop a linux load |
| `loading_claim_free` | the same | a disagreement, section 6 |
| `params` | thirteen headers with requests that contradict one another, framebuffers that fit or not, entry points; machines with either ACPI table, both or none required; two attempts | the tags tile the buffer, none passes its end; the kernel finds exactly what it should; demands are met or the kernel is not entered; the last tag of the header decides |
| `stivale` | two attempts; seventeen kernels of both protocols, six ways to be linked; displays of four mode tables, five levels or not, either ACPI table, both or none; five dates | the list leads through everything; the entry is mapped to where the code is and the stack to what its address means, and no kernel is entered with four levels that is to get five; the mode is the best one; the epoch is right but for the year's high byte |
| `stivale_claim_levels` | the same | a disagreement, section 6 |

Bounds.  Power is cycled twice, so that what one boot saves the next one reads; the
invariants speak of one boot and the variable it found.  One key is buffered:
the menus take keys one at a time and look at the queue only through "empty or
not", so a longer queue only delays them.  A delay of two seconds of two periods gives
0, 1 and more than one period.  `LowestDefaultOS` bounds how far below zero repeated
redraws move the default of a file without entries.  Three modes with an unsupported one
in the middle make the search skip, wrap and meet its start.  Two changes by the firmware
allow one before the map is read and one after; `LoadLinux` has no retry to be
disturbed twice.  Five pages with a hole allow
neighbours that merge, neighbours that differ and ends that do not touch.  `Slack` is 3
and `Growth` 1: the least slack for three pool calls; the real slack is 85 descriptors of
48 bytes.  Four lines are an entry, a protocol, a path and one more to repeat or break any
of them; nine lines are two entries with protocol and three or four lines of modules each,
or one with three modules and their strings in any order.
Two units a page give sizes that fill their pages and sizes that do not; a kernel file of
four units and a setup of one keep both of the file's pages in use when the setup is cut
off, a file of three does not.  Three attempts are one that leaks, one that finds the leak,
and one more.  The strings of `params` are as long as fills their tag, one less and one
more; the map may outgrow its first size by three descriptors, as by 85 in the
code.  Eight pages hold each part of the largest linux load and one page of
another owner.  An E820 table of three entries, where the real one has 128, is full for some
memories of four pages and not for others.  Two attempts of `stivale` are one that changes
display and page tables and fails, and one that starts there; the dates are at the ends
of months and years, leap years and centuries among them, which is where the arithmetic
could be off by one.

Fairness (`menus` only).  `WF(Program)`: the processor runs while it has something
to do.  `WF(TimerFires)`: the firmware signals a timer it accepted.  None for keys or
power.  `CountdownEnds` assumes that typing stops, since a key wins over the timer in
`WaitForEvent` and endless incomplete keystrokes could postpone it for ever.

`CHECK_DEADLOCK FALSE`: the program really stops, in the kernel, in `CpuSleep` or after an
assertion, when power has been cycled as often as the bound says.

## 5. Proofs

`tlapm` proves, for all values of the constants that satisfy the named assumptions:

* `IntervalTheorems`: least elements, induction and recursion over an interval, remainders
  near a multiple; what the other modules need and the library does not have in a form
  without an operator as a parameter.
* `MenusProofs`: what `GetModeCommon` returns, for every table, start and direction, and that
  `GetModeReturns` says exactly when its loop ends (`SearchEnds`);
  `Spec => []IInv` and from it `TypeOK`, `TimerOwnership`, `CountdownOnlyUnattended`,
  `SelectedRowBoots`, `AssertExplained`, `SavedConfigUsable` and `CountdownTakesDelay`; the
  refinement of `AutoBoot`.
* `HandoffProofs`: `Spec => []IInv` and from it `TypeOK`, `KernelMapExact`, `NoOverrun`,
  `Coalesced`, `QuietExit`, `OwnPagesKept`, and the refinement of `KernelView`.
* `BootEntriesProofs`: `Spec => []IInv` and from it `TypeOK` and `StringsInOrder`;
  `Spec => []TiedIInv` and `AssignmentsTied`; `Spec => []CauseIInv` and `RefusedForCause`.
* `BootParamsProofs`: `Spec => []IInv` and from it `TypeOK`, `TagsDisjoint`, `HeaderObeyed`
  and `RequestsMet`; `TagsComplete`; and that nothing is ever written to the first eight bytes
  (`SizeNeverPushed`).
* `LinuxHandoffProofs`: `Spec => []IInv` and from it `TypeOK`, `MapsTrue`, `OnlyTailLost` and
  `QuietExit`.
* `LoadingProofs`: `Spec => []IInv` and from it `TypeOK`, `Intact`, `AssertExplained` and the
  action properties `ForeignPagesKept` and `OnlyLoadedLeaks`; `Spec => []FilesHeld` and
  `FilesFreed`.
* `StivaleProofs`: what `GetBestGfxMode` returns, for every table and size; that `GetJdn` agrees
  with the calendar on every date (`JdnIsCalendar`); `Spec => []IInv` and from it `TypeOK`,
  `ListComplete`, `EnteredAsAsked`, `BestMode` and `EpochOfClock`, and that the epoch is that of
  the clock just if the year is below 256 (`EpochByYear`).

**Menus.**  `TimerOwnership` is not inductive: that the event is live when the main menu
waits for two needs that the program point and the menu agree (`Located`), that an
unattended boot leaves the event closed with two still waited for (`Loading`), that the
default entry is current as long as no menu was left (`DefaultEntryCurrent`), that the row
drawn is the entry remembered (`CursorDrawn`), and, for the assertions, that a running
menu has a configuration whose mode was queryable (`Configured`).  That SETUP saves nothing
unusable is part of `Configured` too: what it edits is usable after every key.  For the
delay, `counter` plus the expirations the program has seen is what the countdown started
from, and an expiration that is signaled is one the counter does not know of yet
(`Counting`).  The refinement maps each action: a countdown that ends by a key, by the last
expiration or by the power switch is one step of `AutoBoot`, every redraw and every other
key a stutter; that the first menu is left with the entry of this boot's file and the saved
configuration needs `Started` and `DefaultEntryCurrent`.

**Hand-off.**  The invariant of the loop is that after `next - 1` descriptors the entries
cover exactly their regions (`EntriesSound`, `EntriesComplete`, `EntriesDisjoint`), that
`lastType` and `lastEnd` describe the last entry (`LastRemembered`), and that the
descriptors are the current map, because the key was (`SnapshotCurrent`).  `RoomSuffices`
counts how much of the spare room the loader's own calls have used.  `OutputOwned` keeps
the output buffer's page out of what the firmware frees.

**Configuration file.**  `StringsInOrder` needs to know that the modules without a string
are exactly those from `moduleString` on (`Waiting`), and that entries start at increasing
lines (`Headings`), so that a line read belongs to the last entry and to no other.  That a
new entry resets `moduleString` is what keeps it from pointing past the end of the new list.
`AssignmentsTied` leaves open what the parser does with global assignments behind the first
entry, and with a path without a root behind one that has a root, so it is not inductive.
`LinesTied` says what it does: the lines before the first entry decide on the global keys
(`HeadTied`), and the last path with a root on the file system (`LastRootTied`).  That is
inductive once nothing is assigned before the first line (`Unassigned`): a line read is the
last one, so it is the last assignment of its key, and the last of its section if it has one;
`AssignmentsTied` follows (`HeadDecides`).  A `MODULE_STRING` is refused when no module waits, and the
property says so by counting lines, so `Counted` ties the lines of the last entry to its
modules and to those that have a string.

**Boot information.**  A tag is pushed at the end of the buffer, which is a multiple of
eight and behind every tag (`PushKeeps`).  The tags of the memory map are written later
than room is made for them, so the invariant keeps where that room starts and how much it
is (`RoomLeft`); that it holds the map in both forms and the end tag, for every number of
descriptors the firmware may give, follows because a descriptor has at least 40 bytes
where an entry of the multiboot2 map has 24 (`RoomSuffices`).  `HeaderKnown` says of the
tags read so far what `HeaderObeyed` and `RequestsMet` say of the whole header, and
`TagsPresent` which tags the buffer has at each step.  `TagsComplete` is about the kernel
that walks through the buffer by a recursive function.  The tags form a chain (`Chained`):
there are offsets, each the aligned size of its tag behind the one before, that are all
offsets at which something was written.  A push adds one link (`ChainedAppended`), the
memory map three; and given a chain with an end tag, and no other in it, the function
returns what the chain tells (`TagsRead`), by induction from the end.  `BufferTells` says
what the chain tells at each step, and needs nothing of failed attempts, as each starts
from a new buffer.  `SizeNeverPushed` has a small invariant of its own (`HeadLeft`): every tag
goes to the end of a buffer that is never shorter than the eight bytes it starts with.

**LoadLinux.**  The pointer to the descriptor and the counter of the loop part for ever at the
first descriptor that is passed over (`Stuck`), so the table tells exactly the descriptors
before the pointer (`EntriesSound`, `EntriesComplete`, `EntriesDisjoint`), and what is not told
is behind it or past a full table.  `SnapshotCurrent` and `Quiet` do for boot services what
they do in the hand-off, but without a retry: `Slack` spare descriptors must outlast the one
pool call after the size was asked for.

**Loading.**  `AllGiven` says which parts of the kernel exist at each step, segments before
modules or after them, and `AllHeld` that each has its pages.  A step that allocates
takes free pages only; before the kernel is entered, pages are freed only of the two files
that are copied.  Those of the kernel file are the file's when they are freed (`ImageHeld`,
which needs that sizes are rounded up to pages and that the rest of the file has no more
pages than the whole), so that free succeeds and hits no part; from there on the error
path has nothing to free.  What is left for `AssertExplained` is a failure before the kernel
has its pages, and an initrd that could not be read.  `FilesHeld` says where the two files
are at each step: the kernel file within one range whose size is rounded up, of which the
free leaves at most the pages of the setup, which bounds their number; the file of the
initrd nowhere.  The action properties follow from what each step may do to a page: one
that allocates takes a free one, and of the steps that free only the error path of the
linux loader can hit a page of others.

**Stivale.**  One part of the invariant per promise, saying what is known at each step:
where the loops are (`Counted`), the header (`HeaderRead`), where the segment went
(`SegmentLoaded`), which header tag decided on a wish so far (`WishesRead`), the mode
(`ModeSet`), the page tables (`Mapped`), what the list leads through (`ListBuilt`), the
date (`ClockRead`), the processor (`Entered`).  The page tables outlive a failed attempt, so `Mapped` says of the
higher half only what the loader has just written, and of the low half that nothing ever
changes it.  `ListBuilt` is kept by one lemma for a node put behind the last
(`TagAppended`): the new node is in no link yet, which follows from the tags coming in an
order (`TagsInOrder`) and modules in theirs.  `EnteredAsAsked` then follows from where
addresses may be: low, in the direct map, or in the last two gigabytes, which the higher
half maps to the first two; and from what `WishesRead` knows of the wish for five levels,
which outlives every step between the last header tag and the stub.  The loop of
`GetBestGfxMode` is proved by induction over the table, with the best mode so far and what
it is the best of as the invariant.

**Time.**  The leap years below a year have a closed form (`Leaps`), right for year 0 and kept
from each year to the next, as the multiples of 4, 100 and 400 are (`LeapYearsCounted`, by
induction over an interval); the days before each month are a table that satisfies the
recursion of `DaysBefore`, so it is the function (`MonthsAdded`).  The formula of `GetJdn` has
a part for the year, which begins in March, and one for the month: the year's is the closed
form, shifted by 4800 years, which are twelve times four hundred (`Shifted`), and the month's
agrees with the table, for January and February in the year before.  What is left is a
constant, 1721059, which the difference of two dates cancels: the epoch is that of the date
with the low byte of the year (`EpochOfLowByte`).  `EpochByYear` needs besides
that later years begin later (`LaterYear`).

Assumptions about the environment, stated as `ASSUME`s or as guards: descriptors name each
page once; one pool call adds at most `Growth` descriptors and the spare room holds three
times that; the firmware's callbacks leave the loader's pages alone; the variable services work:
`GetVariable` fails with `EFI_NOT_FOUND` only and `SetVariable` not at all, so the assertions
at `config/BootConfig.c:39` and 46 hold in the models; the saved graphics mode is one the
display has where the loaders set it (`loaders/mb2/mb2.c:136` in `BootParams`; that a later
display may not have it is in `Menus`, where `AssertExplained` names it); the pool is not
exhausted where `BootParams` pushes tags; the addresses in a
stivale kernel agree with one another (`Consistent`: it is linked low or in the last two
gigabytes, its physical address is the virtual one or that without the base, and its entry
is in its segment by either).  One theorem has a hypothesis of its own: `CountdownExact` is
about files whose `TIMEOUT`, in units of 100 ns, fits an `INT32`; a larger one overflows
(section 6), and then the countdown is not that of the delay.

Only model-checked: liveness (`CountdownEnds`), which is out of the prover's reach.  Every
safety invariant, action property and refinement that a passing run checks is proved.  The
statements of the claim modules fail, as section 6 says.

## 6. Where code and documents disagree

| run | what |
|---|---|
| `menus_claim_wait` | after an unattended boot fails, `MainMenu.c` goes on waiting for the event it closed, and the assertion on `WaitForEvent` fails |
| `entries_claim_boot_uri` | `boot:///` in a second `PATH` is looked for on the partition of the first one |
| `loading_claim_free` | `linux.c` frees on failure a number of pages that is a size in bytes, of pages that may be free already; `FreePages` asserts |
| `entries_claim_globals` | global assignments behind the first entry are dropped without a warning (`config/BootEntries.c:258`), where CONFIG.md:24-25 lets them stand anywhere in the file |
| `stivale_claim_levels` | a kernel that asks for five levels of page tables, on a processor that has them, is lost: the stub stores beyond a segment of limit 0, and the processor shuts down (`loaders/stivale2/stivale2.nasm:104`), where README.md:43 has support for five levels |

Two more are theorems, which say of them what no run could, that they hold for every kernel
and date: the total size of the multiboot2 boot information is never written
(`SizeNeverPushed`), where the comment at `loaders/mb2/mb2.c:149` has it pushed; and
`GetUnixEpoch` takes the year in a byte (`util/TimeUtils.c:11`), so that stivale kernels are told
a time in the first three centuries for every date from the year 256 on (`EpochByYear`),
where the reference output at `tests/reference/stivale1.txt:89` shows a second of 2020.

The models follow the code in these, too, without a run of their own: a `TIMEOUT` above 214
seconds overflows an `INT32` (`menus/MainMenu.c:123`); `DEFAULT_ENTRY=0` does not override
the saved entry (`menus/MainMenu.c:183`), although CONFIG.md says so; a saved graphics mode
that a new display does not have stops every boot at an assertion; an initrd that could not
be loaded is passed to the kernel all the same, and its pages may be freed with those of the
failed load (`loaders/linux/linux.c:80`); TAB, which the main menu offers for shutdown, is
looked for in `ScanCode`, where 9 is PAGE UP (`menus/MainMenu.c:168`); SETUP lets the delay
be 0 where its comment says at least 1 (`menus/SetupMenu.c:88`); the GUID of a file system
itself, which CONFIG.md allows in a `guid` URI, is never compared
(`config/BootEntries.c:171`); the shifts of the red and blue masks are swapped
(`loaders/stivale/stivale.c:180`, `loaders/stivale2/stivale2.c:267`) for the one pixel
format the loader supports, where the reference outputs and the multiboot2 loader have red
at 16; a kernel entered exactly at the base of the higher half is taken for a low one
(`loaders/stivale2/stivale2.c:77`), which only works because its physical address is used
then, and is not loaded when that is left as the virtual one; `GetBestGfxMode` returns an
uninitialised number if no mode fits (`util/GfxUtils.c:72`), and where modes do not rise in
both dimensions at once it may not return the closest one; descriptors behind one of a type
that `SetupLinuxMemmap` does not know, such as the pages of a linux kernel file that its
setup keeps in use, are missing from the E820 table, though not from the EFI map
(`lib/uefi/Library/LoadLinuxLib/Linux.c:345`); `LoadLinux` enters the kernel also when
`ExitBootServices` failed (line 387).

## 7. Not modelled

* Drawing, text, file reads and device paths: input and output; their failures are
  outcomes of the steps that call them.
* The SMP trampoline, the local APIC code of `stivale2.c` and the delays of the ACPI timer:
  unreachable, since the header tag that asks for them is commented out
  (`loaders/stivale2/stivale2.c:191`).
* The framebuffer part of the linux boot parameters, command lines, names: data that no
  step of the program looks at.
* The EDK2 libraries under `lib/`: vendored, and nine tenths of the repository's lines,
  which is why the share of all lines that the map covers stays small whatever is
  modelled.  What the program uses of them is modelled with its caller (allocation
  and freeing of pages, sizes in pages, alignment), and LoadLinuxLib, which decides how a
  linux kernel is entered, has a module of its own.
