-------------------------------- MODULE Menus -------------------------------
(***************************************************************************)
(* TomatBoot from power on until a kernel runs: EfiMain (main.c), the menu *)
(* loop (menus/Menus.c) and the three menus, over the configuration kept   *)
(* in a non-volatile UEFI variable.  The firmware is modelled as far as    *)
(* the menus use it: the queue of key strokes, one timer event, the mode   *)
(* table of the display, the variable.  Power may be cut at any time; the  *)
(* variable survives, the configuration file and the display may be        *)
(* different ones at the next start.                                       *)
(*                                                                         *)
(* Boot entries are their indexes in gBootEntries, 0 .. file.entries - 1.  *)
(***************************************************************************)
EXTENDS BootConfig, AcpiUtils

CONSTANTS
    Files,           \* the configuration files a boot may find
    Machines,        \* the hardware a boot may find
    KeyBufferSize,   \* key strokes the firmware keeps
    LowestDefaultOS, \* bound: DefaultOS is not decremented below this
    MaxBoots         \* bound: the number of power cycles

\* wellFormed: no line makes LoadBootEntries fail.
ASSUME FilesAssumption ==
    Files \subseteq [entries : Nat, wellFormed : BOOLEAN,
                     timeout : Nat \cup {Absent}, defaultEntry : Nat \cup {Absent}]

ASSUME MachinesAssumption ==
    Machines \subseteq [acpi : AcpiForm, modes : ModeTables]

ASSUME BoundsAssumption ==
    /\ KeyBufferSize \in Nat \ {0}
    /\ MaxBoots \in Nat
    /\ LowestDefaultOS \in Int /\ LowestDefaultOS < 0

\* "partial" stands for the keystroke of a modifier alone, for which the
\* firmware signals WaitForKey and ReadKeyStroke returns EFI_NOT_READY;
\* "other" for every key no menu knows.  CHAR_TAB is 9: no ScanCode of the TAB
\* key, but the one of PAGE UP.
KeyStrokes == {"b", "s", "tab", "page_up", "up", "down", "plus", "minus",
               "enter", "esc", "partial", "other"}

\* The lines of the setup screen, control_line_start being 2.
BootDelayLine   == 2
GfxModeLine     == 3
OverrideGfxLine == 4
DefaultOSLine   == 5

NULL == -1     \* no boot entry
NoCall == -2   \* LoadKernel has not been called since power on

VARIABLES
    nv,            \* the TomatBoot variable: NoConfig or a configuration
    file,          \* the configuration file of this boot
    machine,       \* the hardware of this boot
    boots,         \* how often power was switched on
    pc,            \* where the program is
    menu,          \* current_menu of StartMenus
    first,         \* first of StartMenus
    override,      \* gBootConfigOverride
    defaultEntry,  \* gDefaultEntry
    keys,          \* key strokes typed and not yet read
    event,         \* events[1] of the main menu
    count,         \* how many events the main menu waits for
    counter,       \* timeout_counter
    ticks,         \* history: expirations of the timer since it was first set
    config,        \* the copy of the configuration SETUP edits, NoConfig before
    selected,      \* the selected line of SETUP or row of BOOTMENU
    selectedEntry, \* selectedEntry of BOOTMENU
    entry          \* the last argument of LoadKernel

persistent == <<nv, file, machine, boots>>
mainMenu == <<event, count, counter, ticks>>
control == <<pc, menu, first, override, defaultEntry, entry>>
cursor == <<config, selected, selectedEntry>>
vars == <<persistent, control, keys, mainMenu, cursor>>

MenuNames == {"MENU_MAIN_MENU", "MENU_BOOT_MENU", "MENU_SETUP", "MENU_SHUTDOWN"}

\* "hung": CpuSleep or a loop for ever; "asserted": stopped by ASSERT.
PCs == {"off", "EfiMain", "StartMenus", "MainWait", "MainKey", "MainTick",
        "BootMenu", "Setup", "LoadKernel", "booted", "hung", "asserted"}

\* The timer event: "idle" is created and not set, "closed" after CloseEvent.
Live == {"idle", "armed", "signaled"}
Events == Live \cup {"none", "closed"}

GetBootEntryAt(index) == IF index \in 0 .. file.entries - 1 THEN index ELSE NULL

\* The local variables of BOOTMENU and SETUP before they start.
ResetCursor == config' = NoConfig /\ selected' = 0 /\ selectedEntry' = NULL

Init ==
    /\ nv = NoConfig
    /\ file \in Files /\ machine \in Machines
    /\ boots = 0
    /\ pc = "off" /\ menu = "MENU_MAIN_MENU" /\ first = TRUE
    /\ override = NoOverride /\ defaultEntry = NULL /\ entry = NoCall
    /\ keys = <<>>
    /\ event = "none" /\ count = 2 /\ counter = 0 /\ ticks = 0
    /\ config = NoConfig /\ selected = 0 /\ selectedEntry = NULL

-----------------------------------------------------------------------------
(* The user, the power switch and the timer of the firmware.               *)

\* A power cycle, from any point: RAM is reset, the variable is kept.
PowerOn ==
    /\ boots < MaxBoots
    /\ boots' = boots + 1
    /\ file' \in Files /\ machine' \in Machines
    /\ pc' = "EfiMain" /\ menu' = "MENU_MAIN_MENU" /\ first' = TRUE
    /\ override' = NoOverride /\ defaultEntry' = NULL /\ entry' = NoCall
    /\ keys' = <<>>
    /\ event' = "none" /\ count' = 2 /\ counter' = 0 /\ ticks' = 0
    /\ ResetCursor
    /\ UNCHANGED nv

\* The firmware drops key strokes it has no room for.
PressKey ==
    /\ pc \notin {"off", "EfiMain", "booted", "hung", "asserted"}
    /\ Len(keys) < KeyBufferSize
    /\ \E k \in KeyStrokes : keys' = Append(keys, k)
    /\ UNCHANGED <<persistent, control, mainMenu, cursor>>

TimerFires ==
    /\ event = "armed"
    /\ event' = "signaled" /\ ticks' = ticks + 1
    /\ UNCHANGED <<persistent, control, keys, count, counter, cursor>>

Assert == pc' = "asserted" /\ UNCHANGED <<menu, first, override, defaultEntry, entry>>

-----------------------------------------------------------------------------
(* main.c                                                                  *)

EfiMain ==
    /\ pc = "EfiMain"
    /\ LET loaded == LoadBootConfig(nv, machine.modes)
           facp == GetAcpiTable(machine.acpi, "FACP")
       IN
       \/ /\ facp = NoTable
          /\ Assert /\ UNCHANGED nv
       \/ /\ facp = Garbage \/ (facp # NoTable /\ nv = NoConfig /\ ~GetModeReturns(machine.modes, -1))
          /\ pc' = "hung"
          /\ UNCHANGED <<nv, menu, first, override, defaultEntry, entry>>
       \/ /\ facp # NoTable /\ (nv # NoConfig \/ GetModeReturns(machine.modes, -1))
          /\ nv' = loaded
          /\ IF file.wellFormed
             THEN /\ override' = OverridesOf(file.timeout, file.defaultEntry)
                  /\ defaultEntry' = GetBootEntryAt(loaded.DefaultOS)
                  /\ pc' = "StartMenus"
                  /\ UNCHANGED <<menu, first, entry>>
             ELSE Assert
    /\ UNCHANGED <<file, machine, boots, keys, mainMenu, cursor>>

-----------------------------------------------------------------------------
(* menus/Menus.c                                                           *)

\* A menu returns m to StartMenus, which forgets its local variables.
Return(m) ==
    /\ pc' = "StartMenus" /\ menu' = m /\ first' = FALSE
    /\ ResetCursor
    /\ UNCHANGED <<override, defaultEntry, entry>>

\* gRT->ResetSystem(EfiResetShutdown).
Shutdown ==
    /\ pc = "StartMenus" /\ menu = "MENU_SHUTDOWN"
    /\ pc' = "off"
    /\ UNCHANGED <<persistent, menu, first, override, defaultEntry, entry, keys, mainMenu, cursor>>

Goto(label) == pc' = label /\ UNCHANGED <<menu, first, override, defaultEntry, entry>>

CallLoadKernel(e) ==
    /\ pc' = "LoadKernel" /\ entry' = e
    /\ UNCHANGED <<menu, first, override, defaultEntry>>

-----------------------------------------------------------------------------
(* menus/MainMenu.c                                                        *)

\* The timer is set on the first visit only, and if there is something to boot.
TimerSetOnEveryVisit == file.entries # 0
TimerSet == first /\ file.entries # 0

\* draw, LoadBootConfig, CreateEvent and, on the first visit, SetTimer.  An
\* event of an earlier visit that was never closed would be lost here.
EnterMainMenu ==
    /\ pc = "StartMenus" /\ menu = "MENU_MAIN_MENU"
    /\ LET loaded == LoadBootConfig(nv, machine.modes) IN
       IF Queryable(machine.modes, loaded.GfxMode)
       THEN /\ nv' = loaded
            /\ event' = IF TimerSet THEN "armed" ELSE "idle"
            /\ count' = 2 /\ ticks' = 0
            /\ counter' \in InitialTimeoutCounters(EffectiveDelay(override, loaded))
            /\ Goto("MainWait")
       ELSE Assert /\ UNCHANGED <<nv, mainMenu>>
    /\ UNCHANGED <<file, machine, boots, keys, cursor>>

\* WaitForEvent looks at the events in order: a key stroke wins over the timer.
WaitReturnsKey ==
    /\ pc = "MainWait" /\ keys # <<>>
    /\ Goto("MainKey")
    /\ UNCHANGED <<persistent, keys, mainMenu, cursor>>

WaitReturnsTimer ==
    /\ pc = "MainWait" /\ keys = <<>>
    /\ count = 2 /\ event = "signaled"
    /\ event' = "idle"
    /\ Goto("MainTick")
    /\ UNCHANGED <<persistent, keys, count, counter, ticks, cursor>>

\* The firmware refuses a closed event with EFI_INVALID_PARAMETER.
WaitFails ==
    /\ pc = "MainWait" /\ keys = <<>>
    /\ count = 2 /\ event = "closed"
    /\ Assert
    /\ UNCHANGED <<persistent, keys, mainMenu, cursor>>

\* The menu a key of the main menu leads to.
MenuOfKey(k) ==
    CASE k = "b" -> "MENU_BOOT_MENU"
      [] k = "s" -> "MENU_SETUP"
      [] k = "page_up" -> "MENU_SHUTDOWN"
      [] OTHER -> "MENU_MAIN_MENU"

\* SetTimer(TimerCancel), CloseEvent, count = 1, if that has not been done yet.
ReleaseTimerLeaking == event' = (IF count = 2 THEN "idle" ELSE event) /\ count' = 1
ReleaseTimerKeepingCount == event' = "closed" /\ count' = count
ReleaseTimer == event' = (IF count = 2 THEN "closed" ELSE event) /\ count' = 1

\* ReadKeyStroke; the first complete key cancels and closes the timer.
MainKey ==
    /\ pc = "MainKey"
    /\ keys' = Tail(keys)
    /\ \/ /\ Head(keys) = "partial"
          /\ Goto("MainWait") /\ UNCHANGED <<event, count>>
       \/ /\ Head(keys) # "partial" /\ count = 2 /\ event \notin Live
          /\ Assert /\ UNCHANGED <<event, count>>
       \/ /\ Head(keys) # "partial" /\ (count = 1 \/ event \in Live)
          /\ ReleaseTimer
          /\ \/ MenuOfKey(Head(keys)) = "MENU_MAIN_MENU" /\ Goto("MainWait")
             \/ MenuOfKey(Head(keys)) # "MENU_MAIN_MENU" /\ Return(MenuOfKey(Head(keys)))
    /\ ResetCursor
    /\ UNCHANGED <<persistent, counter, ticks>>

\* The entry an unattended boot loads.
AutobootDefaultEntry == defaultEntry
AutobootEntry ==
    IF override.DefaultOS > 0 THEN GetBootEntryAt(override.DefaultOS) ELSE defaultEntry

CountdownOverLate(c) == c < 0
CountdownOver(c) == c <= 0

RestartTimerForgotten == event' = "idle"
RestartTimer == event' = "armed"

\* A timer period is over: start the next one, or close the event and boot.
MainTick ==
    /\ pc = "MainTick"
    /\ counter' = counter - 1
    /\ IF CountdownOver(counter')
       THEN event' = "closed" /\ CallLoadKernel(AutobootEntry)
       ELSE RestartTimer /\ Goto("MainWait")
    /\ UNCHANGED <<persistent, keys, count, ticks, cursor>>

-----------------------------------------------------------------------------
(* loaders/Loaders.c                                                       *)

\* A loader that does not reach its kernel returns an error, and so does a call
\* without an entry.  The main menu goes on with its loop, the boot menu sleeps.
LoadKernel ==
    /\ pc = "LoadKernel"
    /\ \/ entry # NULL /\ Goto("booted")
       \/ Goto(IF menu = "MENU_MAIN_MENU" THEN "MainWait" ELSE "hung")
    /\ UNCHANGED <<persistent, keys, mainMenu, cursor>>

-----------------------------------------------------------------------------
(* menus/BootMenu.c                                                        *)

\* The rows are the entries and, at file.entries, the shutdown option.  Drawing
\* them sets selectedEntry when the selected row is an entry.
DrawRows(row) ==
    /\ selected' = row
    /\ selectedEntry' = IF row < file.entries THEN row ELSE selectedEntry
    /\ UNCHANGED config

EnterBootMenu ==
    /\ pc = "StartMenus" /\ menu = "MENU_BOOT_MENU"
    /\ selected' = 0
    /\ selectedEntry' = IF file.entries > 0 THEN 0 ELSE NULL
    /\ Goto("BootMenu")
    /\ UNCHANGED <<persistent, keys, mainMenu, config>>

ReadKey(label) == pc = label /\ keys # <<>> /\ keys' = Tail(keys)

NextRowNoWrap(k) ==
    CASE k = "down" -> selected + 1 [] k = "up" -> selected - 1 [] OTHER -> selected

\* SCAN_DOWN leaves the last row one later than it should, so that for one press
\* no row is selected.
NextRow(k) ==
    CASE k = "down" -> IF selected + 1 > file.entries + 1 THEN 0 ELSE selected + 1
      [] k = "up" -> IF selected - 1 < 0 THEN file.entries ELSE selected - 1
      [] OTHER -> selected

BootMenuMove ==
    /\ ReadKey("BootMenu") /\ Head(keys) # "enter"
    /\ DrawRows(NextRow(Head(keys)))
    /\ UNCHANGED <<persistent, control, mainMenu>>

IsShutdownRowLate(row) == row > file.entries
IsShutdownRow(row) == row >= file.entries

BootMenuEnter ==
    /\ ReadKey("BootMenu") /\ Head(keys) = "enter"
    /\ \/ IsShutdownRow(selected) /\ Return("MENU_SHUTDOWN")
       \/ ~IsShutdownRow(selected) /\ CallLoadKernel(selectedEntry) /\ UNCHANGED cursor
    /\ UNCHANGED <<persistent, mainMenu>>

-----------------------------------------------------------------------------
(* menus/SetupMenu.c                                                       *)

\* One pass over the setup lines: the pending "plus" or "minus" changes the
\* selected one; a default OS that does not exist moves down by one in any case.
ApplyOp(c, line, op) ==
    LET AtLeastZero(value) == IF value < 0 THEN 0 ELSE value
        AtMostMax(value) == IF value > MaxDelay THEN MaxDelay ELSE value
    IN  IF op \notin {"plus", "minus"} THEN c ELSE
        CASE line = BootDelayLine ->
                [c EXCEPT !.BootDelay = IF op = "plus" THEN AtMostMax(@ + 1) ELSE AtLeastZero(@ - 1)]
          [] line = GfxModeLine ->
                [c EXCEPT !.GfxMode = IF op = "plus" THEN GetNextGfxMode(machine.modes, @)
                                      ELSE GetPrevGfxMode(machine.modes, @)]
          [] line = OverrideGfxLine -> [c EXCEPT !.OverrideGfx = (op = "plus")]
          [] line = DefaultOSLine ->
                [c EXCEPT !.DefaultOS = IF op = "plus" THEN @ + 1 ELSE AtLeastZero(@ - 1)]

SettleNever(c) == c
SettleDefaultOS(c) ==
    IF GetBootEntryAt(c.DefaultOS) = NULL THEN [c EXCEPT !.DefaultOS = @ - 1] ELSE c

DrawSetup(c, line, op) == SettleDefaultOS(ApplyOp(c, line, op))

EnterSetupMenu ==
    /\ pc = "StartMenus" /\ menu = "MENU_SETUP"
    /\ LET loaded == LoadBootConfig(nv, machine.modes) IN
       /\ nv' = loaded
       /\ IF Queryable(machine.modes, loaded.GfxMode)
          THEN /\ loaded.DefaultOS > LowestDefaultOS
               /\ config' = DrawSetup(loaded, BootDelayLine, "none")
               /\ selected' = BootDelayLine
               /\ Goto("Setup")
          ELSE Assert /\ UNCHANGED <<config, selected>>
    /\ UNCHANGED <<file, machine, boots, keys, mainMenu, selectedEntry>>

\* Every other key, an incomplete one included, ends in another pass.
SetupEdit ==
    /\ ReadKey("Setup") /\ Head(keys) \notin {"enter", "esc"}
    /\ config.DefaultOS > LowestDefaultOS
    /\ selected' = CASE Head(keys) = "down" -> IF selected = DefaultOSLine THEN BootDelayLine ELSE selected + 1
                     [] Head(keys) = "up" -> IF selected = BootDelayLine THEN DefaultOSLine ELSE selected - 1
                     [] OTHER -> selected
    /\ config' = DrawSetup(config, selected', Head(keys))
    /\ UNCHANGED <<persistent, control, mainMenu, selectedEntry>>

SetupSave ==
    /\ ReadKey("Setup") /\ Head(keys) = "enter"
    /\ nv' = config
    /\ Return("MENU_MAIN_MENU")
    /\ UNCHANGED <<file, machine, boots, mainMenu>>

SetupQuit ==
    /\ ReadKey("Setup") /\ Head(keys) = "esc"
    /\ Return("MENU_MAIN_MENU")
    /\ UNCHANGED <<persistent, mainMenu>>

-----------------------------------------------------------------------------
Program ==
    \/ EfiMain \/ Shutdown \/ LoadKernel
    \/ EnterMainMenu \/ WaitReturnsKey \/ WaitReturnsTimer \/ WaitFails \/ MainKey \/ MainTick
    \/ EnterBootMenu \/ BootMenuMove \/ BootMenuEnter
    \/ EnterSetupMenu \/ SetupEdit \/ SetupSave \/ SetupQuit

Next == Program \/ TimerFires \/ PressKey \/ PowerOn

Spec == Init /\ [][Next]_vars

\* The processor runs while it has work and the timer it was asked for expires;
\* nobody has to type, and power need not be cut.
FairSpec == Spec /\ WF_vars(Program) /\ WF_vars(TimerFires)

-----------------------------------------------------------------------------
(* Invariants.                                                             *)

\* Every variable has its type.
TypeOK ==
    /\ nv \in Configs \cup {NoConfig} /\ file \in Files /\ machine \in Machines
    /\ boots \in 0 .. MaxBoots
    /\ pc \in PCs /\ menu \in MenuNames /\ first \in BOOLEAN
    /\ override \in [BootDelay : Int, DefaultOS : Int]
    /\ defaultEntry \in Nat \cup {NULL} /\ entry \in Nat \cup {NULL, NoCall}
    /\ keys \in Seq(KeyStrokes)
    /\ event \in Events /\ count \in {1, 2} /\ counter \in Int /\ ticks \in Nat
    /\ config \in Configs \cup {NoConfig}
    /\ selected \in Nat /\ selectedEntry \in Nat \cup {NULL}

\* An unattended boot has been tried since power on.
AutobootTried == menu = "MENU_MAIN_MENU" /\ entry # NoCall

\* The main menu owns at most one timer event and closes it on every way out:
\* none is live when StartMenus dispatches, in the other menus or while a kernel
\* is loaded, and within the main menu there is a live one exactly as long as it
\* waits for two events, except after an unattended boot that failed.
TimerOwnership ==
    /\ pc \notin {"MainWait", "MainKey", "MainTick"} => event \notin Live
    /\ pc \in {"MainWait", "MainKey", "MainTick"} /\ ~AutobootTried => (event \in Live <=> count = 2)

\* The countdown runs only on the first visit of the main menu, before any
\* complete key stroke, when there are entries; and gDefaultEntry, computed
\* before the menus started, still is the entry the saved configuration names.
CountdownOnlyUnattended ==
    event \in {"armed", "signaled"} =>
        /\ first /\ count = 2 /\ menu = "MENU_MAIN_MENU" /\ file.entries > 0
        /\ nv # NoConfig /\ defaultEntry = GetBootEntryAt(nv.DefaultOS)

\* ASSERT stops the program only if there is no ACPI table at all, for a malformed
\* configuration file, a saved graphics mode the display does not have, or, after
\* an unattended boot failed, the timer event that was closed before it.
AssertExplained ==
    pc = "asserted" =>
        \/ machine.acpi.list = "none" \/ machine.acpi.tables = <<>>
        \/ ~file.wellFormed
        \/ nv # NoConfig /\ ~Queryable(machine.modes, nv.GfxMode)
        \/ AutobootTried

\* A row chosen in BOOTMENU boots the entry of that row, however the cursor got
\* there: past the shutdown option, around the end, or with no entry at all.
SelectedRowBoots ==
    pc = "LoadKernel" /\ menu = "MENU_BOOT_MENU" =>
        entry = selected /\ entry \in 0 .. file.entries - 1

\* Whatever is typed in SETUP, over any number of visits and boots, what is saved
\* is a delay SETUP offers, a default OS that at least one configuration file has
\* (or one no file has: zero and below), and a graphics mode that is supported by
\* one of the displays.
Usable(c) ==
    /\ c.BootDelay \in 0 .. MaxDelay
    /\ c.DefaultOS <= 0 \/ \E f \in Files : c.DefaultOS < f.entries
    /\ \E m \in Machines : Supported(m.modes, c.GfxMode)

SavedConfigUsable == nv # NoConfig => Usable(nv)

\* The timer periods a delay of whole seconds takes; at least one, as the counter
\* is looked at after the first.
AtLeastOne(n) == IF n = 0 THEN 1 ELSE n
Periods(delay) == AtLeastOne((delay * Second) \div TIMER_INTERVAL)

\* An unattended boot happens after exactly the effective delay.
CountdownTakesDelay ==
    pc = "LoadKernel" /\ menu = "MENU_MAIN_MENU" =>
        ticks = Periods(EffectiveDelay(override, nv))

-----------------------------------------------------------------------------
(* The inductive invariant: what the safety invariants rest on.            *)

InMainMenu == pc \in {"MainWait", "MainKey", "MainTick"}

\* The program point and current_menu agree.
Located ==
    /\ InMainMenu => menu = "MENU_MAIN_MENU"
    /\ pc = "BootMenu" => menu = "MENU_BOOT_MENU"
    /\ pc = "Setup" => menu = "MENU_SETUP"
    /\ pc = "LoadKernel" => menu \in {"MENU_MAIN_MENU", "MENU_BOOT_MENU"}
    /\ pc = "MainKey" => keys # <<>>

\* Once the menus run the variable exists, and SETUP edits a configuration whose
\* mode the display has, with the cursor on one of its four lines.
Configured ==
    /\ InMainMenu \/ pc \in {"StartMenus", "BootMenu", "Setup", "LoadKernel"} => nv \in Configs
    /\ pc = "Setup" =>
        /\ config \in Configs /\ Queryable(machine.modes, config.GfxMode)
        /\ selected \in BootDelayLine .. DefaultOSLine
        /\ Usable(config)

\* The main menu calls LoadKernel with the event closed and count still 2, and finds
\* them so when the call fails.
Loading ==
    /\ pc \in {"off", "EfiMain", "StartMenus", "BootMenu", "Setup", "MainTick"} => entry = NoCall
    /\ InMainMenu /\ entry # NoCall => event = "closed" /\ count = 2
    /\ pc = "LoadKernel" => entry # NoCall /\ (menu = "MENU_MAIN_MENU" => event = "closed" /\ count = 2)

\* gDefaultEntry is current until the first menu is left.
DefaultEntryCurrent ==
    /\ pc = "StartMenus" /\ first => defaultEntry = GetBootEntryAt(nv.DefaultOS)
    /\ pc = "MainTick" =>
        /\ event = "idle" /\ first /\ count = 2 /\ file.entries > 0
        /\ defaultEntry = GetBootEntryAt(nv.DefaultOS)

\* Power on enters the main menu first, with the overrides of this boot's file.
Started ==
    /\ pc = "EfiMain" \/ (pc = "StartMenus" /\ first) => first /\ menu = "MENU_MAIN_MENU"
    /\ InMainMenu \/ pc \in {"StartMenus", "BootMenu", "Setup", "LoadKernel"} =>
            override = OverridesOf(file.timeout, file.defaultEntry)

\* The counter started from what INITIAL_TIMEOUT_COUNTER yields for the effective
\* delay and has gone down once for every expiration the program has seen.
Counting ==
    LET pending == IF event = "signaled" \/ pc = "MainTick" THEN 1 ELSE 0
        counters == InitialTimeoutCounters(EffectiveDelay(override, nv))
    IN  /\ event \in {"armed", "signaled"} \/ pc = "MainTick" =>
            /\ ticks >= pending
            /\ counter + (ticks - pending) \in counters
            /\ ticks > pending => counter > 0
        /\ pc = "LoadKernel" /\ menu = "MENU_MAIN_MENU" => \E c \in counters : ticks = AtLeastOne(c)

CursorDrawn == pc = "BootMenu" /\ selected < file.entries => selectedEntry = selected

IInv ==
    /\ TypeOK /\ Located /\ Configured /\ Loading
    /\ TimerOwnership /\ CountdownOnlyUnattended /\ DefaultEntryCurrent
    /\ Started /\ Counting /\ SavedConfigUsable
    /\ CursorDrawn /\ SelectedRowBoots /\ AssertExplained

-----------------------------------------------------------------------------
(* What the menus implement.                                               *)

\* The entry a configuration file and a saved configuration make default.
DefaultTarget(f, saved) ==
    LET forced == OverridesOf(f.timeout, f.defaultEntry).DefaultOS
        index == IF forced > 0 THEN forced ELSE saved.DefaultOS
    IN  IF index \in 0 .. f.entries - 1 THEN index ELSE NULL

Phase ==
    CASE pc = "off" -> "off"
      [] pc = "EfiMain" \/ (pc = "StartMenus" /\ first) -> "starting"
      [] pc = "MainTick" \/ event \in {"armed", "signaled"} -> "countdown"
      [] pc = "LoadKernel" -> "loading"
      [] pc = "booted" -> "running"
      [] pc \in {"hung", "asserted"} \/ (pc \in {"MainWait", "MainKey"} /\ AutobootTried) -> "stopped"
      [] OTHER -> "attended"

LoadedEntry == IF entry = NoCall THEN NULL ELSE entry

AB == INSTANCE AutoBoot WITH
        Entries <- Nat \cup {NULL}, None <- NULL,
        Configurations <- Configs, Unset <- NoConfig, Target <- DefaultTarget,
        phase <- Phase, saved <- nv,
        loading <- LoadedEntry

\* The menus, keys and timer together implement AutoBoot: among the rest, that a
\* key once read, or a visit to any menu, rules an unattended boot out until the
\* next power on, and that the choice saved in SETUP is the one it boots then.
ImplementsAutoBoot == AB!Spec

-----------------------------------------------------------------------------
(* Liveness.                                                               *)

\* If from some time on nobody types, every countdown ends: a kernel is loaded,
\* the menu was taken over by a key before, or power was cut.
CountdownEnds ==
    <>[][Len(keys') <= Len(keys)]_vars =>
        \A b \in 1 .. MaxBoots :
            pc = "MainWait" /\ event = "armed" /\ boots = b
                ~> pc = "LoadKernel" \/ count = 1 \/ boots # b
=============================================================================
