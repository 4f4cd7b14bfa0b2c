----------------------------- MODULE MenusProofs ----------------------------
(***************************************************************************)
(* The safety invariants of Menus hold for every configuration file, every *)
(* hardware and every value of the constants: IInv is inductive.           *)
(***************************************************************************)
EXTENDS Menus, IntervalTheorems

(***************************************************************************)
(* What the mode search of util/GfxUtils.c returns, for every mode table.  *)
(***************************************************************************)

\* Within MaxMode iterations the search looks at every mode of the table.
LEMMA VisitsEveryMode ==
    ASSUME NEW modes \in ModeTables, NEW start \in -1 .. Len(modes) - 1,
           NEW dir \in {1, -1}, NEW m \in 0 .. Len(modes) - 1, start # -1 \/ dir = 1
    PROVE  \E k \in 1 .. Len(modes) : Visited(modes, start, dir, k) = m
<1> DEFINE n == Len(modes)
<1>1. n \in Nat \ {0} BY DEF ModeTables
<1> HIDE DEF n
<1>2. CASE dir = 1 /\ m > start
  <2>1. start + dir * (m - start) = m BY <1>1, <1>2 DEF n
  <2>2. m - start \in 1 .. n BY <1>1, <1>2 DEF n
  <2>3. m % n = m BY <1>1, RemainderNear DEF n
  <2> QED BY <2>1, <2>2, <2>3 DEF Visited, n
<1>3. CASE dir = 1 /\ m <= start
  <2>1. start + dir * (m - start + n) = m + n BY <1>1, <1>3 DEF n
  <2>2. m - start + n \in 1 .. n BY <1>1, <1>3 DEF n
  <2>3. (m + n) % n = m BY <1>1, RemainderNear DEF n
  <2> QED BY <2>1, <2>2, <2>3 DEF Visited, n
<1>4. CASE dir = -1 /\ m < start
  <2>1. start + dir * (start - m) = m BY <1>1, <1>4 DEF n
  <2>2. start - m \in 1 .. n BY <1>1, <1>4 DEF n
  <2>3. m % n = m BY <1>1, RemainderNear DEF n
  <2> QED BY <2>1, <2>2, <2>3 DEF Visited, n
<1>5. CASE dir = -1 /\ m >= start
  <2>1. start + dir * (start - m + n) = m - n BY <1>1, <1>5 DEF n
  <2>2. start - m + n \in 1 .. n BY <1>1, <1>5 DEF n
  <2>3. (m - n) % n = m BY <1>1, RemainderNear DEF n
  <2> QED BY <2>1, <2>2, <2>3 DEF Visited, n
<1> QED BY <1>1, <1>2, <1>3, <1>4, <1>5 DEF n

\* The search is back at its start after MaxMode iterations and not before.
LEMMA BackAtStart ==
    ASSUME NEW modes \in ModeTables, NEW start \in 0 .. Len(modes) - 1,
           NEW dir \in {1, -1}, NEW k \in 1 .. Len(modes),
           Visited(modes, start, dir, k) = start
    PROVE  k = Len(modes)
<1> DEFINE n == Len(modes)
<1>1. n \in Nat \ {0} BY DEF ModeTables
<1> SUFFICES ASSUME k < n PROVE FALSE
  BY <1>1
<1> HIDE DEF n
<1>2. CASE start + dir * k \in 0 .. n - 1
  <2>1. (start + dir * k) % n = start + dir * k BY <1>1, <1>2, RemainderNear
  <2> QED BY <1>1, <2>1 DEF Visited, n
<1>3. CASE start + dir * k >= n
  <2>1. (start + k - n) \in 0 .. n - 1 BY <1>1, <1>3 DEF n
  <2>2. ((start + k - n) + n) % n = start + k - n BY <1>1, <2>1, RemainderNear
  <2>3. start + dir * k = (start + k - n) + n BY <1>1, <1>3 DEF n
  <2> QED BY <1>1, <2>2, <2>3 DEF Visited, n
<1>4. CASE start + dir * k < 0
  <2>1. (start - k + n) \in 0 .. n - 1 BY <1>1, <1>4 DEF n
  <2>2. ((start - k + n) - n) % n = start - k + n BY <1>1, <2>1, RemainderNear
  <2>3. start + dir * k = (start - k + n) - n BY <1>1, <1>4 DEF n
  <2> QED BY <1>1, <2>2, <2>3 DEF Visited, n
<1> QED BY <1>1, <1>2, <1>3, <1>4 DEF n

\* A search that returns does so with a mode of the table: a supported one if
\* there is any but the start, the start itself otherwise.  So a supported mode
\* never leads to one that is not.
THEOREM GetModeCommonResult ==
    ASSUME NEW modes \in ModeTables, NEW start \in -1 .. Len(modes) - 1,
           NEW dir \in {1, -1}, start # -1 \/ dir = 1, GetModeReturns(modes, start)
    PROVE  LET result == GetModeCommon(modes, start, dir)
           IN  /\ Queryable(modes, result)
               /\ \/ Supported(modes, result)
                  \/ /\ result = start
                     /\ \A m \in 0 .. Len(modes) - 1 : Supported(modes, m) => m = start
<1> DEFINE n == Len(modes)
           T == {k \in 1 .. n : Stops(modes, start, dir, k)}
           First(k) == /\ Stops(modes, start, dir, k)
                       /\ \A j \in 1 .. k - 1 : ~Stops(modes, start, dir, j)
<1>1. n \in Nat \ {0} BY DEF ModeTables
<1>2. \A m \in 0 .. n - 1 : \E k \in 1 .. n : Visited(modes, start, dir, k) = m
  BY VisitsEveryMode
<1>3. T # {}
  <2>1. PICK m \in 0 .. n - 1 : m = start \/ Supported(modes, m)
    BY DEF GetModeReturns, Queryable
  <2>2. PICK k \in 1 .. n : Visited(modes, start, dir, k) = m BY <1>2
  <2> QED BY <2>1, <2>2 DEF Stops
<1>4. PICK x \in T : \A y \in T : x <= y BY <1>1, <1>3, LeastElement
<1>5. First(x) BY <1>1, <1>4
<1> DEFINE k == CHOOSE i \in 1 .. n : First(i)
<1>6. k \in 1 .. n /\ First(k) BY <1>5
<1>7. GetModeCommon(modes, start, dir) = Visited(modes, start, dir, k)
  BY DEF GetModeCommon
<1> HIDE DEF k
<1>8. Visited(modes, start, dir, k) \in 0 .. n - 1
  <2>1. start + dir * k \in Int BY <1>1, <1>6
  <2> QED BY <1>1, <2>1 DEF Visited
<1>9. CASE Supported(modes, Visited(modes, start, dir, k))
  BY <1>7, <1>8, <1>9 DEF Queryable
<1>10. CASE ~Supported(modes, Visited(modes, start, dir, k))
  <2>1. Visited(modes, start, dir, k) = start BY <1>6, <1>10 DEF Stops
  <2>2. \A m \in 0 .. n - 1 : Supported(modes, m) => m = start
    <3> SUFFICES ASSUME NEW m \in 0 .. n - 1, Supported(modes, m), m # start
                 PROVE  FALSE
      OBVIOUS
    <3>1. PICK i \in 1 .. n : Visited(modes, start, dir, i) = m BY <1>2
    <3>2. i >= k BY <1>6, <3>1 DEF Stops
    <3>3. start \in 0 .. n - 1 BY <1>8, <2>1
    <3>4. k = n BY <1>6, <2>1, <3>3, BackAtStart
    <3> QED BY <2>1, <3>1, <3>2, <3>4
  <2> QED BY <1>7, <1>8, <2>1, <2>2 DEF Queryable
<1> QED BY <1>9, <1>10

\* GetModeReturns says exactly when the search ends, in whatever iteration: from -1,
\* the start of GetFirstGfxMode, a display with no supported mode keeps it looking for
\* ever, and nothing else does.
THEOREM SearchEnds ==
    ASSUME NEW modes \in ModeTables, NEW start \in -1 .. Len(modes) - 1,
           NEW dir \in {1, -1}, start # -1 \/ dir = 1
    PROVE  GetModeReturns(modes, start) <=> \E k \in Nat \ {0} : Stops(modes, start, dir, k)
<1> DEFINE n == Len(modes)
<1>1. n \in Nat \ {0} BY DEF ModeTables
<1>2. ASSUME GetModeReturns(modes, start) PROVE \E k \in Nat \ {0} : Stops(modes, start, dir, k)
  <2>1. PICK m \in 0 .. n - 1 : m = start \/ Supported(modes, m)
    BY <1>2 DEF GetModeReturns, Queryable
  <2>2. PICK k \in 1 .. n : Visited(modes, start, dir, k) = m BY VisitsEveryMode
  <2> QED BY <1>1, <2>1, <2>2 DEF Stops
<1>3. ASSUME NEW k \in Nat \ {0}, Stops(modes, start, dir, k) PROVE GetModeReturns(modes, start)
  <2>1. Visited(modes, start, dir, k) \in 0 .. n - 1
    <3>1. start + dir * k \in Int BY <1>1
    <3> QED BY <1>1, <3>1 DEF Visited
  <2> QED BY <1>3, <2>1 DEF Stops, GetModeReturns, Queryable
<1> QED BY <1>2, <1>3

\* GetBootEntryAt returns an entry or NULL.
LEMMA GetBootEntryAtType ==
    ASSUME file \in Files, NEW i \in Int
    PROVE  GetBootEntryAt(i) \in Nat \cup {NULL}
  BY FilesAssumption DEF GetBootEntryAt, NULL

\* Whatever the overflow of the delay arithmetic yields, timeout_counter starts from a
\* natural number.
LEMMA CounterType ==
    ASSUME NEW delay \in Int
    PROVE  InitialTimeoutCounters(delay) \subseteq Nat
<1>1. delay * Second \in Int
  BY WidthAssumption
<1>2. \A x \in Int : Int32(x) \in Int
  BY WidthAssumption DEF Int32
<1>3. \A x \in Int : Uintn(x) \div TIMER_INTERVAL \in Nat
  <2>1. \A x \in Int : Uintn(x) \in Nat
    BY WidthAssumption DEF Uintn
  <2> QED BY <2>1, WidthAssumption
<1> QED BY <1>1, <1>2, <1>3 DEF InitialTimeoutCounters

\* The defaults of a machine whose mode search ends are a configuration.
LEMMA LoadBootConfigType ==
    ASSUME nv \in Configs \cup {NoConfig}, machine \in Machines,
           nv # NoConfig \/ GetModeReturns(machine.modes, -1)
    PROVE  LoadBootConfig(nv, machine.modes) \in Configs
<1>1. machine.modes \in ModeTables
  BY MachinesAssumption
<1>2. CASE nv # NoConfig
  BY <1>2 DEF LoadBootConfig
<1>3. CASE nv = NoConfig
  <2>1. -1 \in -1 .. Len(machine.modes) - 1
    BY <1>1 DEF ModeTables
  <2>2. Queryable(machine.modes, GetFirstGfxMode(machine.modes))
    BY <1>1, <1>3, <2>1, GetModeCommonResult DEF GetFirstGfxMode, GetNextGfxMode
  <2>3. GetFirstGfxMode(machine.modes) \in Int
    BY <1>1, <2>2 DEF Queryable, ModeTables
  <2> QED BY <1>3, <2>3, DelayAssumption DEF LoadBootConfig, DefaultConfig, Configs
<1> QED BY <1>2, <1>3

\* The overrides a file sets are two integers.
LEMMA OverridesType ==
    ASSUME NEW f \in Files
    PROVE  OverridesOf(f.timeout, f.defaultEntry) \in [BootDelay : Int, DefaultOS : Int]
<1>1. f.timeout \in Int /\ f.defaultEntry \in Int
  BY FilesAssumption DEF Absent
<1>2. \A x \in Int : Int32(x) \in Int
  BY WidthAssumption DEF Int32
<1> QED BY <1>1, <1>2 DEF OverridesOf, NoOverride

\* A key on a setup line keeps a configuration, and one whose mode exists.
LEMMA ApplyOpType ==
    ASSUME machine \in Machines, NEW c \in Configs, Queryable(machine.modes, c.GfxMode),
           NEW line \in BootDelayLine .. DefaultOSLine, NEW op
    PROVE  /\ ApplyOp(c, line, op) \in Configs
           /\ Queryable(machine.modes, ApplyOp(c, line, op).GfxMode)
<1> DEFINE n == Len(machine.modes)
           d == ApplyOp(c, line, op)
<1>1. machine.modes \in ModeTables /\ c.GfxMode \in -1 .. n - 1 /\ c.GfxMode # -1
  BY MachinesAssumption DEF Queryable, ModeTables
<1>2. GetModeReturns(machine.modes, c.GfxMode)
  BY DEF GetModeReturns
<1>3. /\ Queryable(machine.modes, GetNextGfxMode(machine.modes, c.GfxMode))
      /\ Queryable(machine.modes, GetPrevGfxMode(machine.modes, c.GfxMode))
  BY <1>1, <1>2, GetModeCommonResult DEF GetNextGfxMode, GetPrevGfxMode
<1>4. /\ GetNextGfxMode(machine.modes, c.GfxMode) \in Int
      /\ GetPrevGfxMode(machine.modes, c.GfxMode) \in Int
  BY <1>1, <1>3 DEF Queryable, ModeTables
<1>5. \A r \in Configs, v \in Int :
        /\ [r EXCEPT !.BootDelay = v] \in Configs /\ [r EXCEPT !.BootDelay = v].GfxMode = r.GfxMode
        /\ [r EXCEPT !.GfxMode = v] \in Configs /\ [r EXCEPT !.GfxMode = v].GfxMode = v
        /\ [r EXCEPT !.DefaultOS = v] \in Configs /\ [r EXCEPT !.DefaultOS = v].GfxMode = r.GfxMode
  BY DEF Configs
<1>6. \A r \in Configs, b \in BOOLEAN :
        [r EXCEPT !.OverrideGfx = b] \in Configs /\ [r EXCEPT !.OverrideGfx = b].GfxMode = r.GfxMode
  BY DEF Configs
<1>7. /\ c.BootDelay + 1 \in Int /\ c.BootDelay - 1 \in Int /\ MaxDelay \in Int
      /\ c.DefaultOS + 1 \in Int /\ c.DefaultOS - 1 \in Int /\ 0 \in Int
  BY DelayAssumption DEF Configs
<1>8. d \in Configs /\ Queryable(machine.modes, d.GfxMode)
  <2> DEFINE delay == IF op = "plus" THEN IF c.BootDelay + 1 > MaxDelay THEN MaxDelay ELSE c.BootDelay + 1
                      ELSE IF c.BootDelay - 1 < 0 THEN 0 ELSE c.BootDelay - 1
             mode == IF op = "plus" THEN GetNextGfxMode(machine.modes, c.GfxMode)
                     ELSE GetPrevGfxMode(machine.modes, c.GfxMode)
             flag == (op = "plus")
             os == IF op = "plus" THEN c.DefaultOS + 1
                   ELSE IF c.DefaultOS - 1 < 0 THEN 0 ELSE c.DefaultOS - 1
  <2>1. delay \in Int /\ mode \in Int /\ Queryable(machine.modes, mode) /\ os \in Int
    BY <1>3, <1>4, <1>7
  <2>2. line = 2 \/ line = 3 \/ line = 4 \/ line = 5
    BY DEF BootDelayLine, DefaultOSLine
  <2>3. \/ d = c
        \/ d = [c EXCEPT !.BootDelay = delay]
        \/ d = [c EXCEPT !.GfxMode = mode]
        \/ d = [c EXCEPT !.OverrideGfx = flag]
        \/ d = [c EXCEPT !.DefaultOS = os]
    <3> USE DEF ApplyOp, BootDelayLine, GfxModeLine, OverrideGfxLine, DefaultOSLine
    <3>1. CASE op \notin {"plus", "minus"} BY <3>1
    <3>2. CASE op \in {"plus", "minus"} /\ line = 2 BY <3>2
    <3>3. CASE op \in {"plus", "minus"} /\ line = 3 BY <3>3
    <3>4. CASE op \in {"plus", "minus"} /\ line = 4 BY <3>4
    <3>5. CASE op \in {"plus", "minus"} /\ line = 5 BY <3>5
    <3> QED BY <2>2, <3>1, <3>2, <3>3, <3>4, <3>5
  <2>4. flag \in BOOLEAN OBVIOUS
  <2> HIDE DEF d, delay, mode, os, flag
  <2>5. CASE d = c BY <2>5
  <2>6. CASE d = [c EXCEPT !.BootDelay = delay] BY <1>5, <2>1, <2>6
  <2>7. CASE d = [c EXCEPT !.GfxMode = mode] BY <1>5, <2>1, <2>7
  <2>8. CASE d = [c EXCEPT !.OverrideGfx = flag] BY <1>6, <2>4, <2>8, Zenon
  <2>9. CASE d = [c EXCEPT !.DefaultOS = os] BY <1>5, <2>1, <2>9
  <2> QED BY <2>3, <2>5, <2>6, <2>7, <2>8, <2>9
<1> QED BY <1>8

\* So does a whole pass over the lines.
LEMMA DrawSetupType ==
    ASSUME machine \in Machines, NEW c \in Configs, Queryable(machine.modes, c.GfxMode),
           NEW line \in BootDelayLine .. DefaultOSLine, NEW op
    PROVE  /\ DrawSetup(c, line, op) \in Configs
           /\ Queryable(machine.modes, DrawSetup(c, line, op).GfxMode)
<1> DEFINE d == ApplyOp(c, line, op)
<1>1. d \in Configs /\ Queryable(machine.modes, d.GfxMode)
  BY ApplyOpType
<1> HIDE DEF d
<1>2. d.DefaultOS - 1 \in Int
  BY <1>1 DEF Configs
<1>3. /\ [d EXCEPT !.DefaultOS = d.DefaultOS - 1] \in Configs
      /\ [d EXCEPT !.DefaultOS = d.DefaultOS - 1].GfxMode = d.GfxMode
  BY <1>1, <1>2 DEF Configs
<1>4. DrawSetup(c, line, op) = d \/ DrawSetup(c, line, op) = [d EXCEPT !.DefaultOS = d.DefaultOS - 1]
  BY DEF DrawSetup, SettleDefaultOS, d
<1> QED BY <1>1, <1>3, <1>4

\* What SETUP makes of a usable configuration is one, whatever line and key.
LEMMA DrawSetupUsable ==
    ASSUME file \in Files, machine \in Machines, NEW c \in Configs, Usable(c),
           Queryable(machine.modes, c.GfxMode),
           NEW line \in BootDelayLine .. DefaultOSLine, NEW op
    PROVE  Usable(DrawSetup(c, line, op))
<1> DEFINE d == ApplyOp(c, line, op)
           Mode(m) == \E x \in Machines : Supported(x.modes, m)
           Exists(os) == os <= 0 \/ \E f \in Files : os < f.entries
<1> USE DEF GfxModeLine, OverrideGfxLine, BootDelayLine, DefaultOSLine
<1>1. /\ c.BootDelay \in 0 .. MaxDelay /\ Exists(c.DefaultOS) /\ Mode(c.GfxMode)
      /\ c.DefaultOS \in Int /\ MaxDelay \in Nat
  BY DelayAssumption DEF Usable, Configs
<1>2. line = 2 \/ line = 3 \/ line = 4 \/ line = 5
  OBVIOUS
<1>3. /\ Mode(GetNextGfxMode(machine.modes, c.GfxMode))
      /\ Mode(GetPrevGfxMode(machine.modes, c.GfxMode))
  <2>1. machine.modes \in ModeTables /\ c.GfxMode \in -1 .. Len(machine.modes) - 1 /\ c.GfxMode # -1
    BY MachinesAssumption DEF Queryable, ModeTables
  <2>2. GetModeReturns(machine.modes, c.GfxMode)
    BY DEF GetModeReturns
  <2>3. \A dir \in {1, -1} : LET m == GetModeCommon(machine.modes, c.GfxMode, dir)
                            IN  Supported(machine.modes, m) \/ m = c.GfxMode
    BY <2>1, <2>2, GetModeCommonResult
  <2> QED BY <1>1, <2>3 DEF GetNextGfxMode, GetPrevGfxMode
<1>4. /\ d.BootDelay \in 0 .. MaxDelay /\ Mode(d.GfxMode)
      /\ \/ d.DefaultOS = c.DefaultOS
         \/ d.DefaultOS = c.DefaultOS + 1
         \/ d.DefaultOS = (IF c.DefaultOS - 1 < 0 THEN 0 ELSE c.DefaultOS - 1)
  <2> HIDE DEF Mode
  <2>1. CASE op \notin {"plus", "minus"}
    BY <1>1, <2>1 DEF ApplyOp
  <2>2. CASE op \in {"plus", "minus"} /\ line = 2
    BY <1>1, <2>2 DEF ApplyOp, Configs
  <2>3. CASE op \in {"plus", "minus"} /\ line = 3
    BY <1>1, <1>3, <2>3 DEF ApplyOp, Configs
  <2>4. CASE op \in {"plus", "minus"} /\ line = 4
    BY <1>1, <2>4 DEF ApplyOp, Configs
  <2>5. CASE op \in {"plus", "minus"} /\ line = 5
    BY <1>1, <2>5 DEF ApplyOp, Configs
  <2> QED BY <1>2, <2>1, <2>2, <2>3, <2>4, <2>5
<1>5. d \in Configs
  BY ApplyOpType
<1> HIDE DEF d
<1>6. /\ DrawSetup(c, line, op).BootDelay = d.BootDelay
      /\ DrawSetup(c, line, op).GfxMode = d.GfxMode
      /\ DrawSetup(c, line, op).DefaultOS
            = IF GetBootEntryAt(d.DefaultOS) = NULL THEN d.DefaultOS - 1 ELSE d.DefaultOS
  BY <1>5 DEF DrawSetup, SettleDefaultOS, d, Configs
<1>7. Exists(DrawSetup(c, line, op).DefaultOS)
  <2>1. \A f \in Files : f.entries \in Nat
    BY FilesAssumption
  <2>2. d.DefaultOS \in Int /\ (d.DefaultOS <= c.DefaultOS + 1 \/ d.DefaultOS = 0)
    <3>1. c.DefaultOS \in Int BY DEF Configs
    <3>2. d.DefaultOS \in Int BY <1>5 DEF Configs
    <3>3. \/ d.DefaultOS = c.DefaultOS \/ d.DefaultOS = c.DefaultOS + 1
          \/ d.DefaultOS = (IF c.DefaultOS - 1 < 0 THEN 0 ELSE c.DefaultOS - 1)
      BY <1>4
    <3> QED BY <3>1, <3>2, <3>3
  <2>3. CASE GetBootEntryAt(d.DefaultOS) = NULL
    BY <1>1, <1>6, <2>1, <2>2, <2>3
  <2>4. CASE GetBootEntryAt(d.DefaultOS) # NULL
    BY <1>6, <2>1, <2>4 DEF GetBootEntryAt
  <2> QED BY <2>3, <2>4
<1> QED BY <1>4, <1>6, <1>7 DEF Usable

\* So are the defaults.
LEMMA DefaultUsable ==
    ASSUME machine \in Machines, GetModeReturns(machine.modes, -1)
    PROVE  Usable(DefaultConfig(machine.modes))
<1>1. machine.modes \in ModeTables /\ -1 \in -1 .. Len(machine.modes) - 1
  BY MachinesAssumption DEF ModeTables
<1>2. Supported(machine.modes, GetFirstGfxMode(machine.modes))
  BY <1>1, GetModeCommonResult DEF GetFirstGfxMode, GetNextGfxMode, Queryable
<1> QED BY <1>2, DelayAssumption DEF DefaultConfig, Usable

\* The lookup fails only if there is no table.
LEMMA NoTableOnlyIfNone ==
  ASSUME NEW acpi \in AcpiForm, GetAcpiTable(acpi, "FACP") = NoTable
  PROVE  acpi.list = "none" \/ acpi.tables = <<>>
<1> SUFFICES ASSUME acpi.tables # <<>>, acpi.list # "none" PROVE FALSE
  OBVIOUS
<1>1. acpi.tables \in Seq(Signatures) /\ acpi.tables[Len(acpi.tables)] \in Signatures
  BY DEF AcpiForm
<1> QED BY <1>1 DEF GetAcpiTable, NoTable, Garbage, Signatures

\* Before power is switched on the invariant holds.
LEMMA InitIInv == Init => IInv
  BY BoundsAssumption
  DEF Init, IInv, TypeOK, Located, Configured, Loading, TimerOwnership, CountdownOnlyUnattended,
      DefaultEntryCurrent, CursorDrawn, SelectedRowBoots, AssertExplained, InMainMenu, PCs,
      Started, Counting, SavedConfigUsable,
      MenuNames, Events, Live, NULL, NoCall, NoOverride

\* Every step of the program, the user, the timer and the power switch preserves
\* the invariant; one case per action, the conjuncts of IInv in five groups.
THEOREM StepIInv == IInv /\ [Next]_vars => IInv'
<1> SUFFICES ASSUME IInv, [Next]_vars PROVE IInv'
  OBVIOUS
<1> USE DEF InMainMenu, Live, NULL, NoCall, AutobootTried
<1>1. CASE EfiMain
  <2> USE <1>1 DEF EfiMain, persistent, control, mainMenu, cursor, Goto, Assert, Return, CallLoadKernel, ReadKey, ResetCursor
  <2>6. nv # NoConfig \/ GetModeReturns(machine.modes, -1) => LoadBootConfig(nv, machine.modes) \in Configs
    BY LoadBootConfigType DEF IInv, TypeOK
  <2>7. OverridesOf(file.timeout, file.defaultEntry) \in [BootDelay : Int, DefaultOS : Int]
    BY OverridesType DEF IInv, TypeOK
  <2>8. \A c \in Configs : GetBootEntryAt(c.DefaultOS) \in Nat \cup {NULL}
    BY GetBootEntryAtType DEF IInv, TypeOK, Configs
  <2>1. TypeOK'
    BY <2>6, <2>7, <2>8 DEF IInv, TypeOK, PCs, MenuNames, Events, Located
  <2>2. (Located /\ Configured /\ Loading)'
    BY <2>6 DEF IInv, TypeOK, Located, Configured, Loading
  <2>9. machine.acpi \in AcpiForm
    BY MachinesAssumption DEF IInv, TypeOK
  <2>3. (TimerOwnership /\ AssertExplained)'
    BY <2>9, NoTableOnlyIfNone DEF IInv, TypeOK, Located, Loading, TimerOwnership, AssertExplained
  <2>4. (CountdownOnlyUnattended /\ DefaultEntryCurrent)'
    BY DEF IInv, TypeOK, Located, Configured, TimerOwnership, CountdownOnlyUnattended, DefaultEntryCurrent,
           GetBootEntryAt
  <2>5. (CursorDrawn /\ SelectedRowBoots)'
    BY DEF IInv, TypeOK, Located, CursorDrawn, SelectedRowBoots
  <2>10. Started'
    BY DEF IInv, Located, Loading, Started
  <2>11. SavedConfigUsable'
    BY DefaultUsable DEF IInv, TypeOK, SavedConfigUsable, LoadBootConfig
  <2>12. Counting'
    BY DEF IInv, TypeOK, TimerOwnership, DefaultEntryCurrent, Loading, Located, Counting
  <2> QED BY <2>1, <2>2, <2>3, <2>4, <2>5, <2>10, <2>11, <2>12 DEF IInv
<1>2. CASE Shutdown
  <2> USE <1>2 DEF Shutdown, persistent, control, mainMenu, cursor, Goto, Assert, Return, CallLoadKernel, ReadKey, ResetCursor
  <2>1. TypeOK'
    BY DEF IInv, TypeOK, PCs, MenuNames, Events, Located
  <2>2. (Located /\ Configured /\ Loading)'
    BY DEF IInv, TypeOK, Located, Configured, Loading
  <2>3. (TimerOwnership /\ AssertExplained)'
    BY DEF IInv, TypeOK, Located, Loading, TimerOwnership, AssertExplained
  <2>4. (CountdownOnlyUnattended /\ DefaultEntryCurrent)'
    BY DEF IInv, TypeOK, Located, Configured, TimerOwnership, CountdownOnlyUnattended, DefaultEntryCurrent,
           GetBootEntryAt
  <2>5. (CursorDrawn /\ SelectedRowBoots)'
    BY DEF IInv, TypeOK, Located, CursorDrawn, SelectedRowBoots
  <2>10. Started'
    BY DEF IInv, Located, Loading, Started
  <2>11. SavedConfigUsable'
    BY DEF IInv, SavedConfigUsable
  <2>12. Counting'
    BY DEF IInv, TypeOK, TimerOwnership, DefaultEntryCurrent, Loading, Located, Counting
  <2> QED BY <2>1, <2>2, <2>3, <2>4, <2>5, <2>10, <2>11, <2>12 DEF IInv
<1>3. CASE LoadKernel
  <2> USE <1>3 DEF LoadKernel, persistent, control, mainMenu, cursor, Goto, Assert, Return, CallLoadKernel, ReadKey, ResetCursor
  <2>1. TypeOK'
    BY DEF IInv, TypeOK, PCs, MenuNames, Events, Located
  <2>2. (Located /\ Configured /\ Loading)'
    BY DEF IInv, TypeOK, Located, Configured, Loading
  <2>3. (TimerOwnership /\ AssertExplained)'
    BY DEF IInv, TypeOK, Located, Loading, TimerOwnership, AssertExplained
  <2>4. (CountdownOnlyUnattended /\ DefaultEntryCurrent)'
    BY DEF IInv, TypeOK, Located, Configured, TimerOwnership, CountdownOnlyUnattended, DefaultEntryCurrent,
           GetBootEntryAt
  <2>5. (CursorDrawn /\ SelectedRowBoots)'
    BY DEF IInv, TypeOK, Located, CursorDrawn, SelectedRowBoots
  <2>10. Started'
    BY DEF IInv, Located, Loading, Started
  <2>11. SavedConfigUsable'
    BY DEF IInv, SavedConfigUsable
  <2>12. Counting'
    BY DEF IInv, TypeOK, TimerOwnership, DefaultEntryCurrent, Loading, Located, Counting
  <2> QED BY <2>1, <2>2, <2>3, <2>4, <2>5, <2>10, <2>11, <2>12 DEF IInv
<1>4. CASE EnterMainMenu
  <2> USE <1>4 DEF EnterMainMenu, persistent, control, mainMenu, cursor, Goto, Assert, Return, CallLoadKernel, ReadKey, ResetCursor
  <2>6. LoadBootConfig(nv, machine.modes) = nv /\ nv \in Configs
    BY NoConfigAssumption DEF IInv, Configured, LoadBootConfig
  <2>7. EffectiveDelay(override, nv) \in Int
    BY <2>6 DEF IInv, TypeOK, EffectiveDelay, Configs
  <2>8. InitialTimeoutCounters(EffectiveDelay(override, nv)) \subseteq Nat
    BY <2>7, CounterType
  <2>9. TimerSet <=> first /\ file.entries # 0
    BY DEF TimerSet
  <2>1. TypeOK'
    BY <2>6, <2>8, <2>9, NoConfigAssumption, FilesAssumption DEF IInv, TypeOK, PCs, MenuNames, Events, Located
  <2>2. (Located /\ Configured /\ Loading)'
    BY <2>6, <2>8, <2>9, NoConfigAssumption, FilesAssumption DEF IInv, TypeOK, Located, Configured, Loading
  <2>3. (TimerOwnership /\ AssertExplained)'
    BY <2>6, <2>8, <2>9, NoConfigAssumption, FilesAssumption DEF IInv, TypeOK, Located, Loading, TimerOwnership, AssertExplained
  <2>4. (CountdownOnlyUnattended /\ DefaultEntryCurrent)'
    BY <2>6, <2>8, <2>9, NoConfigAssumption, FilesAssumption DEF IInv, TypeOK, Located, Configured, TimerOwnership, CountdownOnlyUnattended, DefaultEntryCurrent,
           GetBootEntryAt
  <2>5. (CursorDrawn /\ SelectedRowBoots)'
    BY DEF IInv, TypeOK, Located, CursorDrawn, SelectedRowBoots
  <2>10. Started'
    BY DEF IInv, Located, Loading, Started
  <2>11. SavedConfigUsable'
    BY <2>6 DEF IInv, SavedConfigUsable
  <2>12. Counting'
    BY <2>6, <2>8 DEF IInv, TypeOK, TimerOwnership, DefaultEntryCurrent, Loading, Located, Counting
  <2> QED BY <2>1, <2>2, <2>3, <2>4, <2>5, <2>10, <2>11, <2>12 DEF IInv
<1>5. CASE WaitReturnsKey
  <2> USE <1>5 DEF WaitReturnsKey, persistent, control, mainMenu, cursor, Goto, Assert, Return, CallLoadKernel, ReadKey, ResetCursor
  <2>1. TypeOK'
    BY DEF IInv, TypeOK, PCs, MenuNames, Events, Located
  <2>2. (Located /\ Configured /\ Loading)'
    BY DEF IInv, TypeOK, Located, Configured, Loading
  <2>3. (TimerOwnership /\ AssertExplained)'
    BY DEF IInv, TypeOK, Located, Loading, TimerOwnership, AssertExplained
  <2>4. (CountdownOnlyUnattended /\ DefaultEntryCurrent)'
    BY DEF IInv, TypeOK, Located, Configured, TimerOwnership, CountdownOnlyUnattended, DefaultEntryCurrent,
           GetBootEntryAt
  <2>5. (CursorDrawn /\ SelectedRowBoots)'
    BY DEF IInv, TypeOK, Located, CursorDrawn, SelectedRowBoots
  <2>10. Started'
    BY DEF IInv, Located, Loading, Started
  <2>11. SavedConfigUsable'
    BY DEF IInv, SavedConfigUsable
  <2>12. Counting'
    BY DEF IInv, TypeOK, TimerOwnership, DefaultEntryCurrent, Loading, Located, Counting
  <2> QED BY <2>1, <2>2, <2>3, <2>4, <2>5, <2>10, <2>11, <2>12 DEF IInv
<1>6. CASE WaitReturnsTimer
  <2> USE <1>6 DEF WaitReturnsTimer, persistent, control, mainMenu, cursor, Goto, Assert, Return, CallLoadKernel, ReadKey, ResetCursor
  <2>1. TypeOK'
    BY DEF IInv, TypeOK, PCs, MenuNames, Events, Located
  <2>2. (Located /\ Configured /\ Loading)'
    BY DEF IInv, TypeOK, Located, Configured, Loading
  <2>3. (TimerOwnership /\ AssertExplained)'
    BY DEF IInv, TypeOK, Located, Loading, TimerOwnership, AssertExplained
  <2>4. (CountdownOnlyUnattended /\ DefaultEntryCurrent)'
    BY DEF IInv, TypeOK, Located, Configured, TimerOwnership, CountdownOnlyUnattended, DefaultEntryCurrent,
           GetBootEntryAt
  <2>5. (CursorDrawn /\ SelectedRowBoots)'
    BY DEF IInv, TypeOK, Located, CursorDrawn, SelectedRowBoots
  <2>10. Started'
    BY DEF IInv, Located, Loading, Started
  <2>11. SavedConfigUsable'
    BY DEF IInv, SavedConfigUsable
  <2>12. Counting'
    BY DEF IInv, TypeOK, TimerOwnership, DefaultEntryCurrent, Loading, Located, Counting
  <2> QED BY <2>1, <2>2, <2>3, <2>4, <2>5, <2>10, <2>11, <2>12 DEF IInv
<1>7. CASE WaitFails
  <2> USE <1>7 DEF WaitFails, persistent, control, mainMenu, cursor, Goto, Assert, Return, CallLoadKernel, ReadKey, ResetCursor
  <2>1. TypeOK'
    BY DEF IInv, TypeOK, PCs, MenuNames, Events, Located
  <2>2. (Located /\ Configured /\ Loading)'
    BY DEF IInv, TypeOK, Located, Configured, Loading
  <2>3. (TimerOwnership /\ AssertExplained)'
    BY DEF IInv, TypeOK, Located, Loading, TimerOwnership, AssertExplained
  <2>4. (CountdownOnlyUnattended /\ DefaultEntryCurrent)'
    BY DEF IInv, TypeOK, Located, Configured, TimerOwnership, CountdownOnlyUnattended, DefaultEntryCurrent,
           GetBootEntryAt
  <2>5. (CursorDrawn /\ SelectedRowBoots)'
    BY DEF IInv, TypeOK, Located, CursorDrawn, SelectedRowBoots
  <2>10. Started'
    BY DEF IInv, Located, Loading, Started
  <2>11. SavedConfigUsable'
    BY DEF IInv, SavedConfigUsable
  <2>12. Counting'
    BY DEF IInv, TypeOK, TimerOwnership, DefaultEntryCurrent, Loading, Located, Counting
  <2> QED BY <2>1, <2>2, <2>3, <2>4, <2>5, <2>10, <2>11, <2>12 DEF IInv
<1>8. CASE MainKey
  <2> USE <1>8 DEF MainKey, persistent, control, mainMenu, cursor, Goto, Assert, Return, CallLoadKernel, ReadKey, ResetCursor
  <2>6. keys # <<>> /\ Tail(keys) \in Seq(KeyStrokes)
    BY DEF IInv, TypeOK, Located
  <2>7. MenuOfKey(Head(keys)) \in MenuNames
    BY Zenon DEF MenuOfKey, MenuNames
  <2>1. TypeOK'
    BY <2>6, <2>7 DEF IInv, TypeOK, PCs, MenuNames, Events, Located, ReleaseTimer
  <2>2. (Located /\ Configured /\ Loading)'
    BY <2>6, <2>7 DEF IInv, TypeOK, Located, Configured, Loading, ReleaseTimer, MenuNames
  <2>3. (TimerOwnership /\ AssertExplained)'
    BY <2>6, <2>7 DEF IInv, TypeOK, Located, Loading, TimerOwnership, AssertExplained, ReleaseTimer
  <2>4. (CountdownOnlyUnattended /\ DefaultEntryCurrent)'
    BY <2>6, <2>7 DEF IInv, TypeOK, Located, Configured, TimerOwnership, CountdownOnlyUnattended, DefaultEntryCurrent,
           GetBootEntryAt, ReleaseTimer
  <2>5. (CursorDrawn /\ SelectedRowBoots)'
    BY DEF IInv, TypeOK, Located, CursorDrawn, SelectedRowBoots
  <2>10. Started'
    BY DEF IInv, Located, Loading, Started, MenuOfKey
  <2>11. SavedConfigUsable'
    BY DEF IInv, SavedConfigUsable
  <2>12. Counting'
    BY DEF IInv, TypeOK, TimerOwnership, DefaultEntryCurrent, Loading, Located, Counting, ReleaseTimer
  <2> QED BY <2>1, <2>2, <2>3, <2>4, <2>5, <2>10, <2>11, <2>12 DEF IInv
<1>9. CASE MainTick
  <2> USE <1>9 DEF MainTick, persistent, control, mainMenu, cursor, Goto, Assert, Return, CallLoadKernel, ReadKey, ResetCursor
  <2>6. AutobootEntry \in Nat \cup {NULL}
    BY GetBootEntryAtType DEF IInv, TypeOK, AutobootEntry
  <2>7. event = "idle" /\ count = 2 /\ entry = NoCall /\ menu = "MENU_MAIN_MENU"
    BY DEF IInv, DefaultEntryCurrent, Loading, Located
  <2>1. TypeOK'
    BY <2>6, <2>7, NoConfigAssumption DEF IInv, TypeOK, PCs, MenuNames, Events, Located, RestartTimer
  <2>2. (Located /\ Configured /\ Loading)'
    BY <2>6, <2>7 DEF IInv, TypeOK, Located, Configured, Loading, RestartTimer
  <2>3. (TimerOwnership /\ AssertExplained)'
    BY <2>6, <2>7 DEF IInv, TypeOK, Located, Loading, TimerOwnership, AssertExplained, RestartTimer, DefaultEntryCurrent
  <2>4. (CountdownOnlyUnattended /\ DefaultEntryCurrent)'
    BY <2>6, <2>7, NoConfigAssumption DEF IInv, TypeOK, Located, Configured, TimerOwnership, CountdownOnlyUnattended, DefaultEntryCurrent,
           GetBootEntryAt, RestartTimer, Configured, Loading
  <2>5. (CursorDrawn /\ SelectedRowBoots)'
    BY DEF IInv, TypeOK, Located, CursorDrawn, SelectedRowBoots
  <2>10. Started'
    BY DEF IInv, Located, Loading, Started
  <2>11. SavedConfigUsable'
    BY DEF IInv, SavedConfigUsable
  <2>12. Counting'
    <3> DEFINE counters == InitialTimeoutCounters(EffectiveDelay(override, nv))
    <3>1. /\ ticks \in Nat /\ counter \in Int /\ ticks >= 1
          /\ counter + (ticks - 1) \in counters /\ (ticks > 1 => counter > 0)
      BY DEF IInv, TypeOK, Counting
    <3>2. counter + (ticks - 1) \in Nat
      <4>1. nv \in Configs /\ override \in [BootDelay : Int, DefaultOS : Int]
        BY DEF IInv, TypeOK, Configured
      <4>2. EffectiveDelay(override, nv) \in Int
        BY <4>1 DEF EffectiveDelay, Configs
      <4> QED BY <3>1, <4>2, CounterType
    <3>3. counters' = counters
      OBVIOUS
    <3> HIDE DEF counters
    <3>4. CASE CountdownOver(counter')
      <4>1. ticks = AtLeastOne(counter + (ticks - 1))
        BY <3>1, <3>2, <3>4 DEF CountdownOver, AtLeastOne
      <4>2. ticks' = ticks /\ event' = "closed" /\ pc' = "LoadKernel"
        BY <3>4
      <4> QED BY <3>1, <3>3, <4>1, <4>2 DEF Counting, counters
    <3>5. CASE ~CountdownOver(counter')
      <4>1. counter' + (ticks - 0) = counter + (ticks - 1) /\ counter' > 0
        BY <3>1, <3>5 DEF CountdownOver
      <4>2. ticks' = ticks /\ event' = "armed" /\ pc' = "MainWait"
        BY <3>5 DEF RestartTimer
      <4> QED BY <3>1, <3>3, <4>1, <4>2 DEF Counting, counters
    <3> QED BY <3>4, <3>5
  <2> QED BY <2>1, <2>2, <2>3, <2>4, <2>5, <2>10, <2>11, <2>12 DEF IInv
<1>10. CASE EnterBootMenu
  <2> USE <1>10 DEF EnterBootMenu, persistent, control, mainMenu, cursor, Goto, Assert, Return, CallLoadKernel, ReadKey, ResetCursor
  <2>1. TypeOK'
    BY DEF IInv, TypeOK, PCs, MenuNames, Events, Located
  <2>2. (Located /\ Configured /\ Loading)'
    BY DEF IInv, TypeOK, Located, Configured, Loading
  <2>3. (TimerOwnership /\ AssertExplained)'
    BY DEF IInv, TypeOK, Located, Loading, TimerOwnership, AssertExplained
  <2>4. (CountdownOnlyUnattended /\ DefaultEntryCurrent)'
    BY DEF IInv, TypeOK, Located, Configured, TimerOwnership, CountdownOnlyUnattended, DefaultEntryCurrent,
           GetBootEntryAt
  <2>5. (CursorDrawn /\ SelectedRowBoots)'
    BY DEF IInv, TypeOK, Located, CursorDrawn, SelectedRowBoots
  <2>10. Started'
    BY DEF IInv, Located, Loading, Started
  <2>11. SavedConfigUsable'
    BY DEF IInv, SavedConfigUsable
  <2>12. Counting'
    BY DEF IInv, TypeOK, TimerOwnership, DefaultEntryCurrent, Loading, Located, Counting
  <2> QED BY <2>1, <2>2, <2>3, <2>4, <2>5, <2>10, <2>11, <2>12 DEF IInv
<1>11. CASE BootMenuMove
  <2> USE <1>11 DEF BootMenuMove, persistent, control, mainMenu, cursor, Goto, Assert, Return, CallLoadKernel, ReadKey, ResetCursor
  <2>6. keys # <<>> /\ Tail(keys) \in Seq(KeyStrokes)
    BY DEF IInv, TypeOK
  <2>7. NextRow(Head(keys)) \in Nat
    BY FilesAssumption DEF IInv, TypeOK, NextRow
  <2>1. TypeOK'
    BY <2>6, <2>7 DEF IInv, TypeOK, PCs, MenuNames, Events, Located, DrawRows
  <2>2. (Located /\ Configured /\ Loading)'
    BY DEF IInv, TypeOK, Located, Configured, Loading
  <2>3. (TimerOwnership /\ AssertExplained)'
    BY DEF IInv, TypeOK, Located, Loading, TimerOwnership, AssertExplained
  <2>4. (CountdownOnlyUnattended /\ DefaultEntryCurrent)'
    BY DEF IInv, TypeOK, Located, Configured, TimerOwnership, CountdownOnlyUnattended, DefaultEntryCurrent,
           GetBootEntryAt
  <2>5. (CursorDrawn /\ SelectedRowBoots)'
    BY <2>7 DEF IInv, TypeOK, Located, CursorDrawn, SelectedRowBoots, DrawRows
  <2>10. Started'
    BY DEF IInv, Located, Loading, Started
  <2>11. SavedConfigUsable'
    BY DEF IInv, SavedConfigUsable
  <2>12. Counting'
    BY DEF IInv, TypeOK, TimerOwnership, DefaultEntryCurrent, Loading, Located, Counting
  <2> QED BY <2>1, <2>2, <2>3, <2>4, <2>5, <2>10, <2>11, <2>12 DEF IInv
<1>12. CASE BootMenuEnter
  <2> USE <1>12 DEF BootMenuEnter, persistent, control, mainMenu, cursor, Goto, Assert, Return, CallLoadKernel, ReadKey, ResetCursor
  <2>6. keys # <<>> /\ Tail(keys) \in Seq(KeyStrokes)
    BY DEF IInv, TypeOK
  <2>7. entry' \in Nat \cup {NULL, NoCall} /\ menu' \in MenuNames /\ pc' \in PCs /\ first' \in BOOLEAN
    BY DEF IInv, TypeOK, PCs, MenuNames
  <2>8. config' \in Configs \cup {NoConfig} /\ selected' \in Nat /\ selectedEntry' \in Nat \cup {NULL}
    BY DEF IInv, TypeOK
  <2>1. TypeOK'
    BY <2>6, <2>7, <2>8 DEF IInv, TypeOK, PCs, MenuNames, Events, Located
  <2>2. (Located /\ Configured /\ Loading)'
    BY DEF IInv, TypeOK, Located, Configured, Loading, MenuNames
  <2>3. (TimerOwnership /\ AssertExplained)'
    BY DEF IInv, TypeOK, Located, Loading, TimerOwnership, AssertExplained
  <2>4. (CountdownOnlyUnattended /\ DefaultEntryCurrent)'
    BY DEF IInv, TypeOK, Located, Configured, TimerOwnership, CountdownOnlyUnattended, DefaultEntryCurrent,
           GetBootEntryAt
  <2>5. (CursorDrawn /\ SelectedRowBoots)'
    BY FilesAssumption DEF IInv, TypeOK, Located, CursorDrawn, SelectedRowBoots, IsShutdownRow
  <2>10. Started'
    BY DEF IInv, Located, Loading, Started
  <2>11. SavedConfigUsable'
    BY DEF IInv, SavedConfigUsable
  <2>12. Counting'
    BY DEF IInv, TypeOK, TimerOwnership, DefaultEntryCurrent, Loading, Located, Counting
  <2> QED BY <2>1, <2>2, <2>3, <2>4, <2>5, <2>10, <2>11, <2>12 DEF IInv
<1>13. CASE EnterSetupMenu
  <2> USE <1>13 DEF EnterSetupMenu, persistent, control, mainMenu, cursor, Goto, Assert, Return, CallLoadKernel, ReadKey, ResetCursor
  <2>6. LoadBootConfig(nv, machine.modes) = nv /\ nv \in Configs
    BY NoConfigAssumption DEF IInv, Configured, LoadBootConfig
  <2>7. BootDelayLine \in BootDelayLine .. DefaultOSLine /\ BootDelayLine \in Nat
    BY DEF BootDelayLine, DefaultOSLine
  <2>8. Queryable(machine.modes, nv.GfxMode) =>
          /\ DrawSetup(nv, BootDelayLine, "none") \in Configs
          /\ Queryable(machine.modes, DrawSetup(nv, BootDelayLine, "none").GfxMode)
          /\ Usable(DrawSetup(nv, BootDelayLine, "none"))
    BY <2>6, <2>7, DrawSetupType, DrawSetupUsable, NoConfigAssumption DEF IInv, TypeOK, SavedConfigUsable
  <2>1. TypeOK'
    BY <2>6, <2>7, <2>8, NoConfigAssumption DEF IInv, TypeOK, PCs, MenuNames, Events, Located
  <2>2. (Located /\ Configured /\ Loading)'
    BY <2>6, <2>7, <2>8, NoConfigAssumption DEF IInv, TypeOK, Located, Configured, Loading
  <2>3. (TimerOwnership /\ AssertExplained)'
    BY <2>6, <2>7, <2>8, NoConfigAssumption DEF IInv, TypeOK, Located, Loading, TimerOwnership, AssertExplained
  <2>4. (CountdownOnlyUnattended /\ DefaultEntryCurrent)'
    BY <2>6 DEF IInv, TypeOK, Located, Configured, TimerOwnership, CountdownOnlyUnattended, DefaultEntryCurrent,
           GetBootEntryAt
  <2>5. (CursorDrawn /\ SelectedRowBoots)'
    BY DEF IInv, TypeOK, Located, CursorDrawn, SelectedRowBoots
  <2>10. Started'
    BY DEF IInv, Located, Loading, Started
  <2>11. SavedConfigUsable'
    BY <2>6 DEF IInv, SavedConfigUsable
  <2>12. Counting'
    BY DEF IInv, TypeOK, TimerOwnership, DefaultEntryCurrent, Loading, Located, Counting
  <2> QED BY <2>1, <2>2, <2>3, <2>4, <2>5, <2>10, <2>11, <2>12 DEF IInv
<1>14. CASE SetupEdit
  <2> USE <1>14 DEF SetupEdit, persistent, control, mainMenu, cursor, Goto, Assert, Return, CallLoadKernel, ReadKey, ResetCursor
  <2>6. keys # <<>> /\ Tail(keys) \in Seq(KeyStrokes)
    BY DEF IInv, TypeOK
  <2>7. selected' \in BootDelayLine .. DefaultOSLine
    BY DEF IInv, Configured, BootDelayLine, DefaultOSLine
  <2>8. config' \in Configs /\ Queryable(machine.modes, config'.GfxMode) /\ Usable(config')
    <3>1. /\ file \in Files /\ machine \in Machines /\ config \in Configs
          /\ Queryable(machine.modes, config.GfxMode) /\ Usable(config)
      BY DEF IInv, TypeOK, Configured
    <3>2. config' = DrawSetup(config, selected', Head(keys))
      OBVIOUS
    <3> QED BY <2>7, <3>1, <3>2, DrawSetupType, DrawSetupUsable
  <2>9. selected' \in Nat
    BY <2>7 DEF BootDelayLine, DefaultOSLine
  <2>1. TypeOK'
    <3>1. config' \in Configs \cup {NoConfig}
      BY <2>8
    <3>2. UNCHANGED <<persistent, control, mainMenu, selectedEntry>> /\ keys' = Tail(keys)
      OBVIOUS
    <3> QED BY ONLY IInv, <2>6, <2>9, <3>1, <3>2 DEF IInv, TypeOK, persistent, control, mainMenu
  <2>2. (Located /\ Configured /\ Loading)'
    BY <2>7, <2>8 DEF IInv, TypeOK, Located, Configured, Loading
  <2>3. (TimerOwnership /\ AssertExplained)'
    BY DEF IInv, TypeOK, Located, Loading, TimerOwnership, AssertExplained
  <2>4. (CountdownOnlyUnattended /\ DefaultEntryCurrent)'
    BY DEF IInv, TypeOK, Located, Configured, TimerOwnership, CountdownOnlyUnattended, DefaultEntryCurrent,
           GetBootEntryAt
  <2>5. (CursorDrawn /\ SelectedRowBoots)'
    BY DEF IInv, TypeOK, Located, CursorDrawn, SelectedRowBoots
  <2>10. Started'
    BY DEF IInv, Located, Loading, Started
  <2>11. SavedConfigUsable'
    BY DEF IInv, SavedConfigUsable
  <2>12. Counting'
    BY DEF IInv, TypeOK, TimerOwnership, DefaultEntryCurrent, Loading, Located, Counting
  <2> QED BY <2>1, <2>2, <2>3, <2>4, <2>5, <2>10, <2>11, <2>12 DEF IInv
<1>15. CASE SetupSave
  <2> USE <1>15 DEF SetupSave, persistent, control, mainMenu, cursor, Goto, Assert, Return, CallLoadKernel, ReadKey, ResetCursor
  <2>6. keys # <<>> /\ Tail(keys) \in Seq(KeyStrokes)
    BY DEF IInv, TypeOK
  <2>1. TypeOK'
    BY <2>6 DEF IInv, TypeOK, PCs, MenuNames, Events, Located
  <2>2. (Located /\ Configured /\ Loading)'
    BY DEF IInv, TypeOK, Located, Configured, Loading
  <2>3. (TimerOwnership /\ AssertExplained)'
    BY DEF IInv, TypeOK, Located, Loading, TimerOwnership, AssertExplained
  <2>4. (CountdownOnlyUnattended /\ DefaultEntryCurrent)'
    BY DEF IInv, TypeOK, Located, Configured, TimerOwnership, CountdownOnlyUnattended, DefaultEntryCurrent,
           GetBootEntryAt
  <2>5. (CursorDrawn /\ SelectedRowBoots)'
    BY DEF IInv, TypeOK, Located, CursorDrawn, SelectedRowBoots
  <2>10. Started'
    BY DEF IInv, Located, Loading, Started
  <2>11. SavedConfigUsable'
    BY DEF IInv, SavedConfigUsable, Configured
  <2>12. Counting'
    BY DEF IInv, TypeOK, TimerOwnership, DefaultEntryCurrent, Loading, Located, Counting
  <2> QED BY <2>1, <2>2, <2>3, <2>4, <2>5, <2>10, <2>11, <2>12 DEF IInv
<1>16. CASE SetupQuit
  <2> USE <1>16 DEF SetupQuit, persistent, control, mainMenu, cursor, Goto, Assert, Return, CallLoadKernel, ReadKey, ResetCursor
  <2>6. keys # <<>> /\ Tail(keys) \in Seq(KeyStrokes)
    BY DEF IInv, TypeOK
  <2>1. TypeOK'
    BY <2>6 DEF IInv, TypeOK, PCs, MenuNames, Events, Located
  <2>2. (Located /\ Configured /\ Loading)'
    BY DEF IInv, TypeOK, Located, Configured, Loading
  <2>3. (TimerOwnership /\ AssertExplained)'
    BY DEF IInv, TypeOK, Located, Loading, TimerOwnership, AssertExplained
  <2>4. (CountdownOnlyUnattended /\ DefaultEntryCurrent)'
    BY DEF IInv, TypeOK, Located, Configured, TimerOwnership, CountdownOnlyUnattended, DefaultEntryCurrent,
           GetBootEntryAt
  <2>5. (CursorDrawn /\ SelectedRowBoots)'
    BY DEF IInv, TypeOK, Located, CursorDrawn, SelectedRowBoots
  <2>10. Started'
    BY DEF IInv, Located, Loading, Started
  <2>11. SavedConfigUsable'
    BY DEF IInv, SavedConfigUsable
  <2>12. Counting'
    BY DEF IInv, TypeOK, TimerOwnership, DefaultEntryCurrent, Loading, Located, Counting
  <2> QED BY <2>1, <2>2, <2>3, <2>4, <2>5, <2>10, <2>11, <2>12 DEF IInv
<1>17. CASE TimerFires
  <2> USE <1>17 DEF TimerFires, persistent, control, mainMenu, cursor, Goto, Assert, Return, CallLoadKernel, ReadKey, ResetCursor
  <2>1. TypeOK'
    BY DEF IInv, TypeOK, PCs, MenuNames, Events, Located
  <2>2. (Located /\ Configured /\ Loading)'
    BY DEF IInv, TypeOK, Located, Configured, Loading
  <2>3. (TimerOwnership /\ AssertExplained)'
    BY DEF IInv, TypeOK, Located, Loading, TimerOwnership, AssertExplained
  <2>4. (CountdownOnlyUnattended /\ DefaultEntryCurrent)'
    BY DEF IInv, TypeOK, Located, Configured, TimerOwnership, CountdownOnlyUnattended, DefaultEntryCurrent,
           GetBootEntryAt
  <2>5. (CursorDrawn /\ SelectedRowBoots)'
    BY DEF IInv, TypeOK, Located, CursorDrawn, SelectedRowBoots
  <2>10. Started'
    BY DEF IInv, Located, Loading, Started
  <2>11. SavedConfigUsable'
    BY DEF IInv, SavedConfigUsable
  <2>12. Counting'
    BY DEF IInv, TypeOK, TimerOwnership, DefaultEntryCurrent, Loading, Located, Counting
  <2> QED BY <2>1, <2>2, <2>3, <2>4, <2>5, <2>10, <2>11, <2>12 DEF IInv
<1>18. CASE PressKey
  <2> USE <1>18 DEF PressKey, persistent, control, mainMenu, cursor, Goto, Assert, Return, CallLoadKernel, ReadKey, ResetCursor
  <2>6. keys' \in Seq(KeyStrokes) /\ keys' # <<>>
    BY DEF IInv, TypeOK
  <2>1. TypeOK'
    BY <2>6 DEF IInv, TypeOK, PCs, MenuNames, Events, Located
  <2>2. (Located /\ Configured /\ Loading)'
    BY <2>6 DEF IInv, TypeOK, Located, Configured, Loading
  <2>3. (TimerOwnership /\ AssertExplained)'
    BY DEF IInv, TypeOK, Located, Loading, TimerOwnership, AssertExplained
  <2>4. (CountdownOnlyUnattended /\ DefaultEntryCurrent)'
    BY DEF IInv, TypeOK, Located, Configured, TimerOwnership, CountdownOnlyUnattended, DefaultEntryCurrent,
           GetBootEntryAt
  <2>5. (CursorDrawn /\ SelectedRowBoots)'
    BY DEF IInv, TypeOK, Located, CursorDrawn, SelectedRowBoots
  <2>10. Started'
    BY DEF IInv, Located, Loading, Started
  <2>11. SavedConfigUsable'
    BY DEF IInv, SavedConfigUsable
  <2>12. Counting'
    BY DEF IInv, TypeOK, TimerOwnership, DefaultEntryCurrent, Loading, Located, Counting
  <2> QED BY <2>1, <2>2, <2>3, <2>4, <2>5, <2>10, <2>11, <2>12 DEF IInv
<1>19. CASE PowerOn
  <2> USE <1>19 DEF PowerOn, persistent, control, mainMenu, cursor, Goto, Assert, Return, CallLoadKernel, ReadKey, ResetCursor
  <2>1. TypeOK'
    BY BoundsAssumption DEF IInv, TypeOK, PCs, MenuNames, Events, Located, NoOverride
  <2>2. (Located /\ Configured /\ Loading)'
    BY DEF IInv, TypeOK, Located, Configured, Loading
  <2>3. (TimerOwnership /\ AssertExplained)'
    BY DEF IInv, TypeOK, Located, Loading, TimerOwnership, AssertExplained
  <2>4. (CountdownOnlyUnattended /\ DefaultEntryCurrent)'
    BY DEF IInv, TypeOK, Located, Configured, TimerOwnership, CountdownOnlyUnattended, DefaultEntryCurrent,
           GetBootEntryAt
  <2>5. (CursorDrawn /\ SelectedRowBoots)'
    BY DEF IInv, TypeOK, Located, CursorDrawn, SelectedRowBoots
  <2>10. Started'
    BY DEF IInv, Located, Loading, Started
  <2>11. SavedConfigUsable'
    BY DEF IInv, SavedConfigUsable
  <2>12. Counting'
    BY DEF IInv, TypeOK, TimerOwnership, DefaultEntryCurrent, Loading, Located, Counting
  <2> QED BY <2>1, <2>2, <2>3, <2>4, <2>5, <2>10, <2>11, <2>12 DEF IInv
<1>20. CASE UNCHANGED vars
  BY <1>20 DEF vars, persistent, control, mainMenu, cursor, Goto, Assert, Return, CallLoadKernel, ReadKey, ResetCursor, IInv, TypeOK, Located, Configured, Loading, TimerOwnership, CountdownOnlyUnattended, DefaultEntryCurrent,  CursorDrawn, SelectedRowBoots, AssertExplained, Started, Counting, SavedConfigUsable, GetBootEntryAt
<1> QED BY <1>1, <1>2, <1>3, <1>4, <1>5, <1>6, <1>7, <1>8, <1>9, <1>10, <1>11, <1>12, <1>13, <1>14, <1>15, <1>16, <1>17, <1>18, <1>19, <1>20 DEF Next, Program

-----------------------------------------------------------------------------
\* In every reachable state the inductive invariant holds.
THEOREM Invariance == Spec => []IInv
  BY InitIInv, StepIInv, PTL DEF Spec

\* Every variable keeps its type, through any number of power cycles: no cursor below
\* zero, no negative entry, no configuration with a field that is not a number.
THEOREM TypeCorrect == Spec => []TypeOK
<1>1. IInv => TypeOK
  BY DEF IInv
<1> QED BY <1>1, Invariance, PTL

\* EnterMainMenu closes its timer event on every way out: no event is left live
\* behind another menu or a kernel, and none is waited for after it was closed
\* except when an unattended boot failed.
THEOREM TimerOwned == Spec => []TimerOwnership
<1>1. IInv => TimerOwnership
  BY DEF IInv
<1> QED BY <1>1, Invariance, PTL

\* A countdown runs only on the first visit of the main menu, before any key, with
\* entries to boot, and gDefaultEntry is then the one the saved configuration names.
THEOREM CountdownUnattended == Spec => []CountdownOnlyUnattended
<1>1. IInv => CountdownOnlyUnattended
  BY DEF IInv
<1> QED BY <1>1, Invariance, PTL

\* EnterBootMenu hands LoadKernel the entry of the selected row, which exists.
THEOREM RowBoots == Spec => []SelectedRowBoots
<1>1. IInv => SelectedRowBoots
  BY DEF IInv
<1> QED BY <1>1, Invariance, PTL

\* The four reasons for which an ASSERT of EfiMain or a menu stops the program.
THEOREM AssertsExplained == Spec => []AssertExplained
<1>1. IInv => AssertExplained
  BY DEF IInv
<1> QED BY <1>1, Invariance, PTL

\* Whatever is typed in SETUP, over any number of visits, files and displays, the
\* variable holds a delay SETUP offers, a default OS some file has or none needs, and
\* a mode that is supported by one of the displays.
THEOREM SavedUsable == Spec => []SavedConfigUsable
<1>1. IInv => SavedConfigUsable
  BY DEF IInv
<1> QED BY <1>1, Invariance, PTL

\* A delay whose product with the second fits an INT32 is counted exactly.
LEMMA CountersExact ==
    ASSUME NEW delay \in Nat, 2 * delay * Second < Int32Modulus
    PROVE  InitialTimeoutCounters(delay) = {(delay * Second) \div TIMER_INTERVAL}
<1> DEFINE x == delay * Second
<1>1. x \in Nat /\ 2 * x < Int32Modulus /\ x < Int32Modulus
  BY WidthAssumption
<1> HIDE DEF x
<1>2. x % Int32Modulus = x /\ x % UintnModulus = x
  BY <1>1, WidthAssumption
<1>3. Int32(x) = x /\ Uintn(x) = x
  BY <1>1, <1>2 DEF Int32, Uintn
<1> QED BY <1>3 DEF InitialTimeoutCounters, x

\* An unattended boot happens after exactly the timer periods of the effective delay,
\* and at least one, unless a configuration file has a TIMEOUT so large that its
\* product with the second overflows; a saved delay never does.
THEOREM CountdownExact ==
    ASSUME \A f \in Files : f.timeout # Absent => 2 * f.timeout * Second < Int32Modulus
    PROVE  Spec => []CountdownTakesDelay
<1> DEFINE delay == EffectiveDelay(override, nv)
<1>1. IInv => CountdownTakesDelay
  <2> SUFFICES ASSUME IInv, pc = "LoadKernel", menu = "MENU_MAIN_MENU"
               PROVE  ticks = Periods(delay)
    BY DEF CountdownTakesDelay
  <2>1. /\ nv \in Configs /\ nv.BootDelay \in 0 .. MaxDelay /\ file \in Files
        /\ override = OverridesOf(file.timeout, file.defaultEntry)
    BY NoConfigAssumption DEF IInv, TypeOK, Configured, Started, SavedConfigUsable, Usable
  <2>2. PICK c \in InitialTimeoutCounters(delay) : ticks = AtLeastOne(c)
    BY DEF IInv, Counting
  <2>3. delay \in Nat /\ 2 * delay * Second < Int32Modulus
    <3>1. CASE file.timeout # Absent
      <4> DEFINE t == file.timeout
      <4>1. t \in Nat /\ 2 * t * Second < Int32Modulus
        BY <2>1, <3>1, FilesAssumption
      <4> HIDE DEF t
      <4>2. 2 * t <= 2 * t * Second
        BY <4>1, WidthAssumption
      <4>3. 2 * t < Int32Modulus
        BY <4>1, <4>2, WidthAssumption
      <4>4. t % Int32Modulus = t
        BY <4>1, <4>3, WidthAssumption
      <4>5. override.BootDelay = t
        BY <2>1, <3>1, <4>3, <4>4 DEF OverridesOf, Int32, t
      <4> QED BY <4>1, <4>5 DEF EffectiveDelay
    <3>2. CASE file.timeout = Absent
      <4>1. delay = nv.BootDelay
        BY <2>1, <3>2 DEF OverridesOf, NoOverride, EffectiveDelay
      <4> DEFINE b == nv.BootDelay
      <4>2. b \in Nat /\ b <= MaxDelay /\ MaxDelay \in Nat
        BY <2>1, DelayAssumption
      <4> HIDE DEF b
      <4>3. b * Second <= MaxDelay * Second
        BY <4>2, WidthAssumption
      <4>4. 2 * b * Second < Int32Modulus
        BY <4>2, <4>3, WidthAssumption
      <4> QED BY <4>1, <4>2, <4>4 DEF b
    <3> QED BY <3>1, <3>2
  <2>4. c = (delay * Second) \div TIMER_INTERVAL
    BY <2>2, <2>3, CountersExact
  <2> QED BY <2>2, <2>4 DEF Periods
<1> QED BY <1>1, Invariance, PTL

-----------------------------------------------------------------------------
(* The menus implement AutoBoot.                                           *)

\* The phase of AutoBoot at each program point of a reachable state.
PhaseByPC ==
    /\ pc = "off" => Phase = "off"
    /\ pc = "EfiMain" \/ (pc = "StartMenus" /\ first) => Phase = "starting"
    /\ pc \in {"BootMenu", "Setup"} \/ (pc = "StartMenus" /\ ~first) => Phase = "attended"
    /\ pc = "MainTick" => Phase = "countdown"
    /\ pc \in {"MainWait", "MainKey"} =>
            Phase = IF event \in {"armed", "signaled"} THEN "countdown"
                    ELSE IF entry # NoCall THEN "stopped" ELSE "attended"
    /\ pc = "LoadKernel" => Phase = "loading"
    /\ pc = "booted" => Phase = "running"
    /\ pc \in {"hung", "asserted"} => Phase = "stopped"

LEMMA PhaseKnown == IInv => PhaseByPC
<1> SUFFICES ASSUME IInv PROVE PhaseByPC
  OBVIOUS
<1>1. /\ pc \notin {"MainWait", "MainKey", "MainTick"} => event \notin {"armed", "signaled"}
      /\ pc \in {"MainWait", "MainKey"} =>
            menu = "MENU_MAIN_MENU" /\ (entry # NoCall => event \notin {"armed", "signaled"})
  BY DEF IInv, TimerOwnership, Located, Loading, InMainMenu, Live
<1>2. pc = "off" => Phase = "off"
  BY <1>1, Zenon DEF Phase
<1>3. pc = "EfiMain" => Phase = "starting"
  BY <1>1, Zenon DEF Phase
<1>4. pc = "StartMenus" => Phase = IF first THEN "starting" ELSE "attended"
  BY <1>1, Zenon DEF Phase
<1>5. pc = "BootMenu" => Phase = "attended"
  BY <1>1, Zenon DEF Phase
<1>6. pc = "Setup" => Phase = "attended"
  BY <1>1, Zenon DEF Phase
<1>7. pc = "MainTick" => Phase = "countdown"
  BY <1>1, Zenon DEF Phase
<1>8. pc = "LoadKernel" => Phase = "loading"
  BY <1>1, Zenon DEF Phase
<1>9. pc = "booted" => Phase = "running"
  BY <1>1, Zenon DEF Phase
<1>10. pc = "hung" \/ pc = "asserted" => Phase = "stopped"
  BY <1>1, Zenon DEF Phase
<1>11. pc \in {"MainWait", "MainKey"} =>
            Phase = IF event \in {"armed", "signaled"} THEN "countdown"
                    ELSE IF entry # NoCall THEN "stopped" ELSE "attended"
  <2>1. CASE event \in {"armed", "signaled"}
    BY <1>1, <2>1, Zenon DEF Phase, AutobootTried
  <2>2. CASE event \notin {"armed", "signaled"} /\ entry # NoCall
    BY <1>1, <2>2, Zenon DEF Phase, AutobootTried
  <2>3. CASE event \notin {"armed", "signaled"} /\ entry = NoCall
    BY <1>1, <2>3, Zenon DEF Phase, AutobootTried
  <2> QED BY <2>1, <2>2, <2>3
<1> QED BY <1>2, <1>3, <1>4, <1>5, <1>6, <1>7, <1>8, <1>9, <1>10, <1>11 DEF PhaseByPC

\* What one step of the menus is in AutoBoot, action by action.
LEMMA StepImplements == IInv /\ IInv' /\ [Next]_vars => [AB!Next]_(AB!vars)
<1> SUFFICES ASSUME IInv, IInv', [Next]_vars PROVE [AB!Next]_(AB!vars)
  OBVIOUS
<1>0. PhaseByPC /\ PhaseByPC'
  <2>1. IInv => PhaseByPC
    BY PhaseKnown
  <2>2. IInv' => PhaseByPC'
    BY PhaseKnown, PTL
  <2> QED BY <2>1, <2>2
<1> USE DEF persistent, control, mainMenu, cursor, Goto, Assert, Return, CallLoadKernel, ReadKey, ResetCursor
\* The default configuration is saved, and power-up goes on or stops.
<1>1. CASE EfiMain
  <2>1. Phase = "starting" /\ Phase' \in {"starting", "stopped"} /\ UNCHANGED <<file, LoadedEntry>>
    <3>1. pc = "EfiMain" /\ first /\ ((pc' = "StartMenus" /\ first') \/ pc' \in {"hung", "asserted"})
      BY <1>1 DEF EfiMain, IInv, Started
    <3>2. UNCHANGED <<file, entry>>
      BY <1>1 DEF EfiMain
    <3> QED BY <1>0, <3>1, <3>2 DEF PhaseByPC, LoadedEntry
  <2>2. CASE nv' = nv
    <3>1. CASE Phase' = "starting"
      BY <2>1, <2>2, <3>1 DEF AB!vars
    <3>2. CASE Phase' = "stopped"
      BY <2>1, <2>2, <3>2 DEF AB!Offer, AB!Next
    <3> QED BY <2>1, <3>1, <3>2
  <2>3. CASE nv' # nv
    <3>1. nv = NoConfig /\ nv' \in Configs
      BY <1>1, <2>3, LoadBootConfigType DEF EfiMain, LoadBootConfig, IInv, TypeOK
    <3> QED BY <2>1, <3>1 DEF AB!Configure, AB!Next
  <2> QED BY <2>2, <2>3
\* The end of an attended session.
<1>2. CASE Shutdown
  <2>1. pc = "StartMenus" /\ ~first /\ pc' = "off" /\ UNCHANGED <<nv, file, entry>>
    BY <1>2 DEF Shutdown, IInv, Started, TypeOK
  <2>2. Phase = "attended" /\ Phase' = "off" /\ UNCHANGED <<nv, file, LoadedEntry>>
    BY <1>0, <2>1 DEF PhaseByPC, LoadedEntry
  <2> QED BY <2>2 DEF AB!Leave, AB!Next
\* The end of a load.
<1>3. CASE LoadKernel
  <2>1. Phase = "loading" /\ UNCHANGED <<nv, file, LoadedEntry>>
    BY <1>0, <1>3 DEF LoadKernel, PhaseByPC, LoadedEntry
  <2>2. CASE entry # NULL /\ Goto("booted")
    <3>1. Phase' = "running" /\ LoadedEntry # NULL
      BY <1>0, <1>3, <2>2 DEF LoadKernel, IInv, Loading, PhaseByPC, LoadedEntry
    <3> QED BY <2>1, <3>1 DEF AB!Load, AB!Next
  <2>3. CASE Goto(IF menu = "MENU_MAIN_MENU" THEN "MainWait" ELSE "hung")
    <3>1. entry' # NoCall /\ ((pc' = "MainWait" /\ event' = "closed") \/ pc' = "hung")
      BY <1>3, <2>3 DEF LoadKernel, IInv, Loading
    <3>2. Phase' = "stopped"
      BY <1>0, <3>1 DEF PhaseByPC
    <3> QED BY <2>1, <3>2 DEF AB!Load, AB!Next
  <2> QED BY <1>3, <2>2, <2>3 DEF LoadKernel
\* The first visit offers the countdown; a later one changes nothing.
<1>4. CASE EnterMainMenu
  <2>1. UNCHANGED <<nv, file, entry, first>> /\ entry = NoCall /\ pc = "StartMenus"
    BY <1>4, NoConfigAssumption DEF EnterMainMenu, LoadBootConfig, IInv, Configured, Loading
  <2>2. \/ pc' = "MainWait" /\ event' = IF TimerSet THEN "armed" ELSE "idle"
        \/ pc' = "asserted"
    BY <1>4 DEF EnterMainMenu
  <2>3. UNCHANGED LoadedEntry
    BY <2>1 DEF LoadedEntry
  <2>4. CASE first
    <3>1. Phase = "starting" /\ Phase' \in {"countdown", "attended", "stopped"}
      BY <1>0, <2>1, <2>2, <2>4 DEF PhaseByPC
    <3> QED BY <2>1, <2>3, <3>1 DEF AB!Offer, AB!Next
  <2>5. CASE ~first
    <3>1. Phase = "attended" /\ Phase' \in {"attended", "stopped"}
      BY <1>0, <2>1, <2>2, <2>5 DEF PhaseByPC, TimerSet
    <3>2. CASE Phase' = "attended"
      BY <2>1, <2>3, <3>1, <3>2 DEF AB!vars
    <3>3. CASE Phase' = "stopped"
      BY <2>1, <2>3, <3>1, <3>3 DEF AB!Leave, AB!Next
    <3> QED BY <3>1, <3>2, <3>3
  <2> QED BY <2>4, <2>5
<1>5. CASE WaitReturnsKey
  <2>1. Phase' = Phase /\ UNCHANGED <<nv, file, LoadedEntry>>
    BY <1>0, <1>5 DEF WaitReturnsKey, PhaseByPC, LoadedEntry
  <2> QED BY <2>1 DEF AB!vars
<1>6. CASE WaitReturnsTimer
  <2>1. Phase' = Phase /\ UNCHANGED <<nv, file, LoadedEntry>>
    BY <1>0, <1>6 DEF WaitReturnsTimer, PhaseByPC, LoadedEntry
  <2> QED BY <2>1 DEF AB!vars
\* The closed event is waited for only after an unattended boot failed.
<1>7. CASE WaitFails
  <2>1. entry # NoCall
    BY <1>7 DEF WaitFails, IInv, TimerOwnership, AutobootTried, Live
  <2>2. Phase' = Phase /\ UNCHANGED <<nv, file, LoadedEntry>>
    BY <1>0, <1>7, <2>1 DEF WaitFails, PhaseByPC, LoadedEntry
  <2> QED BY <2>2 DEF AB!vars
\* The first complete key takes the countdown over.
<1>8. CASE MainKey
  <2>1. pc = "MainKey" /\ UNCHANGED <<nv, file, entry>>
    BY <1>8 DEF MainKey
  <2>2. UNCHANGED LoadedEntry
    BY <2>1 DEF LoadedEntry
  <2>3. CASE pc' = "MainWait" /\ UNCHANGED event
    <3>1. Phase' = Phase
      BY <1>0, <2>1, <2>3 DEF PhaseByPC
    <3> QED BY <2>1, <2>2, <3>1 DEF AB!vars
  <2>4. CASE pc' = "asserted" /\ count = 2 /\ event \notin Live
    <3>1. entry # NoCall
      BY <2>1, <2>4 DEF IInv, TimerOwnership, AutobootTried
    <3>2. Phase' = Phase
      BY <1>0, <2>1, <2>4, <3>1 DEF PhaseByPC, Live
    <3> QED BY <2>1, <2>2, <3>2 DEF AB!vars
  <2>5. CASE ReleaseTimer /\ (count = 1 \/ event \in Live) /\ (pc' = "MainWait" \/ (pc' = "StartMenus" /\ ~first'))
    <3>1. entry = NoCall /\ event' \notin {"armed", "signaled"}
      BY <2>1, <2>5 DEF ReleaseTimer, IInv, TypeOK, Loading, InMainMenu, TimerOwnership, AutobootTried, Located, Live
    <3>2. Phase' = "attended"
      BY <1>0, <2>1, <2>5, <3>1 DEF PhaseByPC
    <3>3. Phase \in {"countdown", "attended"}
      BY <1>0, <2>1, <3>1 DEF PhaseByPC
    <3>4. CASE Phase = "countdown"
      BY <2>1, <2>2, <3>2, <3>4 DEF AB!TakeOver, AB!Next
    <3>5. CASE Phase = "attended"
      BY <2>1, <2>2, <3>2, <3>5 DEF AB!vars
    <3> QED BY <3>3, <3>4, <3>5
  <2>6. CASE Head(keys) = "partial"
    BY <1>8, <2>3, <2>6 DEF MainKey
  <2>7. CASE Head(keys) # "partial" /\ count = 2 /\ event \notin Live
    BY <1>8, <2>4, <2>7 DEF MainKey
  <2>8. CASE Head(keys) # "partial" /\ (count = 1 \/ event \in Live)
    <3>1. ReleaseTimer /\ (Goto("MainWait") \/ Return(MenuOfKey(Head(keys))))
      BY <1>8, <2>8 DEF MainKey
    <3>2. pc' = "MainWait" \/ (pc' = "StartMenus" /\ ~first')
      BY <3>1
    <3> QED BY <2>5, <2>8, <3>1, <3>2, Zenon
  <2>9. count \in {1, 2}
    BY DEF IInv, TypeOK
  <2> QED BY <2>6, <2>7, <2>8, <2>9
\* The last period of the countdown loads the default target; the others change nothing.
<1>9. CASE MainTick
  <2>1. pc = "MainTick" /\ UNCHANGED <<nv, file>> /\ entry = NoCall
    BY <1>9 DEF MainTick, IInv, Loading
  <2>2. Phase = "countdown"
    BY <1>0, <2>1 DEF PhaseByPC
  <2>3. CASE CallLoadKernel(AutobootEntry)
    <3>1. AutobootEntry = DefaultTarget(file, nv)
      BY <2>1 DEF IInv, Started, InMainMenu, DefaultEntryCurrent, AutobootEntry, DefaultTarget, GetBootEntryAt
    <3>2. AutobootEntry \in Nat \cup {NULL}
      BY GetBootEntryAtType DEF IInv, TypeOK, AutobootEntry
    <3>3. Phase' = "loading" /\ LoadedEntry' = DefaultTarget(file, nv)
      BY <1>0, <2>3, <3>1, <3>2 DEF PhaseByPC, LoadedEntry, NULL, NoCall
    <3> QED BY <2>1, <2>2, <3>3 DEF AB!Unattended, AB!Next
  <2>4. CASE RestartTimer /\ Goto("MainWait")
    <3>1. Phase' = "countdown" /\ UNCHANGED LoadedEntry
      BY <1>0, <2>4 DEF PhaseByPC, RestartTimer, LoadedEntry
    <3> QED BY <2>1, <2>2, <3>1 DEF AB!vars
  <2> QED BY <1>9, <2>3, <2>4 DEF MainTick
<1>10. CASE EnterBootMenu
  <2>1. ~first
    BY <1>10 DEF EnterBootMenu, IInv, Started, TypeOK
  <2>2. Phase' = Phase /\ UNCHANGED <<nv, file, LoadedEntry>>
    BY <1>0, <1>10, <2>1 DEF EnterBootMenu, PhaseByPC, LoadedEntry
  <2> QED BY <2>2 DEF AB!vars
<1>11. CASE BootMenuMove
  <2>1. Phase' = Phase /\ UNCHANGED <<nv, file, LoadedEntry>>
    BY <1>0, <1>11 DEF BootMenuMove, PhaseByPC, LoadedEntry
  <2> QED BY <2>1 DEF AB!vars
\* The selected row is an entry, which is loaded, or leads back to StartMenus.
<1>12. CASE BootMenuEnter
  <2>1. pc = "BootMenu" /\ UNCHANGED <<nv, file>> /\ Phase = "attended"
    BY <1>0, <1>12 DEF BootMenuEnter, PhaseByPC
  <2>2. CASE Return("MENU_SHUTDOWN")
    <3>1. Phase' = "attended" /\ UNCHANGED LoadedEntry
      BY <1>0, <2>2 DEF PhaseByPC, LoadedEntry
    <3> QED BY <2>1, <3>1 DEF AB!vars
  <2>3. CASE ~IsShutdownRow(selected) /\ CallLoadKernel(selectedEntry)
    <3>1. selected \in Nat /\ file.entries \in Nat /\ selected < file.entries
      BY <2>3, FilesAssumption DEF IsShutdownRow, IInv, TypeOK
    <3>2. selectedEntry \in Nat
      BY <2>1, <3>1 DEF IInv, CursorDrawn
    <3>3. Phase' = "loading" /\ LoadedEntry' \in (Nat \cup {NULL}) \ {NULL}
      BY <1>0, <2>3, <3>2 DEF PhaseByPC, LoadedEntry, NULL, NoCall
    <3> QED BY <2>1, <3>3 DEF AB!Choose, AB!Next
  <2> QED BY <1>12, <2>2, <2>3 DEF BootMenuEnter
<1>13. CASE EnterSetupMenu
  <2>1. pc = "StartMenus" /\ ~first /\ UNCHANGED <<nv, file, entry>> /\ pc' \in {"Setup", "asserted"}
    BY <1>13, NoConfigAssumption DEF EnterSetupMenu, LoadBootConfig, IInv, TypeOK, Configured, Started
  <2>2. Phase = "attended" /\ Phase' \in {"attended", "stopped"} /\ UNCHANGED LoadedEntry
    BY <1>0, <2>1 DEF PhaseByPC, LoadedEntry
  <2>3. CASE Phase' = "attended"
    BY <2>1, <2>2, <2>3 DEF AB!vars
  <2>4. CASE Phase' = "stopped"
    BY <2>1, <2>2, <2>4 DEF AB!Leave, AB!Next
  <2> QED BY <2>2, <2>3, <2>4
<1>14. CASE SetupEdit
  <2>1. Phase' = Phase /\ UNCHANGED <<nv, file, LoadedEntry>>
    BY <1>0, <1>14 DEF SetupEdit, PhaseByPC, LoadedEntry
  <2> QED BY <2>1 DEF AB!vars
\* The only step that changes a saved configuration.
<1>15. CASE SetupSave
  <2>1. nv' \in Configs /\ UNCHANGED <<file, LoadedEntry>>
    BY <1>15 DEF SetupSave, IInv, Configured, LoadedEntry
  <2>2. Phase = "attended" /\ Phase' = "attended"
    BY <1>0, <1>15 DEF SetupSave, PhaseByPC
  <2> QED BY <2>1, <2>2 DEF AB!Save, AB!Next
<1>16. CASE SetupQuit
  <2>1. Phase' = Phase /\ UNCHANGED <<nv, file, LoadedEntry>>
    BY <1>0, <1>16 DEF SetupQuit, PhaseByPC, LoadedEntry
  <2> QED BY <2>1 DEF AB!vars
<1>17. CASE TimerFires
  <2>1. Phase' = Phase
    <3>1. pc \in {"MainWait", "MainKey"} /\ UNCHANGED pc /\ event = "armed" /\ event' = "signaled"
      BY <1>17 DEF TimerFires, IInv, TimerOwnership, DefaultEntryCurrent, Live
    <3> QED BY <1>0, <3>1 DEF PhaseByPC
  <2>2. UNCHANGED <<nv, file, LoadedEntry>>
    BY <1>17 DEF TimerFires, LoadedEntry
  <2> QED BY <2>1, <2>2 DEF AB!vars
<1>18. CASE PressKey
  BY <1>18 DEF PressKey, Phase, AutobootTried, LoadedEntry, AB!vars
<1>19. CASE PowerOn
  <2>1. Phase' = "starting" /\ LoadedEntry' = NULL /\ file' \in Files /\ nv' = nv
    BY <1>0, <1>19 DEF PowerOn, PhaseByPC, LoadedEntry
  <2> QED BY <2>1 DEF AB!PowerOn, AB!Next
<1>20. CASE UNCHANGED vars
  BY <1>20 DEF vars, Phase, AutobootTried, LoadedEntry, AB!vars
<1> QED BY <1>1, <1>2, <1>3, <1>4, <1>5, <1>6, <1>7, <1>8, <1>9, <1>10, <1>11, <1>12, <1>13, <1>14, <1>15, <1>16, <1>17, <1>18, <1>19, <1>20 DEF Next, Program

\* The menus implement AutoBoot: a boot is unattended and of the default target, or
\* attended and of what somebody chose; a configuration is saved only while attended.
THEOREM Implementation == Spec => ImplementsAutoBoot
<1>1. Init => AB!Init
  BY DEF Init, AB!Init, Phase, LoadedEntry
<1>2. IInv /\ IInv' /\ [Next]_vars => [AB!Next]_(AB!vars)
  BY StepImplements
<1> QED BY <1>1, <1>2, Invariance, PTL DEF Spec, ImplementsAutoBoot, AB!Spec

=============================================================================
