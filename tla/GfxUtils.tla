------------------------------ MODULE GfxUtils ------------------------------
(***************************************************************************)
(* The graphics-mode helpers of util/GfxUtils.c, as operators on the mode  *)
(* table of the Graphics Output Protocol: the sequence of its modes, mode  *)
(* number m being element m + 1.  bgr says whether a mode has the BGRA8    *)
(* pixel format, the only one TomatBoot supports.                          *)
(***************************************************************************)
EXTENDS Integers, Sequences

ModeTables == Seq([bgr : BOOLEAN]) \ {<<>>}

\* Tables that tell the resolutions too.
SizedModeTables == Seq([bgr : BOOLEAN, width : Nat \ {0}, height : Nat \ {0}]) \ {<<>>}

\* gop->QueryMode succeeds for the mode numbers of the table and fails for others.
Queryable(modes, m) == m \in 0 .. Len(modes) - 1

Supported(modes, m) == Queryable(modes, m) /\ modes[m + 1].bgr

\* The mode the loop of GetModeCommon looks at in its k-th iteration, from a
\* start that is a mode of the table or -1.
Visited(modes, start, dir, k) == (start + dir * k) % Len(modes)

\* The loop stops at the first supported mode, or when it is back at the start.
Stops(modes, start, dir, k) ==
    \/ Visited(modes, start, dir, k) = start
    \/ Supported(modes, Visited(modes, start, dir, k))

\* A start outside the table is never met again: with no supported mode the
\* loop spins for ever, since looped_once is only set on the way out.
GetModeReturns(modes, start) ==
    Queryable(modes, start) \/ \E m \in 0 .. Len(modes) - 1 : Supported(modes, m)

GetModeCommon(modes, start, dir) ==
    Visited(modes, start, dir,
            CHOOSE k \in 1 .. Len(modes) :
                /\ Stops(modes, start, dir, k)
                /\ \A j \in 1 .. k - 1 : ~Stops(modes, start, dir, j))

GetNextGfxMode(modes, m) == GetModeCommon(modes, m, 1)
GetPrevGfxMode(modes, m) == GetModeCommon(modes, m, -1)
GetFirstGfxMode(modes) == GetNextGfxMode(modes, -1)

-----------------------------------------------------------------------------
(* GetBestGfxMode                                                          *)

NoMode == -1

IsSize(mode, width, height) == mode.width = width /\ mode.height = height

PassedOverIfTooLarge(mode, width, height, best) == mode.width > width /\ mode.height > height
\* Larger in both dimensions than what is wanted, or smaller in both than the last
\* good option.
PassedOver(mode, width, height, best) ==
    \/ mode.width > width /\ mode.height > height
    \/ mode.width < best.width /\ mode.height < best.height

\* The variables of the loop, goodOption, BestWidth and BestHeight, and whether it has
\* returned; what the n-th mode makes of them.
NoOption == [mode |-> NoMode, width |-> 0, height |-> 0, exact |-> FALSE]
NextOption(mode, n, width, height, best) ==
    IF best.exact \/ ~mode.bgr THEN best
    ELSE IF IsSize(mode, width, height) THEN [best EXCEPT !.mode = n - 1, !.exact = TRUE]
    ELSE IF PassedOver(mode, width, height, best) THEN best
    ELSE [mode |-> n - 1, width |-> mode.width, height |-> mode.height, exact |-> FALSE]

GoodOption(modes, width, height) ==
    LET option[n \in 0 .. Len(modes)] ==
            IF n = 0 THEN NoOption ELSE NextOption(modes[n], n, width, height, option[n - 1])
    IN  option[Len(modes)].mode

\* goodOption is uninitialised if no mode became one: it may be any number.
GetBestGfxMode(modes, width, height) ==
    LET good == GoodOption(modes, width, height)
    IN  IF good = NoMode THEN -1 .. Len(modes) ELSE {good}
=============================================================================
