----------------------------- MODULE MCStivale ------------------------------
(***************************************************************************)
(* Small instances of Stivale for TLC.                                     *)
(***************************************************************************)
EXTENDS StivaleClaims, TLC

Mode(bgr, width, height) == [bgr |-> bgr, width |-> width, height |-> height]

\* The sizes 1 to 4 stand for the common ones; modes in rising and in falling order
\* with an unsupported one between them, modes that are wide or high, and a display
\* that has none small enough for every kernel.
ModeTablesOfSizes ==
    {<<Mode(TRUE, 1, 1), Mode(FALSE, 3, 3), Mode(TRUE, 2, 2), Mode(TRUE, 4, 4)>>,
     <<Mode(TRUE, 4, 4), Mode(TRUE, 2, 2), Mode(TRUE, 1, 1)>>,
     <<Mode(TRUE, 1, 4), Mode(TRUE, 3, 2), Mode(TRUE, 2, 3)>>,
     <<Mode(TRUE, 3, 3), Mode(TRUE, 4, 4)>>}

MCMachines ==
    {[modes |-> modes, pml5 |-> pml5, acpi20 |-> acpi[1], acpi10 |-> acpi[2]] :
        modes \in ModeTablesOfSizes, pml5 \in BOOLEAN, acpi \in {<<TRUE, TRUE>>, <<FALSE, TRUE>>, <<FALSE, FALSE>>}}

\* The mode of the configuration may be that of a display with more modes.
MCConfigs == {[gfxMode |-> 1, overrideGfx |-> FALSE], [gfxMode |-> 3, overrideGfx |-> TRUE]}

HeaderTagOf(ident, size) == [ident |-> ident, width |-> size, height |-> size]

\* Addresses of kernels: linked low; linked high in the first and the second gigabyte,
\* with physical addresses or without, entered at the first byte or a later one, or
\* through an entry of the header that is not the one of the file.
Linked1(vaddr, paddr, entry, entryPoint, stack) ==
    [vaddr |-> vaddr, paddr |-> paddr, entry |-> entry, entryPoint |-> entryPoint, stack |-> stack]
High(gb, off) == At(511, 510 + gb, off)
Low(gb, off) == At(0, gb, off)
Linkings ==
    {Linked1(Low(1, 0), Low(1, 0), Low(1, 1), Null, Low(1, 1)),
     Linked1(High(0, 0), Low(0, 0), High(0, 0), Null, High(0, 1)),
     Linked1(High(0, 0), High(0, 0), High(0, 0), Null, High(0, 1)),
     Linked1(High(1, 0), High(1, 0), High(1, 1), Null, At(256, 1, 1)),
     Linked1(High(1, 0), Low(1, 0), Low(1, 1), High(1, 1), High(1, 1)),
     Linked1(High(0, 0), Low(0, 0), High(0, 1), Low(0, 1), Low(0, 1))}

Plain(version) ==
    [version |-> version, section |-> TRUE, graphics |-> version = 1, pml5 |-> FALSE, width |-> 0,
     height |-> 0, tags |-> <<>>, modules |-> 0]

Wishing1 == [Plain(1) EXCEPT !.pml5 = TRUE, !.width = 3, !.height = 3, !.modules = 2]
Wishing2 ==
    [Plain(2) EXCEPT !.modules = 2,
        !.tags = <<HeaderTagOf("FRAMEBUFFER", 2), HeaderTagOf("PML5", 0), HeaderTagOf("FRAMEBUFFER", 3)>>]
Exacting ==
    [Plain(2) EXCEPT !.tags = <<HeaderTagOf("SMP", 0), HeaderTagOf("FRAMEBUFFER", 2), HeaderTagOf("other", 0)>>]

MCKernels ==
    {l @@ k : l \in Linkings, k \in {Wishing1, Wishing2}}
    \cup {(CHOOSE l \in Linkings : TRUE) @@ k :
            k \in {Plain(1), Plain(2), Exacting, [Plain(2) EXCEPT !.section = FALSE],
                   [Plain(1) EXCEPT !.graphics = FALSE]}}

Date(year, month, day) == [year |-> year, month |-> month, day |-> day, second |-> 86399]

\* Days around the ends of months, in leap years, and in years whose low byte is one.
MCDates == {Date(2020, 12, 26), Date(2024, 2, 29), Date(2024, 3, 1), Date(2148, 1, 31), Date(2400, 3, 1)}
=============================================================================
