------------------------------- MODULE MCMenus ------------------------------
(***************************************************************************)
(* Small instances of Menus for TLC.                                       *)
(***************************************************************************)
EXTENDS MenusClaims

ConfigFile(n, timeout, default) ==
    [entries |-> n, wellFormed |-> TRUE, timeout |-> timeout, defaultEntry |-> default]

Tables(list, tables) == [list |-> list, tables |-> tables]
Machine(bgr) ==
    [acpi |-> Tables("xsdt", <<"FACP", "APIC">>), modes |-> [i \in DOMAIN bgr |-> [bgr |-> bgr[i]]]]

\* Three modes, the middle one not supported.
DesktopMachine == Machine(<<TRUE, FALSE, TRUE>>)

MCLowestDefaultOS == -2

\* Hardware that differs from boot to boot: in its modes, in having any, and in its ACPI
\* tables.
MCMachines ==
    {DesktopMachine,
     [Machine(<<FALSE, TRUE>>) EXCEPT !.acpi = Tables("none", <<>>)],
     [Machine(<<FALSE>>) EXCEPT !.acpi = Tables("rsdt", <<"FACP">>)],
     [Machine(<<FALSE>>) EXCEPT !.acpi = Tables("xsdt", <<"APIC">>)]}

\* Files with no and two entries, without and with overrides, and a malformed one.
MCFiles ==
    {ConfigFile(0, Absent, Absent), ConfigFile(2, Absent, Absent), ConfigFile(2, 1, 1),
     [ConfigFile(1, Absent, Absent) EXCEPT !.wellFormed = FALSE]}

\* Two files on one machine are enough for the claim.
ClaimMachines == {DesktopMachine}
ClaimFiles == {ConfigFile(1, Absent, Absent), ConfigFile(2, 2, 1)}
=============================================================================
