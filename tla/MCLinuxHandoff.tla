--------------------------- MODULE MCLinuxHandoff ---------------------------
(***************************************************************************)
(* Small instances of LinuxHandoff for TLC.                                *)
(***************************************************************************)
EXTENDS LinuxHandoff, BlockMaps

\* A block of four pages, and one behind a hole.  The rest of the kernel's file, which
\* the loader did not free, is anywhere.
MCPages == {0, 1, 2, 4}
MCMemories ==
    [MCPages -> {"ACPINVS", "KernelAndModules", "RuntimeServicesData", "LoaderData",
                 "BootServicesData", "Conventional"}]

\* A kernel that is refused, an old one, and one with the EFI handover.
Header(version, handover) ==
    [signed |-> TRUE, version |-> version, relocatable |-> TRUE, handover |-> handover, xload64 |-> handover]
MCHeaders == {Header(Version(2, 4), FALSE), Header(Version(2, 11), TRUE), Header(Version(2, 15), TRUE)}
=============================================================================
