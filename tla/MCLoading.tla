----------------------------- MODULE MCLoading ------------------------------
(***************************************************************************)
(* Small instances of Loading for TLC.                                     *)
(***************************************************************************)
EXTENDS LoadingClaims

Linux(size, setup, initSize, modules) ==
    [protocol |-> "BOOT_LINUX", size |-> size, setup |-> setup, initSize |-> initSize, ramdiskMax |-> 5,
     segments |-> <<>>, modules |-> modules]
Elf(protocol, segments, modules) ==
    [protocol |-> protocol, size |-> 0, setup |-> 1, initSize |-> 0, ramdiskMax |-> 0,
     segments |-> segments, modules |-> modules]
Segment(base, count) == [base |-> base, count |-> count]

\* Linux files of four units and less, whose setup ends in the middle of a page: one that
\* wants more memory than its file, one with a module, one too old to say what it wants,
\* one that its setup fills and one shorter than its setup; kernels of one and two
\* segments, the second one above 4 GB; and no protocol.
MCEntries ==
    {Linux(4, 1, 4, <<>>), Linux(3, 1, 2, <<1>>), Linux(2, 1, NoInitSize, <<>>),
     Linux(1, 1, 1, <<>>), Linux(1, 2, 1, <<>>),
     Elf("BOOT_MB2", <<Segment(0, 1)>>, <<2>>),
     Elf("BOOT_STIVALE", <<Segment(1, 2), Segment(6, 1)>>, <<1>>),
     Elf("BOOT_STIVALE2", <<Segment(2, 1)>>, <<2, 1>>),
     Elf("BOOT_INVALID", <<>>, <<>>)}

MCFirmwarePages == {{}, {3}, {6}, {0, 7}}
MCOffsets == {0, 1}
=============================================================================
