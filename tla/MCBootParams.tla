---------------------------- MODULE MCBootParams ----------------------------
(***************************************************************************)
(* Small instances of BootParams for TLC.                                  *)
(***************************************************************************)
EXTENDS BootParams

Requests(optional, requests) == HeaderTag("INFORMATION_REQUEST", optional, requests, 0)
Framebuffer(asked) == HeaderTag("FRAMEBUFFER", TRUE, {}, asked)
EntryAddress(address) == HeaderTag("ENTRY_ADDRESS", TRUE, {}, address)
Plain(type, optional) == HeaderTag(type, optional, {}, 0)

MCHeaders ==
    {<<>>,
     <<Requests(FALSE, {"MMAP", "ACPI_OLD"}), Framebuffer(2), EntryAddress(9)>>,
     <<Requests(FALSE, {"ACPI_NEW", "ACPI_OLD", "MODULE"}), Requests(TRUE, {"ACPI_NEW", "SMBIOS"})>>,
     <<Requests(TRUE, {"ACPI_OLD"}), Requests(FALSE, {"ACPI_OLD", "CMDLINE"})>>,
     <<Requests(FALSE, {"SMBIOS"})>>,
     <<Framebuffer(2), Framebuffer(0), EntryAddress(9), EntryAddress(0)>>,
     <<Framebuffer(0), Framebuffer(2), EntryAddress(0), EntryAddress(8)>>,
     <<Framebuffer(2), Framebuffer(Unfit)>>, <<Plain("ADDRESS", TRUE), EntryAddress(9)>>,
     <<Plain("CONSOLE_FLAGS", FALSE)>>, <<Plain("EFI_BS", TRUE), Plain("EFI_BS", FALSE)>>,
     <<Plain("MODULE_ALIGN", FALSE), Plain("RELOCATABLE", TRUE)>>, <<Plain("UNKNOWN", TRUE)>>}

\* Lengths around what fills eight bytes.
MCKernels ==
    [header : MCHeaders, entry : {7}, cmdline : {0, 7}, modules : {<<>>, <<6, 7>>},
     sections : {2}, sectionSize : {40}]
    \cup [header : {<<>>}, entry : {7}, cmdline : {6}, modules : {<<8>>},
          sections : {0, 1, 3}, sectionSize : {0, 64, 40}]

MCMachines ==
    {[old |-> TRUE, new |-> TRUE, descriptors |-> 2], [old |-> FALSE, new |-> TRUE, descriptors |-> 3],
     [old |-> TRUE, new |-> FALSE, descriptors |-> 1]}
MCConfigs == [GfxMode : {1, 3}, OverrideGfx : BOOLEAN]
MCModes == {1, 2, 3}
=============================================================================
