--------------------------- MODULE MCBootEntries ----------------------------
(***************************************************************************)
(* Small instances of BootEntries for TLC.                                 *)
(***************************************************************************)
EXTENDS BootEntriesClaims

\* Two partitions of the boot drive, the second one TomatBoot's, one partition
\* without GPT of another drive, and that drive as a whole.
MCHandles ==
    << [drive |-> "usb", partition |-> "2", guid |-> ""],
       [drive |-> "disk", partition |-> "1", guid |-> "g1"],
       [drive |-> "disk", partition |-> "2", guid |-> "g2"],
       [drive |-> "usb", partition |-> "", guid |-> ""] >>
MCBootHandle == 3

Uri(resource, root) == [resource |-> resource, root |-> root]
Plain(key) == [key |-> key]
Path(uri) == [key |-> "PATH", uri |-> uri]
ModulePath(uri) == [key |-> "MODULE_PATH", uri |-> uri]
Protocol(p) == [key |-> "PROTOCOL", protocol |-> p]

ConfigPartition == Uri("boot", "")

\* Every kind of line.
AllLines ==
    {Plain(key) : key \in {"entry", "TIMEOUT", "DEFAULT_ENTRY", "CMDLINE", "MODULE_STRING",
                           "unreadable", "other"}}
    \cup {Path(uri) : uri \in {ConfigPartition, Uri("boot", "1"), Uri("guid", "g2"),
                               Uri("other", ""), Uri("malformed", "")}}
    \cup {ModulePath(uri) : uri \in {ConfigPartition, Uri("uuid", "g1"), Uri("boot", "3")}}
    \cup {Protocol(p) : p \in {"BOOT_LINUX", "BOOT_STIVALE2", "unknown"}}

\* What modules and strings need, for longer files.
ModuleLines ==
    {Plain("entry"), Plain("MODULE_STRING"), Protocol("BOOT_STIVALE2"), ModulePath(ConfigPartition)}

\* Every file of four lines, and longer ones of modules and strings.
MCInBounds(ls) ==
    \/ Len(ls) <= 4
    \/ Len(ls) <= 9 /\ \A i \in DOMAIN ls : ls[i] \in ModuleLines

\* What the claims need.
ClaimLines ==
    {Plain("entry"), Plain("TIMEOUT"), Path(ConfigPartition), Path(Uri("guid", "g1"))}
=============================================================================
