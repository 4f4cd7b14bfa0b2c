-------------------------- MODULE BootEntriesClaims -------------------------
(***************************************************************************)
(* What CONFIG.md says of the configuration file and the parser of         *)
(* BootEntries does not do.                                                *)
(***************************************************************************)
EXTENDS BootEntries

\* CONFIG.md: boot:///... is a path on the partition that contains the configuration
\* file.
BootUriOnConfigPartition ==
    pc = "parsed" =>
        \A k \in DOMAIN entries :
            entries[k].path # NoLine /\ Stays(lines[entries[k].path].uri) => entries[k].fs = BootHandle

\* CONFIG.md: global assignments can appear anywhere in the file.  One that is there
\* has an effect.
GlobalsAnywhere ==
    pc = "parsed" =>
        /\ AllLinesOf("TIMEOUT") # {} => override.BootDelay # NoLine
        /\ AllLinesOf("DEFAULT_ENTRY") # {} => override.DefaultOS # NoLine
=============================================================================
