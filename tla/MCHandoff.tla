----------------------------- MODULE MCHandoff ------------------------------
(***************************************************************************)
(* Small instances of Handoff for TLC.                                     *)
(***************************************************************************)
EXTENDS Handoff, BlockMaps

\* Two blocks of memory with a hole between them: at one end a page of a type that
\* some table does not list or that is no one's to take, at the other the kernel's
\* image.
MCPages == {0, 1, 2, 4, 5}
MCMemories ==
    {[p \in MCPages |-> CASE p = 0 -> t [] p = 5 -> "KernelAndModules" [] OTHER -> f[p]] :
        t \in {"ACPIReclaim", "Persistent", "Oem"},
        f \in [{1, 2, 4} -> {"Reserved", "BootServicesData", "Conventional"}]}
=============================================================================
