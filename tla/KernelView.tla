----------------------------- MODULE KernelView -----------------------------
(***************************************************************************)
(* What a boot loader promises about memory, without map keys, buffers or  *)
(* loops: it may give up at any time, and if it enters the kernel, it does *)
(* so in one step that tells it of every page, with a meaning of the type  *)
(* the page has at that very moment.                                       *)
(***************************************************************************)
CONSTANTS Pages, Memories, Loaders, Told(_, _)

VARIABLES memory, loader, phase, view

vars == <<memory, loader, phase, view>>

NoView == [p \in {} |-> p]

Init ==
    /\ memory \in Memories /\ loader \in Loaders
    /\ phase = "loading" /\ view = NoView

\* The loader and the firmware use memory.
UseMemory ==
    /\ phase = "loading" /\ memory' \in Memories
    /\ UNCHANGED <<loader, phase, view>>

EnterKernel ==
    /\ phase = "loading" /\ phase' = "kernel"
    /\ DOMAIN view' = Pages
    /\ \A p \in Pages : view'[p] \in Told(loader, memory[p])
    /\ UNCHANGED <<memory, loader>>

GiveUp ==
    /\ phase = "loading" /\ phase' = "returned"
    /\ memory' \in Memories
    /\ UNCHANGED <<loader, view>>

Next == UseMemory \/ EnterKernel \/ GiveUp

Spec == Init /\ [][Next]_vars
=============================================================================
