------------------------------ MODULE AutoBoot ------------------------------
(***************************************************************************)
(* What the menus promise about what boots, with no menus, keys or timers. *)
(* After power on TomatBoot either counts down to an unattended boot of    *)
(* one entry, fixed from the saved configuration and the configuration     *)
(* file, or is attended.  Once attended it stays so until power is cut:    *)
(* only an entry somebody chose is loaded, and only then is the            *)
(* configuration changed.                                                  *)
(***************************************************************************)
EXTENDS Integers

CONSTANTS
    Entries,   \* what may be loaded, one of them standing for "no entry"
    None,      \* that one
    Configurations,
    Unset,       \* no configuration is saved yet
    Files,       \* the configuration files
    Target(_, _) \* what the unattended boot loads, of a file and a configuration

VARIABLES
    phase,   \* "off", "starting", "countdown", "attended", "loading", "running", "stopped"
    saved,   \* the saved configuration
    file,    \* the configuration file of this boot
    loading  \* what is loaded, None before

vars == <<phase, saved, file, loading>>

Init == file \in Files /\ phase = "off" /\ saved = Unset /\ loading = None

PowerOn ==
    /\ phase' = "starting" /\ loading' = None /\ file' \in Files
    /\ UNCHANGED saved

\* A machine without a configuration gets the default one.
Configure ==
    /\ phase = "starting" /\ saved = Unset
    /\ saved' \in Configurations
    /\ phase' \in {"starting", "stopped"}
    /\ UNCHANGED <<file, loading>>

Offer ==
    /\ phase = "starting"
    /\ phase' \in {"countdown", "attended", "stopped"}
    /\ UNCHANGED <<saved, file, loading>>

TakeOver == phase = "countdown" /\ phase' = "attended" /\ UNCHANGED <<saved, file, loading>>

Unattended ==
    /\ phase = "countdown" /\ phase' = "loading"
    /\ loading' = Target(file, saved)
    /\ UNCHANGED <<saved, file>>

Choose ==
    /\ phase = "attended" /\ phase' = "loading"
    /\ loading' \in Entries \ {None}
    /\ UNCHANGED <<saved, file>>

Save ==
    /\ phase = "attended" /\ saved' \in Configurations
    /\ UNCHANGED <<phase, file, loading>>

Leave ==
    /\ phase = "attended" /\ phase' \in {"off", "stopped"}
    /\ UNCHANGED <<saved, file, loading>>

\* A kernel runs only if there was something to load.
Load ==
    /\ phase = "loading"
    /\ phase' = "stopped" \/ (phase' = "running" /\ loading # None)
    /\ UNCHANGED <<saved, file, loading>>

Next == PowerOn \/ Configure \/ Offer \/ TakeOver \/ Unattended \/ Choose \/ Save \/ Leave \/ Load

Spec == Init /\ [][Next]_vars
=============================================================================
