----------------------------- MODULE BootConfig -----------------------------
(***************************************************************************)
(* The boot configuration of config/BootConfig.c and BootConfig.h: the     *)
(* record kept in a non-volatile UEFI variable, its defaults, the          *)
(* overrides a configuration file sets (config/BootEntries.c) and the      *)
(* number of timer periods a boot delay stands for (menus/MainMenu.c).     *)
(*                                                                         *)
(* The C integers keep their width.  The widths and the two time units are *)
(* parameters, so that TLC can be given small ones; INT32 is the signed    *)
(* type of Int32Modulus values and UINTN the unsigned one of UintnModulus. *)
(***************************************************************************)
EXTENDS Integers, GfxUtils

CONSTANTS
    DefaultDelay,   \* BootDelay of a fresh configuration: 4
    MaxDelay,       \* the largest BootDelay SETUP offers: 30
    Second,         \* 10000000, a second in units of 100ns
    TIMER_INTERVAL, \* 250000, the timer period in units of 100ns
    Int32Modulus,   \* 2^32
    UintnModulus,   \* 2^64
    NoConfig        \* the variable does not exist yet

ASSUME DelayAssumption ==
    /\ MaxDelay \in Nat
    /\ DefaultDelay \in 0 .. MaxDelay

ASSUME WidthAssumption ==
    /\ Second \in Nat \ {0} /\ TIMER_INTERVAL \in Nat \ {0}
    /\ Int32Modulus \in Nat \ {0} /\ UintnModulus \in Nat \ {0}
    /\ 2 * MaxDelay * Second < Int32Modulus
    /\ Int32Modulus % 2 = 0
    /\ Int32Modulus <= UintnModulus

Int32(x) == LET r == x % Int32Modulus
            IN  IF 2 * r < Int32Modulus THEN r ELSE r - Int32Modulus
Uintn(x) == x % UintnModulus

Configs == [BootDelay : Int, DefaultOS : Int, GfxMode : Int, OverrideGfx : BOOLEAN]

ASSUME NoConfigAssumption == NoConfig \notin Configs

\* What LoadBootConfig fills in, and saves, when the variable does not exist.
DefaultConfig(modes) ==
    [BootDelay |-> DefaultDelay, DefaultOS |-> 0,
     GfxMode |-> GetFirstGfxMode(modes), OverrideGfx |-> FALSE]

\* LoadBootConfig: the configuration read, which is also the one the variable
\* holds afterwards.  An existing variable is taken as it is.
LoadBootConfig(nv, modes) == IF nv = NoConfig THEN DefaultConfig(modes) ELSE nv

\* gBootConfigOverride before a configuration file is read; a value below zero
\* overrides nothing.
NoOverride == [BootDelay |-> -1, DefaultOS |-> -1]

\* The key=value assignments TIMEOUT and DEFAULT_ENTRY at the head of a file;
\* Absent stands for a key the file does not have.
Absent == -1
OverridesOf(timeout, defaultEntry) ==
    [BootDelay |-> IF timeout = Absent THEN NoOverride.BootDelay ELSE Int32(timeout),
     DefaultOS |-> IF defaultEntry = Absent THEN NoOverride.DefaultOS ELSE Int32(defaultEntry)]

\* The delay the main menu counts down: the override if there is one.
EffectiveDelay(override, config) ==
    IF override.BootDelay >= 0 THEN override.BootDelay ELSE config.BootDelay

\* INITIAL_TIMEOUT_COUNTER: a 32-bit signed product, divided as a UINTN.  The
\* build has no -fwrapv, so a product that overflows either wraps or is carried
\* out in the wider register it is extended to.
InitialTimeoutCounters(delay) ==
    {Uintn(product) \div TIMER_INTERVAL : product \in {Int32(delay * Second), delay * Second}}
=============================================================================
