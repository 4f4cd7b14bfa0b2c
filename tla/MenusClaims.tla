----------------------------- MODULE MenusClaims ----------------------------
(***************************************************************************)
(* What the documentation and the assertions of TomatBoot say of the       *)
(* menus, and the code of Menus does not do.                               *)
(***************************************************************************)
EXTENDS Menus

\* MainMenu.c asserts that WaitForEvent succeeds, hence that the events it waits
\* for are not closed ones.
WaitForEventAssertHolds == pc = "MainWait" /\ count = 2 => event \in Live
=============================================================================
