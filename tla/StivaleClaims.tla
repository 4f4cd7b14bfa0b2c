---------------------------- MODULE StivaleClaims ---------------------------
(***************************************************************************)
(* What the README says of the stivale loaders.                            *)
(***************************************************************************)
EXTENDS Stivale

\* README.md: direct higher half support, with five levels of page tables.  No kernel
\* is lost for asking for them.
FiveLevelSupport == pc # "shutdown"
=============================================================================
