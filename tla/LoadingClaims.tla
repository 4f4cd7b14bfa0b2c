--------------------------- MODULE LoadingClaims ----------------------------
(***************************************************************************)
(* What MemoryAllocationLib asserts of the pages that the loaders free.    *)
(***************************************************************************)
EXTENDS Loading

\* MemoryAllocationLib.c: FreePages asserts that the pages it is given could be
\* freed: that they are some, and were allocated.
FreePagesAssertHolds == pc # "asserted"
=============================================================================
