------------------------------ MODULE MCFunnels ------------------------------
(***************************************************************************)
(* Programs that use two of the funnels: what one leaves behind in the     *)
(* arena is what the other finds.                                          *)
(***************************************************************************)
EXTENDS Funnels, FiniteSetsExt

Pairs == kSubset(2, DOMAIN Shape)
==============================================================================
