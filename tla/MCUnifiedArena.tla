--------------------------- MODULE MCUnifiedArena ---------------------------
(***************************************************************************)
(* UnifiedArena on seven alignment units, with sizes that need rounding    *)
(* and an alignment above the default one.                                 *)
(***************************************************************************)
EXTENDS UnifiedArenaProofs

MCSizes  == {0, 1, 3, 5, 20}
MCAligns == {1, 4}
==============================================================================
