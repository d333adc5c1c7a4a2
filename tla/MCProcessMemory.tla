--------------------------- MODULE MCProcessMemory ---------------------------
(***************************************************************************)
(* ProcessMemory with interchangeable pool addresses.                      *)
(***************************************************************************)
EXTENDS ProcessMemory

Symmetry == Permutations(Pool)
==============================================================================
