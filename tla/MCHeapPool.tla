----------------------------- MODULE MCHeapPool -----------------------------
(***************************************************************************)
(* HeapPool on a small reservation: requests of size 0, of a size that is  *)
(* not a multiple of a word, and of an alignment that is neither a power   *)
(* of two nor below the default.                                           *)
(***************************************************************************)
EXTENDS HeapPoolProofs, TLC

MCRequests == {<<0, 8>>, <<40, 16>>, <<8, 24>>}
MCReallocSizes == {8, 60}
Symmetry == Permutations(Threads)
==============================================================================
