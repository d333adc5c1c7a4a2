---------------------------- MODULE MCCompaction ----------------------------
(***************************************************************************)
(* Compaction with predicates that keep all, none, every other element,    *)
(* every third one, and the later part of the array.                       *)
(***************************************************************************)
EXTENDS Compaction

Predicates == {1 .. MaxCount, {}, {i \in 1 .. MaxCount : i % 2 = 0},
               {i \in 1 .. MaxCount : i % 3 = 1}, 6 .. MaxCount}
==============================================================================
