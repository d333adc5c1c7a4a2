--------------------------- MODULE RegionAllocator ---------------------------
(***************************************************************************)
(* What an allocator of one contiguous region promises its callers,        *)
(* whatever its bookkeeping: a granted range lies in the region and        *)
(* overlaps no range that is still out, and only a granted range is taken  *)
(* back.  HeapPool (heap_pool.cpp) and UnifiedArena (arena.cpp) are both   *)
(* shown to implement it.                                                  *)
(***************************************************************************)
EXTENDS Integers

CONSTANT Region      \* length of the region, in the unit of the client module

VARIABLE granted     \* the set of ranges [lo, hi) currently handed out

Overlap(r, s) == r.lo < s.hi /\ s.lo < r.hi

Init == granted = {}

Grant(r) ==
    /\ 0 <= r.lo /\ r.lo < r.hi /\ r.hi <= Region
    /\ \A s \in granted : ~Overlap(r, s)
    /\ granted' = granted \cup {r}

Release(r) ==
    /\ r \in granted
    /\ granted' = granted \ {r}

(* One range comes or goes at a time; granted' names the range to look at. *)
Next ==
    \/ \E r \in granted' \ granted : Grant(r)
    \/ \E r \in granted \ granted' : Release(r)
    \/ granted' = {}                  \* the region itself is given up

Spec == Init /\ [][Next]_granted

==============================================================================
