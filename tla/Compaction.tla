------------------------------ MODULE Compaction ------------------------------
(***************************************************************************)
(* launch_compact of src/kernel/kernel_launcher.cpp: flags, an inclusive   *)
(* scan of the flags (the steps of PrefixScan, for any depth of            *)
(* recursion), the kept count read back by the host, and a scatter.  The   *)
(* positions are the data of the scan; a position is the bag of the kept   *)
(* inputs counted in it, so its value is the bag's cardinality.            *)
(* Plain scans are among the behaviours too.                               *)
(***************************************************************************)
EXTENDS PrefixScan

CONSTANT Patterns   \* the sets of inputs the predicate keeps

ASSUME CompactionAssumption == Patterns \subseteq SUBSET (1 .. MaxCount)

VARIABLES
    keeps,          \* the inputs that pass the predicate
    held,           \* the positions are allocated
    kept,           \* *out_kept
    output,         \* the caller's output: an input's index, or 0: as it was
    ok              \* what launch_compact returned

compVars == <<keeps, held, kept, output, ok>>
cVars    == <<vars, compVars>>

Count     == Len(bufs[1])
Compacts  == op \in {"copy_if", "partition"}
Untouched == [i \in 1 .. Count |-> 0]

CInit ==
    /\ \/ Init /\ keeps = {}
       \/ /\ op \in {"copy_if", "partition"}
          /\ \E count \in 0 .. MaxCount, pattern \in Patterns :
                /\ bufs = <<[i \in 1 .. count |-> Stale]>>
                /\ keeps = pattern \cap 1 .. count
          /\ out = <<>> /\ level = 1
          /\ kernel = "flags" /\ at = <<>> /\ temp = <<>>
          /\ pc = "compact"
    /\ held = FALSE /\ kept = 0 /\ output = Untouched /\ ok = FALSE

Queued == [g \in 1 .. Blocks(Count) |-> "queued"]

Return(result) == Goto("returned") /\ ok' = result

(* Nothing to do for an empty range; else the positions come from the arena, *)
(* or the compaction fails.                                                  *)
AllocatePositions ==
    /\ pc = "compact"
    /\ \/ Count = 0 /\ Return(TRUE) /\ UNCHANGED held
       \/ Count > 0 /\ held' = TRUE /\ Goto("flags") /\ UNCHANGED ok
       \/ Count > 0 /\ Return(FALSE) /\ UNCHANGED held
    /\ at' = <<>>
    /\ UNCHANGED <<op, bufs, out, level, kernel, temp, keeps, kept, output>>

FreedOnSuccess(result) == held' = ~result
FreePositions(result)  == held' = FALSE

(* Every return after the allocation gives the positions back. *)
Finished(result) == FreePositions(result) /\ Return(result)

(* The dispatch of the flags or the scatter, or false. *)
DispatchGroups ==
    /\ pc \in {"flags", "scatter"} /\ at = <<>>
    /\ \/ at' = Queued /\ UNCHANGED <<pc, held, ok>>
       \/ Finished(FALSE) /\ UNCHANGED at
    /\ UNCHANGED <<op, bufs, out, level, kernel, temp, keeps, kept, output>>

Mine(g) == {i \in 1 .. Count : Global(g, 1) <= i /\ i <= Global(g, W)}

Flag(g) ==
    /\ pc = "flags" /\ at[g] = "queued"
    /\ bufs' = [bufs EXCEPT ![1] = [i \in DOMAIN @ |->
                  IF i \notin Mine(g) THEN @[i]
                  ELSE IF i \in keeps THEN Input(i) ELSE EmptyBag]]
    /\ at' = [at EXCEPT ![g] = "stored"]
    /\ UNCHANGED <<op, out, level, kernel, temp, pc, compVars>>

Pos(i) == IF i = 0 THEN 0 ELSE BagCardinality(bufs[1][i])

(* Where the scatter of the operation puts element i; 0: nowhere.            *)
DestinationExclusive(i) ==
    IF Pos(i) > Pos(i - 1) THEN Pos(i - 1)
    ELSE IF op = "partition" THEN kept + i - Pos(i) ELSE 0
Destination(i) ==
    IF Pos(i) > Pos(i - 1) THEN Pos(i)
    ELSE IF op = "partition" THEN kept + i - Pos(i) ELSE 0

ScatterGroup(g) ==
    /\ pc = "scatter" /\ at[g] = "queued"
    /\ output' = [k \in DOMAIN output |->
                    LET from == {i \in Mine(g) : Destination(i) = k}
                    IN  IF from = {} THEN output[k] ELSE CHOOSE i \in from : TRUE]
    /\ at' = [at EXCEPT ![g] = "stored"]
    /\ UNCHANGED <<op, bufs, out, level, kernel, temp, pc, keeps, held, kept, ok>>

(* The sync() of dispatch_reduce_level and of dispatch_scatter. *)
GroupsDone ==
    /\ pc \in {"flags", "scatter"} /\ at # <<>>
    /\ \A g \in Groups : at[g] = "stored"
    /\ at' = <<>>
    /\ \/ pc = "flags" /\ Goto("enter") /\ UNCHANGED <<held, ok>>
       \/ pc = "scatter" /\ Finished(TRUE)
    /\ UNCHANGED <<op, bufs, out, level, kernel, temp, keeps, kept, output>>

(* launch_scan has returned: the last position is the kept count. *)
Scanned ==
    /\ Compacts
    /\ \/ /\ pc = "done"
          /\ kept' = Pos(Count)
          /\ Goto("scatter") /\ UNCHANGED <<held, ok>>
       \/ pc = "failed" /\ Finished(FALSE) /\ UNCHANGED kept
    /\ UNCHANGED <<op, bufs, out, level, kernel, at, temp, keeps, output>>

CStopped ==
    /\ pc = "returned" \/ (pc \in {"done", "failed"} /\ ~Compacts)
    /\ UNCHANGED cVars

CNext ==
    \/ AllocatePositions \/ DispatchGroups \/ GroupsDone \/ Scanned
    \/ \E g \in Groups : Flag(g) \/ ScatterGroup(g)
    \/ ScanStep /\ UNCHANGED compVars
    \/ CStopped

CSpec == CInit /\ [][CNext]_cVars

-------------------------------------------------------------------------------
InOrder(S) == [k \in 1 .. Cardinality(S) |->
                 CHOOSE i \in S : Cardinality({j \in S : j <= i}) = k]

(* A compaction that succeeds reports the number of kept elements and puts   *)
(* them, in their order and each once, at the front of the output: copy_if   *)
(* leaves the rest of it alone, partition puts the other elements there, in  *)
(* their order; one that fails writes nothing (stdpar.hpp:295-299).          *)
CompactCorrect ==
    pc = "returned" =>
        LET others == IF op = "partition" THEN InOrder((1 .. Count) \ keeps)
                      ELSE [k \in 1 .. Count - Cardinality(keeps) |-> 0]
        IN  IF ok THEN kept = Cardinality(keeps) /\ output = InOrder(keeps) \o others
            ELSE output = Untouched

(* An operation that succeeds has given all its scratch back to the arena:   *)
(* every level's block sums and the positions.  A failed scan keeps its      *)
(* block sums (its early returns skip the deallocate), but a failed          *)
(* compaction never keeps its positions.                                     *)
ScratchReturned == BlocksumsReturned /\ (pc = "returned" => ~held /\ (ok => Len(bufs) = 1))
==============================================================================
