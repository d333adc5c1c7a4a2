------------------------------ MODULE BlockSearch ------------------------------
(***************************************************************************)
(* launch_argminmax, launch_find and launch_mismatch of                    *)
(* src/kernel/kernel_launcher.cpp: one dispatch in which every workgroup   *)
(* writes the winner of its block, in any order, into arena scratch, and a *)
(* host loop that combines the winners after they were brought back.       *)
(* For a find or a mismatch an element is 1 where the search would stop.   *)
(***************************************************************************)
EXTENDS Workgroups, FiniteSetsExt

CONSTANTS
    Longest,        \* bound: elements in the range
    Values,         \* the elements
    Exact           \* integers up to here have a double of their own (2^53)

ASSUME SearchAssumption ==
    /\ Longest \in Nat /\ Exact \in Nat
    /\ {0, 1} \subseteq Values /\ Values \subseteq Nat

VARIABLES
    op, last,       \* the search; want_last: ties go to the larger index
    uma,            \* arena->uma()
    range,          \* the elements searched
    dev, host,      \* the winners' scratch on the device, and as the host reads it
    inFlight,       \* the workgroups in flight
    blocks,         \* scratch blocks taken from the arena
    step, answer    \* where the launcher's function is; what it returns

searchVars == <<op, last, uma, range, dev, host, inFlight, blocks, step, answer>>

Count        == Cardinality(DOMAIN range)
SearchGroups == 1 .. Blocks(Count)
IsArg        == op \in {"min", "max"}
Nothing      == [val |-> 0, idx |-> Count]

(* Left in the scratch by an earlier search: a winner like any other.       *)
StaleWinner == [val |-> 0, idx |-> 0]

SearchInit ==
    /\ op \in {"min", "max", "find", "mismatch"} /\ last \in BOOLEAN /\ uma \in BOOLEAN
    /\ last => op \in {"min", "max"}
    /\ \E n \in 0 .. Longest :
          range \in [0 .. n - 1 -> IF op \in {"min", "max"} THEN Values ELSE {0, 1}]
    /\ dev = [g \in SearchGroups |-> StaleWinner] /\ host = dev
    /\ inFlight = <<>> /\ blocks = 0
    /\ step = "start" /\ answer = 0

Answer(i)   == step' = "done" /\ answer' = i
SearchFails == step' = "failed" /\ answer' = Count

TrivialSearch == Count = 0 \/ (IsArg /\ Count = 1)

(* Values and indices for an argmin or argmax, indices alone for the others. *)
Wanted == IF IsArg THEN 2 ELSE 1

(* The early answers, and the scratch, of which a part may be all there is. *)
Start ==
    /\ step = "start"
    /\ \/ TrivialSearch /\ Answer(0) /\ UNCHANGED blocks
       \/ ~TrivialSearch /\ blocks' = Wanted /\ step' = "dispatch" /\ UNCHANGED answer
       \/ ~TrivialSearch /\ blocks' \in 0 .. Wanted - 1 /\ SearchFails
    /\ UNCHANGED <<op, last, uma, range, dev, host, inFlight>>

(* A descriptor set and a submission, or the return of count. *)
DispatchSearch ==
    /\ step = "dispatch"
    /\ \/ inFlight' = [g \in SearchGroups |-> "queued"] /\ step' = "run" /\ UNCHANGED answer
       \/ SearchFails /\ UNCHANGED inFlight
    /\ UNCHANGED <<op, last, uma, range, dev, host, blocks>>

Block(g) == {i \in DOMAIN range : (g - 1) * W <= i /\ i < g * W}

Extreme(S) == IF op = "max" THEN Max(S) ELSE Min(S)
Favoured(S) == IF last THEN Max(S) ELSE Min(S)

Winner(g) ==
    IF IsArg
    THEN LET v == Extreme({range[i] : i \in Block(g)})
         IN  [val |-> v, idx |-> Favoured({i \in Block(g) : range[i] = v})]
    ELSE LET hits == {i \in Block(g) : range[i] = 1}
         IN  IF hits = {} THEN Nothing ELSE [val |-> 0, idx |-> Min(hits)]

RunGroup(g) ==
    /\ step = "run" /\ inFlight[g] = "queued"
    /\ dev' = [dev EXCEPT ![g] = Winner(g)]
    /\ host' = IF uma THEN dev' ELSE host
    /\ inFlight' = [inFlight EXCEPT ![g] = "stored"]
    /\ UNCHANGED <<op, last, uma, range, blocks, step, answer>>

NoInvalidate         == host' = host
InvalidateFromDevice == host' = dev

(* sync(), then the copy of the arena back to the host. *)
Collect ==
    /\ step = "run" /\ \A g \in SearchGroups : inFlight[g] = "stored"
    /\ InvalidateFromDevice
    /\ step' = "combine"
    /\ UNCHANGED <<op, last, uma, range, dev, inFlight, blocks, answer>>

(* Values are compared as doubles; integers above 2^53 share theirs.         *)
AsDouble(v) == IF v <= Exact THEN v ELSE 2 * (v \div 2)

Better(best, cand) ==
    LET v == AsDouble(cand.val) IN
    \/ best.idx = Count
    \/ IsArg /\ IF op = "max" THEN v > best.val ELSE v < best.val
    \/ v = best.val /\ IF last THEN cand.idx > best.idx ELSE cand.idx < best.idx

(* The host loop over the blocks' winners; an invalid one is passed over.    *)
AfterBlock(best, g) ==
    IF host[g].idx < Count /\ Better(best, host[g])
    THEN [val |-> AsDouble(host[g].val), idx |-> host[g].idx] ELSE best

Best[g \in {0} \cup SearchGroups] == IF g = 0 THEN Nothing ELSE AfterBlock(Best[g - 1], g)

Combined == Best[Blocks(Count)].idx

Combine ==
    /\ step = "combine"
    /\ blocks' = 0
    /\ Answer(IF IsArg /\ Combined = Count THEN 0 ELSE Combined)
    /\ UNCHANGED <<op, last, uma, range, dev, host, inFlight>>

SearchStopped == step \in {"done", "failed"} /\ UNCHANGED searchVars

SearchNext ==
    \/ Start \/ DispatchSearch \/ Collect \/ Combine
    \/ \E g \in SearchGroups : RunGroup(g)
    \/ SearchStopped

SearchSpec == SearchInit /\ [][SearchNext]_searchVars

-------------------------------------------------------------------------------
(* A search that reached the device answers as the sequential one does: the  *)
(* first (with want_last the last) index of the extremum of the whole range, *)
(* the first index that stops the search or count where there is none        *)
(* (runtime.h:55-68), with its scratch given back; one that failed returns  *)
(* count, which for a find is also the answer "not found".                   *)
SearchCorrect ==
    /\ step = "done" =>
         /\ blocks = 0
         /\ IF IsArg /\ Count > 0
            THEN LET v == Extreme({range[i] : i \in DOMAIN range})
                 IN  answer = Favoured({i \in DOMAIN range : range[i] = v})
            ELSE answer = Min({i \in DOMAIN range : range[i] = 1} \cup {Count})
    /\ step = "failed" => answer = Count
==============================================================================
