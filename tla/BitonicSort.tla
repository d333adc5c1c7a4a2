------------------------------ MODULE BitonicSort ------------------------------
(***************************************************************************)
(* device_sort of src/include/parallax/stdpar.hpp over launch_sort of      *)
(* src/kernel/kernel_launcher.cpp and the kernel src/shaders/bitonic.comp: *)
(* an array is sorted in place, or in a copy padded to a power of two, by  *)
(* one dispatch per (k, j) of the bitonic schedule.  The invocations of a  *)
(* dispatch run in any order; each is a step, since it alone touches its   *)
(* pair of elements.                                                       *)
(***************************************************************************)
EXTENDS Integers, FiniteSets, Sequences

CONSTANTS
    Counts,         \* numbers of elements callers sort
    Top,            \* elements are 0 .. Top
    MaxValue,       \* std::numeric_limits<T>::max(); infinity is above it
    Bits,           \* width of the loop variables k and j
    MaxSets,        \* descriptor sets left in the pool
    Faulty          \* whether a submission may fail

ASSUME SortAssumption ==
    /\ Counts \subseteq Nat
    /\ Top \in Nat /\ MaxValue \in 0 .. Top
    /\ Bits \in 1 .. 30 /\ MaxSets \in Nat /\ Faulty \in BOOLEAN

VARIABLES
    orig,           \* the caller's elements at the call
    data,           \* the caller's elements
    pool,           \* the caller's elements lie in the pool
    pad,            \* the array launch_sort works on
    k, j,           \* the stage of the schedule
    todo,           \* the invocations of the dispatch that have not run
    sets,           \* descriptor sets taken
    line,           \* where device_sort or launch_sort is
    ok              \* what launch_sort returns

sortVars == <<orig, data, pool, pad, k, j, todo, sets, line, ok>>

UNarrow(x) == x % 2^(Bits - 4)
U(x)       == x % 2^Bits

(* The next power of two. *)
Padded(n) == 2^(CHOOSE e \in 0 .. 30 : 2^e >= n /\ (e = 0 \/ 2^(e - 1) < n))

InPlace == pool /\ Padded(Len(data)) = Len(data)

(* count as launch_sort pushes it, and the elements as the kernel sees them. *)
N     == U(Len(pad))
At(i) == pad[i + 1]

Partner(i)   == IF (i \div j) % 2 = 0 THEN i + j ELSE i - j      \* i ^ j
Ascending(i) == (i \div k) % 2 = 0                                \* (i & k) == 0
Owns(i)      == Partner(i) > i /\ Partner(i) < N

SortInit ==
    /\ \E n \in Counts : orig \in [1 .. n -> 0 .. Top]
    /\ data = orig
    /\ pool \in BOOLEAN
    /\ pad = <<>>
    /\ k = 0 /\ j = 0 /\ todo = {}
    /\ sets \in 0 .. MaxSets       \* what earlier operations have taken
    /\ line = "call" /\ ok = FALSE

SortedAscending(s) == \A i, m \in DOMAIN s : i < m => s[i] <= s[m]
SameElements(s, t) ==
    \A v \in 0 .. Top : Cardinality({i \in DOMAIN s : s[i] = v})
                        = Cardinality({i \in DOMAIN t : t[i] = v})

PadZero == 0
PadWith == MaxValue

(* device_sort: in place, in a padded copy, or by std::sort when there is no *)
(* kernel for the type or no room in the arena for the copy.                 *)
Sort ==
    /\ line = "call"
    /\ \/ /\ InPlace
          /\ pad' = data /\ line' = "launch"
          /\ UNCHANGED <<data, ok>>
       \/ /\ ~InPlace
          /\ pad' = [i \in 1 .. Padded(Len(data)) |-> IF i <= Len(data) THEN data[i] ELSE PadWith]
          /\ line' = "launch"
          /\ UNCHANGED <<data, ok>>
       \/ /\ data' \in [DOMAIN data -> 0 .. Top]
          /\ SortedAscending(data') /\ SameElements(data', data)
          /\ line' = "done" /\ ok' = TRUE
          /\ UNCHANGED pad
    /\ UNCHANGED <<orig, pool, k, j, todo, sets>>

(* launch_sort: nothing to do, or the loops from k = 2, j = k >> 1. *)
Launch ==
    /\ line = "launch"
    /\ \/ Len(pad) <= 1 /\ line' = "return" /\ ok' = TRUE /\ UNCHANGED <<k, j>>
       \/ Len(pad) > 1 /\ k' = 2 /\ j' = 1 /\ line' = "loop" /\ UNCHANGED ok
    /\ UNCHANGED <<orig, data, pool, pad, todo, sets>>

(* dispatch_sort_stage: a set from the pool and a submission, or false. *)
Stage ==
    /\ line = "loop" /\ k <= N /\ j > 0
    /\ \/ /\ sets < MaxSets
          /\ sets' = sets + 1
          /\ todo' = {i \in 0 .. N - 1 : Owns(i)}
          /\ line' = "run" /\ UNCHANGED ok
       \/ sets = MaxSets /\ line' = "return" /\ ok' = FALSE /\ UNCHANGED <<sets, todo>>
       \/ Faulty /\ line' = "return" /\ ok' = FALSE /\ UNCHANGED <<sets, todo>>
    /\ UNCHANGED <<orig, data, pool, pad, k, j>>

ExchangeHalf(i, l) == [pad EXCEPT ![i + 1] = At(l)]
Exchange(i, l)     == [pad EXCEPT ![i + 1] = At(l), ![l + 1] = At(i)]

(* One invocation: a compare-exchange of its pair. *)
Invoke(i) ==
    /\ line = "run" /\ i \in todo
    /\ todo' = todo \ {i}
    /\ LET l == Partner(i)
       IN  pad' = IF (At(i) > At(l)) = Ascending(i) THEN Exchange(i, l) ELSE pad
    /\ UNCHANGED <<orig, data, pool, k, j, sets, line, ok>>

(* sync(), then j >>= 1. *)
StageDone ==
    /\ line = "run" /\ todo = {}
    /\ j' = j \div 2 /\ line' = "loop"
    /\ UNCHANGED <<orig, data, pool, pad, k, todo, sets, ok>>

(* The inner loop is over: k <<= 1, j = k >> 1. *)
NextK ==
    /\ line = "loop" /\ k <= N /\ j = 0
    /\ k' = U(2 * k) /\ j' = k' \div 2
    /\ UNCHANGED <<orig, data, pool, pad, todo, sets, line, ok>>

LoopDone ==
    /\ line = "loop" /\ k > N
    /\ line' = "return" /\ ok' = TRUE
    /\ UNCHANGED <<orig, data, pool, pad, k, j, todo, sets>>

(* The first elements of the copy are the caller's, whatever launch_sort     *)
(* returned.                                                                 *)
Return ==
    /\ line = "return"
    /\ data' = [i \in DOMAIN data |-> pad[i]]
    /\ line' = "done"
    /\ UNCHANGED <<orig, pool, pad, k, j, todo, sets, ok>>

SortStopped == line = "done" /\ UNCHANGED sortVars

Step == Sort \/ Launch \/ Stage \/ StageDone \/ NextK \/ LoopDone \/ Return
        \/ \E i \in todo : Invoke(i)

SortNext == Step \/ SortStopped

SortSpec == SortInit /\ [][SortNext]_sortVars

(* The calling thread goes on and the device runs what is submitted. *)
FairSortSpec == SortSpec /\ WF_sortVars(Step)

-------------------------------------------------------------------------------
(* A sort whose dispatches succeed leaves the caller's elements in ascending *)
(* order, for any count, whether padded or not, and in whatever order the    *)
(* invocations of a stage ran (test_sort.cpp:59-64).                         *)
SortCorrect == line = "done" /\ ok => SortedAscending(data) /\ SameElements(data, orig)

(* In a full-length array no element is lost or duplicated at any time, also *)
(* when a dispatch in the middle of the schedule fails.                      *)
InPlaceKeepsElements ==
    pool /\ Padded(Len(orig)) = Len(orig) /\ line = "done" => SameElements(data, orig)

(* The sort returns: the schedule is finite. *)
SortReturns == <>(line = "done")
==============================================================================
