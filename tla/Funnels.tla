------------------------------- MODULE Funnels -------------------------------
(***************************************************************************)
(* The algorithm funnels of include/parallax/stdpar.hpp over the kernel    *)
(* registry and the C API of src/kernel/cache.cpp: the lookup, the choice  *)
(* between zero copy, staging and the host loop, the copies around a       *)
(* launch, and what a launch that fails leaves behind.                     *)
(*                                                                         *)
(* The contents of an array are the number of times the operation has been *)
(* applied to them, or one of three values that are no input at all.       *)
(***************************************************************************)
EXTENDS Integers

CONSTANTS
    Room,           \* staging blocks that fit the arena
    Programs        \* the sets of funnels that programs use

(* blocks: staging blocks; zero: the arrays that must be in the arena for    *)
(* the launch to use them directly, none: never; out: where the result goes; *)
(* kept: only the elements kept are copied out; captures: functors with      *)
(* captures are offloaded too.                                               *)
Shape ==
    [invoke     |-> [blocks |-> 1, zero |-> {"x"},      out |-> "x", kept |-> FALSE, captures |-> TRUE],
     transform  |-> [blocks |-> 2, zero |-> {"x", "y"}, out |-> "y", kept |-> FALSE, captures |-> TRUE],
     reduce     |-> [blocks |-> 1, zero |-> {"x"},      out |-> "v", kept |-> FALSE, captures |-> TRUE],
     scan       |-> [blocks |-> 1, zero |-> {"x", "y"}, out |-> "y", kept |-> FALSE, captures |-> TRUE],
     exclusive  |-> [blocks |-> 2, zero |-> {},         out |-> "y", kept |-> FALSE, captures |-> TRUE],
     map_reduce |-> [blocks |-> 2, zero |-> {},         out |-> "v", kept |-> FALSE, captures |-> FALSE],
     copy_if    |-> [blocks |-> 2, zero |-> {},         out |-> "y", kept |-> TRUE,  captures |-> FALSE],
     remove_if  |-> [blocks |-> 2, zero |-> {},         out |-> "x", kept |-> TRUE,  captures |-> FALSE],
     partition  |-> [blocks |-> 2, zero |-> {},         out |-> "x", kept |-> FALSE, captures |-> FALSE]]

ASSUME FunnelAssumption == Room \in Nat /\ Programs \subseteq (SUBSET DOMAIN Shape) \ {{}}

Old     == -1       \* an output array before the call
Stale   == -2       \* a staging block before it is written
Partial == -3       \* an array some dispatches of a failed operation have written

VARIABLES
    registered,     \* the funnels whose kernels have been registered
    handle,         \* each funnel's function-local statics: "unset", "null", "set"
    mem,            \* x: first array, y: second, a, b: staging blocks, v: the value returned
    resident,       \* the arrays in the arena
    held,           \* staging blocks taken and not freed
    halved,         \* ghost: the calls that got one of their two blocks
    failed,         \* ghost: a launch of this call failed
    f, captures,    \* the funnel called, and whether its functor captures
    pc

memVars == <<mem, held>>
vars == <<registered, handle, mem, resident, held, halved, failed, f, captures, pc>>

Names == DOMAIN handle
S     == Shape[f]

Init ==
    /\ registered = {}
    /\ \E uses \in Programs : handle = [n \in uses |-> "unset"]
    /\ mem = [p \in {"x", "y", "a", "b", "v"} |-> Old]
    /\ resident = {} /\ held = 0 /\ halved = 0 /\ failed = FALSE
    /\ f \in Names /\ captures = FALSE
    /\ pc = "returned"

Goto(l) == pc' = l

(* A registrar runs: at static initialisation, or later when a library is    *)
(* loaded.                                                                   *)
Register(n) ==
    /\ pc = "returned" /\ n \notin registered
    /\ registered' = registered \cup {n}
    /\ UNCHANGED <<handle, mem, resident, held, halved, failed, f, captures, pc>>

(* Any functor but a scan's or a reduction's may capture. *)
Call(n, arrays, caps) ==
    /\ pc = "returned"
    /\ f' = n /\ resident' = arrays /\ captures' = caps /\ failed' = FALSE
    /\ mem' = [x |-> 0, y |-> Old, a |-> Stale, b |-> Stale, v |-> Old]
    /\ Goto("lookup")
    /\ UNCHANGED <<registered, handle, held, halved>>

ZeroCopyEither == S.zero \cap resident # {}
ZeroCopy       == S.zero # {} /\ S.zero \subseteq resident

Route ==
    IF handle'[f] = "null" \/ (captures /\ ~S.captures) THEN "host"
    ELSE IF ZeroCopy THEN "bind" ELSE "stage"

(* parallax_kernel_lookup at the first call, which loads the kernels or does *)
(* not; the answer is kept for ever, a failure too.                          *)
Lookup ==
    /\ pc = "lookup"
    /\ \/ handle[f] # "unset" /\ UNCHANGED handle
       \/ handle[f] = "unset" /\ handle' = [handle EXCEPT ![f] = "null"]
       \/ handle[f] = "unset" /\ f \in registered /\ handle' = [handle EXCEPT ![f] = "set"]
    /\ Goto(Route)
    /\ UNCHANGED <<registered, mem, resident, held, halved, failed, f, captures>>

(* An inclusive scan of two resident arrays runs in place in the output. *)
CopyToOutput == mem' = IF f = "scan" THEN [mem EXCEPT !.y = mem.x] ELSE mem

Bind ==
    /\ pc = "bind"
    /\ CopyToOutput
    /\ Goto("direct")
    /\ UNCHANGED <<registered, handle, resident, held, halved, failed, f, captures>>

(* All the blocks, and the input copied to the first; or not all of them:    *)
(* the host loop runs, and a block that was granted is not freed.            *)
Stage ==
    /\ pc = "stage"
    /\ \/ /\ held + S.blocks <= Room
          /\ held' = held + S.blocks
          /\ mem' = [mem EXCEPT !.a = mem.x]
          /\ Goto("staged") /\ UNCHANGED halved
       \/ Goto("host") /\ UNCHANGED <<memVars, halved>>
       \/ /\ S.blocks = 2 /\ held < Room
          /\ held' = held + 1 /\ halved' = halved + 1
          /\ Goto("host") /\ UNCHANGED mem
    /\ UNCHANGED <<registered, handle, resident, failed, f, captures>>

Applied(c) == IF c >= 0 THEN c + 1 ELSE c

(* Where the kernel reads and writes. *)
FromInput(direct) == IF direct THEN "x" ELSE "a"
From(direct) == IF direct THEN (IF f = "scan" THEN "y" ELSE "x") ELSE "a"
To(direct)   == IF S.out = "v" /\ S.blocks = 1 THEN "v"
                ELSE IF direct THEN S.out ELSE IF S.blocks = 2 THEN "b" ELSE "a"

(* A launch outside the arena works on a Vulkan buffer that is not copied    *)
(* back (see KernelLaunch).                                                  *)
Visible(p) == p \notin {"x", "y"} \ resident

LaunchOk(direct) ==
    /\ mem' = [mem EXCEPT ![To(direct)] = IF Visible(To(direct)) /\ Visible(From(direct))
                                           THEN Applied(mem[From(direct)]) ELSE @]
    /\ UNCHANGED failed

(* The C API reports a failure to the log only.  A scan may have run some of *)
(* its dispatches in place.                                                  *)
LaunchFails(direct) ==
    /\ mem' \in {mem} \cup IF f \in {"scan", "exclusive"}
                            THEN {[mem EXCEPT ![From(direct)] = Partial]} ELSE {}
    /\ failed' = TRUE

Launch ==
    /\ pc \in {"direct", "staged"}
    /\ LaunchOk(pc = "direct") \/ LaunchFails(pc = "direct")
    /\ Goto(IF pc = "direct" THEN "returned" ELSE IF f = "map_reduce" THEN "fold" ELSE "out")
    /\ UNCHANGED <<registered, handle, resident, held, halved, f, captures>>

(* The second launch of a transform_reduce or count_if: the reduction. *)
Fold ==
    /\ pc = "fold"
    /\ \/ mem' = [mem EXCEPT !.v = mem.b] /\ UNCHANGED failed
       \/ failed' = TRUE /\ UNCHANGED mem
    /\ Goto("out")
    /\ UNCHANGED <<registered, handle, resident, held, halved, f, captures>>

FreeOne == 1
FreeAll == S.blocks

(* The copy out and the frees.  A compaction that failed kept no elements.   *)
CopyOut ==
    /\ pc = "out"
    /\ mem' = IF S.out = "v" \/ (S.kept /\ failed) THEN mem
              ELSE [mem EXCEPT ![S.out] = mem[To(FALSE)]]
    /\ held' = held - FreeAll
    /\ Goto("returned")
    /\ UNCHANGED <<registered, handle, resident, halved, failed, f, captures>>

(* The ISO loop. *)
Host ==
    /\ pc = "host"
    /\ mem' = [mem EXCEPT ![S.out] = Applied(mem.x)]
    /\ Goto("returned")
    /\ UNCHANGED <<registered, handle, resident, held, halved, failed, f, captures>>

Next ==
    \/ \E n \in Names : Register(n)
    \/ \E n \in Names, arrays \in SUBSET {"x", "y"}, caps \in BOOLEAN : Call(n, arrays, caps)
    \/ Lookup \/ Bind \/ Stage \/ Launch \/ Fold \/ CopyOut \/ Host

Spec == Init /\ [][Next]_vars

-------------------------------------------------------------------------------
(* However a call was routed, and whatever earlier calls have leaked or      *)
(* failed to load, an algorithm none of whose launches failed has applied    *)
(* its operation exactly once, and what it may not write is as it was        *)
(* (stdpar.hpp:16-17: "a hit dispatches to the GPU, a miss runs the ISO      *)
(* sequential loop (correct either way)").                                   *)
AppliedOnce ==
    pc = "returned" /\ mem.x # Old /\ ~failed =>
        /\ mem[S.out] = 1
        /\ S.out # "x" => mem.x = 0
        /\ S.out # "y" => mem.y = Old

(* Algorithms that do not work in place leave their input as it was, on the  *)
(* failing paths too.                                                        *)
InputKept == pc = "returned" /\ mem.x # Old /\ S.out # "x" => mem.x = 0

(* A call gives its staging blocks back on every path but one: when only one *)
(* of the two was granted it stays taken.                                    *)
StagingReturned == pc = "returned" => held = halved
==============================================================================
