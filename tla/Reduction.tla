------------------------------- MODULE Reduction -------------------------------
(***************************************************************************)
(* launch_reduce of src/kernel/kernel_launcher.cpp: the iterated reduction *)
(* of an array through two scratch blocks of the arena, each level one     *)
(* dispatch whose workgroups run in any order, all of them finished before *)
(* the next level starts.                                                  *)
(***************************************************************************)
EXTENDS Workgroups, FiniteSets, SequencesExt

CONSTANT MaxCount   \* bound: elements in the array

ASSUME ReductionAssumption == MaxCount \in Nat

VARIABLES
    count,          \* elements in the array; element i is Input(i)
    scratch,        \* the two scratch blocks
    src,            \* what the level reads: 2 the array, 0 or 1 a scratch block
    n,              \* elements the level reads
    toggle,         \* the scratch block the level writes
    at, temp,       \* the workgroups in flight, and what each has loaded
    pc, result

vars == <<count, scratch, src, n, toggle, at, temp, pc, result>>

Groups == DOMAIN at
Array  == [i \in 1 .. count |-> Input(i)]
Source == IF src = 2 THEN Array ELSE scratch[src]

Init ==
    /\ count \in 0 .. MaxCount
    /\ scratch = [b \in {0, 1} |-> <<>>]
    /\ src = 2 /\ n = count /\ toggle = 0
    /\ at = <<>> /\ temp = <<>>
    /\ pc = "start" /\ result = EmptyBag

Goto(l) == pc' = l
Fail    == Goto("failed")

(* Nothing or one element is answered without the device. *)
Trivial ==
    /\ pc = "start" /\ count <= 1
    /\ result' = IF count = 0 THEN EmptyBag ELSE Array[1]
    /\ Goto("done")
    /\ UNCHANGED <<count, scratch, src, n, toggle, at, temp>>

SecondExact(first)    == first \div W
SecondCapacity(first) == Blocks(first) + 1

(* The scratch blocks: the first level's partials, then the second's.        *)
Allocate ==
    /\ pc = "start" /\ count > 1
    /\ \/ /\ scratch' = [b \in {0, 1} |->
               [i \in 1 .. IF b = 0 THEN Blocks(count) ELSE SecondCapacity(Blocks(count)) |-> Stale]]
          /\ Goto("level")
       \/ Fail /\ UNCHANGED scratch
    /\ UNCHANGED <<count, src, n, toggle, at, temp, result>>

UnfinishedAtOne == n >= 1
Unfinished      == n > 1

(* dispatch_reduce_level: a descriptor set and a submission, or false. *)
Dispatch ==
    /\ pc = "level" /\ Unfinished
    /\ \/ /\ at' = [g \in 1 .. Blocks(n) |-> "queued"]
          /\ temp' = [g \in 1 .. Blocks(n) |-> <<>>]
          /\ Goto("run")
       \/ Fail /\ UNCHANGED <<at, temp>>
    /\ UNCHANGED <<count, scratch, src, n, toggle, result>>

Load(g) ==
    /\ pc = "run" /\ at[g] = "queued"
    /\ temp' = [temp EXCEPT ![g] = Loaded(Source, n, g)]
    /\ at' = [at EXCEPT ![g] = "loaded"]
    /\ UNCHANGED <<count, scratch, src, n, toggle, pc, result>>

Store(g) ==
    /\ pc = "run" /\ at[g] = "loaded"
    /\ scratch' = [scratch EXCEPT ![toggle] =
                     [i \in DOMAIN @ |-> IF i = g THEN TreeSum(temp[g]) ELSE @[i]]]
    /\ at' = [at EXCEPT ![g] = "stored"]
    /\ UNCHANGED <<count, src, n, toggle, temp, pc, result>>

SameBlock  == toggle
OtherBlock == 1 - toggle

(* The sync() after the dispatch, and the next level. *)
NextLevel ==
    /\ pc = "run" /\ \A g \in Groups : at[g] = "stored"
    /\ src' = toggle /\ n' = Len(at) /\ toggle' = OtherBlock
    /\ at' = <<>> /\ temp' = <<>>
    /\ Goto("level")
    /\ UNCHANGED <<count, scratch, result>>

ReadResult ==
    /\ pc = "level" /\ ~Unfinished
    /\ result' = Source[1]
    /\ Goto("done")
    /\ UNCHANGED <<count, scratch, src, n, toggle, at, temp>>

Stopped == pc \in {"done", "failed"} /\ UNCHANGED vars

Next ==
    \/ Trivial \/ Allocate \/ Dispatch \/ NextLevel \/ ReadResult
    \/ \E g \in Groups : Load(g) \/ Store(g)
    \/ Stopped

Spec     == Init /\ [][Next]_vars
FairSpec == Spec /\ WF_vars(Next)

-------------------------------------------------------------------------------
(* A reduction that succeeds has added every element exactly once, whatever  *)
(* the count, the order of the workgroups and what the scratch blocks held   *)
(* before (reduce.comp: "the result is exact for the '+' identity").         *)
ReduceCorrect == pc = "done" => result = SetToBag(1 .. count)

(* Every partial of every level has a place in its scratch block.            *)
PartialsFit == pc = "run" => Len(at) <= Len(scratch[toggle])

(* No workgroup overwrites what another one of its level reads: a workgroup  *)
(* may be delayed for as long as the device likes between load and store.    *)
LevelsApart ==
    pc = "run" => \A g \in Groups : at[g] = "loaded" => temp[g] = Loaded(Source, n, g)

(* The loop ends: every level is smaller than the one before.                *)
ReduceReturns == <>(pc \in {"done", "failed"})
==============================================================================
