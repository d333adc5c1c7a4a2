------------------------------ MODULE PrefixScan ------------------------------
(***************************************************************************)
(* launch_scan and launch_exclusive_scan of src/kernel/kernel_launcher.cpp *)
(* with their kernels (src/shaders/scan.comp, scan_add.comp and the        *)
(* generated shift kernel): each level scans the blocks of its data in     *)
(* place, scans the block sums by calling itself, and adds them back.      *)
(***************************************************************************)
EXTENDS Workgroups, FiniteSets, SequencesExt

CONSTANT MaxCount   \* bound: elements in the array

ASSUME ScanAssumption == MaxCount \in Nat

VARIABLES
    op,             \* "inclusive" or "exclusive", or the operation that scans its flags
    bufs,           \* bufs[1] the data, bufs[k + 1] the blocksums of level k
    out,            \* output of an exclusive scan
    level,          \* depth of the recursion
    kernel,         \* the kernel dispatched, or to be dispatched next
    at, temp,       \* the workgroups in flight, and what each has loaded
    pc

vars == <<op, bufs, out, level, kernel, at, temp, pc>>

Groups == DOMAIN at
Data   == bufs[level]
Seed   == Input(0)              \* init of an exclusive scan

Init ==
    /\ op \in {"inclusive", "exclusive"}
    /\ \E count \in 0 .. MaxCount :
          /\ bufs = <<[i \in 1 .. count |-> Input(i)]>>
          /\ out = [i \in 1 .. IF op = "exclusive" THEN count ELSE 0 |-> Stale]
    /\ level = 1
    /\ kernel = "scan" /\ at = <<>> /\ temp = <<>>
    /\ pc = "enter"

Goto(l) == pc' = l
Fail    == Goto("failed")
NextKernel(k) == Goto("dispatch") /\ kernel' = k

(* launch_scan returns TRUE: to the level above, or to the operation. *)
ReturnScan ==
    \/ level > 1 /\ level' = level - 1 /\ NextKernel("add")
    \/ /\ level = 1 /\ op = "exclusive" /\ Len(Data) > 0
       /\ NextKernel("shift") /\ UNCHANGED level
    \/ /\ level = 1 /\ (op # "exclusive" \/ Len(Data) = 0)
       /\ Goto("done") /\ UNCHANGED <<level, kernel>>

(* The head of launch_scan: at most one element is scanned as it is; the     *)
(* block sums come from the arena, or the scan fails.                        *)
Enter ==
    /\ pc = "enter"
    /\ \/ Len(Data) <= 1 /\ ReturnScan /\ UNCHANGED bufs
       \/ /\ Len(Data) > 1
          /\ bufs' = Append(bufs, [g \in 1 .. Blocks(Len(Data)) |-> Stale])
          /\ NextKernel("scan") /\ UNCHANGED level
       \/ Len(Data) > 1 /\ Fail /\ UNCHANGED <<bufs, level, kernel>>
    /\ UNCHANGED <<op, out, at, temp>>

(* A descriptor set and a submission, or false. *)
Dispatch ==
    /\ pc = "dispatch"
    /\ \/ /\ at' = [g \in 1 .. Blocks(Len(Data)) |-> "queued"]
          /\ temp' = [g \in 1 .. Blocks(Len(Data)) |-> <<>>]
          /\ Goto("run")
       \/ Fail /\ UNCHANGED <<at, temp>>
    /\ UNCHANGED <<op, bufs, out, level, kernel>>

(* out[i] = init + (i > 0 ? incl[i - 1] : 0), and data[i] + offsets[wg - 1]. *)
Before(i) == IF i = 1 THEN Seed ELSE Seed (+) Data[i - 1]

OffsetInclusive(g) == bufs[level + 1][g]
Offset(g)          == IF g > 1 THEN bufs[level + 1][g - 1] ELSE EmptyBag

Reads(g) ==
    LET mine == Loaded(Data, Len(Data), g) IN
    CASE kernel = "scan"  -> mine
      [] kernel = "add"   -> [t \in 1 .. W |-> mine[t] (+) Offset(g)]
      [] kernel = "shift" -> [t \in 1 .. W |->
                                IF Global(g, t) <= Len(Data) THEN Before(Global(g, t)) ELSE EmptyBag]

Load(g) ==
    /\ pc = "run" /\ at[g] = "queued"
    /\ temp' = [temp EXCEPT ![g] = Reads(g)]
    /\ at' = [at EXCEPT ![g] = "loaded"]
    /\ UNCHANGED <<op, bufs, out, level, kernel, pc>>

(* What array s becomes when workgroup g stores the values v. *)
Stored(s, g, v) ==
    [i \in DOMAIN s |-> IF Global(g, 1) <= i /\ i <= Global(g, W)
                        THEN v[i - Global(g, 0)] ELSE s[i]]

ShiftInPlace(g) == bufs' = [bufs EXCEPT ![1] = Stored(@, g, temp[g])] /\ out' = bufs'[1]
ShiftOut(g)     == out' = Stored(out, g, temp[g]) /\ UNCHANGED bufs

Store(g) ==
    /\ pc = "run" /\ at[g] = "loaded"
    /\ \/ /\ kernel = "scan"
          /\ LET v == HillisSteele(temp[g])
             IN  bufs' = [bufs EXCEPT ![level] = Stored(@, g, v), ![level + 1][g] = v[W]]
          /\ UNCHANGED out
       \/ /\ kernel = "add"
          /\ bufs' = [bufs EXCEPT ![level] = Stored(@, g, temp[g])]
          /\ UNCHANGED out
       \/ kernel = "shift" /\ ShiftOut(g)
    /\ at' = [at EXCEPT ![g] = "stored"]
    /\ UNCHANGED <<op, level, kernel, temp, pc>>

(* The sync() after a dispatch.  Only several block sums need a scan of      *)
(* their own and adding back.                                                *)
Finish ==
    /\ pc = "run" /\ \A g \in Groups : at[g] = "stored"
    /\ \/ /\ kernel = "scan" /\ Len(bufs[level + 1]) > 1
          /\ level' = level + 1 /\ Goto("enter")
       \/ /\ kernel = "scan" /\ Len(bufs[level + 1]) <= 1
          /\ Goto("free") /\ UNCHANGED level
       \/ kernel = "add" /\ Goto("free") /\ UNCHANGED level
       \/ kernel = "shift" /\ Goto("done") /\ UNCHANGED level
    /\ at' = <<>> /\ temp' = <<>>
    /\ UNCHANGED <<op, bufs, out, kernel>>

FreeBlocksums ==
    /\ pc = "free"
    /\ bufs' = Front(bufs)
    /\ ReturnScan
    /\ UNCHANGED <<op, out, at, temp>>

Stopped == pc \in {"done", "failed"} /\ UNCHANGED vars

ScanStep ==
    \/ Enter \/ Dispatch \/ Finish \/ FreeBlocksums
    \/ \E g \in Groups : Load(g) \/ Store(g)

Next == ScanStep \/ Stopped

Spec == Init /\ [][Next]_vars

-------------------------------------------------------------------------------
(* A scan that succeeds leaves at every index the sum of the inputs up to    *)
(* it, each exactly once, and an exclusive one the init and those before it, *)
(* for any count and any depth of recursion.                                 *)
ScanCorrect ==
    pc = "done" =>
        /\ op = "inclusive" => \A i \in DOMAIN bufs[1] : bufs[1][i] = SetToBag(1 .. i)
        /\ op = "exclusive" => \A i \in DOMAIN out : out[i] = SetToBag(0 .. i - 1)

(* Workgroups of a dispatch do not see each other's stores: what one of them *)
(* has loaded is still what it would load now, until it stores itself.       *)
WorkgroupsApart ==
    pc = "run" => \A g \in Groups : at[g] = "loaded" => temp[g] = Reads(g)

(* A scan that succeeds has given every level's block sums back to the       *)
(* arena; one that fails has not (its early returns skip the deallocate).    *)
BlocksumsReturned == pc = "done" => Len(bufs) = 1
==============================================================================
