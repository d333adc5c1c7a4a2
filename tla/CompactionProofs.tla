--------------------------- MODULE CompactionProofs ---------------------------
(***************************************************************************)
(* launch_scan and launch_compact for every width of a workgroup, every    *)
(* count, any depth of the recursion and every predicate: what becomes of  *)
(* the scratch, what the workgroups of a dispatch see of each other, and   *)
(* that the scanned array and the compacted output are the right ones.     *)
(***************************************************************************)
EXTENDS Compaction, FiniteSetTheorems, WorkgroupsProofs

LEMMA AppendFacts ==
    ASSUME NEW s, NEW k \in Nat, s = [i \in 1 .. k |-> s[i]], NEW e
    PROVE  /\ Append(s, e) = [i \in 1 .. k + 1 |-> Append(s, e)[i]]
           /\ Append(s, e)[k + 1] = e
           /\ \A i \in 1 .. k : Append(s, e)[i] = s[i]
  <1>1. s \in Seq({s[i] : i \in 1 .. k} \cup {e})
    OBVIOUS
  <1>2. Len(s) = k
    BY LengthFacts
  <1> QED
    BY <1>1, <1>2

LEMMA FrontFacts ==
    ASSUME NEW s, NEW k \in Nat \ {0}, s = [i \in 1 .. k |-> s[i]]
    PROVE  Front(s) = [i \in 1 .. k - 1 |-> s[i]]
  <1>1. s \in Seq({s[i] : i \in 1 .. k})
    OBVIOUS
  <1>2. Len(s) = k
    BY LengthFacts
  <1>3. SubSeq(s, 1, k - 1) = [i \in 1 .. k - 1 |-> s[i]]
    BY <1>1, <1>2
  <1> QED
    BY <1>2, <1>3 DEF Front

-------------------------------------------------------------------------------
Sized(s) == Len(s) \in Nat /\ DOMAIN s = 1 .. Len(s)

(* A level that has begun owns its block sums until it gives them back. *)
Depth == IF pc \in {"dispatch", "run", "free"} /\ kernel \in {"scan", "add"}
         THEN level + 1 ELSE level

Abandoned == pc = "failed" \/ (pc = "returned" /\ ~ok)

Stack ==
    /\ pc \in {"compact", "flags", "enter", "dispatch", "run", "free", "done", "failed",
               "scatter", "returned"}
    /\ level \in Nat \ {0}
    /\ pc \in {"compact", "flags", "scatter", "done"} \/ (pc = "returned" /\ ok) => level = 1
    /\ pc \in {"dispatch", "run"} =>
          kernel \in {"scan", "add"} \/ (kernel = "shift" /\ level = 1)
    /\ pc = "free" => kernel \in {"scan", "add"}
    /\ ~Abandoned => bufs = [i \in 1 .. Depth |-> bufs[i]]
    /\ \A i \in DOMAIN bufs : Sized(bufs[i])

Positions == pc \in {"compact", "returned"} => ~held

States == {"queued", "loaded", "stored"}

Flight ==
    pc = "run" =>
        /\ at \in [1 .. Blocks(Len(Data)) -> States]
        /\ temp = [g \in 1 .. Blocks(Len(Data)) |-> temp[g]]

IInv == Stack /\ Positions /\ Flight /\ WorkgroupsApart

(* Steps between dispatches leave only the stack to look at. *)
LEMMA Quiet ==
    ASSUME Stack', Positions', pc' # "run"
    PROVE  IInv'
  BY DEF IInv, Flight, WorkgroupsApart

LEMMA SizedFacts ==
    ASSUME NEW s, NEW k \in Nat, DOMAIN s = 1 .. k
    PROVE  Sized(s) /\ Len(s) = k
  BY LengthFacts DEF Sized

LEMMA InitInv == CInit => IInv
  <1> SUFFICES ASSUME CInit PROVE IInv
    OBVIOUS
  <1>1. PICK k \in Nat : \E s : DOMAIN s = 1 .. k /\ bufs = <<s>>
    BY ScanAssumption DEF CInit, Init
  <1>5. PICK s : DOMAIN s = 1 .. k /\ bufs = <<s>>
    BY <1>1
  <1>2. bufs = [i \in 1 .. 1 |-> bufs[i]] /\ Sized(bufs[1])
    BY <1>5, SizedFacts
  <1>3. level = 1 /\ pc \in {"enter", "compact"} /\ ~held /\ Depth = 1
    BY DEF CInit, Init, Depth
  <1>4. Stack /\ Positions
    BY <1>2, <1>3 DEF Stack, Positions
  <1> QED
    BY <1>3, <1>4 DEF IInv, Flight, WorkgroupsApart

(* launch_scan returns to a level whose block sums are the top of the stack. *)
LEMMA ReturnScanStack ==
    ASSUME Stack, ReturnScan,
           bufs' = [i \in 1 .. level |-> bufs'[i]],
           \A i \in DOMAIN bufs' : Sized(bufs'[i])
    PROVE  Stack' /\ pc' \in {"dispatch", "done"}
  <1>1. /\ level \in Nat \ {0} /\ level' \in Nat \ {0}
        /\ Depth' = level /\ pc' \in {"dispatch", "done"}
        /\ pc' = "done" => level' = 1
        /\ pc' = "dispatch" => kernel' = "add" \/ (kernel' = "shift" /\ level' = 1)
    BY DEF ReturnScan, Stack, NextKernel, Goto, Depth
  <1> QED
    BY <1>1 DEF Stack, Abandoned

LEMMA EnterInv ==
    ASSUME IInv, Enter, UNCHANGED compVars
    PROVE  IInv'
  <1>1. /\ pc = "enter" /\ level \in Nat \ {0} /\ bufs = [i \in 1 .. level |-> bufs[i]]
        /\ \A i \in DOMAIN bufs : Sized(bufs[i])
    BY DEF Enter, IInv, Stack, Depth, Abandoned
  <1>2. CASE ReturnScan /\ UNCHANGED bufs
    BY <1>1, <1>2, ReturnScanStack, Quiet DEF IInv, Positions
  <1>3. CASE Fail /\ UNCHANGED <<bufs, level, kernel>>
    BY <1>1, <1>3, Quiet DEF Fail, Goto, IInv, Stack, Depth, Abandoned, Positions
  <1>4. CASE /\ bufs' = Append(bufs, [g \in 1 .. Blocks(Len(Data)) |-> Stale])
             /\ NextKernel("scan") /\ UNCHANGED level
    <2> DEFINE sums == [g \in 1 .. Blocks(Len(Data)) |-> Stale]
    <2>1. Blocks(Len(Data)) \in Nat
      BY <1>1, BlocksFacts DEF Data, Sized
    <2>2. Sized(sums)
      BY <2>1, SizedFacts
    <2>3. bufs' = Append(bufs, sums)
      BY <1>4
    <2> HIDE DEF sums
    <2>4. /\ bufs' = [i \in 1 .. level + 1 |-> bufs'[i]]
          /\ \A i \in DOMAIN bufs' : Sized(bufs'[i])
      BY <1>1, <2>2, <2>3, AppendFacts
    <2>5. /\ pc' = "dispatch" /\ kernel' = "scan" /\ level' = level /\ Depth' = level + 1
      BY <1>4 DEF NextKernel, Goto, Depth
    <2>6. Stack'
      BY <1>1, <2>4, <2>5 DEF Stack, Abandoned
    <2> QED
      BY <2>5, <2>6, Quiet DEF Positions
  <1> QED
    BY <1>2, <1>3, <1>4 DEF Enter

LEMMA FreeInv ==
    ASSUME IInv, FreeBlocksums, UNCHANGED compVars
    PROVE  IInv'
  <1>1. /\ pc = "free" /\ level \in Nat \ {0} /\ bufs = [i \in 1 .. level + 1 |-> bufs[i]]
        /\ \A i \in DOMAIN bufs : Sized(bufs[i])
    BY DEF FreeBlocksums, IInv, Stack, Depth, Abandoned
  <1>2. bufs' = [i \in 1 .. level |-> bufs[i]]
    <2>1. level + 1 \in Nat \ {0} /\ (level + 1) - 1 = level
      BY <1>1
    <2>2. Front(bufs) = [i \in 1 .. (level + 1) - 1 |-> bufs[i]]
      BY <1>1, <2>1, FrontFacts
    <2> QED
      BY <2>1, <2>2 DEF FreeBlocksums
  <1>3. bufs' = [i \in 1 .. level |-> bufs'[i]] /\ \A i \in DOMAIN bufs' : Sized(bufs'[i])
    BY <1>1, <1>2
  <1> QED
    BY <1>1, <1>3, ReturnScanStack, Quiet DEF FreeBlocksums, IInv, Positions

LEMMA DispatchInv ==
    ASSUME IInv, Dispatch, UNCHANGED compVars
    PROVE  IInv'
  <1>1. CASE Fail
    <2>1. pc' = "failed" /\ UNCHANGED <<bufs, level>>
      BY <1>1 DEF Dispatch, Fail, Goto
    <2>2. Stack' /\ Positions'
      BY <2>1 DEF IInv, Stack, Depth, Abandoned, Positions
    <2> QED
      BY <2>1, <2>2, Quiet
  <1>2. CASE ~Fail
    <2>1. /\ at' = [g \in 1 .. Blocks(Len(Data)) |-> "queued"]
          /\ temp' = [g \in 1 .. Blocks(Len(Data)) |-> <<>>]
          /\ pc = "dispatch" /\ pc' = "run" /\ UNCHANGED <<bufs, level, kernel>>
      BY <1>2 DEF Dispatch, Goto
    <2>2. Stack' /\ Positions'
      BY <2>1 DEF IInv, Stack, Depth, Abandoned, Positions
    <2>3. Flight' /\ WorkgroupsApart'
      BY <2>1 DEF Flight, WorkgroupsApart, States, Groups, Data, Blocks
    <2> QED
      BY <2>2, <2>3 DEF IInv
  <1> QED
    BY <1>1, <1>2

LEMMA RunFacts ==
    ASSUME IInv, pc = "run"
    PROVE  /\ level \in DOMAIN bufs /\ Sized(Data) /\ Blocks(Len(Data)) \in Nat
           /\ Groups = 1 .. Blocks(Len(Data)) /\ DOMAIN temp = Groups
  <1>1. level \in DOMAIN bufs /\ Sized(Data)
    BY DEF IInv, Stack, Depth, Abandoned, Data
  <1>2. Blocks(Len(Data)) \in Nat
    BY <1>1, BlocksFacts DEF Sized
  <1> QED
    BY <1>1, <1>2 DEF IInv, Flight, Groups

LEMMA LoadInv ==
    ASSUME IInv, NEW g \in Groups, Load(g), UNCHANGED compVars
    PROVE  IInv'
  <1>1. /\ pc = "run" /\ temp' = [temp EXCEPT ![g] = Reads(g)]
        /\ at' = [at EXCEPT ![g] = "loaded"]
        /\ UNCHANGED <<bufs, level, kernel, pc, Data>>
    BY DEF Load, Data
  <1>2. Stack' /\ Positions'
    BY <1>1 DEF IInv, Stack, Depth, Abandoned, Positions
  <1>3. Flight'
    BY <1>1 DEF IInv, Flight, States, Blocks
  <1>4. \A h \in Groups : Reads(h)' = Reads(h)
    BY <1>1 DEF Reads, Loaded, Offset, Before, Global
  <1>5. /\ temp'[g] = Reads(g) /\ Groups' = Groups
        /\ \A h \in Groups : h # g => temp'[h] = temp[h] /\ at'[h] = at[h]
    BY <1>1, RunFacts DEF Groups
  <1>6. WorkgroupsApart'
    BY <1>1, <1>4, <1>5 DEF IInv, WorkgroupsApart
  <1> QED
    BY <1>2, <1>3, <1>6 DEF IInv

(* What another workgroup reads is not what this one writes. *)
LEMMA StoredApart ==
    ASSUME NEW s, Sized(s), NEW v, NEW g \in Nat \ {0}, NEW h \in Nat \ {0}, g # h
    PROVE  /\ DOMAIN Stored(s, g, v) = DOMAIN s
           /\ Loaded(Stored(s, g, v), Len(s), h) = Loaded(s, Len(s), h)
  <1>1. DOMAIN Stored(s, g, v) = DOMAIN s
    BY DEF Stored
  <1>2. ASSUME NEW t \in 1 .. W, Global(h, t) <= Len(s)
        PROVE  Stored(s, g, v)[Global(h, t)] = s[Global(h, t)]
    <2>1. /\ Global(h, t) \in DOMAIN s
          /\ ~(Global(g, 1) <= Global(h, t) /\ Global(h, t) <= Global(g, W))
      BY <1>2, GroupsApart DEF Sized
    <2> QED
      BY <2>1 DEF Stored
  <1> QED
    BY <1>1, <1>2 DEF Loaded

LEMMA StoreFacts ==
    ASSUME IInv, NEW g \in Groups, Store(g)
    PROVE  /\ pc = "run" /\ UNCHANGED <<op, level, kernel, temp, pc>> /\ level \in Nat \ {0}
           /\ bufs = [i \in 1 .. Depth |-> bufs[i]]
           /\ kernel \in {"scan", "add"} => Depth = level + 1
           /\ kernel = "shift" => level = 1 /\ Depth = level
           /\ kernel \in {"scan", "add", "shift"}
  BY DEF Store, IInv, Stack, Depth, Abandoned

LEMMA ScanStored ==
    ASSUME IInv, NEW g \in Groups, Store(g), kernel = "scan"
    PROVE  /\ bufs'[level] = Stored(bufs[level], g, HillisSteele(temp[g]))
           /\ bufs'[level + 1] = [bufs[level + 1] EXCEPT ![g] = HillisSteele(temp[g])[W]]
           /\ bufs' = [i \in DOMAIN bufs |-> bufs'[i]]
           /\ \A i \in DOMAIN bufs : i # level /\ i # level + 1 => bufs'[i] = bufs[i]
           /\ UNCHANGED out
  <1> DEFINE v == HillisSteele(temp[g])
  <1>1. bufs' = [bufs EXCEPT ![level] = Stored(@, g, v), ![level + 1][g] = v[W]] /\ UNCHANGED out
    BY DEF Store
  <1> HIDE DEF v
  <1>2. level \in DOMAIN bufs /\ level + 1 \in DOMAIN bufs /\ level # level + 1
    BY StoreFacts
  <1> DEFINE first == Stored(bufs[level], g, v)
             low == [bufs EXCEPT ![level] = first]
             second == [low[level + 1] EXCEPT ![g] = v[W]]
  <1>3. bufs' = [low EXCEPT ![level + 1] = second]
    BY <1>1
  <1>4. low[level + 1] = bufs[level + 1]
    BY <1>2
  <1>5. second = [bufs[level + 1] EXCEPT ![g] = v[W]]
    BY <1>4
  <1> HIDE DEF first, second
  <1>6. /\ bufs'[level] = first /\ bufs'[level + 1] = second
        /\ bufs' = [i \in DOMAIN bufs |-> bufs'[i]]
        /\ \A i \in DOMAIN bufs : i # level /\ i # level + 1 => bufs'[i] = bufs[i]
    BY <1>2, <1>3
  <1> QED
    BY <1>1, <1>5, <1>6 DEF first, v

LEMMA AddStored ==
    ASSUME IInv, NEW g \in Groups, Store(g), kernel = "add"
    PROVE  /\ bufs'[level] = Stored(bufs[level], g, temp[g])
           /\ bufs' = [i \in DOMAIN bufs |-> bufs'[i]]
           /\ \A i \in DOMAIN bufs : i # level => bufs'[i] = bufs[i]
           /\ level + 1 \in DOMAIN bufs /\ level \in DOMAIN bufs
           /\ UNCHANGED out
  <1>1. bufs' = [bufs EXCEPT ![level] = Stored(@, g, temp[g])] /\ UNCHANGED out
    BY DEF Store
  <1>2. level \in DOMAIN bufs /\ level + 1 \in DOMAIN bufs
    BY StoreFacts
  <1> QED
    BY <1>1, <1>2, StoreFacts

LEMMA StoreEffect ==
    ASSUME IInv, NEW g \in Groups, Store(g)
    PROVE  /\ DOMAIN bufs' = DOMAIN bufs
           /\ \A i \in DOMAIN bufs : DOMAIN bufs'[i] = DOMAIN bufs[i]
           /\ bufs' = [i \in DOMAIN bufs |-> bufs'[i]]
           /\ \/ UNCHANGED Data
              \/ \E v : kernel \in {"scan", "add"} /\ Data' = Stored(Data, g, v)
           /\ kernel = "add" => bufs'[level + 1] = bufs[level + 1]
  <1>1. CASE kernel = "scan"
    <2> DEFINE v == HillisSteele(temp[g])
    <2>1. /\ bufs'[level] = Stored(bufs[level], g, v)
          /\ bufs'[level + 1] = [bufs[level + 1] EXCEPT ![g] = v[W]]
          /\ bufs' = [i \in DOMAIN bufs |-> bufs'[i]]
          /\ \A i \in DOMAIN bufs : i # level /\ i # level + 1 => bufs'[i] = bufs[i]
      BY <1>1, ScanStored
    <2> HIDE DEF v
    <2>2. \A i \in DOMAIN bufs : DOMAIN bufs'[i] = DOMAIN bufs[i]
      BY <2>1 DEF Stored
    <2>3. Data' = Stored(Data, g, v)
      BY <2>1, StoreFacts DEF Data
    <2> QED
      BY <1>1, <2>1, <2>2, <2>3
  <1>2. CASE kernel = "add"
    <2>1. \A i \in DOMAIN bufs : DOMAIN bufs'[i] = DOMAIN bufs[i]
      BY <1>2, AddStored DEF Stored
    <2>2. Data' = Stored(Data, g, temp[g]) /\ bufs'[level + 1] = bufs[level + 1]
      BY <1>2, AddStored, StoreFacts DEF Data
    <2> QED
      BY <1>2, <2>1, <2>2, AddStored
  <1>3. CASE kernel = "shift"
    BY <1>3, StoreFacts DEF Store, ShiftOut, Data
  <1> QED
    BY <1>1, <1>2, <1>3, StoreFacts

LEMMA StoreInv ==
    ASSUME IInv, NEW g \in Groups, Store(g), UNCHANGED compVars
    PROVE  IInv'
  <1>1. /\ pc = "run" /\ at' = [at EXCEPT ![g] = "stored"]
        /\ UNCHANGED <<level, kernel, temp, pc>>
    BY DEF Store
  <1>2. \A i \in DOMAIN bufs : Sized(bufs'[i]) /\ Len(bufs'[i]) = Len(bufs[i])
    BY StoreEffect, SizedFacts DEF IInv, Stack, Sized
  <1>3. Stack' /\ Positions'
    BY <1>1, <1>2, StoreEffect DEF IInv, Stack, Depth, Abandoned, Positions
  <1>4. Sized(Data) /\ Len(Data') = Len(Data) /\ Groups = 1 .. Blocks(Len(Data))
    BY <1>1, <1>2, RunFacts DEF Data
  <1>5. Flight'
    BY <1>1, <1>4 DEF IInv, Flight, States, Blocks
  <1>6. ASSUME NEW h \in Groups, h # g
        PROVE  /\ Loaded(Data, Len(Data), h)' = Loaded(Data, Len(Data), h)
               /\ kernel = "add" => Offset(h)' = Offset(h)
               /\ kernel = "shift" => UNCHANGED Data
    <2>1. g \in Nat \ {0} /\ h \in Nat \ {0}
      BY <1>1, RunFacts
    <2>2. CASE UNCHANGED Data
      BY <1>1, <2>2, StoreEffect DEF Loaded, Global, Offset
    <2>3. ASSUME NEW v, kernel \in {"scan", "add"}, Data' = Stored(Data, g, v)
          PROVE  /\ Loaded(Data, Len(Data), h)' = Loaded(Data, Len(Data), h)
                 /\ kernel = "add" => Offset(h)' = Offset(h)
      <3>1. Loaded(Data', Len(Data), h) = Loaded(Data, Len(Data), h)
        <4>1. Loaded(Stored(Data, g, v), Len(Data), h) = Loaded(Data, Len(Data), h)
          BY <1>4, <1>6, <2>1, StoredApart
        <4> QED
          BY <2>3, <4>1
      <3>2. Loaded(Data, Len(Data), h)' = Loaded(Data', Len(Data), h)
        BY <1>4 DEF Loaded, Global
      <3>3. kernel = "add" => Offset(h)' = Offset(h)
        BY <1>1, StoreEffect DEF Offset
      <3> QED
        BY <3>1, <3>2, <3>3
    <2> QED
      BY <2>2, <2>3, StoreEffect
  <1>7. \A h \in Groups : h # g => Reads(h)' = Reads(h)
    <2> SUFFICES ASSUME NEW h \in Groups, h # g PROVE Reads(h)' = Reads(h)
      OBVIOUS
    <2>1. CASE kernel = "scan"
      BY <1>1, <1>6, <2>1 DEF Reads
    <2>2. CASE kernel = "add"
      BY <1>1, <1>6, <2>2 DEF Reads
    <2>3. CASE kernel = "shift"
      BY <1>1, <1>6, <2>3 DEF Reads, Before, Global
    <2> QED
      BY <1>1, <2>1, <2>2, <2>3 DEF IInv, Stack
  <1>8. /\ at'[g] = "stored" /\ Groups' = Groups
        /\ \A h \in Groups : h # g => at'[h] = at[h]
    BY <1>1 DEF Groups
  <1>9. WorkgroupsApart'
    BY <1>1, <1>7, <1>8 DEF IInv, WorkgroupsApart
  <1> QED
    BY <1>3, <1>5, <1>9 DEF IInv

LEMMA FinishInv ==
    ASSUME IInv, Finish, UNCHANGED compVars
    PROVE  IInv'
  BY Quiet DEF Finish, Goto, IInv, Stack, Depth, Abandoned, Positions

(* The steps of launch_compact itself. *)
LEMMA FlagInv ==
    ASSUME IInv, NEW g \in Groups, Flag(g)
    PROVE  IInv'
  <1>1. /\ pc = "flags" /\ UNCHANGED <<level, kernel, pc, compVars>>
        /\ bufs = [i \in 1 .. 1 |-> bufs[i]] /\ Sized(bufs[1]) /\ level = 1
    BY DEF Flag, IInv, Stack, Depth, Abandoned
  <1>2. DOMAIN bufs' = 1 .. 1 /\ bufs' = [i \in 1 .. 1 |-> bufs'[i]] /\ DOMAIN bufs'[1] = DOMAIN bufs[1]
    BY <1>1 DEF Flag
  <1>3. Sized(bufs'[1])
    BY <1>1, <1>2, SizedFacts DEF Sized
  <1> QED
    BY <1>1, <1>2, <1>3, Quiet DEF IInv, Stack, Depth, Abandoned, Positions, compVars

LEMMA CompactInv ==
    ASSUME IInv, AllocatePositions \/ DispatchGroups \/ GroupsDone \/ Scanned
    PROVE  IInv'
  <1>1. pc' # "run" /\ UNCHANGED <<bufs, level, kernel>>
    BY DEF AllocatePositions, DispatchGroups, GroupsDone, Scanned, Finished, FreePositions,
           Return, Goto
  <1>2. Stack' /\ Positions'
    BY <1>1 DEF AllocatePositions, DispatchGroups, GroupsDone, Scanned, Finished, FreePositions,
                Return, Goto, IInv, Stack, Depth, Abandoned, Positions
  <1> QED
    BY <1>1, <1>2, Quiet

LEMMA NextInv == IInv /\ [CNext]_cVars => IInv'
  <1> SUFFICES ASSUME IInv, [CNext]_cVars PROVE IInv'
    OBVIOUS
  <1>1. CASE UNCHANGED cVars
    BY <1>1 DEF cVars, vars, compVars, IInv, Stack, Depth, Abandoned, Positions, Flight,
                WorkgroupsApart, Groups, Data, Blocks, Reads, Loaded, Offset, Before, Global
  <1>2. CASE ScanStep /\ UNCHANGED compVars
    BY <1>2, EnterInv, FreeInv, DispatchInv, FinishInv, LoadInv, StoreInv DEF ScanStep
  <1>3. ASSUME NEW g \in Groups, ScatterGroup(g) PROVE IInv'
    BY <1>3, Quiet DEF ScatterGroup, IInv, Stack, Depth, Abandoned, Positions
  <1> QED
    BY <1>1, <1>2, <1>3, FlagInv, CompactInv DEF CNext, CStopped

LEMMA InvHolds == CSpec => []IInv
  BY InitInv, NextInv, PTL DEF CSpec

(* A scan or compaction that succeeds has given back the block sums of every *)
(* level and the positions, and a failed compaction its positions            *)
(* (kernel_launcher.cpp:1341-1342 and 1745-1760).                            *)
THEOREM ScratchGivenBack == CSpec => []ScratchReturned
  <1>1. IInv => ScratchReturned
    BY LengthFacts
    DEF IInv, Stack, Depth, Abandoned, Positions, ScratchReturned, BlocksumsReturned
  <1> QED
    BY <1>1, InvHolds, PTL

(* What a workgroup of any kernel of a scan reads is not written by another  *)
(* workgroup of its dispatch, in place or not.                               *)
THEOREM GroupsIndependent == CSpec => []WorkgroupsApart
  <1>1. IInv => WorkgroupsApart
    BY DEF IInv
  <1> QED
    BY <1>1, InvHolds, PTL
-------------------------------------------------------------------------------
(* What a scan has added up.  Every level scans elements that stand for      *)
(* disjoint sets of inputs, P[k][i] at level k: at the first level the input *)
(* itself, or nothing when the predicate drops it; at the next the inputs of *)
(* a workgroup of the level below.                                           *)
In(i) == IF Compacts THEN {i} \cap keeps ELSE {i}

Members(g, m) == {i \in 1 .. m : Global(g, 1) <= i /\ i <= Global(g, W)}
Of(k, g)      == Members(g, Len(bufs[k]))
All(k)        == 1 .. Len(bufs[k])

(* Elements that are as they were at the start of the level, that are        *)
(* scanned within their workgroup, and that are scanned.                     *)
Raw(P, k, I)        == \A i \in I : bufs[k][i] = SetToBag(P[k][i])
Partial(P, k, g, I) == \A i \in I : bufs[k][i] = SetToBag(Added(P[k], Global(g, 1) .. i))
Full(P, k, I)       == \A i \in I : bufs[k][i] = SetToBag(Added(P[k], 1 .. i))
Shifted(I)          == \A i \in I : out[i] = SetToBag(0 .. i - 1)

Tower(P) ==
    /\ P[1] = [i \in 1 .. Count |-> In(i)]
    /\ \A k \in 1 .. Depth : DOMAIN P[k] = All(k) /\ Apart(P[k])
    /\ \A k \in 1 .. Depth - 1 :
          /\ Len(bufs[k + 1]) = Blocks(Len(bufs[k]))
          /\ \A g \in All(k + 1) : P[k + 1][g] = Added(P[k], Of(k, g))

Below(P) ==
    \A k \in 1 .. level - 1 :
       \A g \in 1 .. Blocks(Len(bufs[k])) : Partial(P, k, g, Of(k, g))

Written(g) == pc = "run" /\ at[g] = "stored"

Scanning(P, g) ==
    IF Written(g)
    THEN Partial(P, level, g, Of(level, g)) /\ bufs[level + 1][g] = SetToBag(P[level + 1][g])
    ELSE Raw(P, level, Of(level, g))

Adding(P, g) ==
    IF Written(g) THEN Full(P, level, Of(level, g)) ELSE Partial(P, level, g, Of(level, g))

Shifting(g) == Written(g) => Shifted(Of(1, g))

Here(P) ==
    /\ pc = "enter" => Raw(P, level, All(level))
    /\ pc \in {"dispatch", "run"} /\ kernel = "scan" =>
          \A g \in 1 .. Blocks(Len(bufs[level])) : Scanning(P, g)
    /\ pc \in {"dispatch", "run"} /\ kernel = "add" =>
          /\ Full(P, level + 1, All(level + 1))
          /\ \A g \in 1 .. Blocks(Len(bufs[level])) : Adding(P, g)
    /\ pc \in {"dispatch", "run"} /\ kernel = "shift" =>
          /\ op = "exclusive" /\ Full(P, 1, All(1))
          /\ \A g \in 1 .. Blocks(Len(bufs[1])) : Shifting(g)
    /\ pc = "free" => Full(P, level, All(level))
    /\ pc \in {"done", "scatter"} => Full(P, 1, All(1))
    /\ pc = "done" /\ op = "exclusive" => Shifted(All(1))
    /\ pc = "flags" => \A g \in Groups : at[g] = "stored" => Raw(P, 1, Of(1, g))

Shape ==
    /\ op \in {"inclusive", "exclusive", "copy_if", "partition"}
    /\ op = "exclusive" => DOMAIN out = 1 .. Count
    /\ pc \in {"compact", "flags", "scatter"} => Compacts
    /\ pc \in {"flags", "scatter"} => at = <<>> \/ at \in [1 .. Blocks(Count) -> States]
    /\ pc \in {"enter", "dispatch", "free", "done"} => at = <<>>

Adds(P) == Tower(P) /\ Below(P) /\ Here(P)

Sums == Shape /\ (pc \notin {"failed", "returned"} => \E P : Adds(P))

LEMMA EveryMember ==
    ASSUME NEW m \in Nat, NEW i \in 1 .. m
    PROVE  \E g \in 1 .. Blocks(m) : i \in Members(g, m)
  <1>1. PICK g \in 1 .. Blocks(m) : \E t \in 1 .. W : Global(g, t) = i
    BY EveryElementLoaded
  <1>2. PICK t \in 1 .. W : Global(g, t) = i
    BY <1>1
  <1>3. W \in Nat /\ W >= 2 /\ Blocks(m) \in Nat
    BY BlocksFacts
  <1>4. (g - 1) * W \in Nat
    BY <1>3
  <1>5. Global(g, 1) <= i /\ i <= Global(g, W)
    BY <1>2, <1>3, <1>4 DEF Global
  <1> QED
    BY <1>5 DEF Members

LEMMA MembersApart ==
    ASSUME NEW g \in Nat \ {0}, NEW h \in Nat \ {0}, g # h, NEW m \in Nat
    PROVE  Members(g, m) \cap Members(h, m) = {}
  <1> SUFFICES ASSUME NEW i \in Members(g, m), i \in Members(h, m) PROVE FALSE
    OBVIOUS
  <1>1. W \in Nat /\ W >= 2 /\ (h - 1) * W \in Nat /\ i \in Nat
    BY WorkgroupAssumption DEF Members
  <1>2. i - (h - 1) * W \in 1 .. W /\ Global(h, i - (h - 1) * W) = i
    BY <1>1 DEF Members, Global
  <1>3. ~(Global(g, 1) <= i /\ i <= Global(g, W))
    BY <1>2, GroupsApart
  <1> QED
    BY <1>3 DEF Members

(* Where the elements of the first workgroups end. *)
LEMMA MembersBefore ==
    ASSUME NEW g \in Nat \ {0}, NEW m \in Nat, NEW i \in Members(g, m)
    PROVE  /\ UNION {Members(h, m) : h \in 1 .. g - 1} = 1 .. Global(g, 0)
           /\ Global(g, 0) \in Nat /\ Global(g, 1) = Global(g, 0) + 1
           /\ Global(g, 0) < i /\ i - Global(g, 0) \in 1 .. W
  <1>1. W \in Nat /\ W >= 2 /\ (g - 1) * W \in Nat /\ i \in 1 .. m /\ i > (g - 1) * W
    BY WorkgroupAssumption DEF Members, Global
  <1>2. ASSUME NEW h \in 1 .. g - 1, NEW j \in Members(h, m) PROVE j \in 1 .. Global(g, 0)
    <2>1. (h - 1) * W \in Nat /\ (h - 1) * W + W = h * W /\ h * W <= (g - 1) * W
      BY <1>1
    <2> QED
      BY <1>1, <2>1 DEF Members, Global
  <1>3. ASSUME NEW j \in 1 .. Global(g, 0) PROVE \E h \in 1 .. g - 1 : j \in Members(h, m)
    <2>1. j \in 1 .. m /\ j <= (g - 1) * W
      BY <1>1 DEF Global
    <2>2. PICK h \in 1 .. Blocks(m) : j \in Members(h, m)
      BY <2>1, EveryMember
    <2>3. h \in Nat \ {0} /\ j >= (h - 1) * W + 1 /\ (h - 1) * W \in Nat
      BY <1>1, <2>2, BlocksFacts DEF Members, Global
    <2>4. h >= g => (h - 1) * W >= (g - 1) * W
      BY <1>1, <2>3
    <2> QED
      BY <1>1, <2>1, <2>2, <2>3, <2>4
  <1>4. UNION {Members(h, m) : h \in 1 .. g - 1} = 1 .. Global(g, 0)
    BY <1>2, <1>3
  <1>5. Global(g, 0) = (g - 1) * W /\ Global(g, 1) = (g - 1) * W + 1 /\ Global(g, W) = (g - 1) * W + W
    BY <1>1 DEF Global
  <1>6. i <= Global(g, W)
    BY DEF Members
  <1> QED
    BY <1>1, <1>4, <1>5, <1>6

LEMMA StackFacts ==
    ASSUME IInv, ~Abandoned
    PROVE  /\ level \in Nat \ {0} /\ Depth \in Nat /\ level <= Depth /\ Depth <= level + 1
           /\ DOMAIN bufs = 1 .. Depth
           /\ \A k \in 1 .. Depth : Len(bufs[k]) \in Nat /\ DOMAIN bufs[k] = All(k)
  BY DEF IInv, Stack, Depth, Sized, All

LEMMA TowerKept ==
    ASSUME NEW P, Tower(P), UNCHANGED <<op, keeps>>, Depth \in Nat,
           NEW e \in 1 .. Depth, Depth' = e, \A k \in 1 .. e : Len(bufs'[k]) = Len(bufs[k])
    PROVE  Tower(P)' /\ Count' = Count
  <1>1. Count' = Count /\ \A i : In(i)' = In(i)
    BY DEF Count, In, Compacts
  <1>2. \A k \in 1 .. e : k \in 1 .. Depth /\ All(k)' = All(k)
    BY DEF All
  <1>3. \A k \in 1 .. e - 1 : k \in 1 .. Depth - 1 /\ k + 1 \in 1 .. e /\ k \in 1 .. e
    OBVIOUS
  <1>4. \A k \in 1 .. e : \A g : Of(k, g)' = Of(k, g)
    BY DEF Of, Members, Global
  <1>5. P[1] = [i \in 1 .. Count' |-> In(i)']
    BY <1>1 DEF Tower
  <1>6. \A k \in 1 .. e : DOMAIN P[k] = All(k)' /\ Apart(P[k])
    BY <1>2 DEF Tower
  <1>7. ASSUME NEW k \in 1 .. e - 1
        PROVE  /\ Len(bufs'[k + 1]) = Blocks(Len(bufs'[k]))
               /\ \A g \in All(k + 1)' : P[k + 1][g] = Added(P[k], Of(k, g)')
    <2>1. k \in 1 .. Depth - 1 /\ k + 1 \in 1 .. e /\ k \in 1 .. e
      BY <1>3
    <2>2. /\ Len(bufs[k + 1]) = Blocks(Len(bufs[k]))
          /\ \A g \in All(k + 1) : P[k + 1][g] = Added(P[k], Of(k, g))
      BY <2>1 DEF Tower
    <2>3. All(k + 1)' = All(k + 1) /\ \A g : Of(k, g)' = Of(k, g)
      BY <1>2, <1>4, <2>1
    <2> QED
      BY <2>1, <2>2, <2>3
  <1> QED
    BY <1>1, <1>5, <1>6, <1>7 DEF Tower, Blocks

(* Back at the level above, with this one scanned. *)
LEMMA ReturnScanAdds ==
    ASSUME IInv, ~Abandoned, NEW P, Tower(P), Below(P), Full(P, level, All(level)), ReturnScan,
           UNCHANGED <<op, out, keeps>>, \A k \in 1 .. level : bufs'[k] = bufs[k]
    PROVE  Adds(P)' /\ Count' = Count
  <1>1. /\ level \in Nat \ {0} /\ Depth \in Nat /\ level <= Depth
        /\ Depth' = level /\ pc' \in {"dispatch", "done"}
    BY StackFacts DEF ReturnScan, NextKernel, Goto, Depth
  <1>2. Tower(P)' /\ Count' = Count
    BY <1>1, TowerKept
  <1>3. \A k \in 1 .. level : All(k)' = All(k) /\ \A g : Of(k, g)' = Of(k, g)
    BY DEF All, Of, Members, Global
  <1>4. \A k \in 1 .. level : \A g : Partial(P, k, g, Of(k, g)) => Partial(P, k, g, Of(k, g))'
    BY <1>3 DEF Partial, Global
  <1>5. Full(P, level, All(level)) => Full(P, level, All(level))
    OBVIOUS
  <1>6. \A i \in All(level) : bufs'[level][i] = SetToBag(Added(P[level], 1 .. i))
    BY <1>1 DEF Full
  <1>7. CASE level > 1 /\ level' = level - 1 /\ NextKernel("add")
    <2>1. Below(P)'
      <3>1. \A k \in 1 .. level' - 1 : k \in 1 .. level - 1 /\ k \in 1 .. level
        BY <1>1, <1>7
      <3>2. \A k \in 1 .. level : Blocks(Len(bufs[k]))' = Blocks(Len(bufs[k]))
        BY DEF Blocks
      <3> QED
        BY <1>4, <3>1, <3>2 DEF Below
    <2>2. Full(P, level + 1, All(level + 1))'
      <3>1. level' + 1 = level /\ level \in 1 .. level /\ bufs'[level] = bufs[level]
        BY <1>1, <1>7
      <3> QED
        BY <1>6, <3>1 DEF Full, All
    <2>3. \A g \in 1 .. Blocks(Len(bufs'[level'])) : Adding(P, g)'
      <3>1. PICK k \in 1 .. level - 1 : k = level' /\ k \in 1 .. level /\ pc' # "run"
        BY <1>1, <1>7 DEF NextKernel, Goto
      <3>2. \A g \in 1 .. Blocks(Len(bufs[k])) : Partial(P, k, g, Of(k, g))
        BY DEF Below
      <3>3. \A g \in 1 .. Blocks(Len(bufs'[k])) : Partial(P, k, g, Of(k, g))'
        BY <1>4, <3>1, <3>2
      <3> QED
        BY <3>1, <3>3 DEF Adding, Written, Partial, Of, Members, Global
    <2>4. pc' = "dispatch" /\ kernel' = "add"
      BY <1>7 DEF NextKernel, Goto
    <2>5. Here(P)'
      BY <2>2, <2>3, <2>4 DEF Here, Blocks
    <2> QED
      BY <1>2, <2>1, <2>5 DEF Adds
  <1>8. CASE level = 1 /\ level' = 1
    <2>1. Below(P)'
      BY <1>8 DEF Below
    <2>2. Full(P, 1, All(1))'
      BY <1>3, <1>6, <1>8 DEF Full
    <2>3. CASE op = "exclusive" /\ NextKernel("shift")
      BY <1>2, <1>8, <2>1, <2>2, <2>3 DEF Adds, Here, NextKernel, Goto, Shifting, Written
    <2>4. CASE (op # "exclusive" \/ Len(Data) = 0) /\ pc' = "done"
      <3>1. op' = "exclusive" => Shifted(All(1))'
        BY <1>3, <1>8, <2>4 DEF Data, All, Shifted
      <3> QED
        BY <1>2, <1>8, <2>1, <2>2, <2>4, <3>1 DEF Adds, Here
    <2> QED
      BY <1>8, <2>3, <2>4 DEF ReturnScan, Goto
  <1> QED
    BY <1>1, <1>7, <1>8 DEF ReturnScan
LEMMA EnterAdds ==
    ASSUME IInv, NEW P, Adds(P), Shape, Enter, UNCHANGED compVars
    PROVE  (pc' = "failed" \/ \E Q : Adds(Q)') /\ Count' = Count
  <1>1. /\ pc = "enter" /\ ~Abandoned /\ Depth = level /\ UNCHANGED <<op, out, keeps>>
        /\ Raw(P, level, All(level)) /\ Tower(P) /\ Below(P)
    BY DEF Enter, Abandoned, Depth, Adds, Here, compVars
  <1>2. /\ level \in Nat \ {0} /\ DOMAIN bufs = 1 .. level
        /\ \A k \in 1 .. level : Len(bufs[k]) \in Nat /\ DOMAIN bufs[k] = All(k)
        /\ bufs = [i \in 1 .. level |-> bufs[i]]
    BY <1>1, StackFacts DEF IInv, Stack
  <1>3. CASE Len(Data) <= 1 /\ ReturnScan /\ UNCHANGED bufs
    <2>1. Full(P, level, All(level))
      <3>1. ASSUME NEW i \in All(level) PROVE i = 1
        BY <1>2, <1>3 DEF Data, All
      <3>2. Added(P[level], 1 .. 1) = P[level][1]
        BY DEF Added
      <3> QED
        BY <1>1, <3>1, <3>2 DEF Full, Raw
    <2> QED
      BY <1>1, <1>3, <2>1, ReturnScanAdds
  <1>4. CASE Fail /\ UNCHANGED bufs
    BY <1>4 DEF Fail, Goto, Count
  <1>5. CASE /\ bufs' = Append(bufs, [g \in 1 .. Blocks(Len(Data)) |-> Stale])
             /\ NextKernel("scan") /\ UNCHANGED level
    <2> DEFINE b == Blocks(Len(Data))
               sums == [g \in 1 .. b |-> Stale]
    <2>1. b \in Nat /\ Len(sums) = b
      BY <1>2, BlocksFacts, LengthFacts DEF Data
    <2>2. PICK l \in Nat \ {0} : l = level
      BY <1>2
    <2>3. /\ \A k \in 1 .. l : bufs'[k] = bufs[k] /\ DOMAIN P[k] = All(k) /\ Apart(P[k])
          /\ bufs'[l + 1] = sums
      BY <1>1, <1>2, <1>5, <2>2, AppendFacts DEF Tower
    <2>4. Depth' = l + 1 /\ level' = l /\ pc' = "dispatch" /\ kernel' = "scan"
      BY <1>5, <2>2 DEF NextKernel, Goto, Depth
    <2>5. Count' = Count
      BY <2>3 DEF Count
    <2>6. PICK Q : /\ \A k \in 1 .. l : Q[k] = P[k]
                   /\ Q[l + 1] = [g \in 1 .. b |-> Added(P[l], Of(l, g))]
      <3> DEFINE Q == [k \in 1 .. l + 1 |-> IF k = l + 1 THEN [g \in 1 .. b |-> Added(P[l], Of(l, g))]
                                            ELSE P[k]]
      <3>1. /\ \A k \in 1 .. l : Q[k] = P[k]
            /\ Q[l + 1] = [g \in 1 .. b |-> Added(P[l], Of(l, g))]
        OBVIOUS
      <3> HIDE DEF Q
      <3> QED
        BY <3>1
    <2> HIDE DEF sums
    <2>7. /\ \A k \in 1 .. l : All(k)' = All(k) /\ \A g : Of(k, g)' = Of(k, g)
          /\ \A k : k = l + 1 => All(k)' = 1 .. b
      BY <2>1, <2>3 DEF All, Of, Members, Global
    <2>8. Apart(Q[l + 1])
      <3> SUFFICES ASSUME NEW g \in 1 .. b, NEW h \in 1 .. b, g # h
                   PROVE  Added(P[l], Of(l, g)) \cap Added(P[l], Of(l, h)) = {}
        BY <2>6 DEF Apart
      <3>1. Of(l, g) \cap Of(l, h) = {}
        BY <1>2, <2>1, <2>2, MembersApart DEF Of
      <3>2. Of(l, g) \in SUBSET DOMAIN P[l] /\ Of(l, h) \in SUBSET DOMAIN P[l]
        BY <2>3 DEF Of, Members, All
      <3> QED
        BY <2>3, <3>1, <3>2 DEF Added, Apart
    <2>9. Tower(Q)'
      <3>1. Q[1] = [i \in 1 .. Count' |-> In(i)']
        <4>1. Q[1] = P[1]
          BY <2>6
        <4>2. \A i : In(i)' = In(i)
          BY <1>1 DEF In, Compacts
        <4> QED
          BY <1>1, <2>5, <4>1, <4>2 DEF Tower
      <3>2. ASSUME NEW k \in 1 .. l + 1 PROVE DOMAIN Q[k] = All(k)' /\ Apart(Q[k])
        <4>1. CASE k \in 1 .. l
          BY <4>1, <2>3, <2>6, <2>7
        <4>2. CASE k = l + 1
          BY <4>2, <2>6, <2>7, <2>8
        <4> QED
          BY <4>1, <4>2
      <3>3. ASSUME NEW k \in 1 .. l
            PROVE  /\ Len(bufs'[k + 1]) = Blocks(Len(bufs'[k]))
                   /\ \A g \in All(k + 1)' : Q[k + 1][g] = Added(Q[k], Of(k, g)')
        <4>1. CASE k = l
          <5>1. Len(bufs'[l + 1]) = Blocks(Len(bufs'[l]))
            BY <2>1, <2>2, <2>3 DEF Data, sums
          <5> HIDE DEF b
          <5> QED
            BY <4>1, <5>1, <2>6, <2>7
        <4>2. CASE k # l
          <5>1. k \in 1 .. Depth - 1 /\ k + 1 \in 1 .. l
            BY <1>1, <2>2, <4>2
          <5>2. /\ Len(bufs[k + 1]) = Blocks(Len(bufs[k]))
                /\ \A g \in All(k + 1) : P[k + 1][g] = Added(P[k], Of(k, g))
            BY <1>1, <5>1 DEF Tower
          <5> QED
            BY <2>3, <2>6, <2>7, <5>1, <5>2
        <4> QED
          BY <4>1, <4>2
      <3>4. Depth' - 1 = l
        BY <2>4
      <3> QED
        BY <2>4, <3>1, <3>2, <3>3, <3>4 DEF Tower, Blocks
    <2>10. Below(Q)'
      <3>1. ASSUME NEW k \in 1 .. l - 1, NEW g \in 1 .. Blocks(Len(bufs[k]))
            PROVE  Partial(Q, k, g, Of(k, g))' /\ bufs'[k] = bufs[k]
        <4>1. k \in 1 .. l /\ Partial(P, k, g, Of(k, g))
          BY <1>1, <2>2 DEF Below
        <4>2. bufs'[k] = bufs[k] /\ Q[k] = P[k] /\ Of(k, g)' = Of(k, g)
          BY <2>3, <2>6, <2>7, <4>1
        <4> QED
          BY <4>1, <4>2 DEF Partial, Global
      <3>2. level' - 1 = l - 1 /\ \A k \in 1 .. l - 1 : k \in 1 .. l
        BY <2>4
      <3> QED
        BY <2>3, <3>1, <3>2 DEF Below, Blocks
    <2>11. \A g : Scanning(Q, g)'
      <3> SUFFICES ASSUME NEW g PROVE Scanning(Q, g)'
        OBVIOUS
      <3>1. bufs'[l] = bufs[l] /\ Q[l] = P[l] /\ Of(l, g)' = Of(l, g)
        BY <2>3, <2>6, <2>7
      <3>2. \A i \in Of(l, g) : bufs[l][i] = SetToBag(P[l][i])
        BY <1>1, <2>2 DEF Raw, Of, All, Members
      <3>3. Raw(Q, l, Of(l, g))'
        BY <3>1, <3>2 DEF Raw
      <3> QED
        BY <2>4, <3>3 DEF Scanning, Written, Raw, Of
    <2>12. Here(Q)'
      BY <2>4, <2>11 DEF Here, Blocks
    <2> QED
      BY <2>5, <2>9, <2>10, <2>12 DEF Adds
  <1> QED
    BY <1>3, <1>4, <1>5 DEF Enter

(* Steps that leave the levels and what is in them alone. *)
LEMMA SameLevels ==
    ASSUME IInv, ~Abandoned, NEW P, Tower(P), Below(P),
           UNCHANGED <<bufs, level, op, keeps>>, Depth' \in {level, Depth}
    PROVE  Tower(P)' /\ Below(P)' /\ Count' = Count
  <1>1. Depth \in Nat /\ level \in Nat \ {0} /\ level <= Depth
    BY StackFacts
  <1>2. PICK e \in 1 .. Depth : Depth' = e
    BY <1>1
  <1>3. Tower(P)' /\ Count' = Count
    BY <1>1, <1>2, TowerKept
  <1>4. Below(P)'
    BY DEF Below, Partial, Of, Members, Global, Blocks
  <1> QED
    BY <1>3, <1>4

LEMMA DispatchAdds ==
    ASSUME IInv, NEW P, Adds(P), Shape, Dispatch, UNCHANGED compVars
    PROVE  (pc' = "failed" \/ Adds(P)') /\ Count' = Count
  <1>1. /\ pc = "dispatch" /\ ~Abandoned /\ UNCHANGED <<op, bufs, out, level, kernel, keeps>>
        /\ pc' = "failed" \/ (pc' = "run" /\ at' = [g \in 1 .. Blocks(Len(Data)) |-> "queued"])
        /\ Tower(P) /\ Below(P) /\ Here(P)
    BY DEF Dispatch, Fail, Goto, Abandoned, compVars, Adds
  <1>2. CASE pc' = "failed"
    BY <1>1, <1>2 DEF Count
  <1>3. CASE pc' # "failed"
    <2>1. Tower(P)' /\ Below(P)' /\ Count' = Count
      BY <1>1, <1>3, SameLevels DEF Depth
    <2>2. level \in Nat \ {0} /\ (kernel = "shift" => level = 1)
      BY <1>1 DEF IInv, Stack
    <2>3. \A g \in 1 .. Blocks(Len(bufs[level])) : ~Written(g) /\ ~Written(g)'
      BY <1>1, <1>3 DEF Written, Data
    <2>4. Here(P)'
      <3>1. CASE kernel = "scan"
        BY <1>1, <1>3, <2>3, <3>1 DEF Here, Scanning, Raw, Of, Members, Global, Blocks
      <3>2. CASE kernel = "add"
        BY <1>1, <1>3, <2>3, <3>2 DEF Here, Adding, Partial, Full, All, Of, Members, Global, Blocks
      <3>3. CASE kernel = "shift"
        BY <1>1, <1>3, <2>2, <2>3, <3>3 DEF Here, Shifting, Full, All, Blocks
      <3> QED
        BY <1>1, <3>1, <3>2, <3>3 DEF IInv, Stack
    <2> QED
      BY <2>1, <2>4 DEF Adds
  <1> QED
    BY <1>2, <1>3

LEMMA LoadAdds ==
    ASSUME IInv, NEW P, Adds(P), Shape, NEW g \in Groups, Load(g), UNCHANGED compVars
    PROVE  Adds(P)' /\ Count' = Count
  <1>1. /\ pc = "run" /\ ~Abandoned /\ UNCHANGED <<op, bufs, out, level, kernel, keeps, pc>>
        /\ at' = [at EXCEPT ![g] = "loaded"] /\ at[g] = "queued"
        /\ Tower(P) /\ Below(P) /\ Here(P)
    BY DEF Load, Abandoned, compVars, Adds
  <1>2. Tower(P)' /\ Below(P)' /\ Count' = Count
    BY <1>1, SameLevels DEF Depth
  <1>3. Groups = 1 .. Blocks(Len(bufs[level]))
    BY <1>1, RunFacts DEF Data
  <1>4. \A h \in 1 .. Blocks(Len(bufs[level])) : Written(h)' = Written(h)
    BY <1>1, <1>3 DEF Written, Groups
  <1>5. level \in Nat \ {0} /\ (kernel = "shift" => level = 1)
    BY <1>1 DEF IInv, Stack
  <1>6. Here(P)'
    <2>1. CASE kernel = "scan"
      BY <1>1, <1>4, <2>1 DEF Here, Scanning, Raw, Partial, Of, Members, Global, Blocks
    <2>2. CASE kernel = "add"
      BY <1>1, <1>4, <2>2 DEF Here, Adding, Partial, Full, All, Of, Members, Global, Blocks
    <2>3. CASE kernel = "shift"
      BY <1>1, <1>4, <1>5, <2>3 DEF Here, Shifting, Shifted, Full, All, Of, Members, Global, Blocks
    <2> QED
      BY <1>1, <2>1, <2>2, <2>3 DEF IInv, Stack
  <1> QED
    BY <1>2, <1>6 DEF Adds

LEMMA FinishAdds ==
    ASSUME IInv, NEW P, Adds(P), Shape, Finish, UNCHANGED compVars
    PROVE  Adds(P)' /\ Count' = Count
  <1>1. /\ pc = "run" /\ ~Abandoned /\ UNCHANGED <<op, bufs, out, kernel, keeps>>
        /\ \A g \in Groups : at[g] = "stored"
        /\ Tower(P) /\ Below(P) /\ Here(P)
    BY DEF Finish, Abandoned, compVars, Adds
  <1>2. /\ Groups = 1 .. Blocks(Len(bufs[level])) /\ Len(bufs[level]) \in Nat
        /\ \A g \in 1 .. Blocks(Len(bufs[level])) : Written(g)
    BY <1>1, RunFacts DEF Data, Written, Sized
  <1>3. level \in Nat \ {0} /\ Depth \in Nat /\ level <= Depth /\ (kernel \in {"scan", "add"} => Depth = level + 1)
    BY <1>1, StackFacts DEF Depth
  <1>4. CASE kernel = "scan" /\ level' = level + 1 /\ pc' = "enter"
    <2>1. Depth' = Depth /\ Depth = level + 1
      BY <1>3, <1>4 DEF Depth
    <2>2. Tower(P)' /\ Count' = Count
      BY <1>1, <1>3, <2>1, TowerKept
    <2>3. \A g \in 1 .. Blocks(Len(bufs[level])) :
             Partial(P, level, g, Of(level, g)) /\ bufs[level + 1][g] = SetToBag(P[level + 1][g])
      BY <1>1, <1>2, <1>4 DEF Here, Scanning
    <2>4. Below(P)'
      <3>1. \A k \in 1 .. level : \A g \in 1 .. Blocks(Len(bufs[k])) : Partial(P, k, g, Of(k, g))
        BY <1>1, <1>3, <2>3 DEF Below
      <3>2. level' - 1 = level
        BY <1>3, <1>4
      <3> QED
        BY <1>1, <3>1, <3>2 DEF Below, Partial, Of, Members, Global, Blocks
    <2>5. Raw(P, level + 1, All(level + 1))
      <3>1. Len(bufs[level + 1]) = Blocks(Len(bufs[level]))
        BY <1>1, <1>3, <2>1 DEF Tower
      <3> QED
        BY <2>3, <3>1 DEF Raw, All
    <2>6. Here(P)'
      BY <1>1, <1>4, <2>5 DEF Here, Raw, All
    <2> QED
      BY <2>2, <2>4, <2>6 DEF Adds
  <1>5. CASE kernel = "scan" /\ Len(bufs[level + 1]) <= 1 /\ pc' = "free" /\ UNCHANGED level
    <2>1. Tower(P)' /\ Below(P)' /\ Count' = Count
      BY <1>1, <1>3, <1>5, SameLevels DEF Depth
    <2>2. Blocks(Len(bufs[level])) <= 1 /\ Blocks(Len(bufs[level])) \in Nat
      <3>1. level \in 1 .. Depth - 1
        BY <1>3, <1>5
      <3>2. Len(bufs[level + 1]) = Blocks(Len(bufs[level]))
        BY <1>1, <3>1 DEF Tower
      <3> QED
        BY <1>2, <1>5, <3>2, BlocksFacts
    <2>3. Full(P, level, All(level))
      <3> SUFFICES ASSUME NEW i \in All(level) PROVE bufs[level][i] = SetToBag(Added(P[level], 1 .. i))
        BY DEF Full
      <3>1. PICK g \in 1 .. Blocks(Len(bufs[level])) : i \in Of(level, g)
        BY <1>2, EveryMember DEF Of, All
      <3>2. g = 1 /\ Global(1, 1) = 1
        BY <2>2, <3>1, WorkgroupAssumption DEF Global
      <3> QED
        BY <1>1, <1>2, <1>5, <3>1, <3>2 DEF Here, Scanning, Partial
    <2>4. Here(P)'
      BY <1>1, <1>5, <2>3 DEF Here, Full, All
    <2> QED
      BY <2>1, <2>4 DEF Adds
  <1>6. CASE kernel = "add" /\ pc' = "free" /\ UNCHANGED level
    <2>1. Tower(P)' /\ Below(P)' /\ Count' = Count
      BY <1>1, <1>3, <1>6, SameLevels DEF Depth
    <2>2. Full(P, level, All(level))
      <3> SUFFICES ASSUME NEW i \in All(level) PROVE bufs[level][i] = SetToBag(Added(P[level], 1 .. i))
        BY DEF Full
      <3>1. PICK g \in 1 .. Blocks(Len(bufs[level])) : i \in Of(level, g)
        BY <1>2, EveryMember DEF Of, All
      <3> QED
        BY <1>1, <1>2, <1>6, <3>1 DEF Here, Adding, Full
    <2>3. Here(P)'
      BY <1>1, <1>6, <2>2 DEF Here, Full, All
    <2> QED
      BY <2>1, <2>3 DEF Adds
  <1>7. CASE kernel = "shift" /\ pc' = "done" /\ UNCHANGED level
    <2>1. level = 1 /\ Depth = level
      BY <1>1, <1>7 DEF IInv, Stack, Depth
    <2>2. Tower(P)' /\ Below(P)' /\ Count' = Count
      BY <1>1, <1>3, <1>7, SameLevels DEF Depth
    <2>3. Shifted(All(1))
      <3> SUFFICES ASSUME NEW i \in All(1) PROVE out[i] = SetToBag(0 .. i - 1)
        BY DEF Shifted
      <3>1. PICK g \in 1 .. Blocks(Len(bufs[1])) : i \in Of(1, g)
        BY <1>2, <2>1, EveryMember DEF Of, All
      <3> QED
        BY <1>1, <1>2, <1>7, <2>1, <3>1 DEF Here, Shifting, Shifted
    <2>4. Here(P)'
      BY <1>1, <1>7, <2>3 DEF Here, Full, All, Shifted
    <2> QED
      BY <2>2, <2>4 DEF Adds
  <1> QED
    BY <1>4, <1>5, <1>6, <1>7 DEF Finish, Goto

LEMMA FreeAdds ==
    ASSUME IInv, NEW P, Adds(P), Shape, FreeBlocksums, UNCHANGED compVars
    PROVE  Adds(P)' /\ Count' = Count
  <1>1. /\ pc = "free" /\ ~Abandoned /\ UNCHANGED <<op, out, keeps>> /\ ReturnScan
        /\ level \in Nat \ {0} /\ bufs = [i \in 1 .. level + 1 |-> bufs[i]]
        /\ Tower(P) /\ Below(P) /\ Full(P, level, All(level))
    BY DEF FreeBlocksums, Abandoned, compVars, Adds, Here, IInv, Stack, Depth
  <1>2. bufs' = [i \in 1 .. (level + 1) - 1 |-> bufs[i]]
    <2>1. level + 1 \in Nat \ {0}
      BY <1>1
    <2> QED
      BY <1>1, <2>1, FrontFacts DEF FreeBlocksums
  <1>3. \A k \in 1 .. level : bufs'[k] = bufs[k]
    BY <1>1, <1>2
  <1> QED
    BY <1>1, <1>3, ReturnScanAdds
(* What the sets of a workgroup's elements add up to, by thread. *)
Slice(Q, g, m) == [t \in 1 .. W |-> IF Global(g, t) <= m THEN Q[Global(g, t)] ELSE {}]

LEMMA SliceFacts ==
    ASSUME NEW m \in Nat, NEW Q, DOMAIN Q = 1 .. m, Apart(Q), NEW g \in Nat \ {0}
    PROVE  /\ DOMAIN Slice(Q, g, m) = 1 .. W /\ Apart(Slice(Q, g, m))
           /\ \A i \in Members(g, m) :
                 Added(Slice(Q, g, m), 1 .. i - Global(g, 0)) = Added(Q, Global(g, 1) .. i)
           /\ Added(Slice(Q, g, m), 1 .. W) = Added(Q, Members(g, m))
  <1> DEFINE S == Slice(Q, g, m)
             a == (g - 1) * W
  <1>1. W \in Nat /\ W >= 2 /\ a \in Nat
    BY WorkgroupAssumption
  <1>2. \A t : Global(g, t) = a + t
    BY DEF Global
  <1>3. DOMAIN S = 1 .. W /\ \A t \in 1 .. W : S[t] = IF a + t <= m THEN Q[a + t] ELSE {}
    BY <1>2 DEF Slice
  <1> HIDE DEF S, a
  <1>4. Apart(S)
    BY <1>1, <1>3 DEF Apart
  <1>5. ASSUME NEW i \in Members(g, m)
        PROVE  Added(S, 1 .. i - Global(g, 0)) = Added(Q, Global(g, 1) .. i)
    <2>1. i \in 1 .. m /\ a + 1 <= i /\ i <= a + W
      BY <1>2 DEF Members
    <2>2. Global(g, 0) = a /\ Global(g, 1) = a + 1
      BY <1>1, <1>2
    <2>3. ASSUME NEW t \in 1 .. i - a PROVE a + t \in a + 1 .. i /\ S[t] = Q[a + t]
      BY <1>1, <1>3, <2>1
    <2>4. ASSUME NEW j \in a + 1 .. i PROVE j - a \in 1 .. i - a /\ Q[j] = S[j - a]
      <3>1. j - a \in 1 .. i - a /\ a + (j - a) = j
        BY <1>1, <2>1
      <3> QED
        BY <2>3, <3>1
    <2> QED
      BY <2>2, <2>3, <2>4 DEF Added
  <1>6. Added(S, 1 .. W) = Added(Q, Members(g, m))
    <2>1. ASSUME NEW t \in 1 .. W PROVE S[t] = {} \/ (a + t \in Members(g, m) /\ S[t] = Q[a + t])
      BY <1>1, <1>2, <1>3 DEF Members
    <2>2. ASSUME NEW j \in Members(g, m) PROVE j - a \in 1 .. W /\ Q[j] = S[j - a]
      <3>1. j \in 1 .. m /\ a + 1 <= j /\ j <= a + W
        BY <1>2 DEF Members
      <3>2. j - a \in 1 .. W /\ a + (j - a) = j
        BY <1>1, <3>1
      <3> QED
        BY <1>3, <3>1, <3>2
    <2> QED
      BY <2>1, <2>2 DEF Added
  <1> QED
    BY <1>3, <1>4, <1>5, <1>6 DEF S

LEMMA StoredFacts ==
    ASSUME NEW s, NEW m \in Nat, DOMAIN s = 1 .. m, NEW v, NEW g \in Nat \ {0}
    PROVE  /\ DOMAIN Stored(s, g, v) = 1 .. m
           /\ \A i \in Members(g, m) : Stored(s, g, v)[i] = v[i - Global(g, 0)]
           /\ \A h \in Nat \ {0} : h # g => \A i \in Members(h, m) : Stored(s, g, v)[i] = s[i]
  <1>1. ASSUME NEW h \in Nat \ {0}, h # g, NEW i \in Members(h, m)
        PROVE  i \in 1 .. m /\ ~(Global(g, 1) <= i /\ i <= Global(g, W))
    BY <1>1, MembersApart DEF Members
  <1> QED
    BY <1>1 DEF Stored, Members

(* An element, by its thread. *)
LEMMA ThreadOf ==
    ASSUME NEW g \in Nat \ {0}, NEW m \in Nat, NEW i \in Members(g, m)
    PROVE  i - Global(g, 0) \in 1 .. W /\ Global(g, i - Global(g, 0)) = i /\ i \in 1 .. m
  <1>1. (g - 1) * W \in Nat /\ i \in 1 .. m
    BY WorkgroupAssumption DEF Members
  <1> QED
    BY <1>1, MembersBefore DEF Global

LEMMA StoreAdds ==
    ASSUME IInv, NEW P, Adds(P), Shape, NEW g \in Groups, Store(g), UNCHANGED compVars
    PROVE  Adds(P)' /\ Count' = Count
  <1>1. PICK l \in Nat \ {0} : l = level
    BY StoreFacts
  <1>2. /\ pc = "run" /\ ~Abandoned /\ UNCHANGED <<op, level, kernel, keeps, pc>> /\ Depth' = Depth
        /\ at' = [at EXCEPT ![g] = "stored"] /\ at[g] = "loaded"
        /\ Tower(P) /\ Below(P) /\ Here(P)
    BY DEF Store, Abandoned, compVars, Adds, Depth
  <1>3. /\ DOMAIN bufs = 1 .. Depth /\ Depth \in Nat /\ l <= Depth
        /\ \A k \in 1 .. Depth : Len(bufs[k]) \in Nat /\ DOMAIN bufs[k] = All(k)
    BY <1>1, <1>2, StackFacts
  <1>4. \A k \in 1 .. Depth : DOMAIN bufs'[k] = All(k) /\ Len(bufs'[k]) = Len(bufs[k])
    BY <1>3, StoreEffect, LengthFacts DEF All
  <1>5. Tower(P)' /\ Count' = Count
    BY <1>1, <1>2, <1>3, <1>4, TowerKept
  <1>6. \A k \in 1 .. Depth : All(k)' = All(k) /\ \A h : Of(k, h)' = Of(k, h)
    BY <1>4 DEF All, Of, Members, Global
  <1> DEFINE m == Len(bufs[l])
  <1>7. /\ Groups = 1 .. Blocks(m) /\ m \in Nat /\ Blocks(m) \in Nat
        /\ g \in Nat \ {0} /\ g \in 1 .. Blocks(m)
    BY <1>1, <1>2, <1>3, RunFacts DEF Data
  <1>8. /\ Written(g)' /\ ~Written(g)
        /\ \A h \in 1 .. Blocks(m) : h # g => Written(h)' = Written(h)
    BY <1>2, <1>7 DEF Written, Groups
  <1>9. l \in 1 .. Depth /\ temp[g] = Reads(g)
    BY <1>1, <1>2, <1>3 DEF IInv, WorkgroupsApart
  <1>10. DOMAIN P[l] = 1 .. m /\ Apart(P[l]) /\ DOMAIN bufs[l] = 1 .. m
    BY <1>2, <1>3, <1>9 DEF Tower, All
  <1>11. ASSUME \A k \in 1 .. l - 1 : bufs'[k] = bufs[k]
         PROVE  Below(P)'
    <2>1. ASSUME NEW k \in 1 .. l - 1, NEW h \in 1 .. Blocks(Len(bufs[k]))
          PROVE  Partial(P, k, h, Of(k, h))'
      <3>1. Partial(P, k, h, Of(k, h)) /\ k \in 1 .. Depth
        BY <1>1, <1>2, <1>3 DEF Below
      <3> QED
        BY <1>6, <1>11, <3>1 DEF Partial, Global
    <2> QED
      BY <1>1, <1>2, <1>11, <2>1 DEF Below, Blocks
  <1> HIDE DEF m
  <1>12. CASE kernel = "scan"
    <2> DEFINE S == Slice(P[l], g, m)
               v == [t \in 1 .. W |-> SetToBag(Added(S, 1 .. t))]
    <2>1. Depth = l + 1 /\ l + 1 \in 1 .. Depth /\ Len(bufs[l + 1]) = Blocks(m)
      <3>1. Depth = l + 1
        BY <1>1, <1>12, StoreFacts
      <3>2. l \in 1 .. Depth - 1
        BY <3>1
      <3> QED
        BY <1>2, <3>1, <3>2 DEF Tower, m
    <2>2. temp[g] = [t \in 1 .. W |-> SetToBag(S[t])]
      <3>1. temp[g] = Loaded(bufs[l], m, g)
        BY <1>1, <1>9, <1>12 DEF Reads, Data, m
      <3>2. \A i \in Members(g, m) : bufs[l][i] = SetToBag(P[l][i])
        BY <1>1, <1>2, <1>7, <1>8, <1>12 DEF Here, Scanning, Raw, Of, m
      <3>3. ASSUME NEW t \in 1 .. W, Global(g, t) <= m PROVE Global(g, t) \in Members(g, m)
        BY <1>7, <3>3, WorkgroupAssumption DEF Members, Global
      <3> QED
        BY <3>1, <3>2, <3>3 DEF Loaded, Slice, EmptyBag
    <2>3. HillisSteele(temp[g]) = v
      <3>1. DOMAIN S = 1 .. W /\ Apart(S)
        BY <1>7, <1>10, SliceFacts
      <3> HIDE DEF S
      <3> QED
        BY <2>2, <3>1, HillisSteeleAdds
    <2>4. /\ \A i \in Members(g, m) : v[i - Global(g, 0)] = SetToBag(Added(P[l], Global(g, 1) .. i))
          /\ v[W] = SetToBag(Added(P[l], Members(g, m)))
      <3>1. \A i \in Members(g, m) : i - Global(g, 0) \in 1 .. W
        BY <1>7, ThreadOf
      <3>2. W \in 1 .. W
        BY WorkgroupAssumption
      <3>3. /\ \A i \in Members(g, m) :
                 Added(S, 1 .. i - Global(g, 0)) = Added(P[l], Global(g, 1) .. i)
            /\ Added(S, 1 .. W) = Added(P[l], Members(g, m))
        BY <1>7, <1>10, SliceFacts
      <3> HIDE DEF S
      <3> QED
        BY <3>1, <3>2, <3>3
    <2> HIDE DEF v, S
    <2>5. /\ bufs'[l] = Stored(bufs[l], g, v)
          /\ bufs'[l + 1] = [bufs[l + 1] EXCEPT ![g] = v[W]]
          /\ \A k \in DOMAIN bufs : k # l /\ k # l + 1 => bufs'[k] = bufs[k]
      BY <1>1, <1>12, <2>3, ScanStored
    <2>6. Below(P)'
      <3>1. \A k \in 1 .. l - 1 : bufs'[k] = bufs[k]
        BY <1>3, <2>5
      <3> QED
        BY <1>11, <3>1
    <2>7. ASSUME NEW h \in 1 .. Blocks(m) PROVE Scanning(P, h)'
      <3>1. Of(l, h)' = Members(h, m) /\ Of(l, h) = Members(h, m)
        BY <1>6, <1>9 DEF Of, m
      <3>2. CASE h = g
        <4>1. \A i \in Members(g, m) : bufs'[l][i] = SetToBag(Added(P[l], Global(g, 1) .. i))
          BY <1>7, <1>10, <2>4, <2>5, StoredFacts
        <4>2. bufs'[l + 1][g] = SetToBag(P[l + 1][g])
          <5>1. g \in All(l + 1) /\ l \in 1 .. Depth - 1
            BY <1>7, <2>1 DEF All
          <5>2. P[l + 1][g] = Added(P[l], Members(g, m))
            BY <1>2, <5>1 DEF Tower, Of, m
          <5>3. g \in DOMAIN bufs[l + 1]
            BY <1>3, <2>1, <5>1
          <5> QED
            BY <2>4, <2>5, <5>2, <5>3
        <4>3. Partial(P, l, g, Of(l, g))'
          BY <3>1, <3>2, <4>1 DEF Partial, Global
        <4> QED
          BY <1>1, <1>2, <1>8, <3>2, <4>2, <4>3 DEF Scanning, Partial, Of, Members, Global
      <3>3. CASE h # g
        <4>1. Scanning(P, h) /\ Written(h)' = Written(h)
          BY <1>1, <1>2, <1>8, <1>12, <3>3 DEF Here, m
        <4>2. /\ \A i \in Members(h, m) : bufs'[l][i] = bufs[l][i]
              /\ bufs'[l + 1][h] = bufs[l + 1][h]
          BY <1>3, <1>7, <1>10, <2>1, <2>5, <3>3, StoredFacts DEF All
        <4>3. Partial(P, l, h, Of(l, h)) => Partial(P, l, h, Of(l, h))'
          BY <3>1, <4>2 DEF Partial, Global
        <4>4. Raw(P, l, Of(l, h)) => Raw(P, l, Of(l, h))'
          BY <3>1, <4>2 DEF Raw
        <4> QED
          BY <1>1, <1>2, <4>1, <4>2, <4>3, <4>4 DEF Scanning, Partial, Raw, Of, Members, Global
      <3> QED
        BY <3>2, <3>3
    <2>8. Here(P)'
      <3>1. Len(bufs'[level']) = m
        BY <1>1, <1>2, <1>4, <1>9 DEF m
      <3> QED
        BY <1>2, <1>12, <2>7, <3>1 DEF Here, Blocks
    <2> QED
      BY <1>5, <2>6, <2>8 DEF Adds
  <1>13. CASE kernel = "add"
    <2>1. Depth = l + 1 /\ l + 1 \in 1 .. Depth /\ Len(bufs[l + 1]) = Blocks(m)
      <3>1. Depth = l + 1
        BY <1>1, <1>13, StoreFacts
      <3>2. l \in 1 .. Depth - 1
        BY <3>1
      <3> QED
        BY <1>2, <3>1, <3>2 DEF Tower, m
    <2>2. /\ bufs'[l] = Stored(bufs[l], g, temp[g])
          /\ \A k \in DOMAIN bufs : k # l => bufs'[k] = bufs[k]
      BY <1>1, <1>13, AddStored
    <2>3. ASSUME NEW i \in Members(g, m) PROVE bufs'[l][i] = SetToBag(Added(P[l], 1 .. i))
      <3> DEFINE a == Global(g, 0)
      <3>1. /\ UNION {Members(h, m) : h \in 1 .. g - 1} = 1 .. a
            /\ a \in Nat /\ Global(g, 1) = a + 1 /\ a < i
        BY <1>7, MembersBefore
      <3>2. i - a \in 1 .. W /\ Global(g, i - a) = i /\ i \in 1 .. m
        BY <1>7, ThreadOf
      <3>3. temp[g][i - a] = bufs[l][i] (+) Offset(g)
        BY <1>1, <1>9, <1>13, <3>2 DEF Reads, Data, Loaded, m
      <3>4. bufs[l][i] = SetToBag(Added(P[l], a + 1 .. i))
        BY <1>1, <1>2, <1>7, <1>8, <1>13, <3>1 DEF Here, Adding, Partial, Of, m
      <3>5. Offset(g) = SetToBag(Added(P[l], 1 .. a))
        <4>1. CASE g = 1
          <5>1. 1 .. a = {}
            <6>1. a = 0
              BY <4>1, WorkgroupAssumption DEF Global
            <6> QED
              BY <6>1
          <5> QED
            BY <4>1, <5>1 DEF Offset, Added, EmptyBag
        <4>2. CASE g > 1
          <5>1. g - 1 \in All(l + 1) /\ l \in 1 .. Depth - 1
            BY <1>7, <2>1, <4>2 DEF All
          <5>2. Offset(g) = SetToBag(Added(P[l + 1], 1 .. g - 1))
            BY <1>1, <1>2, <1>13, <4>2, <5>1 DEF Offset, Here, Full
          <5>3. \A h \in 1 .. g - 1 : P[l + 1][h] = Added(P[l], Members(h, m))
            <6>1. 1 .. g - 1 \subseteq All(l + 1)
              BY <1>7, <2>1 DEF All
            <6> QED
              BY <1>2, <5>1, <6>1 DEF Tower, Of, m
          <5>4. Added(P[l + 1], 1 .. g - 1) = Added(P[l], UNION {Members(h, m) : h \in 1 .. g - 1})
            BY <5>3 DEF Added
          <5> QED
            BY <3>1, <5>2, <5>4
        <4> QED
          BY <1>7, <4>1, <4>2
      <3>6. /\ (a + 1 .. i) \in SUBSET DOMAIN P[l] /\ (1 .. a) \in SUBSET DOMAIN P[l]
            /\ (a + 1 .. i) \cap (1 .. a) = {} /\ (a + 1 .. i) \cup (1 .. a) = 1 .. i
        <4> HIDE DEF a
        <4> QED
          BY <1>7, <1>10, <3>1, <3>2
      <3> HIDE DEF a
      <3>7. bufs[l][i] (+) Offset(g) = SetToBag(Added(P[l], 1 .. i))
        <4>1. SetToBag(Added(P[l], a + 1 .. i)) (+) SetToBag(Added(P[l], 1 .. a))
                = SetToBag(Added(P[l], (a + 1 .. i) \cup (1 .. a)))
          BY <1>10, <3>6, SumApart
        <4> QED
          BY <3>4, <3>5, <3>6, <4>1
      <3>8. bufs'[l][i] = temp[g][i - a]
        BY <1>7, <1>10, <2>2, StoredFacts DEF a
      <3> QED
        BY <3>3, <3>7, <3>8
    <2>4. Below(P)'
      <3>1. \A k \in 1 .. l - 1 : bufs'[k] = bufs[k]
        BY <1>3, <2>2
      <3> QED
        BY <1>11, <3>1
    <2>5. ASSUME NEW h \in 1 .. Blocks(m) PROVE Adding(P, h)'
      <3>1. Of(l, h)' = Members(h, m) /\ Of(l, h) = Members(h, m)
        BY <1>6, <1>9 DEF Of, m
      <3>2. CASE h = g
        <4>1. Full(P, l, Of(l, g))'
          BY <2>3, <3>1, <3>2 DEF Full
        <4> QED
          BY <1>1, <1>2, <1>8, <3>2, <4>1 DEF Adding, Full, Of, Members, Global
      <3>3. CASE h # g
        <4>1. Adding(P, h) /\ Written(h)' = Written(h)
          BY <1>1, <1>2, <1>8, <1>13, <3>3 DEF Here, m
        <4>2. \A i \in Members(h, m) : bufs'[l][i] = bufs[l][i]
          BY <1>7, <1>10, <2>2, <3>3, StoredFacts
        <4>3. Partial(P, l, h, Of(l, h)) => Partial(P, l, h, Of(l, h))'
          BY <3>1, <4>2 DEF Partial, Global
        <4>4. Full(P, l, Of(l, h)) => Full(P, l, Of(l, h))'
          BY <3>1, <4>2 DEF Full
        <4> QED
          BY <1>1, <1>2, <4>1, <4>3, <4>4 DEF Adding, Partial, Full, Of, Members, Global
      <3> QED
        BY <3>2, <3>3
    <2>6. Full(P, l + 1, All(l + 1))'
      <3>1. bufs'[l + 1] = bufs[l + 1]
        BY <1>3, <2>1, <2>2
      <3>2. Full(P, l + 1, All(l + 1))
        BY <1>1, <1>2, <1>13 DEF Here
      <3> QED
        BY <3>1, <3>2 DEF Full, All
    <2>7. Here(P)'
      <3>1. Len(bufs'[level']) = m
        BY <1>1, <1>2, <1>4, <1>9 DEF m
      <3>2. Full(P, level + 1, All(level + 1))'
        BY <1>1, <1>2, <2>6 DEF Full, All
      <3> QED
        BY <1>2, <1>13, <2>5, <3>1, <3>2 DEF Here, Blocks
    <2> QED
      BY <1>5, <2>4, <2>7 DEF Adds
  <1>14. CASE kernel = "shift"
    <2>1. l = 1 /\ UNCHANGED bufs /\ out' = Stored(out, g, temp[g]) /\ m = Count /\ op = "exclusive"
      BY <1>1, <1>2, <1>14, StoreFacts DEF Store, ShiftOut, Here, Count, m
    <2>2. ASSUME NEW i \in Members(g, m) PROVE out'[i] = SetToBag(0 .. i - 1)
      <3> DEFINE a == Global(g, 0)
      <3>1. i - a \in 1 .. W /\ Global(g, i - a) = i /\ i \in 1 .. m
        BY <1>7, ThreadOf
      <3>2. temp[g][i - a] = Before(i)
        BY <1>1, <1>9, <1>14, <3>1 DEF Reads, Data, m
      <3>3. Before(i) = SetToBag(0 .. i - 1)
        <4>1. CASE i = 1
          <5>1. 0 .. i - 1 = {0}
            BY <4>1
          <5> QED
            BY <4>1, <5>1 DEF Before, Seed, Input
        <4>2. CASE i # 1
          <5>1. i - 1 \in All(1)
            BY <2>1, <3>1, <4>2 DEF All, Count
          <5>2. bufs[1][i - 1] = SetToBag(Added(P[1], 1 .. i - 1))
            BY <1>2, <1>14, <5>1 DEF Here, Full
          <5>3. \A j \in 1 .. i - 1 : P[1][j] = {j}
            <6>1. \A j \in 1 .. i - 1 : j \in 1 .. Count /\ In(j) = {j}
              BY <1>7, <2>1, <3>1 DEF In, Compacts
            <6> QED
              BY <1>2, <6>1 DEF Tower
          <5>4. Added(P[1], 1 .. i - 1) = 1 .. i - 1
            BY <5>3 DEF Added
          <5>5. {0} \cap (1 .. i - 1) = {} /\ {0} \cup (1 .. i - 1) = 0 .. i - 1
            BY <3>1
          <5>6. SetToBag({0}) (+) SetToBag(1 .. i - 1) = SetToBag(0 .. i - 1)
            BY <5>5, AddApart
          <5> QED
            BY <1>1, <2>1, <4>2, <5>2, <5>4, <5>6 DEF Before, Seed, Input, Data
        <4> QED
          BY <4>1, <4>2
      <3> HIDE DEF a
      <3>4. out'[i] = temp[g][i - a]
        <4>1. DOMAIN out = 1 .. m
          BY <2>1 DEF Shape
        <4> QED
          BY <1>7, <2>1, <4>1, StoredFacts DEF a
      <3> QED
        BY <3>2, <3>3, <3>4
    <2>3. ASSUME NEW h \in 1 .. Blocks(m) PROVE Shifting(h)'
      <3>1. Of(1, h)' = Members(h, m) /\ Of(1, h) = Members(h, m)
        BY <1>6, <1>9, <2>1 DEF Of, m
      <3>2. CASE h = g
        BY <2>2, <3>1, <3>2 DEF Shifting, Shifted
      <3>3. CASE h # g
        <4>1. Shifting(h) /\ Written(h)' = Written(h)
          BY <1>2, <1>8, <1>14, <2>1, <3>3 DEF Here, m
        <4>2. \A i \in Members(h, m) : out'[i] = out[i]
          <5>1. DOMAIN out = 1 .. m
            BY <2>1 DEF Shape
          <5> QED
            BY <1>7, <2>1, <3>3, <5>1, StoredFacts
        <4> QED
          BY <3>1, <4>1, <4>2 DEF Shifting, Shifted
      <3> QED
        BY <3>2, <3>3
    <2>4. Below(P)'
      BY <1>11, <2>1
    <2>5. Here(P)'
      <3>1. Len(bufs'[1]) = m
        BY <2>1 DEF m
      <3>2. Full(P, 1, All(1))'
        BY <1>2, <1>14, <2>1 DEF Here, Full, All
      <3> QED
        BY <1>2, <1>14, <2>1, <2>3, <3>1, <3>2 DEF Here, Blocks
    <2> QED
      BY <1>5, <2>4, <2>5 DEF Adds
  <1> QED
    BY <1>12, <1>13, <1>14, StoreFacts
LEMMA InitSums == CInit => Sums
  <1> SUFFICES ASSUME CInit PROVE Sums
    OBVIOUS
  <1>1. PICK k \in Nat : \E s : /\ DOMAIN s = 1 .. k /\ bufs = <<s>>
                                /\ pc = "enter" => s = [i \in 1 .. k |-> Input(i)]
                                /\ op = "exclusive" => DOMAIN out = 1 .. k
    BY ScanAssumption DEF CInit, Init
  <1>2. PICK s : /\ DOMAIN s = 1 .. k /\ bufs = <<s>>
                 /\ pc = "enter" => s = [i \in 1 .. k |-> Input(i)]
                 /\ op = "exclusive" => DOMAIN out = 1 .. k
    BY <1>1
  <1>3. bufs[1] = s /\ Count = k /\ Len(bufs[1]) = k
    BY <1>2, LengthFacts DEF Count
  <1>4. /\ level = 1 /\ Depth = 1 /\ pc \in {"enter", "compact"}
        /\ pc = "enter" => op \in {"inclusive", "exclusive"}
        /\ pc = "compact" => op \in {"copy_if", "partition"}
    BY DEF CInit, Init, Depth
  <1>5. Shape
    BY <1>2, <1>3, <1>4 DEF Shape, Compacts, CInit, Init
  <1>6. PICK P : P = <<[i \in 1 .. k |-> In(i)]>>
    OBVIOUS
  <1>7. P[1] = [i \in 1 .. k |-> In(i)]
    BY <1>6
  <1>8. \A i, j \in 1 .. k : i # j => P[1][i] \cap P[1][j] = {}
    BY <1>7 DEF In
  <1>9. Tower(P)
    BY <1>3, <1>4, <1>7, <1>8 DEF Tower, Apart, All
  <1>10. Below(P) /\ Here(P)
    <2>1. pc = "enter" => \A i \in 1 .. k : bufs[1][i] = SetToBag(P[1][i])
      BY <1>2, <1>3, <1>4, <1>7 DEF In, Compacts, Input
    <2> QED
      BY <1>3, <1>4, <2>1 DEF Below, Here, Raw, All
  <1> QED
    BY <1>5, <1>9, <1>10 DEF Sums, Adds

LEMMA ScanSums ==
    ASSUME IInv, Sums, ScanStep, UNCHANGED compVars
    PROVE  Sums' /\ Count' = Count /\ pc' \notin {"compact", "scatter", "returned"}
  <1>1. /\ pc \in {"enter", "dispatch", "run", "free"} /\ UNCHANGED <<op, keeps>>
        /\ pc' \in {"enter", "dispatch", "run", "free", "done", "failed"}
        /\ DOMAIN out' = DOMAIN out
    <2>1. CASE Enter \/ Dispatch \/ Finish \/ FreeBlocksums
      BY <2>1 DEF Enter, Dispatch, Finish, FreeBlocksums, ReturnScan, NextKernel, Fail, Goto, compVars
    <2>2. ASSUME NEW g \in Groups, Load(g) \/ Store(g)
          PROVE  pc = "run" /\ UNCHANGED <<op, keeps, pc>> /\ DOMAIN out' = DOMAIN out
      BY <2>2 DEF Load, Store, ShiftOut, Stored, compVars
    <2> QED
      BY <2>1, <2>2 DEF ScanStep
  <1>2. PICK P : Adds(P) /\ Shape
    BY <1>1 DEF Sums
  <1>3. (pc' = "failed" \/ \E Q : Adds(Q)') /\ Count' = Count
    <2>1. CASE Enter
      BY <1>2, <2>1, EnterAdds
    <2>2. CASE Dispatch
      BY <1>2, <2>2, DispatchAdds
    <2>3. CASE Finish
      BY <1>2, <2>3, FinishAdds
    <2>4. CASE FreeBlocksums
      BY <1>2, <2>4, FreeAdds
    <2>5. ASSUME NEW g \in Groups, Load(g) PROVE Adds(P)' /\ Count' = Count
      BY <1>2, <2>5, LoadAdds
    <2>6. ASSUME NEW g \in Groups, Store(g) PROVE Adds(P)' /\ Count' = Count
      BY <1>2, <2>6, StoreAdds
    <2> QED
      BY <2>1, <2>2, <2>3, <2>4, <2>5, <2>6 DEF ScanStep
  <1>4. pc' \in {"enter", "dispatch", "free", "done"} => at' = <<>>
    <2>1. CASE Enter \/ Dispatch \/ Finish \/ FreeBlocksums
      BY <1>2, <2>1 DEF Enter, Dispatch, Finish, FreeBlocksums, ReturnScan, NextKernel, Fail, Goto, Shape
    <2>2. ASSUME NEW g \in Groups, Load(g) \/ Store(g)
          PROVE  pc' = "run"
      BY <2>2 DEF Load, Store
    <2> QED
      BY <2>1, <2>2 DEF ScanStep
  <1>5. Shape'
    BY <1>1, <1>2, <1>3, <1>4 DEF Shape, Compacts
  <1> QED
    BY <1>1, <1>3, <1>5 DEF Sums

LEMMA FlagSums ==
    ASSUME IInv, Sums, NEW g \in Groups, Flag(g)
    PROVE  Sums' /\ Count' = Count
  <1>1. /\ pc = "flags" /\ at[g] = "queued" /\ at' = [at EXCEPT ![g] = "stored"]
        /\ UNCHANGED <<op, out, level, kernel, pc, keeps>> /\ level = 1 /\ Depth = 1 /\ Depth' = 1
        /\ bufs = [i \in 1 .. 1 |-> bufs[i]] /\ Sized(bufs[1])
    BY DEF Flag, IInv, Stack, Depth, Abandoned, compVars
  <1>2. PICK P : Tower(P) /\ Below(P) /\ Here(P) /\ Shape
    BY <1>1 DEF Sums, Adds
  <1>3. bufs'[1] = [i \in DOMAIN bufs[1] |->
                  IF i \notin Mine(g) THEN bufs[1][i]
                  ELSE IF i \in keeps THEN Input(i) ELSE EmptyBag]
    BY <1>1 DEF Flag
  <1>4. Len(bufs'[1]) = Len(bufs[1]) /\ Count \in Nat /\ DOMAIN bufs[1] = 1 .. Count /\ Len(bufs[1]) = Count
    BY <1>1, <1>3, LengthFacts DEF Sized, Count
  <1>5. Tower(P)' /\ Count' = Count
    BY <1>1, <1>2, <1>4, TowerKept
  <1>6. at \in [1 .. Blocks(Count) -> States] /\ Compacts
    BY <1>1, <1>2 DEF Shape, Groups
  <1>7. Shape'
    BY <1>1, <1>2, <1>5, <1>6 DEF Shape, Compacts, States, Blocks
  <1>8. ASSUME NEW h \in Groups, at'[h] = "stored" PROVE Raw(P, 1, Of(1, h))'
    <2>1. Of(1, h)' = Members(h, Count) /\ Of(1, h) = Members(h, Count) /\ Mine(h) = Members(h, Count)
      BY <1>4 DEF Of, Mine, Members, Global
    <2>2. CASE h = g
      <3>1. \A i \in Members(g, Count) : bufs'[1][i] = SetToBag(P[1][i])
        <4>1. \A i \in Members(g, Count) : i \in 1 .. Count /\ P[1][i] = {i} \cap keeps
          BY <1>2, <1>6 DEF Tower, In, Members
        <4>2. ASSUME NEW i \in Members(g, Count), i \in keeps PROVE bufs'[1][i] = SetToBag(P[1][i])
          <5>1. {i} \cap keeps = {i}
            BY <4>2
          <5> QED
            BY <1>3, <1>4, <2>1, <2>2, <4>1, <4>2, <5>1 DEF Input
        <4>3. ASSUME NEW i \in Members(g, Count), i \notin keeps PROVE bufs'[1][i] = SetToBag(P[1][i])
          <5>1. {i} \cap keeps = {}
            BY <4>3
          <5> QED
            BY <1>3, <1>4, <2>1, <2>2, <4>1, <4>3, <5>1 DEF EmptyBag
        <4> QED
          BY <4>2, <4>3
      <3> QED
        BY <2>1, <2>2, <3>1 DEF Raw
    <2>3. CASE h # g
      <3>1. Raw(P, 1, Of(1, h))
        BY <1>1, <1>2, <1>8, <2>3 DEF Here, Groups
      <3>2. \A i \in Members(h, Count) : i \in 1 .. Count /\ i \notin Mine(g)
        <4>1. g \in Nat \ {0} /\ h \in Nat \ {0} /\ Mine(g) = Members(g, Count)
          <5>1. Groups = 1 .. Blocks(Count) /\ Blocks(Count) \in Nat
            BY <1>4, <1>6, BlocksFacts DEF Groups
          <5> QED
            BY <5>1 DEF Mine, Members
        <4> QED
          BY <1>4, <2>3, <4>1, MembersApart DEF Members
      <3> QED
        BY <1>3, <1>4, <2>1, <3>1, <3>2 DEF Raw
    <2> QED
      BY <2>2, <2>3
  <1>9. Groups' = Groups
    BY <1>1 DEF Groups
  <1>10. Below(P)' /\ Here(P)'
    BY <1>1, <1>8, <1>9 DEF Below, Here
  <1> QED
    BY <1>5, <1>7, <1>10 DEF Sums, Adds

LEMMA CompactSums ==
    ASSUME IInv, Sums, AllocatePositions \/ DispatchGroups \/ GroupsDone \/ Scanned
    PROVE  Sums'
  <1>1. /\ UNCHANGED <<op, bufs, out, level, kernel, keeps>>
        /\ pc \in {"compact", "flags", "scatter", "done", "failed"}
        /\ pc' \in {"returned", "flags", "scatter", "enter"}
        /\ pc' = "flags" => pc \in {"compact", "flags"} /\ (at' = <<>> \/ at' = Queued)
        /\ pc' = "scatter" => pc \in {"done", "scatter"} /\ (at' = at \/ at' = Queued)
        /\ pc = "done" => Compacts
        /\ pc' = "enter" => pc = "flags" /\ at # <<>> /\ at' = <<>> /\ \A g \in Groups : at[g] = "stored"
    BY DEF AllocatePositions, DispatchGroups, GroupsDone, Scanned, Finished, FreePositions, Return, Goto
  <1>2. Count' = Count
    BY <1>1 DEF Count
  <1>4. Shape'
    <2>1. Queued \in [1 .. Blocks(Count) -> States]
      BY DEF Queued, States
    <2>2. pc = "done" => at = <<>>
      BY DEF Sums, Shape
    <2>3. pc' \in {"flags", "scatter"} => at' = <<>> \/ at' \in [1 .. Blocks(Count) -> States]
      BY <1>1, <2>1, <2>2 DEF Sums, Shape
    <2>4. pc' \in {"flags", "scatter"} => Compacts
      BY <1>1 DEF Sums, Shape
    <2> QED
      BY <1>1, <1>2, <2>3, <2>4 DEF Sums, Shape, Compacts, Blocks
  <1>5. CASE pc' # "returned"
    <2>1. PICK P : Tower(P) /\ Below(P) /\ Here(P)
      BY <1>1, <1>5 DEF Sums, Adds
    <2>2. ~Abandoned /\ level = 1 /\ Depth = 1 /\ Depth' = 1
      BY <1>1, <1>5 DEF Abandoned, IInv, Stack, Depth
    <2>3. Tower(P)' /\ Below(P)'
      BY <1>1, <2>1, <2>2, SameLevels
    <2>4. Here(P)'
      <3>1. CASE pc' = "flags"
        <4>1. \A g \in DOMAIN at' : at'[g] # "stored"
          <5>1. DOMAIN <<>> = {}
            OBVIOUS
          <5>2. CASE at' = <<>>
            BY <5>1, <5>2
          <5>3. CASE at' = Queued
            BY <5>3 DEF Queued
          <5> QED
            BY <1>1, <3>1, <5>2, <5>3
        <4> QED
          BY <3>1, <4>1 DEF Here, Groups
      <3>2. CASE pc' = "scatter"
        BY <1>1, <2>1, <3>2 DEF Here, Full, All
      <3>3. CASE pc' = "enter"
        <4>1. at \in [1 .. Blocks(Count) -> States] /\ Groups = 1 .. Blocks(Count)
          BY <1>1, <3>3 DEF Sums, Shape, Groups
        <4>2. Count = Len(bufs[1]) /\ Count \in Nat
          BY <2>2, StackFacts DEF Count
        <4>3. Raw(P, 1, All(1))
          <5> SUFFICES ASSUME NEW i \in All(1) PROVE bufs[1][i] = SetToBag(P[1][i])
            BY DEF Raw
          <5>1. PICK g \in 1 .. Blocks(Count) : i \in Of(1, g)
            BY <4>2, EveryMember DEF Of, All
          <5> QED
            BY <1>1, <2>1, <3>3, <4>1, <5>1 DEF Here, Raw
        <4> QED
          BY <1>1, <2>2, <3>3, <4>3 DEF Here, Raw, All
      <3> QED
        BY <1>1, <1>5, <3>1, <3>2, <3>3
    <2> QED
      BY <1>4, <2>3, <2>4 DEF Sums, Adds
  <1> QED
    BY <1>4, <1>5 DEF Sums

LEMMA ScatterSums ==
    ASSUME IInv, Sums, NEW g \in Groups, ScatterGroup(g)
    PROVE  Sums'
  <1>1. /\ UNCHANGED <<op, bufs, out, level, kernel, keeps, pc>> /\ pc = "scatter"
        /\ at' = [at EXCEPT ![g] = "stored"]
    BY DEF ScatterGroup
  <1>2. ~Abandoned /\ level = 1 /\ Depth = 1 /\ Depth' = 1
    BY <1>1 DEF Abandoned, IInv, Stack, Depth
  <1>3. PICK P : Tower(P) /\ Below(P) /\ Here(P)
    BY <1>1 DEF Sums, Adds
  <1>4. Tower(P)' /\ Below(P)' /\ Count' = Count
    BY <1>1, <1>2, <1>3, SameLevels
  <1>5. Here(P)'
    BY <1>1, <1>3 DEF Here, Full, All
  <1>6. Shape'
    <2>1. at \in [1 .. Blocks(Count) -> States]
      <3>1. DOMAIN <<>> = {}
        OBVIOUS
      <3> QED
        BY <1>1, <3>1 DEF Sums, Shape, Groups
    <2>2. at' \in [1 .. Blocks(Count) -> States]
      BY <1>1, <2>1 DEF States
    <2> QED
      BY <1>1, <1>4, <2>2 DEF Sums, Shape, Compacts, Blocks
  <1> QED
    BY <1>4, <1>5, <1>6 DEF Sums, Adds

LEMMA NextSums == IInv /\ Sums /\ [CNext]_cVars => Sums'
  <1> SUFFICES ASSUME IInv, Sums, [CNext]_cVars PROVE Sums'
    OBVIOUS
  <1>1. CASE UNCHANGED cVars
    <2>1. UNCHANGED <<op, bufs, out, level, kernel, at, temp, pc, keeps, ok>>
      BY <1>1 DEF cVars, vars, compVars
    <2>2. Shape'
      BY <2>1 DEF Sums, Shape, Count, Compacts, Blocks
    <2>3. ASSUME NEW P, Adds(P), pc \notin {"failed", "returned"} PROVE Adds(P)'
      <3>1. Tower(P)' /\ Below(P)'
        BY <2>1, <2>3, SameLevels DEF Adds, Depth, Abandoned
      <3>2. \A g : /\ Written(g)' = Written(g)
                   /\ \A k : Of(k, g)' = Of(k, g) /\ Partial(P, k, g, Of(k, g))' = Partial(P, k, g, Of(k, g))
        BY <2>1 DEF Written, Of, Members, Global, Partial
      <3>3. /\ \A g : Scanning(P, g)' = Scanning(P, g) /\ Adding(P, g)' = Adding(P, g)
                      /\ Shifting(g)' = Shifting(g)
        BY <2>1, <3>2 DEF Scanning, Adding, Shifting, Raw, Partial, Full, Shifted, Of, Members, Global
      <3>4. Here(P)'
        BY <2>1, <2>3, <3>3 DEF Adds, Here, Blocks, Groups, Raw, Full, Shifted, All, Of, Members, Global
      <3> QED
        BY <3>1, <3>4 DEF Adds
    <2> QED
      BY <2>1, <2>2, <2>3 DEF Sums
  <1>2. CASE ScanStep /\ UNCHANGED compVars
    BY <1>2, ScanSums
  <1> QED
    BY <1>1, <1>2, FlagSums, CompactSums, ScatterSums DEF CNext, CStopped

(* A scan that succeeds leaves at every index the inputs up to it, each      *)
(* added once, and an exclusive one its init and the inputs before it: for   *)
(* every count and width of a workgroup, at any depth of the recursion and   *)
(* in any order of the workgroups (kernel_launcher.cpp:1280-1474).           *)
THEOREM ScanExact == CSpec => []ScanCorrect
  <1>1. IInv /\ Sums => ScanCorrect
    <2> SUFFICES ASSUME IInv, Sums, pc = "done",
                        op \in {"inclusive", "exclusive"}
                 PROVE  /\ op = "inclusive" => \A i \in DOMAIN bufs[1] : bufs[1][i] = SetToBag(1 .. i)
                        /\ op = "exclusive" => \A i \in DOMAIN out : out[i] = SetToBag(0 .. i - 1)
      BY DEF ScanCorrect
    <2>1. PICK P : Tower(P) /\ Here(P)
      BY DEF Sums, Adds
    <2>2. level = 1 /\ ~Abandoned
      BY DEF IInv, Stack, Abandoned
    <2>3. DOMAIN bufs[1] = 1 .. Count /\ All(1) = 1 .. Count /\ Count \in Nat
      BY <2>2, StackFacts DEF All, Count
    <2>4. ASSUME NEW i \in 1 .. Count PROVE Added(P[1], 1 .. i) = 1 .. i
      <3>1. \A j \in 1 .. i : P[1][j] = {j}
        <4>1. \A j \in 1 .. i : j \in 1 .. Count /\ In(j) = {j}
          BY <2>3 DEF In, Compacts
        <4> QED
          BY <2>1, <4>1 DEF Tower
      <3> QED
        BY <3>1 DEF Added
    <2>5. op = "inclusive" => \A i \in DOMAIN bufs[1] : bufs[1][i] = SetToBag(1 .. i)
      BY <2>1, <2>3, <2>4 DEF Here, Full
    <2>6. op = "exclusive" => \A i \in DOMAIN out : out[i] = SetToBag(0 .. i - 1)
      BY <2>1, <2>3 DEF Here, Shifted, Sums, Shape
    <2> QED
      BY <2>5, <2>6
  <1>2. IInv /\ Sums /\ [CNext]_cVars => Sums'
    BY NextSums
  <1> QED
    BY <1>1, <1>2, InitInv, NextInv, InitSums, PTL DEF CSpec
-------------------------------------------------------------------------------
(* The value of a position is the number of inputs added into it.            *)
LEMMA BagOfSetCardinality ==
    ASSUME NEW A, IsFiniteSet(A)
    PROVE  BagCardinality(SetToBag(A)) = Cardinality(A)
  <1> DEFINE B == SetToBag(A)
             Solves(d) == d = [S \in SUBSET DOMAIN B |->
                  IF S = {} THEN 0
                  ELSE B[CHOOSE e \in S : TRUE] + d[S \ {CHOOSE e \in S : TRUE}]]
             D == CHOOSE d : Solves(d)
  <1>1. BagCardinality(B) = D[DOMAIN B]
    BY DEF BagCardinality
  <1>2. DOMAIN B = A /\ \A e \in A : B[e] = 1
    BY DEF SetToBag
  <1> HIDE DEF B
  <1>3. ASSUME NEW S \in SUBSET A, S # {}
        PROVE  /\ (CHOOSE e \in S : TRUE) \in S
               /\ B[CHOOSE e \in S : TRUE] = 1
               /\ S \ {CHOOSE e \in S : TRUE} \in SUBSET A
               /\ IsFiniteSet(S)
               /\ Cardinality(S \ {CHOOSE e \in S : TRUE}) = Cardinality(S) - 1
               /\ Cardinality(S) \in Nat
    <2>1. PICK c \in S : c = CHOOSE e \in S : TRUE
      BY <1>3
    <2>2. IsFiniteSet(S)
      BY FS_Subset
    <2>3. Cardinality(S \ {c}) = Cardinality(S) - 1 /\ Cardinality(S) \in Nat
      BY <2>2, FS_RemoveElement, FS_CardinalityType
    <2> QED
      BY <1>2, <2>1, <2>2, <2>3
  <1>4. Solves([S \in SUBSET A |-> Cardinality(S)])
    <2> DEFINE d == [S \in SUBSET A |-> Cardinality(S)]
    <2>1. ASSUME NEW S \in SUBSET A
          PROVE  d[S] = IF S = {} THEN 0
                        ELSE B[CHOOSE e \in S : TRUE] + d[S \ {CHOOSE e \in S : TRUE}]
      <3>1. CASE S = {}
        BY <3>1, FS_EmptySet
      <3>2. CASE S # {}
        <4> DEFINE c == CHOOSE e \in S : TRUE
        <4>1. /\ B[c] = 1 /\ S \ {c} \in SUBSET A /\ Cardinality(S) \in Nat
              /\ Cardinality(S \ {c}) = Cardinality(S) - 1
          BY <1>3, <3>2
        <4> HIDE DEF c
        <4>2. d[S] = B[c] + d[S \ {c}]
          BY <4>1
        <4> QED
          BY <3>2, <4>2 DEF c
      <3> QED
        BY <3>1, <3>2
    <2> QED
      BY <1>2, <2>1
  <1>5. Solves(D)
    BY <1>4
  <1> HIDE DEF D
  <1>6. \A S \in SUBSET A : D[S] = IF S = {} THEN 0
                ELSE B[CHOOSE e \in S : TRUE] + D[S \ {CHOOSE e \in S : TRUE}]
    BY <1>2, <1>5
  <1> HIDE DEF Solves
  <1> DEFINE Right == {k \in Nat : \A S \in SUBSET A : Cardinality(S) = k => D[S] = k}
  <1>7. 0 \in Right
    <2>1. ASSUME NEW S \in SUBSET A, Cardinality(S) = 0 PROVE S = {}
      BY <2>1, FS_Subset, FS_EmptySet
    <2> QED
      BY <1>6, <2>1
  <1>8. ASSUME NEW k \in Nat, k \in Right PROVE k + 1 \in Right
    <2> SUFFICES ASSUME NEW S \in SUBSET A, Cardinality(S) = k + 1 PROVE D[S] = k + 1
      BY <1>8
    <2>1. S # {}
      BY FS_EmptySet
    <2>2. PICK T \in SUBSET A : T = S \ {CHOOSE e \in S : TRUE} /\ Cardinality(T) = k
      <3>1. /\ S \ {CHOOSE e \in S : TRUE} \in SUBSET A
            /\ Cardinality(S \ {CHOOSE e \in S : TRUE}) = (k + 1) - 1
        BY <1>3, <2>1
      <3>2. (k + 1) - 1 = k
        OBVIOUS
      <3> QED
        BY <3>1, <3>2
    <2>3. D[T] = k
      BY <1>8, <2>2
    <2> QED
      BY <1>3, <1>6, <2>1, <2>2, <2>3
  <1>9. Nat \subseteq Right
    <2> HIDE DEF Right
    <2> QED
      BY <1>7, <1>8, Induction
  <1>10. Cardinality(A) \in Nat
    BY FS_CardinalityType
  <1>11. D[A] = Cardinality(A)
    BY <1>9, <1>10
  <1> QED
    BY <1>1, <1>2, <1>11 DEF B

(* The rank of an index in a set of indices. *)
Rank(S, i) == Cardinality({j \in S : j <= i})

LEMMA RankFacts ==
    ASSUME NEW m \in Nat, NEW S \in SUBSET (1 .. m)
    PROVE  /\ Rank(S, 0) = 0 /\ Rank(S, m) = Cardinality(S)
           /\ IsFiniteSet(S) /\ Cardinality(S) \in Nat
           /\ \A i \in 0 .. m : Rank(S, i) \in Nat
           /\ \A i \in 1 .. m : Rank(S, i) = Rank(S, i - 1) + (IF i \in S THEN 1 ELSE 0)
  <1>1. IsFiniteSet(1 .. m)
    BY FS_Interval
  <1>2. IsFiniteSet(S) /\ Cardinality(S) \in Nat
    BY <1>1, FS_Subset, FS_CardinalityType
  <1>3. \A i \in 0 .. m : IsFiniteSet({j \in S : j <= i}) /\ Rank(S, i) \in Nat
    <2> SUFFICES ASSUME NEW i \in 0 .. m
                 PROVE  IsFiniteSet({j \in S : j <= i}) /\ Rank(S, i) \in Nat
      OBVIOUS
    <2>1. {j \in S : j <= i} \in SUBSET S
      OBVIOUS
    <2> QED
      BY <1>2, <2>1, FS_Subset, FS_CardinalityType DEF Rank
  <1>4. {j \in S : j <= 0} = {} /\ {j \in S : j <= m} = S
    <2>1. \A j \in S : ~(j <= 0) /\ j <= m
      OBVIOUS
    <2> QED
      BY <2>1, Zenon
  <1>5. ASSUME NEW i \in 1 .. m
        PROVE  Rank(S, i) = Rank(S, i - 1) + (IF i \in S THEN 1 ELSE 0)
    <2>1. i - 1 \in 0 .. m /\ i \in 0 .. m
      OBVIOUS
    <2>2. CASE i \in S
      <3>1. {j \in S : j <= i} = {j \in S : j <= i - 1} \cup {i} /\ i \notin {j \in S : j <= i - 1}
        <4>1. \A j \in S : j <= i <=> j <= i - 1 \/ j = i
          OBVIOUS
        <4>2. ~(i <= i - 1)
          OBVIOUS
        <4> QED
          BY <2>2, <4>1, <4>2, Zenon
      <3> QED
        BY <1>3, <2>1, <2>2, <3>1, FS_AddElement DEF Rank
    <2>3. CASE i \notin S
      <3>1. {j \in S : j <= i} = {j \in S : j <= i - 1}
        <4>1. \A j \in S : j # i => (j <= i <=> j <= i - 1)
          OBVIOUS
        <4> QED
          BY <2>3, <4>1, Zenon
      <3> QED
        BY <1>3, <2>1, <2>3, <3>1 DEF Rank
    <2> QED
      BY <2>2, <2>3
  <1> QED
    BY <1>2, <1>3, <1>4, <1>5, FS_EmptySet DEF Rank

LEMMA RankMonotonic ==
    ASSUME NEW m \in Nat, NEW S \in SUBSET (1 .. m), NEW i \in 0 .. m, NEW j \in 0 .. m, i <= j
    PROVE  Rank(S, i) <= Rank(S, j)
  <1>1. {k \in S : k <= i} \in SUBSET {k \in S : k <= j}
    <2>1. \A k \in S : k <= i => k <= j
      OBVIOUS
    <2> QED
      BY <2>1
  <1>2. IsFiniteSet({k \in S : k <= j})
    <2>1. IsFiniteSet(S) /\ {k \in S : k <= j} \in SUBSET S
      BY RankFacts
    <2> QED
      BY <2>1, FS_Subset
  <1> QED
    BY <1>1, <1>2, FS_Subset DEF Rank

(* Every rank up to the size of the set is that of exactly one of its        *)
(* elements.                                                                 *)
LEMMA RankBijective ==
    ASSUME NEW m \in Nat, NEW S \in SUBSET (1 .. m)
    PROVE  /\ \A i \in S : Rank(S, i) \in 1 .. Cardinality(S)
           /\ \A i, j \in S : Rank(S, i) = Rank(S, j) => i = j
           /\ \A k \in 1 .. Cardinality(S) : \E i \in S : Rank(S, i) = k
  <1>1. /\ Rank(S, 0) = 0 /\ Rank(S, m) = Cardinality(S)
        /\ \A i \in 0 .. m : Rank(S, i) \in Nat
        /\ \A i \in 1 .. m : Rank(S, i) = Rank(S, i - 1) + (IF i \in S THEN 1 ELSE 0)
        /\ Cardinality(S) \in Nat
    BY RankFacts
  <1>2. \A i, j \in 0 .. m : i <= j => Rank(S, i) <= Rank(S, j)
    BY RankMonotonic
  <1>3. ASSUME NEW i \in S PROVE Rank(S, i) \in 1 .. Cardinality(S)
    <2>1. i \in 0 .. m /\ i - 1 \in 0 .. m /\ m \in 0 .. m /\ i <= m
      OBVIOUS
    <2> QED
      BY <1>1, <1>2, <2>1
  <1>4. ASSUME NEW i \in S, NEW j \in S, i < j PROVE Rank(S, i) < Rank(S, j)
    <2>1. i \in 0 .. m /\ j - 1 \in 0 .. m /\ j \in 1 .. m /\ i <= j - 1
      BY <1>4
    <2> QED
      BY <1>1, <1>2, <2>1
  <1>5. ASSUME NEW k \in 1 .. Cardinality(S) PROVE \E i \in S : Rank(S, i) = k
    <2> DEFINE T == {i \in 0 .. m : Rank(S, i) >= k}
    <2>1. T \in SUBSET Nat /\ m \in T
      BY <1>1
    <2>2. PICK i \in T : \A j \in T : i <= j
      BY <2>1, Smallest
    <2>3. i # 0 /\ i \in 1 .. m
      BY <1>1, <2>2
    <2>4. i - 1 \in 0 .. m /\ ~(Rank(S, i - 1) >= k)
      BY <2>2, <2>3
    <2> QED
      BY <1>1, <2>2, <2>3, <2>4
  <1>6. ASSUME NEW i \in S, NEW j \in S, Rank(S, i) = Rank(S, j) PROVE i = j
    <2>1. i \in Int /\ j \in Int /\ Rank(S, i) \in Int
      BY <1>3
    <2> QED
      BY <1>4, <1>6, <2>1
  <1> QED
    BY <1>3, <1>5, <1>6

(* Ranks in a set and in the rest of the indices add up to the index. *)
LEMMA RankOfRest ==
    ASSUME NEW m \in Nat, NEW S \in SUBSET (1 .. m), NEW i \in 0 .. m
    PROVE  Rank(S, i) + Rank((1 .. m) \ S, i) = i
  <1> DEFINE C == (1 .. m) \ S
             Right == {k \in Nat : k <= m => Rank(S, k) + Rank(C, k) = k}
  <1>1. C \in SUBSET (1 .. m)
    OBVIOUS
  <1>2. 0 \in Right
    BY <1>1, RankFacts
  <1>3. ASSUME NEW k \in Nat, k \in Right PROVE k + 1 \in Right
    <2> SUFFICES ASSUME k + 1 <= m PROVE Rank(S, k + 1) + Rank(C, k + 1) = k + 1
      BY <1>3
    <2>1. /\ Rank(S, k + 1) = Rank(S, (k + 1) - 1) + (IF k + 1 \in S THEN 1 ELSE 0)
          /\ Rank(C, k + 1) = Rank(C, (k + 1) - 1) + (IF k + 1 \in C THEN 1 ELSE 0)
          /\ Rank(S, k) \in Nat /\ Rank(C, k) \in Nat
      <3>1. k + 1 \in 1 .. m /\ k \in 0 .. m
        OBVIOUS
      <3>2. ASSUME NEW V \in SUBSET (1 .. m)
            PROVE  /\ Rank(V, k + 1) = Rank(V, (k + 1) - 1) + (IF k + 1 \in V THEN 1 ELSE 0)
                   /\ Rank(V, k) \in Nat
        <4>1. /\ \A j \in 1 .. m : Rank(V, j) = Rank(V, j - 1) + (IF j \in V THEN 1 ELSE 0)
              /\ \A j \in 0 .. m : Rank(V, j) \in Nat
          BY RankFacts
        <4> QED
          BY <3>1, <4>1
      <3> HIDE DEF C
      <3> QED
        BY <1>1, <3>2
    <2>2. (k + 1) - 1 = k /\ k <= m /\ (k + 1 \in C <=> k + 1 \notin S)
      OBVIOUS
    <2>3. Rank(S, k) + Rank(C, k) = k
      BY <1>3, <2>2
    <2> HIDE DEF C
    <2> QED
      BY <2>1, <2>2, <2>3
  <1>4. Nat \subseteq Right
    <2> HIDE DEF Right
    <2> QED
      BY <1>2, <1>3, Induction
  <1> QED
    BY <1>4

(* InOrder puts the element of rank k at k. *)
LEMMA InOrderFacts ==
    ASSUME NEW m \in Nat, NEW S \in SUBSET (1 .. m)
    PROVE  /\ DOMAIN InOrder(S) = 1 .. Cardinality(S)
           /\ InOrder(S) = [k \in 1 .. Cardinality(S) |-> InOrder(S)[k]]
           /\ \A i \in S : InOrder(S)[Rank(S, i)] = i
  <1>1. ASSUME NEW i \in S PROVE InOrder(S)[Rank(S, i)] = i
    <2> DEFINE c == CHOOSE j \in S : Cardinality({l \in S : l <= j}) = Rank(S, i)
    <2>1. c \in S /\ Rank(S, c) = Rank(S, i)
      BY DEF Rank
    <2>2. c = i
      BY <2>1, RankBijective
    <2>3. Rank(S, i) \in 1 .. Cardinality(S)
      BY RankBijective
    <2> QED
      BY <2>2, <2>3 DEF InOrder
  <1> DEFINE Nth(k) == CHOOSE i \in S : Cardinality({j \in S : j <= i}) = k
  <1>2. InOrder(S) = [k \in 1 .. Cardinality(S) |-> Nth(k)]
    BY DEF InOrder
  <1> HIDE DEF Nth
  <1>3. /\ DOMAIN InOrder(S) = 1 .. Cardinality(S)
        /\ InOrder(S) = [k \in 1 .. Cardinality(S) |-> InOrder(S)[k]]
    BY <1>2
  <1> QED
    BY <1>1, <1>3

(* Where an element belongs: the kept ones in front, in their order, and for *)
(* a partition the rest behind them, in theirs; 0: nowhere.                  *)
Rest      == (1 .. Count) \ keeps
Target(i) == IF i \in keeps THEN Rank(keeps, i)
             ELSE IF op = "partition" THEN Cardinality(keeps) + Rank(Rest, i) ELSE 0

Compacted == InOrder(keeps) \o (IF op = "partition" THEN InOrder((1 .. Count) \ keeps)
                                ELSE [k \in 1 .. Count - Cardinality(keeps) |-> 0])

LEMMA TargetFacts ==
    ASSUME Count \in Nat, keeps \in SUBSET (1 .. Count)
    PROVE  /\ Cardinality(keeps) \in 0 .. Count /\ Cardinality(Rest) = Count - Cardinality(keeps)
           /\ \A i, j \in 1 .. Count : Target(i) = Target(j) => i = j \/ Target(i) = 0
           /\ \A i \in 1 .. Count : Target(i) # 0 => Target(i) \in 1 .. Count
  <1>1. Rest \in SUBSET (1 .. Count)
    BY DEF Rest
  <1>2. /\ Rank(keeps, Count) = Cardinality(keeps) /\ Cardinality(keeps) \in Nat
        /\ Rank(Rest, Count) = Cardinality(Rest) /\ Cardinality(Rest) \in Nat
    BY <1>1, RankFacts
  <1>3. Rank(keeps, Count) + Rank(Rest, Count) = Count
    <2>1. Count \in 0 .. Count
      OBVIOUS
    <2> QED
      BY <2>1, RankOfRest DEF Rest
  <1>4. /\ \A i \in keeps : Rank(keeps, i) \in 1 .. Cardinality(keeps)
        /\ \A i \in Rest : Rank(Rest, i) \in 1 .. Cardinality(Rest)
        /\ \A i, j \in keeps : Rank(keeps, i) = Rank(keeps, j) => i = j
        /\ \A i, j \in Rest : Rank(Rest, i) = Rank(Rest, j) => i = j
    BY <1>1, RankBijective
  <1>5. ASSUME NEW i \in 1 .. Count, NEW j \in 1 .. Count, Target(i) = Target(j), i # j
        PROVE  Target(i) = 0
    <2>1. /\ i \notin keeps => i \in Rest
          /\ j \notin keeps => j \in Rest
      BY DEF Rest
    <2>2. CASE op = "partition"
      <3>1. CASE i \in keeps /\ j \in keeps
        BY <1>4, <1>5, <3>1 DEF Target
      <3>2. CASE i \in keeps /\ j \notin keeps
        BY <1>2, <1>4, <1>5, <2>1, <2>2, <3>2 DEF Target
      <3>3. CASE i \notin keeps /\ j \in keeps
        BY <1>2, <1>4, <1>5, <2>1, <2>2, <3>3 DEF Target
      <3>4. CASE i \notin keeps /\ j \notin keeps
        <4>1. Cardinality(keeps) + Rank(Rest, i) = Cardinality(keeps) + Rank(Rest, j)
          BY <1>5, <2>2, <3>4 DEF Target
        <4>2. Rank(Rest, i) \in Int /\ Rank(Rest, j) \in Int /\ Cardinality(keeps) \in Int
          BY <1>2, <1>4, <2>1, <3>4
        <4>3. Rank(Rest, i) = Rank(Rest, j)
          BY <4>1, <4>2
        <4> QED
          BY <1>4, <1>5, <2>1, <3>4, <4>3
      <3> QED
        BY <3>1, <3>2, <3>3, <3>4
    <2>3. CASE op # "partition"
      BY <1>4, <1>5, <2>3 DEF Target
    <2> QED
      BY <2>2, <2>3
  <1>6. ASSUME NEW i \in 1 .. Count, Target(i) # 0 PROVE Target(i) \in 1 .. Count
    <2>1. CASE i \in keeps
      BY <1>2, <1>3, <1>4, <2>1 DEF Target
    <2>2. CASE i \notin keeps
      <3>1. i \in Rest
        BY <2>2 DEF Rest
      <3> QED
        BY <1>2, <1>3, <1>4, <1>6, <2>2, <3>1 DEF Target
    <2> QED
      BY <2>1, <2>2
  <1> QED
    BY <1>2, <1>3, <1>5, <1>6

LEMMA IsSequence ==
    ASSUME NEW s, NEW k \in Nat, s = [i \in 1 .. k |-> s[i]], NEW V, \A i \in 1 .. k : s[i] \in V
    PROVE  s \in Seq(V) /\ Len(s) = k
  <1>1. s \in [1 .. k -> V]
    OBVIOUS
  <1>2. s \in Seq(V)
    BY <1>1
  <1> QED
    BY <1>2, LengthFacts

Lists(s, k) == s = [i \in 1 .. k |-> s[i]]

LEMMA Concatenation ==
    ASSUME NEW a \in Nat, NEW b \in Nat, NEW s, NEW t, NEW u,
           Lists(s, a), Lists(t, b), Lists(u, a + b),
           \A i \in 1 .. a : u[i] = s[i], \A i \in 1 .. b : u[a + i] = t[i]
    PROVE  u = s \o t
  <1> USE DEF Lists
  <1> DEFINE V == {s[i] : i \in 1 .. a} \cup {t[i] : i \in 1 .. b}
  <1>1. s \in Seq(V) /\ t \in Seq(V)
    <2>1. (\A i \in 1 .. a : s[i] \in V) /\ \A i \in 1 .. b : t[i] \in V
      OBVIOUS
    <2> HIDE DEF V
    <2> QED
      BY <2>1, IsSequence
  <1>2. Len(s) = a /\ Len(t) = b
    BY LengthFacts
  <1>3. s \o t = [i \in 1 .. a + b |-> IF i <= a THEN s[i] ELSE t[i - a]]
    <2> HIDE DEF V
    <2>1. s \o t \in Seq(V) /\ Len(s \o t) = a + b
      BY <1>1, <1>2
    <2>2. s \o t = [i \in 1 .. a + b |-> (s \o t)[i]]
      BY <2>1
    <2>3. ASSUME NEW i \in 1 .. a + b
          PROVE  (s \o t)[i] = IF i <= a THEN s[i] ELSE t[i - a]
      BY <1>1, <1>2
    <2> QED
      BY <2>2, <2>3
  <1>4. ASSUME NEW i \in 1 .. a + b PROVE u[i] = IF i <= a THEN s[i] ELSE t[i - a]
    <2>1. CASE i <= a
      <3>1. i \in 1 .. a
        BY <2>1
      <3> QED
        BY <2>1, <3>1
    <2>2. CASE ~(i <= a)
      <3>1. i - a \in 1 .. b /\ a + (i - a) = i
        BY <2>2
      <3>2. u[a + (i - a)] = t[i - a]
        BY <3>1
      <3> QED
        BY <2>2, <3>1, <3>2
    <2> QED
      BY <2>1, <2>2
  <1> QED
    BY <1>3, <1>4

(* An output that holds every element where it belongs. *)
LEMMA OutputCompacted ==
    ASSUME Count \in Nat, keeps \in SUBSET (1 .. Count), output = [k \in 1 .. Count |-> output[k]],
           \A i \in 1 .. Count : Target(i) # 0 => output[Target(i)] = i,
           \A k \in 1 .. Count : (\A i \in 1 .. Count : Target(i) # k) => output[k] = 0
    PROVE  output = Compacted
  <1> DEFINE a == Cardinality(keeps)
             s == InOrder(keeps)
             t == IF op = "partition" THEN InOrder((1 .. Count) \ keeps)
                  ELSE [k \in 1 .. Count - Cardinality(keeps) |-> 0]
  <1>1. a \in 0 .. Count /\ Count - a \in Nat /\ a + (Count - a) = Count
        /\ Cardinality(Rest) = Count - a /\ Rest \in SUBSET (1 .. Count)
    BY TargetFacts DEF Rest
  <1>2. /\ DOMAIN s = 1 .. a /\ s = [i \in 1 .. a |-> s[i]]
        /\ \A i \in keeps : s[Rank(keeps, i)] = i
    BY InOrderFacts
  <1>3. t = [i \in 1 .. Count - a |-> t[i]]
    <2>1. InOrder(Rest) = [i \in 1 .. Count - a |-> InOrder(Rest)[i]]
      <3>1. InOrder(Rest) = [i \in 1 .. Cardinality(Rest) |-> InOrder(Rest)[i]]
        BY <1>1, InOrderFacts
      <3> QED
        BY <1>1, <3>1
    <2> QED
      BY <2>1 DEF Rest
  <1>4. ASSUME NEW k \in 1 .. a PROVE output[k] = s[k]
    <2>1. PICK i \in keeps : Rank(keeps, i) = k
      BY RankBijective
    <2>2. Target(i) = k /\ i \in 1 .. Count /\ k # 0
      BY <2>1 DEF Target
    <2> QED
      BY <1>2, <2>1, <2>2
  <1>5. ASSUME NEW k \in 1 .. Count - a PROVE output[a + k] = t[k]
    <2>1. CASE op = "partition"
      <3>1. PICK i \in Rest : Rank(Rest, i) = k
        BY <1>1, RankBijective
      <3>2. Target(i) = a + k /\ i \in 1 .. Count /\ a + k # 0
        BY <1>1, <2>1, <3>1 DEF Target, Rest
      <3>3. InOrder(Rest)[k] = i
        BY <1>1, <3>1, InOrderFacts
      <3> QED
        BY <2>1, <3>2, <3>3 DEF Rest
    <2>2. CASE op # "partition"
      <3>1. \A i \in 1 .. Count : Target(i) # a + k
        <4>1. \A i \in keeps : Rank(keeps, i) \in 1 .. a
          BY RankBijective
        <4> QED
          BY <1>1, <2>2, <4>1 DEF Target
      <3>2. a + k \in 1 .. Count
        BY <1>1
      <3> QED
        BY <2>2, <3>1, <3>2
    <2> QED
      BY <2>1, <2>2
  <1>6. a \in Nat
    BY <1>1
  <1> HIDE DEF a, s, t
  <1>7. output = s \o t
    <2>1. output = [i \in 1 .. a + (Count - a) |-> output[i]]
      BY <1>1
    <2>2. PICK b \in Nat : b = Count - a
      BY <1>1
    <2>3. /\ Lists(s, a) /\ Lists(t, b) /\ Lists(output, a + b)
          /\ \A i \in 1 .. a : output[i] = s[i]
          /\ \A i \in 1 .. b : output[a + i] = t[i]
      BY <1>2, <1>3, <1>4, <1>5, <2>1, <2>2 DEF Lists
    <2>4. a \in Nat /\ b \in Nat
      BY <1>6
    <2> HIDE DEF a
    <2> QED
      BY <2>3, <2>4, Concatenation
  <1> QED
    BY <1>7 DEF Compacted, s, t

-------------------------------------------------------------------------------
(* What a compaction has written: nothing before its scatter, and in it the  *)
(* elements of the workgroups that have stored, each where it belongs.       *)
Done(i) == \E g \in Groups : at[g] = "stored" /\ i \in Mine(g)

Placed ==
    /\ \A i \in 1 .. Count : Done(i) /\ Target(i) # 0 => output[Target(i)] = i
    /\ \A k \in 1 .. Count :
          (\A i \in 1 .. Count : Done(i) => Target(i) # k) => output[k] = 0

Kept ==
    /\ Count \in Nat /\ keeps \in SUBSET (1 .. Count)
    /\ output = [k \in 1 .. Count |-> output[k]]
    /\ pc \notin {"scatter", "returned"} => output = Untouched
    /\ pc = "compact" => kept = 0
    /\ pc = "scatter" => kept = Cardinality(keeps) /\ Placed
    /\ CompactCorrect

(* The scanned flags are the ranks of the kept elements, so an element goes  *)
(* where it belongs.                                                         *)
LEMMA PositionsAreRanks ==
    ASSUME IInv, Kept, level = 1, ~Abandoned, Compacts, NEW P, Tower(P), Full(P, 1, All(1))
    PROVE  \A i \in 0 .. Count : Pos(i) = Rank(keeps, i)
  <1>1. Count \in Nat /\ All(1) = 1 .. Count /\ keeps \in SUBSET (1 .. Count)
    BY DEF Kept, All, Count
  <1>2. Pos(0) = Rank(keeps, 0)
    BY <1>1, RankFacts DEF Pos
  <1>3. ASSUME NEW i \in 1 .. Count PROVE Pos(i) = Rank(keeps, i)
    <2> DEFINE A == {j \in keeps : j <= i}
    <2>1. Added(P[1], 1 .. i) = A
      <3>1. \A j \in 1 .. i : P[1][j] = {j} \cap keeps
        BY <1>1 DEF Tower, In
      <3>2. \A j \in keeps : j <= i <=> j \in 1 .. i
        BY <1>1
      <3> QED
        BY <3>1, <3>2 DEF Added
    <2>2. IsFiniteSet(A)
      <3>1. IsFiniteSet(keeps) /\ A \in SUBSET keeps
        BY <1>1, RankFacts
      <3> QED
        BY <3>1, FS_Subset
    <2>3. bufs[1][i] = SetToBag(A)
      BY <1>1, <2>1 DEF Full
    <2>4. BagCardinality(bufs[1][i]) = Cardinality(A)
      BY <2>2, <2>3, BagOfSetCardinality
    <2>5. i # 0
      BY <1>1
    <2> QED
      BY <2>4, <2>5 DEF Pos, Rank
  <1> QED
    BY <1>1, <1>2, <1>3

LEMMA Destinations ==
    ASSUME IInv, Sums, Kept, pc = "scatter"
    PROVE  \A i \in 1 .. Count : Destination(i) = Target(i)
  <1>1. level = 1 /\ ~Abandoned /\ Compacts
    BY DEF IInv, Stack, Abandoned, Sums, Shape
  <1>2. PICK P : Tower(P) /\ Full(P, 1, All(1))
    BY DEF Sums, Adds, Here
  <1>3. \A i \in 0 .. Count : Pos(i) = Rank(keeps, i)
    BY <1>1, <1>2, PositionsAreRanks
  <1>4. Count \in Nat /\ keeps \in SUBSET (1 .. Count) /\ kept = Cardinality(keeps) /\ kept \in Nat
    BY RankFacts DEF Kept
  <1> SUFFICES ASSUME NEW i \in 1 .. Count PROVE Destination(i) = Target(i)
    OBVIOUS
  <1>5. i \in 0 .. Count /\ i - 1 \in 0 .. Count /\ i \in Nat
    BY <1>4
  <1>6. /\ Pos(i) = Rank(keeps, i) /\ Pos(i - 1) = Rank(keeps, i - 1)
        /\ Pos(i) \in Nat /\ Pos(i - 1) \in Nat
        /\ Pos(i) = Pos(i - 1) + (IF i \in keeps THEN 1 ELSE 0)
    BY <1>3, <1>4, <1>5, RankFacts
  <1>7. Rank(keeps, i) + Rank(Rest, i) = i /\ Rank(Rest, i) \in Nat
    <2>1. Rest \in SUBSET (1 .. Count)
      BY DEF Rest
    <2> QED
      BY <1>4, <1>5, <2>1, RankFacts, RankOfRest DEF Rest
  <1>8. kept + i - Pos(i) = kept + Rank(Rest, i)
    BY <1>4, <1>5, <1>6, <1>7
  <1>9. CASE i \in keeps
    <2>1. Pos(i) > Pos(i - 1)
      BY <1>6, <1>9
    <2> QED
      BY <1>6, <1>9, <2>1 DEF Destination, Target
  <1>10. CASE i \notin keeps
    <2>1. ~(Pos(i) > Pos(i - 1))
      BY <1>6, <1>10
    <2> QED
      BY <1>4, <1>8, <1>10, <2>1 DEF Destination, Target
  <1> QED
    BY <1>9, <1>10

LEMMA MineMembers ==
    ASSUME Count \in Nat, Groups = 1 .. Blocks(Count)
    PROVE  /\ \A g \in Groups : Mine(g) = Members(g, Count)
           /\ \A i \in 1 .. Count : \E g \in Groups : i \in Mine(g)
  <1>1. \A g \in Groups : Mine(g) = Members(g, Count)
    BY DEF Mine, Members
  <1> QED
    BY <1>1, EveryMember

LEMMA ScatterKept ==
    ASSUME IInv, Sums, Kept, NEW g \in Groups, ScatterGroup(g)
    PROVE  Kept'
  <1>1. /\ UNCHANGED <<bufs, keeps, kept, pc, op>> /\ pc = "scatter" /\ at[g] = "queued"
        /\ at' = [at EXCEPT ![g] = "stored"]
    BY DEF ScatterGroup
  <1>2. Count' = Count /\ Count \in Nat /\ keeps \in SUBSET (1 .. Count)
        /\ DOMAIN output = 1 .. Count
    BY <1>1 DEF Count, Kept
  <1>3. \A i \in 1 .. Count : Destination(i) = Target(i) /\ Target(i)' = Target(i)
    BY <1>1, <1>2, Destinations DEF Target, Rest
  <1>4. \A i, j \in 1 .. Count : Target(i) = Target(j) => i = j \/ Target(i) = 0
    BY <1>2, TargetFacts
  <1>5. /\ Groups' = Groups /\ \A h : Mine(h)' = Mine(h)
        /\ \A i \in 1 .. Count : Done(i)' <=> Done(i) \/ i \in Mine(g)
    <2>1. Groups' = Groups /\ \A h : Mine(h)' = Mine(h)
      BY <1>1, <1>2 DEF Groups, Mine, Global
    <2>2. ASSUME NEW i \in 1 .. Count PROVE Done(i)' <=> Done(i) \/ i \in Mine(g)
      BY <1>1, <2>1 DEF Done, Groups
    <2> QED
      BY <2>1, <2>2
  <1>6. \A k \in 1 .. Count :
          /\ (\A i \in Mine(g) : Target(i) # k) => output'[k] = output[k]
          /\ \A i \in Mine(g) : Target(i) = k => output'[k] = i
    <2> SUFFICES ASSUME NEW k \in 1 .. Count
                 PROVE  /\ (\A i \in Mine(g) : Target(i) # k) => output'[k] = output[k]
                        /\ \A i \in Mine(g) : Target(i) = k => output'[k] = i
      OBVIOUS
    <2> DEFINE from == {i \in Mine(g) : Destination(i) = k}
    <2>1. output'[k] = IF from = {} THEN output[k] ELSE CHOOSE i \in from : TRUE
      BY <1>2 DEF ScatterGroup
    <2>2. \A i \in Mine(g) : i \in 1 .. Count
      BY DEF Mine
    <2>3. \A i \in from : i \in Mine(g) /\ Target(i) = k
      BY <1>3, <2>2
    <2>4. \A i \in Mine(g) : Target(i) = k => i \in from
      BY <1>3, <2>2
    <2> HIDE DEF from
    <2>5. ASSUME NEW i \in Mine(g), Target(i) = k PROVE output'[k] = i
      <3>1. (CHOOSE j \in from : TRUE) \in from /\ from # {}
        BY <2>4, <2>5
      <3>2. (CHOOSE j \in from : TRUE) = i
        <4>1. k # 0
          BY <1>2
        <4> QED
          BY <1>4, <2>2, <2>3, <2>5, <3>1, <4>1
      <3> QED
        BY <2>1, <3>1, <3>2
    <2>6. ASSUME \A i \in Mine(g) : Target(i) # k PROVE output'[k] = output[k]
      <3>1. from = {}
        BY <2>3, <2>6
      <3> QED
        BY <2>1, <3>1
    <2> QED
      BY <2>5, <2>6
  <1>7. \A i \in 1 .. Count : Target(i) # 0 => Target(i) \in 1 .. Count
    BY <1>2, TargetFacts
  <1>8. Placed'
    <2>1. \A i \in Mine(g) : i \in 1 .. Count
      BY DEF Mine
    <2>2. ASSUME NEW i \in 1 .. Count, Done(i)', Target(i) # 0 PROVE output'[Target(i)] = i
      <3>1. CASE i \in Mine(g)
        BY <1>6, <1>7, <2>2, <3>1
      <3>2. CASE i \notin Mine(g)
        <4>1. Done(i) /\ output[Target(i)] = i
          BY <1>1, <1>5, <2>2, <3>2 DEF Kept, Placed
        <4>2. \A j \in Mine(g) : Target(j) # Target(i)
          BY <1>4, <2>1, <2>2, <3>2
        <4> QED
          BY <1>6, <1>7, <2>2, <4>1, <4>2
      <3> QED
        BY <3>1, <3>2
    <2>3. ASSUME NEW k \in 1 .. Count, \A i \in 1 .. Count : Done(i)' => Target(i) # k
          PROVE  output'[k] = 0
      <3>1. \A i \in Mine(g) : Target(i) # k
        BY <1>5, <2>1, <2>3
      <3>2. \A i \in 1 .. Count : Done(i) => Target(i) # k
        BY <1>5, <2>3
      <3>3. output[k] = 0
        BY <1>1, <3>2 DEF Kept, Placed
      <3> QED
        BY <1>6, <3>1, <3>3
    <2> QED
      BY <1>2, <1>3, <2>2, <2>3 DEF Placed
  <1>9. output' = [k \in 1 .. Count |-> output'[k]]
    BY <1>2 DEF ScatterGroup
  <1> QED
    BY <1>1, <1>2, <1>8, <1>9 DEF Kept, CompactCorrect

LEMMA CompactKept ==
    ASSUME IInv, Sums, Kept, AllocatePositions \/ DispatchGroups \/ GroupsDone \/ Scanned
    PROVE  Kept'
  <1>1. /\ UNCHANGED <<op, bufs, level, keeps, output>>
        /\ pc \in {"compact", "flags", "scatter", "done", "failed"}
        /\ pc' \in {"returned", "flags", "scatter", "enter"}
        /\ pc' = "scatter" => pc \in {"done", "scatter"}
        /\ pc # "scatter" => pc' = "scatter" \/ UNCHANGED kept
        /\ pc = "scatter" => UNCHANGED kept
    BY DEF AllocatePositions, DispatchGroups, GroupsDone, Scanned, Finished, FreePositions, Return, Goto
  <1>2. /\ Count' = Count /\ Count \in Nat /\ keeps \in SUBSET (1 .. Count)
        /\ Untouched' = Untouched /\ output = [k \in 1 .. Count |-> output[k]]
        /\ \A i : Mine(i)' = Mine(i) /\ Target(i)' = Target(i)
    BY <1>1 DEF Kept, Count, Untouched, Mine, Global, Target, Rest
  <1>3. CASE pc' \in {"flags", "enter"}
    <2>1. pc # "scatter" /\ pc # "returned"
      BY <1>3 DEF AllocatePositions, DispatchGroups, GroupsDone, Scanned, Finished, FreePositions, Return, Goto
    <2> QED
      BY <1>1, <1>2, <1>3, <2>1 DEF Kept, CompactCorrect
  <1>4. CASE pc' = "scatter" /\ pc = "done"
    <2>1. Compacts /\ kept' = Pos(Count) /\ at' = <<>>
      BY <1>4 DEF AllocatePositions, DispatchGroups, GroupsDone, Scanned, Sums, Shape
    <2>2. level = 1 /\ ~Abandoned
      BY <1>4 DEF IInv, Stack, Abandoned
    <2>3. PICK P : Tower(P) /\ Full(P, 1, All(1))
      BY <1>4 DEF Sums, Adds, Here
    <2>4. kept' = Cardinality(keeps)
      <3>1. Pos(Count) = Rank(keeps, Count)
        BY <1>2, <2>1, <2>2, <2>3, PositionsAreRanks
      <3> QED
        BY <1>2, <2>1, <3>1, RankFacts
    <2>5. \A i : ~Done(i)'
      <3>1. DOMAIN <<>> = {}
        OBVIOUS
      <3> QED
        BY <2>1, <3>1 DEF Done, Groups
    <2>6. Placed'
      BY <1>1, <1>2, <1>4, <2>5 DEF Placed, Kept, Untouched
    <2> QED
      BY <1>1, <1>2, <1>4, <2>4, <2>6 DEF Kept, CompactCorrect
  <1>5. CASE pc' = "scatter" /\ pc = "scatter"
    <2>1. at = <<>> /\ at' = Queued
      BY <1>5 DEF AllocatePositions, DispatchGroups, GroupsDone, Scanned, Finished, FreePositions, Return, Goto
    <2>2. \A i : ~Done(i)' /\ ~Done(i)
      <3>1. DOMAIN <<>> = {}
        OBVIOUS
      <3> QED
        BY <2>1, <3>1 DEF Done, Groups, Queued
    <2>3. Placed'
      BY <1>1, <1>2, <1>5, <2>2 DEF Placed, Kept
    <2> QED
      BY <1>1, <1>2, <1>5, <2>3 DEF Kept, CompactCorrect
  <1>6. CASE pc' = "returned" /\ ok'
    <2>1. \/ pc = "compact" /\ Count = 0
          \/ pc = "scatter" /\ at # <<>> /\ \A g \in Groups : at[g] = "stored"
      BY <1>6 DEF AllocatePositions, DispatchGroups, GroupsDone, Scanned, Finished, FreePositions, Return, Goto
    <2>2. CASE pc = "compact" /\ Count = 0
      <3>1. keeps = {} /\ kept = 0
        BY <1>2, <2>2 DEF Kept
      <3>2. kept = Cardinality(keeps)
        BY <3>1, FS_EmptySet
      <3>3. output = Compacted
        BY <1>2, <2>2, OutputCompacted
      <3> QED
        BY <1>1, <1>2, <1>6, <2>2, <3>2, <3>3 DEF Kept, CompactCorrect, Compacted
    <2>3. CASE pc = "scatter" /\ at # <<>> /\ \A g \in Groups : at[g] = "stored"
      <3>1. Groups = 1 .. Blocks(Count)
        BY <2>3 DEF Sums, Shape, Groups
      <3>2. \A i \in 1 .. Count : Done(i)
        BY <1>2, <2>3, <3>1, MineMembers DEF Done
      <3>3. output = Compacted
        BY <1>2, <2>3, <3>2, OutputCompacted DEF Kept, Placed
      <3>4. kept = Cardinality(keeps)
        BY <2>3 DEF Kept
      <3> QED
        BY <1>1, <1>2, <1>6, <2>3, <3>3, <3>4 DEF Kept, CompactCorrect, Compacted
    <2> QED
      BY <2>1, <2>2, <2>3
  <1>7. CASE pc' = "returned" /\ ~ok'
    <2>1. pc = "scatter" => at = <<>>
      BY <1>7 DEF AllocatePositions, DispatchGroups, GroupsDone, Scanned, Finished, FreePositions, Return, Goto
    <2>2. output = Untouched
      <3>1. CASE pc = "scatter"
        <4>1. DOMAIN <<>> = {}
          OBVIOUS
        <4>2. \A i : ~Done(i)
          BY <2>1, <3>1, <4>1 DEF Done, Groups
        <4>3. \A k \in 1 .. Count : output[k] = 0
          BY <3>1, <4>2 DEF Kept, Placed
        <4> QED
          BY <1>2, <4>3 DEF Untouched
      <3>2. CASE pc # "scatter"
        BY <1>1, <3>2 DEF Kept
      <3> QED
        BY <3>1, <3>2
    <2> QED
      BY <1>1, <1>2, <1>7, <2>2 DEF Kept, CompactCorrect
  <1> QED
    BY <1>1, <1>3, <1>4, <1>5, <1>6, <1>7

LEMMA InitKept == CInit => Kept
  <1> SUFFICES ASSUME CInit PROVE Kept
    OBVIOUS
  <1>1. PICK k \in Nat : \E s : DOMAIN s = 1 .. k /\ bufs = <<s>> /\ keeps \in SUBSET (1 .. k)
    BY ScanAssumption DEF CInit, Init
  <1>2. Count = k
    <2>1. PICK s : DOMAIN s = 1 .. k /\ bufs = <<s>>
      BY <1>1
    <2> QED
      BY <2>1, LengthFacts DEF Count
  <1>3. /\ pc \in {"enter", "compact"} /\ kept = 0
        /\ output = [i \in 1 .. Count |-> 0] /\ output = Untouched
    BY DEF CInit, Init, Untouched
  <1> QED
    BY <1>1, <1>2, <1>3 DEF Kept, CompactCorrect

LEMMA NextKept == IInv /\ Sums /\ Kept /\ [CNext]_cVars => Kept'
  <1> SUFFICES ASSUME IInv, Sums, Kept, [CNext]_cVars PROVE Kept'
    OBVIOUS
  <1>1. CASE UNCHANGED cVars
    BY <1>1 DEF cVars, vars, compVars, Kept, Count, Untouched, Placed, Done, Groups, Mine, Global,
                Target, Rest, CompactCorrect
  <1>2. ASSUME Count' = Count, UNCHANGED compVars, op' = op, pc \notin {"scatter", "returned"},
               pc' \notin {"compact", "scatter", "returned"}
        PROVE  Kept'
    BY <1>2 DEF Kept, compVars, Untouched, CompactCorrect
  <1>3. CASE ScanStep /\ UNCHANGED compVars
    <2>1. pc \notin {"scatter", "returned"} /\ op' = op
      BY <1>3 DEF ScanStep, Enter, Dispatch, Finish, FreeBlocksums, Load, Store
    <2> QED
      BY <1>2, <1>3, <2>1, ScanSums
  <1>4. ASSUME NEW g \in Groups, Flag(g) PROVE Kept'
    <2>1. pc = "flags" /\ pc' = "flags" /\ op' = op /\ UNCHANGED compVars
      BY <1>4 DEF Flag
    <2> QED
      BY <1>2, <1>4, <2>1, FlagSums
  <1> QED
    BY <1>1, <1>3, <1>4, CompactKept, ScatterKept DEF CNext, CStopped

(* A compaction that succeeds reports the number of kept elements and leaves *)
(* them in front of the output in their order, the rest of a partition       *)
(* behind them in theirs; one that fails has written nothing: for every      *)
(* predicate, count and width, in any order of the workgroups                *)
(* (kernel_launcher.cpp:1701-1791).                                          *)
THEOREM CompactExact == CSpec => []CompactCorrect
  <1>1. Kept => CompactCorrect
    BY DEF Kept
  <1>2. IInv /\ Sums /\ [CNext]_cVars => IInv' /\ Sums'
    BY NextSums, NextInv
  <1> QED
    BY <1>1, <1>2, InitInv, InitSums, InitKept, NextKept, PTL DEF CSpec
===============================================================================
