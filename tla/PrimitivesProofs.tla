--------------------------- MODULE PrimitivesProofs ---------------------------
(***************************************************************************)
(* The primitives that return a value or sort in place, for every count,   *)
(* every width and every order of the workgroups or invocations.           *)
(*                                                                         *)
(* Reduction: the two scratch blocks are large enough for every level, no  *)
(* level writes what it reads, and what the last level leaves is the sum   *)
(* of the input.  Searches: what the host combines from the blocks'        *)
(* winners is what the sequential algorithm finds.  Sort: a bitonic        *)
(* schedule sorts, and loses no element wherever it fails.                 *)
(***************************************************************************)
EXTENDS Reduction, BitonicSort, BlockSearch, WorkgroupsProofs,
        FiniteSetTheorems, FunctionTheorems

-------------------------------------------------------------------------------
Types ==
    /\ count \in Nat /\ n \in Nat /\ toggle \in {0, 1}
    /\ pc \in {"start", "level", "run", "done", "failed"}
    /\ pc = "start" => src = 2 /\ n = count /\ toggle = 0

(* A level reads the other block, or the array; and what reaches the second  *)
(* block has been through the first.                                         *)
Levels ==
    pc \in {"level", "run"} =>
        /\ src = 2 \/ src = 1 - toggle
        /\ DOMAIN scratch = {0, 1}
        /\ DOMAIN scratch[0] = 1 .. Blocks(count)
        /\ DOMAIN scratch[1] = 1 .. Blocks(Blocks(count)) + 1
        /\ n <= count
        /\ toggle = 1 => n <= Blocks(count)

States == {"queued", "loaded", "stored"}

Flight ==
    pc = "run" =>
        /\ at \in [1 .. Blocks(n) -> States]
        /\ temp = [g \in 1 .. Blocks(n) |-> temp[g]]

IInv == Types /\ Levels /\ Flight /\ LevelsApart

(* The invariant of the reduction holds at its start. *)
LEMMA InitInv == Init => IInv
  BY ReductionAssumption DEF Init, IInv, Types, Levels, Flight, LevelsApart

(* What a level reads stays as it is when the other block is written. *)
LEMMA StoreKeepsSource ==
    ASSUME IInv, NEW g \in Groups, Store(g)
    PROVE  /\ Source' = Source
           /\ DOMAIN scratch' = DOMAIN scratch
           /\ \A b \in DOMAIN scratch : DOMAIN scratch'[b] = DOMAIN scratch[b]
  BY DEF IInv, Types, Levels, Store, Source, Array

(* Every step of the reduction keeps it. *)
LEMMA NextInv == IInv /\ [Next]_vars => IInv'
  <1> SUFFICES ASSUME IInv, [Next]_vars PROVE IInv'
    OBVIOUS
  <1>1. CASE Trivial \/ ReadResult \/ Stopped \/ UNCHANGED vars
    BY <1>1 DEF Trivial, ReadResult, Stopped, Goto, vars, IInv, Types, Levels, Flight,
                LevelsApart, Source, Array, Groups
  <1>2. CASE Allocate
    <2>1. CASE Fail
      BY <1>2, <2>1 DEF Allocate, Fail, Goto, IInv, Types, Levels, Flight, LevelsApart
    <2>2. CASE ~Fail
      <3>1. /\ scratch' = [b \in {0, 1} |-> [i \in 1 .. IF b = 0 THEN Blocks(count)
                                             ELSE SecondCapacity(Blocks(count)) |-> Stale]]
            /\ pc' = "level" /\ UNCHANGED <<count, src, n, toggle>>
            /\ src = 2 /\ n = count /\ toggle = 0 /\ count \in Nat
        BY <1>2, <2>2 DEF Allocate, Goto, IInv, Types
      <3>2. /\ DOMAIN scratch' = {0, 1}
            /\ DOMAIN scratch'[0] = 1 .. Blocks(count)
            /\ DOMAIN scratch'[1] = 1 .. Blocks(Blocks(count)) + 1
        BY <3>1 DEF SecondCapacity
      <3> QED
        BY <3>1, <3>2 DEF IInv, Types, Levels, Flight, LevelsApart, Blocks
    <2> QED
      BY <2>1, <2>2
  <1>3. CASE Dispatch
    <2>1. CASE Fail
      BY <1>3, <2>1 DEF Dispatch, Fail, Goto, IInv, Types, Levels, Flight, LevelsApart
    <2>2. CASE ~Fail
      <3>1. /\ at' = [g \in 1 .. Blocks(n) |-> "queued"]
            /\ temp' = [g \in 1 .. Blocks(n) |-> <<>>]
            /\ pc = "level" /\ pc' = "run" /\ UNCHANGED <<count, scratch, src, n, toggle>>
        BY <1>3, <2>2 DEF Dispatch, Goto
      <3>2. Blocks(n) \in Nat
        BY BlocksFacts DEF IInv, Types
      <3>3. at' \in [1 .. Blocks(n) -> States]
        BY <3>1, <3>2 DEF States
      <3> QED
        BY <3>1, <3>3 DEF IInv, Types, Levels, Flight, LevelsApart, Groups, Blocks
    <2> QED
      BY <2>1, <2>2
  <1>4. ASSUME NEW g \in Groups, Load(g) PROVE IInv'
    <2>1. /\ temp' = [temp EXCEPT ![g] = Loaded(Source, n, g)]
          /\ at' = [at EXCEPT ![g] = "loaded"]
          /\ pc = "run" /\ UNCHANGED <<count, scratch, src, n, toggle, pc, Source>>
      BY <1>4 DEF Load, Source, Array
    <2>2. Types' /\ Levels'
      BY <2>1 DEF IInv, Types, Levels, Blocks
    <2>3. /\ g \in 1 .. Blocks(n) /\ DOMAIN temp = 1 .. Blocks(n)
          /\ at \in [1 .. Blocks(n) -> States]
      BY <2>1 DEF IInv, Flight, Groups
    <2>4. at' \in [1 .. Blocks(n) -> States] /\ DOMAIN at' = DOMAIN at
      BY <2>1, <2>3 DEF States
    <2>5. Flight'
      BY <2>1, <2>3, <2>4 DEF Flight, Blocks
    <2>6. /\ temp'[g] = Loaded(Source, n, g)
          /\ \A h \in Groups : h # g => temp'[h] = temp[h] /\ at'[h] = at[h]
      BY <2>1, <2>3 DEF Groups
    <2>7. \A h \in Groups : Loaded(Source, n, h)' = Loaded(Source, n, h)
      BY <2>1 DEF Loaded, Global
    <2>8. LevelsApart'
      BY <2>1, <2>4, <2>6, <2>7 DEF IInv, LevelsApart, Groups
    <2> QED
      BY <2>2, <2>5, <2>8 DEF IInv
  <1>5. ASSUME NEW g \in Groups, Store(g) PROVE IInv'
    <2>1. /\ at' = [at EXCEPT ![g] = "stored"]
          /\ pc = "run" /\ UNCHANGED <<count, src, n, toggle, temp, pc>>
      BY <1>5 DEF Store
    <2>2. Types' /\ Levels'
      BY <1>5, <2>1, StoreKeepsSource DEF IInv, Types, Levels, Blocks
    <2>3. /\ g \in 1 .. Blocks(n)
          /\ at \in [1 .. Blocks(n) -> States]
      BY <2>1 DEF IInv, Flight, Groups
    <2>4. at' \in [1 .. Blocks(n) -> States] /\ DOMAIN at' = DOMAIN at
      BY <2>1, <2>3 DEF States
    <2>5. Flight'
      BY <2>1, <2>3, <2>4 DEF IInv, Flight, Blocks
    <2>6. LevelsApart'
      BY <1>5, <2>1, <2>3, StoreKeepsSource DEF IInv, LevelsApart, Groups, Loaded, Global
    <2> QED
      BY <2>2, <2>5, <2>6 DEF IInv
  <1>6. CASE NextLevel
    <2>1. /\ pc = "run" /\ pc' = "level" /\ src' = toggle /\ n' = Len(at)
          /\ toggle' = 1 - toggle /\ UNCHANGED <<count, scratch>>
      BY <1>6 DEF NextLevel, OtherBlock, Goto
    <2>2. Len(at) = Blocks(n) /\ Blocks(n) \in Nat /\ Blocks(n) <= n
      BY <2>1, BlocksFacts, LengthFacts DEF IInv, Types, Flight
    <2>3. Blocks(n) <= Blocks(count)
      BY <2>1, BlocksMonotonic DEF IInv, Types, Levels
    <2>4. Types' /\ Levels'
      BY <2>1, <2>2, <2>3 DEF IInv, Types, Levels, Blocks
    <2> QED
      BY <2>1, <2>4 DEF IInv, Flight, LevelsApart
  <1> QED
    BY <1>1, <1>2, <1>3, <1>4, <1>5, <1>6 DEF Next

(* So it holds throughout. *)
LEMMA InvHolds == Spec => []IInv
  BY InitInv, NextInv, PTL DEF Spec

(* What a level writes has a place in the block it writes to. *)
LEMMA RoomForPartials == IInv => PartialsFit
  <1> SUFFICES ASSUME IInv, pc = "run" PROVE Len(at) <= Len(scratch[toggle])
    BY DEF PartialsFit
  <1>1. Len(at) = Blocks(n) /\ n \in Nat /\ count \in Nat /\ toggle \in {0, 1}
    BY BlocksFacts, LengthFacts DEF IInv, Types, Flight
  <1>2. CASE toggle = 0
    BY <1>1, <1>2, BlocksMonotonic, BlocksFacts DEF IInv, Levels
  <1>3. CASE toggle = 1
    <2>1. /\ Blocks(count) \in Nat /\ n <= Blocks(count)
          /\ DOMAIN scratch[1] = 1 .. Blocks(Blocks(count)) + 1
      BY <1>1, <1>3, BlocksFacts DEF IInv, Levels
    <2>2. Blocks(n) <= Blocks(Blocks(count)) /\ Blocks(Blocks(count)) \in Nat
      BY <1>1, <2>1, BlocksMonotonic, BlocksFacts
    <2> QED
      BY <1>1, <1>3, <2>1, <2>2
  <1> QED
    BY <1>1, <1>2, <1>3

(* The two blocks allocated once before the loop have room for the partials  *)
(* of every level that is written into them (kernel_launcher.cpp:926-939). *)
THEOREM ScratchLargeEnough == Spec => []PartialsFit
  BY RoomForPartials, InvHolds, PTL

(* No workgroup overwrites what another one of its level reads, however long *)
(* the device delays it (kernel_launcher.cpp:960-976).                     *)
THEOREM NoLevelReadsItself == Spec => []LevelsApart
  <1>1. IInv => LevelsApart
    BY DEF IInv
  <1> QED
    BY <1>1, InvHolds, PTL
-------------------------------------------------------------------------------
(* What the elements a level reads have added up so far: every input, each   *)
(* of them in one element only.                                              *)
Parts(P) ==
    /\ DOMAIN P = 1 .. n /\ Apart(P)
    /\ UNION {P[i] : i \in 1 .. n} = 1 .. count
    /\ \A i \in 1 .. n : Source[i] = SetToBag(P[i])

Sums ==
    /\ pc \in {"level", "run"} => n >= 1 /\ \E P : Parts(P)
    /\ pc = "run" => \A g \in Groups :
          at[g] = "stored" => scratch[toggle][g] = TreeSum(Loaded(Source, n, g))
    /\ ReduceCorrect

(* When every workgroup has stored, the partials have added up the same.     *)
LEMMA PartsOfPartials ==
    ASSUME NEW P, Parts(P), n \in Nat, count \in Nat
    PROVE  \E R : /\ DOMAIN R = 1 .. Blocks(n) /\ Apart(R)
                  /\ UNION {R[g] : g \in 1 .. Blocks(n)} = 1 .. count
                  /\ \A g \in 1 .. Blocks(n) : TreeSum(Loaded(Source, n, g)) = SetToBag(R[g])
  <1> DEFINE S(g) == [t \in 1 .. W |-> IF Global(g, t) <= n THEN P[Global(g, t)] ELSE {}]
             R == [g \in 1 .. Blocks(n) |-> UNION {S(g)[t] : t \in 1 .. W}]
  <1>1. /\ W \in Nat /\ W >= 2 /\ Blocks(n) \in Nat
        /\ \A g \in 1 .. Blocks(n), t \in 1 .. W : Global(g, t) \in Nat \ {0}
    <2>1. W \in Nat /\ W >= 2 /\ Blocks(n) \in Nat
      BY BlocksFacts
    <2>2. ASSUME NEW g \in 1 .. Blocks(n) PROVE (g - 1) * W \in Nat
      BY <2>1, <2>2
    <2> QED
      BY <2>1, <2>2 DEF Global
  <1>2. \A g, h \in 1 .. Blocks(n), t, u \in 1 .. W :
            Global(g, t) = Global(h, u) => g = h /\ t = u
    BY <1>1, GlobalApart
  <1>3. ASSUME NEW g \in 1 .. Blocks(n), NEW h \in 1 .. Blocks(n), NEW t \in 1 .. W, NEW u \in 1 .. W,
               S(g)[t] \cap S(h)[u] # {}
        PROVE  g = h /\ t = u
    <2>1. /\ Global(g, t) \in 1 .. n /\ Global(h, u) \in 1 .. n
          /\ P[Global(g, t)] \cap P[Global(h, u)] # {}
      BY <1>1, <1>3
    <2>2. Global(g, t) = Global(h, u)
      BY <2>1 DEF Parts, Apart
    <2> QED
      BY <1>2, <2>2
  <1>4. ASSUME NEW g \in 1 .. Blocks(n)
        PROVE  TreeSum(Loaded(Source, n, g)) = SetToBag(R[g])
    <2>1. DOMAIN S(g) = 1 .. W /\ Apart(S(g))
      BY <1>3 DEF Apart
    <2>2. Loaded(Source, n, g) = [t \in 1 .. W |-> SetToBag(S(g)[t])]
      <3>1. ASSUME NEW t \in 1 .. W
            PROVE  (IF Global(g, t) <= n THEN Source[Global(g, t)] ELSE EmptyBag) = SetToBag(S(g)[t])
        BY <1>1 DEF Parts, EmptyBag
      <3> QED
        BY <3>1 DEF Loaded
    <2>3. R[g] = UNION {S(g)[t] : t \in 1 .. W}
      OBVIOUS
    <2> HIDE DEF S, R
    <2> QED
      BY <2>1, <2>2, <2>3, TreeSumAdds
  <1>5. Apart(R)
    BY <1>3 DEF Apart
  <1>6. UNION {R[g] : g \in 1 .. Blocks(n)} = 1 .. count
    <2>1. ASSUME NEW x \in 1 .. count PROVE \E g \in 1 .. Blocks(n) : x \in R[g]
      <3>1. PICK i \in 1 .. n : x \in P[i]
        BY DEF Parts
      <3>2. PICK g \in 1 .. Blocks(n) : \E t \in 1 .. W : Global(g, t) = i
        BY EveryElementLoaded
      <3>3. PICK t \in 1 .. W : Global(g, t) = i
        BY <3>2
      <3>4. x \in S(g)[t]
        BY <3>1, <3>3
      <3> HIDE DEF S
      <3> QED
        BY <3>4
    <2>2. ASSUME NEW g \in 1 .. Blocks(n), NEW x \in R[g] PROVE x \in 1 .. count
      <3>1. PICK t \in 1 .. W : x \in S(g)[t]
        OBVIOUS
      <3>2. Global(g, t) \in 1 .. n /\ x \in P[Global(g, t)]
        BY <1>1, <3>1
      <3> QED
        BY <3>2 DEF Parts
    <2> QED
      BY <2>1, <2>2
  <1>7. DOMAIN R = 1 .. Blocks(n)
    OBVIOUS
  <1> HIDE DEF R
  <1> QED
    BY <1>4, <1>5, <1>6, <1>7

(* Every step keeps the partition of the input into what is summed. *)
LEMMA NextSums ==
    ASSUME IInv, Sums, [Next]_vars
    PROVE  Sums'
  <1>1. CASE Trivial
    <2>1. result' = SetToBag(1 .. count)
      <3>1. CASE count = 0
        BY <1>1, <3>1 DEF Trivial, EmptyBag
      <3>2. CASE count = 1
        <4>1. 1 .. count = {1} /\ result' = Input(1)
          BY <1>1, <3>2 DEF Trivial, Array
        <4> QED
          BY <4>1 DEF Input
      <3> QED
        BY <1>1, <3>1, <3>2 DEF Trivial, IInv, Types
    <2> QED
      BY <1>1, <2>1 DEF Trivial, Goto, Sums, ReduceCorrect
  <1>2. CASE Allocate
    <2>1. CASE Fail
      BY <1>2, <2>1 DEF Allocate, Fail, Goto, Sums, ReduceCorrect
    <2>2. CASE ~Fail
      <3>1. /\ pc' = "level" /\ UNCHANGED <<count, src, n>> /\ count > 1
            /\ src = 2 /\ n = count /\ count \in Nat
        BY <1>2, <2>2 DEF Allocate, Goto, IInv, Types
      <3>2. Source' = Array /\ n' = count /\ count' = count
        BY <3>1 DEF Source, Array
      <3> DEFINE P == [i \in 1 .. count |-> {i}]
      <3>3. Parts(P)'
        BY <3>1, <3>2 DEF Parts, Apart, Array, Input
      <3> HIDE DEF P
      <3> QED
        BY <3>1, <3>3 DEF Sums, ReduceCorrect
    <2> QED
      BY <2>1, <2>2
  <1>3. CASE Dispatch
    BY <1>3 DEF Dispatch, Fail, Goto, Sums, ReduceCorrect, Parts, Source, Array, Groups
  <1>4. ASSUME NEW g \in Groups, Load(g) PROVE Sums'
    <2>1. /\ pc = "run" /\ at' = [at EXCEPT ![g] = "loaded"]
          /\ UNCHANGED <<count, scratch, n, toggle, pc, Source>>
      BY <1>4 DEF Load, Source, Array
    <2>2. \A P : Parts(P)' <=> Parts(P)
      BY <2>1 DEF Parts
    <2>3. Groups' = Groups /\ \A h \in Groups : at'[h] = "stored" => at[h] = "stored"
      BY <2>1 DEF Groups
    <2>4. \A h \in Groups : Loaded(Source, n, h)' = Loaded(Source, n, h)
      BY <2>1 DEF Loaded, Global
    <2> QED
      BY <2>1, <2>2, <2>3, <2>4 DEF Sums, ReduceCorrect
  <1>5. ASSUME NEW g \in Groups, Store(g) PROVE Sums'
    <2>1. /\ pc = "run" /\ at' = [at EXCEPT ![g] = "stored"] /\ at[g] = "loaded"
          /\ UNCHANGED <<count, n, toggle, pc, Source>>
          /\ scratch' = [scratch EXCEPT ![toggle] =
                     [i \in DOMAIN @ |-> IF i = g THEN TreeSum(temp[g]) ELSE @[i]]]
      BY <1>5, StoreKeepsSource DEF Store
    <2>2. temp[g] = Loaded(Source, n, g)
      BY <2>1 DEF IInv, LevelsApart
    <2>3. /\ Groups \subseteq DOMAIN scratch[toggle] /\ toggle \in DOMAIN scratch
      <3>1. /\ Len(at) <= Len(scratch[toggle]) /\ Len(at) = Blocks(n) /\ Groups = 1 .. Blocks(n)
            /\ Blocks(n) \in Nat
        BY <2>1, BlocksFacts, LengthFacts, RoomForPartials DEF IInv, Types, Flight, PartialsFit, Groups
      <3>2. toggle \in DOMAIN scratch /\ \E K \in Nat : DOMAIN scratch[toggle] = 1 .. K
        <4>1. Blocks(count) \in Nat /\ Blocks(Blocks(count)) + 1 \in Nat
          BY BlocksFacts DEF IInv, Types
        <4> QED
          BY <2>1, <4>1 DEF IInv, Types, Levels
      <3> QED
        BY <3>1, <3>2, LengthFacts
    <2>4. \A h \in Groups :
             scratch'[toggle][h] = IF h = g THEN TreeSum(Loaded(Source, n, g)) ELSE scratch[toggle][h]
      BY <2>1, <2>2, <2>3
    <2>5. Groups' = Groups /\ \A h \in Groups : h # g => at'[h] = at[h]
      BY <2>1 DEF Groups
    <2>6. \A h \in Groups : Loaded(Source, n, h)' = Loaded(Source, n, h)
      BY <2>1 DEF Loaded, Global
    <2>7. \A h \in Groups : at'[h] = "stored" => scratch'[toggle'][h] = TreeSum(Loaded(Source, n, h)')
      BY <2>1, <2>4, <2>5, <2>6 DEF Sums
    <2>8. \A P : Parts(P)' <=> Parts(P)
      BY <2>1 DEF Parts
    <2>9. n' >= 1 /\ \E P : Parts(P)'
      BY <2>1, <2>8 DEF Sums
    <2> QED
      BY <2>1, <2>5, <2>7, <2>9 DEF Sums, ReduceCorrect
  <1>6. CASE NextLevel
    <2>1. /\ pc = "run" /\ pc' = "level" /\ src' = toggle /\ n' = Len(at) /\ toggle \in {0, 1}
          /\ UNCHANGED <<count, scratch>> /\ \A g \in Groups : at[g] = "stored"
          /\ count \in Nat /\ n \in Nat /\ n >= 1
      BY <1>6 DEF NextLevel, Goto, IInv, Types, Sums
    <2>2. n' = Blocks(n) /\ Groups = 1 .. Blocks(n) /\ Blocks(n) >= 1
      BY <2>1, BlocksFacts, BlocksPositive, LengthFacts DEF IInv, Flight, Groups
    <2>3. PICK P : Parts(P)
      BY <2>1 DEF Sums
    <2>4. PICK R : /\ DOMAIN R = 1 .. Blocks(n) /\ Apart(R)
                   /\ UNION {R[g] : g \in 1 .. Blocks(n)} = 1 .. count
                   /\ \A g \in 1 .. Blocks(n) : TreeSum(Loaded(Source, n, g)) = SetToBag(R[g])
      BY <2>1, <2>3, PartsOfPartials
    <2>5. Source' = scratch[toggle]
      BY <2>1 DEF Source
    <2>6. \A g \in 1 .. Blocks(n) : Source'[g] = SetToBag(R[g])
      BY <2>1, <2>2, <2>4, <2>5 DEF Sums
    <2>7. Parts(R)'
      BY <2>1, <2>2, <2>4, <2>6 DEF Parts
    <2> QED
      BY <2>1, <2>2, <2>7 DEF Sums, ReduceCorrect
  <1>7. CASE ReadResult
    <2>1. n = 1 /\ result' = Source[1] /\ UNCHANGED count /\ pc' = "done"
      BY <1>7 DEF ReadResult, Unfinished, Goto, Sums, IInv, Types
    <2>2. PICK P : Parts(P)
      BY <1>7 DEF ReadResult, Sums
    <2>3. P[1] = 1 .. count /\ Source[1] = SetToBag(P[1])
      <3>1. 1 .. n = {1} /\ UNION {P[i] : i \in 1 .. n} = 1 .. count
        BY <2>1, <2>2 DEF Parts
      <3>2. UNION {P[i] : i \in 1 .. n} = P[1]
        BY <3>1
      <3> QED
        BY <3>1, <3>2, <2>2 DEF Parts
    <2> QED
      BY <2>1, <2>3 DEF Sums, ReduceCorrect
  <1>8. CASE Stopped \/ UNCHANGED vars
    <2>1. /\ UNCHANGED <<count, n, toggle, pc, result, at, scratch, Source, Groups>>
      BY <1>8 DEF Stopped, vars, Source, Array, Groups
    <2>2. \A P : Parts(P)' <=> Parts(P)
      BY <2>1 DEF Parts
    <2>3. \A h \in Groups : Loaded(Source, n, h)' = Loaded(Source, n, h)
      BY <2>1 DEF Loaded, Global
    <2> QED
      BY <2>1, <2>2, <2>3 DEF Sums, ReduceCorrect
  <1> QED
    BY <1>1, <1>2, <1>3, <1>4, <1>5, <1>6, <1>7, <1>8 DEF Next

(* A reduction that succeeds has added every element of the array into the   *)
(* result, and none of them twice, whatever the count, the width of the      *)
(* workgroups and their order (kernel_launcher.cpp:908-985, reduce.comp).    *)
THEOREM ReductionExact == Spec => []ReduceCorrect
  <1>1. Init => Sums
    BY DEF Init, Sums, ReduceCorrect
  <1>2. IInv /\ IInv' /\ Sums /\ [Next]_vars => Sums'
    BY NextSums
  <1>3. Sums => ReduceCorrect
    BY DEF Sums
  <1> QED
    BY <1>1, <1>2, <1>3, InitInv, NextInv, InvHolds, PTL DEF Spec

-------------------------------------------------------------------------------
(* No two elements of the range share a double: integers of up to 53 bits,  *)
(* or any float or double.                                                   *)
ExactValues == Values \subseteq 0 .. Exact

(* Element i wins over element m. *)
Beats(i, m) ==
    \/ IF op = "max" THEN range[i] > range[m] ELSE range[i] < range[m]
    \/ range[i] = range[m] /\ (IF last THEN i > m ELSE i < m)

Wins(m, S) == m \in S /\ \A i \in S : i = m \/ Beats(m, i)

FirstHit(m, S) == m \in S /\ range[m] = 1 /\ \A i \in S : range[i] = 1 => m <= i
NoHit(S)       == \A i \in S : range[i] # 1

SearchShape ==
    /\ op \in {"min", "max", "find", "mismatch"} /\ last \in BOOLEAN
    /\ last => IsArg
    /\ Count \in Nat /\ DOMAIN range = 0 .. Count - 1
    /\ \A i \in DOMAIN range : range[i] \in Values
    /\ DOMAIN dev = SearchGroups /\ DOMAIN host = SearchGroups

Running ==
    /\ step \in {"start", "dispatch", "run", "combine", "done", "failed"}
    /\ step = "start" => blocks = 0
    /\ step \in {"dispatch", "run", "combine"} => ~TrivialSearch
    /\ step = "run" =>
          /\ DOMAIN inFlight = SearchGroups
          /\ \A g \in SearchGroups : inFlight[g] = "stored" => dev[g] = Winner(g)
    /\ step = "combine" => \A g \in SearchGroups : host[g] = Winner(g)

(* What a block, or the blocks up to some point, have to say: the winner of  *)
(* their elements.                                                           *)
WinnerOf(r, S) ==
    IF IsArg
    THEN Wins(r.idx, S) /\ r.val = range[r.idx]
    ELSE r.val = 0 /\ (FirstHit(r.idx, S) \/ (NoHit(S) /\ r.idx = Count))

(* The answer of the sequential algorithm. *)
Expected(a) ==
    IF IsArg /\ Count > 0
    THEN a = Favoured({i \in DOMAIN range :
                 range[i] = Extreme({range[m] : m \in DOMAIN range})})
    ELSE a = Min({i \in DOMAIN range : range[i] = 1} \cup {Count})

Answered ==
    /\ step = "done" => blocks = 0 /\ Expected(answer)
    /\ step = "failed" => answer = Count

SearchInv == SearchShape /\ Running /\ Answered

-------------------------------------------------------------------------------
(* The least of a set of numbers. *)
LEMMA MinIs ==
    ASSUME NEW S \in SUBSET Int, NEW x \in S, \A y \in S : x <= y
    PROVE  Min(S) = x
  <1>1. PICK m : m = Min(S)
    OBVIOUS
  <1>2. \E e \in S : \A y \in S : e <= y
    OBVIOUS
  <1>3. m \in S /\ \A y \in S : m <= y
    BY <1>1, <1>2, Zenon DEF Min
  <1>4. m = x
    BY <1>3
  <1> QED
    BY <1>1, <1>4

(* The greatest of a set of numbers. *)
LEMMA MaxIs ==
    ASSUME NEW S \in SUBSET Int, NEW x \in S, \A y \in S : x >= y
    PROVE  Max(S) = x
  <1>1. PICK m : m = Max(S)
    OBVIOUS
  <1>2. \E e \in S : \A y \in S : e >= y
    OBVIOUS
  <1>3. m \in S /\ \A y \in S : m >= y
    BY <1>1, <1>2, Zenon DEF Max
  <1>4. m = x
    BY <1>3
  <1> QED
    BY <1>1, <1>4

(* Places of the range are numbers, and so are its elements. *)
LEMMA ElementFacts ==
    ASSUME SearchShape, NEW S \in SUBSET DOMAIN range
    PROVE  /\ S \subseteq 0 .. Count - 1 /\ Count \in Nat /\ S \subseteq Nat
           /\ Exact \in Nat
           /\ \A i \in S : range[i] \in Values /\ range[i] \in Nat
  <1>1. Values \subseteq Nat /\ Exact \in Nat
    BY SearchAssumption
  <1>2. /\ Count \in Nat /\ DOMAIN range = 0 .. Count - 1
        /\ \A i \in DOMAIN range : range[i] \in Values
    BY DEF SearchShape
  <1>3. PICK c \in Nat : c = Count
    BY <1>2
  <1>4. S \subseteq 0 .. c - 1 /\ S \subseteq Nat
    BY <1>2, <1>3
  <1> QED
    BY <1>1, <1>2, <1>3, <1>4

(* The extremum, and among the elements that have it the favoured one, is    *)
(* the element that beats all others: what the kernels of a block and the    *)
(* sequential algorithm both compute.                                        *)
LEMMA ExtremeIs ==
    ASSUME SearchShape, NEW S \in SUBSET DOMAIN range, NEW m, Wins(m, S)
    PROVE  /\ Extreme({range[i] : i \in S}) = range[m]
           /\ Favoured({i \in S : range[i] = range[m]}) = m
  <1> DEFINE V == {range[i] : i \in S}
             T == {i \in S : range[i] = range[m]}
  <1>1. /\ m \in S /\ \A i \in S : i = m \/ Beats(m, i)
        /\ S \subseteq Nat /\ \A i \in S : range[i] \in Nat
    BY ElementFacts DEF Wins
  <1>2. Extreme(V) = range[m]
    <2>1. V \in SUBSET Int /\ range[m] \in V
      BY <1>1
    <2>2. CASE op = "max"
      <3>1. \A y \in V : range[m] >= y
        BY <1>1, <2>2 DEF Beats
      <3> HIDE DEF V
      <3> QED
        BY <2>1, <2>2, <3>1, MaxIs DEF Extreme
    <2>3. CASE op # "max"
      <3>1. \A y \in V : range[m] <= y
        BY <1>1, <2>3 DEF Beats
      <3> HIDE DEF V
      <3> QED
        BY <2>1, <2>3, <3>1, MinIs DEF Extreme
    <2> QED
      BY <2>2, <2>3
  <1>3. Favoured(T) = m
    <2>1. T \in SUBSET Int /\ m \in T
      BY <1>1
    <2>2. CASE last
      <3>1. \A y \in T : m >= y
        BY <1>1, <2>2 DEF Beats
      <3> HIDE DEF T
      <3> QED
        BY <2>1, <2>2, <3>1, MaxIs DEF Favoured
    <2>3. CASE ~last
      <3>1. \A y \in T : m <= y
        BY <1>1, <2>3 DEF Beats
      <3> HIDE DEF T
      <3> QED
        BY <2>1, <2>3, <3>1, MinIs DEF Favoured
    <2> QED
      BY <2>2, <2>3
  <1> QED
    BY <1>2, <1>3

(* A set of elements has one that beats all others. *)
LEMMA WinnerExists ==
    ASSUME ExactValues, SearchShape, NEW S \in SUBSET DOMAIN range, S # {}
    PROVE  \E m \in S : Wins(m, S)
  <1> DEFINE V == {range[i] : i \in S}
  <1>1. /\ S \subseteq 0 .. Count - 1 /\ Count \in Nat /\ S \subseteq Nat
        /\ \A i \in S : range[i] \in 0 .. Exact
        /\ Exact \in Nat
    BY ElementFacts DEF ExactValues
  <1>2. V # {} /\ V \in SUBSET (0 .. Exact) /\ V \in SUBSET Nat
    BY <1>1
  <1>3. PICK v \in V : IF op = "max" THEN \A y \in V : v >= y ELSE \A y \in V : v <= y
    <2> HIDE DEF V
    <2>1. \E v \in V : \A y \in V : y <= v
      BY <1>1, <1>2, Largest
    <2>2. \E v \in V : \A y \in V : v <= y
      BY <1>2, Smallest
    <2>3. \E v \in V : \A y \in V : v >= y
      BY <1>2, <2>1
    <2> QED
      BY <2>2, <2>3
  <1> DEFINE T == {i \in S : range[i] = v}
  <1>4. T # {} /\ T \in SUBSET Nat /\ T \in SUBSET (0 .. Count)
    BY <1>1
  <1>5. PICK m \in T : IF last THEN \A i \in T : m >= i ELSE \A i \in T : m <= i
    <2> HIDE DEF T
    <2>1. \E i \in T : \A t \in T : t <= i
      BY <1>1, <1>4, Largest
    <2>2. \E i \in T : \A t \in T : i <= t
      BY <1>4, Smallest
    <2>3. \E i \in T : \A t \in T : i >= t
      BY <1>4, <2>1
    <2> QED
      BY <2>2, <2>3
  <1>6. m \in S /\ range[m] = v /\ m \in Nat
    BY <1>4, <1>5
  <1>7. ASSUME NEW i \in S, i # m PROVE Beats(m, i)
    <2>1. i \in Nat /\ range[i] \in Nat /\ range[i] \in V /\ v \in Nat
      BY <1>1, <1>2
    <2>2. CASE range[i] = v
      BY <1>5, <1>6, <2>1, <2>2, <1>7 DEF Beats
    <2>3. CASE range[i] # v
      BY <1>3, <1>6, <2>1, <2>3 DEF Beats
    <2> QED
      BY <2>2, <2>3
  <1> QED
    BY <1>6, <1>7 DEF Wins

(* What the kernel stores for a block. *)
LEMMA BlockWinner ==
    ASSUME ExactValues, SearchShape, NEW g \in SearchGroups,
           Block(g) # {}
    PROVE  WinnerOf(Winner(g), Block(g))
  <1>1. PICK S : S = Block(g)
    OBVIOUS
  <1>2. S \in SUBSET DOMAIN range /\ S # {}
    BY <1>1 DEF Block
  <1>3. CASE IsArg
    <2>1. PICK m \in S : Wins(m, S)
      BY <1>2, WinnerExists
    <2>2. /\ Extreme({range[i] : i \in S}) = range[m]
          /\ Favoured({i \in S : range[i] = range[m]}) = m
      BY <1>2, <2>1, ExtremeIs
    <2>3. Winner(g) = [val |-> range[m], idx |-> m]
      BY <1>1, <1>3, <2>2 DEF Winner
    <2> QED
      BY <1>1, <1>3, <2>1, <2>3 DEF WinnerOf
  <1>4. CASE ~IsArg
    <2> DEFINE T == {i \in S : range[i] = 1}
    <2>1. S \in SUBSET Nat /\ T \in SUBSET Nat /\ T \in SUBSET Int
      BY <1>2, ElementFacts
    <2>2. CASE T = {}
      <3>1. Winner(g) = [val |-> 0, idx |-> Count]
        BY <1>1, <1>4, <2>2 DEF Winner, Nothing
      <3>2. NoHit(S)
        BY <2>2 DEF NoHit
      <3> QED
        BY <1>1, <1>4, <3>1, <3>2 DEF WinnerOf
    <2>3. CASE T # {}
      <3>1. PICK m \in T : \A i \in T : m <= i
        <4> HIDE DEF T
        <4> QED
          BY <2>1, <2>3, Smallest
      <3>2. Min(T) = m
        <4> HIDE DEF T
        <4> QED
          BY <2>1, <3>1, MinIs
      <3>3. Winner(g) = [val |-> 0, idx |-> m]
        BY <1>1, <1>4, <2>3, <3>2 DEF Winner
      <3>4. FirstHit(m, S)
        BY <3>1 DEF FirstHit
      <3> QED
        BY <1>1, <1>4, <3>3, <3>4 DEF WinnerOf
    <2> QED
      BY <2>2, <2>3
  <1> QED
    BY <1>3, <1>4

(* The host loop adds a block after those before it. *)
LEMMA JoinBlock ==
    ASSUME ExactValues, SearchShape, NEW g \in SearchGroups,
           NEW b, NEW S \in SUBSET DOMAIN range, NEW T \in SUBSET DOMAIN range,
           \A s \in S, t \in T : s < t,
           (S = {} /\ b = Nothing) \/ (S # {} /\ WinnerOf(b, S)),
           WinnerOf(host[g], T)
    PROVE  WinnerOf(AfterBlock(b, g), S \cup T)
  <1>1. PICK h : h = host[g]
    OBVIOUS
  <1>2. PICK c \in Nat : c = Count
    BY ElementFacts
  <1>3. /\ S \subseteq 0 .. c - 1 /\ T \subseteq 0 .. c - 1
        /\ \A i \in S : range[i] \in Nat /\ range[i] \in 0 .. Exact
        /\ \A i \in T : range[i] \in Nat /\ range[i] \in 0 .. Exact
        /\ Exact \in Nat
    BY <1>2, ElementFacts DEF ExactValues
  <1>4. AfterBlock(b, g) = IF h.idx < c /\ Better(b, h)
                                  THEN [val |-> AsDouble(h.val), idx |-> h.idx] ELSE b
    BY <1>1, <1>2 DEF AfterBlock
  <1>5. CASE IsArg
    <2>1. Wins(h.idx, T) /\ h.val = range[h.idx] /\ h.idx \in T
      BY <1>1, <1>5 DEF WinnerOf, Wins
    <2>2. PICK m \in T : m = h.idx
      BY <2>1
    <2>3. PICK v \in Nat : v = h.val /\ v = range[m]
      BY <1>3, <2>1, <2>2
    <2>4. m \in Nat /\ m < c /\ v <= Exact
      BY <1>3, <2>2, <2>3
    <2>5. AsDouble(h.val) = v
      BY <2>3, <2>4, <1>3 DEF AsDouble
    <2>6. Better(b, h) <=>
              \/ b.idx = c
              \/ IF op = "max" THEN v > b.val ELSE v < b.val
              \/ v = b.val /\ (IF last THEN m > b.idx ELSE m < b.idx)
      BY <1>2, <1>5, <2>2, <2>5 DEF Better
    <2>7. CASE S = {}
      <3>1. b.idx = c
        BY <1>2, <1>3, <2>1, <2>7 DEF Nothing
      <3>2. AfterBlock(b, g) = [val |-> v, idx |-> m]
        BY <1>4, <2>2, <2>4, <2>5, <2>6, <3>1
      <3>3. S \cup T = T
        BY <2>7
      <3> QED
        BY <1>5, <2>1, <2>2, <2>3, <3>2, <3>3 DEF WinnerOf
    <2>8. CASE S # {}
      <3>1. Wins(b.idx, S) /\ b.val = range[b.idx] /\ b.idx \in S
        BY <1>5, <2>8 DEF WinnerOf, Wins
      <3>2. PICK K \in S : K = b.idx
        BY <3>1
      <3>3. PICK u \in Nat : u = b.val /\ u = range[K]
        BY <1>3, <3>1, <3>2
      <3>4. K \in Nat /\ K < c /\ K < m
        BY <1>3, <2>2, <3>2
      <3>5. Better(b, h) <=> Beats(m, K)
        BY <2>3, <2>4, <2>6, <3>2, <3>3, <3>4 DEF Beats
      <3>6. CASE Beats(m, K)
        <4>1. AfterBlock(b, g) = [val |-> v, idx |-> m]
          BY <1>4, <2>2, <2>4, <2>5, <3>5, <3>6
        <4>2. ASSUME NEW i \in S PROVE Beats(m, i)
          <5>1. i = K \/ Beats(K, i)
            BY <3>1, <3>2 DEF Wins
          <5>2. i \in Nat /\ range[i] \in Nat
            BY <1>3
          <5> QED
            BY <2>3, <2>4, <3>3, <3>4, <3>6, <5>1, <5>2 DEF Beats
        <4>3. Wins(m, S \cup T)
          BY <2>1, <2>2, <4>2 DEF Wins
        <4> QED
          BY <1>5, <2>3, <4>1, <4>3 DEF WinnerOf
      <3>7. CASE ~Beats(m, K)
        <4>1. AfterBlock(b, g) = b
          BY <1>4, <3>5, <3>7
        <4>2. Beats(K, m)
          BY <2>3, <2>4, <3>3, <3>4, <3>7 DEF Beats
        <4>3. ASSUME NEW i \in T PROVE Beats(K, i)
          <5>1. i = m \/ Beats(m, i)
            BY <2>1, <2>2 DEF Wins
          <5>2. i \in Nat /\ range[i] \in Nat
            BY <1>3
          <5> QED
            BY <2>3, <2>4, <3>3, <3>4, <4>2, <5>1, <5>2 DEF Beats
        <4>4. Wins(K, S \cup T)
          BY <3>1, <3>2, <4>3 DEF Wins
        <4> QED
          BY <1>5, <3>1, <3>2, <4>1, <4>4 DEF WinnerOf
      <3> QED
        BY <3>6, <3>7
    <2> QED
      BY <2>7, <2>8
  <1>6. CASE ~IsArg
    <2>1. h.val = 0 /\ (FirstHit(h.idx, T) \/ (NoHit(T) /\ h.idx = c))
      BY <1>1, <1>2, <1>6 DEF WinnerOf
    <2>2. AsDouble(0) = 0
      BY <1>3 DEF AsDouble
    <2>3. ~last
      BY <1>6 DEF SearchShape
    <2>4. b.val = 0 /\ (FirstHit(b.idx, S) \/ (NoHit(S) /\ b.idx = c))
      BY <1>2, <1>6 DEF WinnerOf, Nothing, NoHit
    <2>5. Better(b, h) <=> b.idx = c \/ h.idx < b.idx
      BY <1>2, <1>6, <2>1, <2>2, <2>3, <2>4 DEF Better
    <2>6. CASE FirstHit(b.idx, S)
      <3>1. PICK K \in S : K = b.idx /\ FirstHit(K, S)
        BY <2>6 DEF FirstHit
      <3>2. K \in Nat /\ K < c
        BY <1>3, <3>1
      <3>3. ~(h.idx < c /\ h.idx < K)
        BY <1>3, <2>1, <3>1, <3>2 DEF FirstHit
      <3>4. AfterBlock(b, g) = b
        BY <1>4, <2>5, <3>1, <3>2, <3>3
      <3>5. FirstHit(K, S \cup T)
        BY <1>3, <3>1, <3>2 DEF FirstHit
      <3> QED
        BY <1>6, <2>4, <3>1, <3>4, <3>5 DEF WinnerOf
    <2>7. CASE NoHit(S) /\ b.idx = c /\ FirstHit(h.idx, T)
      <3>1. PICK m \in T : m = h.idx /\ FirstHit(m, T)
        BY <2>7 DEF FirstHit
      <3>2. m \in Nat /\ m < c
        BY <1>3, <3>1
      <3>3. AfterBlock(b, g) = [val |-> 0, idx |-> m]
        BY <1>4, <2>1, <2>2, <2>5, <2>7, <3>1, <3>2
      <3>4. FirstHit(m, S \cup T)
        BY <2>7, <3>1 DEF FirstHit, NoHit
      <3> QED
        BY <1>6, <3>3, <3>4 DEF WinnerOf
    <2>8. CASE NoHit(S) /\ b.idx = c /\ NoHit(T) /\ h.idx = c
      <3>1. AfterBlock(b, g) = b
        BY <1>4, <2>8
      <3>2. NoHit(S \cup T)
        BY <2>8 DEF NoHit
      <3> QED
        BY <1>2, <1>6, <2>4, <2>8, <3>1, <3>2 DEF WinnerOf
    <2> QED
      BY <2>1, <2>4, <2>6, <2>7, <2>8
  <1> QED
    BY <1>5, <1>6

(* The blocks cover the range, and each has an element of it. *)
Number == (Count + W - 1) \div W

(* The blocks cover the range, and none of them is empty. *)
LEMMA BlocksCover ==
    ASSUME SearchShape
    PROVE  /\ Number \in Nat /\ SearchGroups = 1 .. Number
           /\ Count <= W * Number
           /\ \A g \in 1 .. Number : W * (g - 1) < Count
           /\ W \in Nat /\ W >= 1
  <1>1. PICK w \in Nat : w = W /\ w >= 1
    BY SearchAssumption, WorkgroupAssumption
  <1>2. PICK c \in Nat : c = Count
    BY DEF SearchShape
  <1>3. PICK q \in Nat : q = (c + w - 1) \div w /\ w * q <= c + w - 1 /\ c + w - 1 < w * (q + 1)
    <2>1. c + w - 1 \in Nat
      BY <1>1
    <2> QED
      BY <1>1, <2>1, Quotient
  <1>4. Number = q /\ SearchGroups = 1 .. q
    BY <1>1, <1>2, <1>3 DEF Number, SearchGroups, Blocks
  <1>5. c <= w * q
    BY <1>1, <1>3
  <1>6. ASSUME NEW g \in 1 .. q PROVE w * (g - 1) < c
    <2>1. w * g <= w * q
      BY <1>1
    <2>2. w * (g - 1) = w * g - w
      BY <1>1
    <2> QED
      BY <1>1, <1>3, <2>1, <2>2
  <1> QED
    BY <1>1, <1>2, <1>4, <1>5, <1>6

(* The recursion of the host loop has its values. *)
LEMMA BestUnfolds ==
    ASSUME SearchShape
    PROVE  /\ Best[0] = Nothing
           /\ \A g \in 1 .. Number :
                 Best[g] = AfterBlock(Best[g - 1], g)
  <1>1. PICK q \in Nat : q = Number /\ SearchGroups = 1 .. q
    BY BlocksCover
  <1> DEFINE IsRun(f, m) == f = [g \in 0 .. m |-> IF g = 0 THEN Nothing
                                                ELSE AfterBlock(f[g - 1], g)]
             T == {m \in Nat : \E f : IsRun(f, m)}
  <1>2. 0 \in T
    <2>1. IsRun([g \in 0 .. 0 |-> Nothing], 0)
      OBVIOUS
    <2> QED
      BY <2>1
  <1>3. ASSUME NEW m \in Nat, m \in T PROVE m + 1 \in T
    <2>1. PICK f : IsRun(f, m)
      BY <1>3
    <2>2. PICK e : e = AfterBlock(f[m], m + 1)
      OBVIOUS
    <2> DEFINE h == [g \in 0 .. m + 1 |-> IF g = m + 1 THEN e ELSE f[g]]
    <2>3. DOMAIN h = 0 .. m + 1 /\ h[m + 1] = e /\ \A g \in 0 .. m : h[g] = f[g]
      BY <1>3
    <2>4. ASSUME NEW g \in 0 .. m + 1
          PROVE  h[g] = IF g = 0 THEN Nothing ELSE AfterBlock(h[g - 1], g)
      <3>1. CASE g = m + 1
        <4>1. h[g - 1] = f[m] /\ g # 0
          BY <1>3, <2>3, <3>1
        <4> HIDE DEF h
        <4> QED
          BY <2>2, <2>3, <3>1, <4>1
      <3>2. CASE g = 0
        BY <1>3, <2>1, <2>3, <3>2
      <3>3. CASE g \in 1 .. m
        <4>1. h[g] = f[g] /\ h[g - 1] = f[g - 1] /\ g # 0
          BY <2>3, <3>3
        <4>2. f[g] = AfterBlock(f[g - 1], g)
          BY <2>1, <3>3
        <4> HIDE DEF h
        <4> QED
          BY <4>1, <4>2
      <3> QED
        BY <3>1, <3>2, <3>3
    <2>5. IsRun(h, m + 1)
      <3>1. h = [g \in 0 .. m + 1 |-> h[g]]
        OBVIOUS
      <3> HIDE DEF h
      <3> QED
        BY <2>4, <3>1, Zenon
    <2> HIDE DEF h, IsRun
    <2> QED
      BY <2>5
  <1>4. q \in T
    <2> HIDE DEF T
    <2> QED
      BY <1>2, <1>3, Induction
  <1>5. PICK f : IsRun(f, q)
    BY <1>4
  <1>6. 0 .. q = {0} \cup SearchGroups
    BY <1>1
  <1>7. IsRun(Best, q)
    <2>1. \E r : r = [g \in {0} \cup SearchGroups |-> IF g = 0 THEN Nothing
                                                ELSE AfterBlock(r[g - 1], g)]
      BY <1>5, <1>6
    <2> QED
      BY <1>6, <2>1, Zenon DEF Best
  <1>8. PICK K : K = Best
    OBVIOUS
  <1>9. IsRun(K, q)
    BY <1>7, <1>8
  <1> HIDE DEF T
  <1>10. K[0] = Nothing /\ \A g \in 1 .. q : K[g] = AfterBlock(K[g - 1], g)
    BY <1>9
  <1> QED
    BY <1>1, <1>8, <1>10

(* The first g blocks. *)
Upto(g) == {i \in DOMAIN range : i < W * g}

(* After g blocks the host holds the winner of the first g of them. *)
LEMMA BestIs ==
    ASSUME ExactValues, SearchShape,
           \A g \in SearchGroups : host[g] = Winner(g)
    PROVE  \A g \in 1 .. Number : WinnerOf(Best[g], Upto(g))
  <1>1. PICK q \in Nat : q = Number /\ SearchGroups = 1 .. q
    BY BlocksCover
  <1>2. PICK w \in Nat : w = W /\ w >= 1
    BY BlocksCover
  <1>3. PICK c \in Nat : c = Count /\ DOMAIN range = 0 .. c - 1
    BY DEF SearchShape
  <1>4. \A g \in 1 .. q : w * (g - 1) < c
    BY <1>1, <1>2, <1>3, BlocksCover
  <1> DEFINE T == {m \in Nat : m < q => WinnerOf(Best[m + 1], Upto(m + 1))}
  <1>5. ASSUME NEW g \in 1 .. q, NEW b, b = Best[g - 1],
               g = 1 \/ WinnerOf(b, Upto(g - 1))
        PROVE  WinnerOf(Best[g], Upto(g))
    <2>1. PICK S : S = Upto(g - 1)
      OBVIOUS
    <2>2. PICK Z : Z = Block(g)
      OBVIOUS
    <2>3. \A i : i \in S <=> i \in 0 .. c - 1 /\ i < w * (g - 1)
      BY <1>2, <1>3, <2>1 DEF Upto
    <2>4. \A i : i \in Z <=> i \in 0 .. c - 1 /\ w * (g - 1) <= i /\ i < w * g
      <3>1. (g - 1) * w = w * (g - 1) /\ g * w = w * g
        BY <1>2
      <3> QED
        BY <1>2, <1>3, <2>2, <3>1 DEF Block
    <2>5. w * g = w * (g - 1) + w /\ w * (g - 1) \in Nat /\ w * g \in Nat
      <3>1. PICK p \in Nat : p = g - 1
        OBVIOUS
      <3>2. w * (p + 1) = w * p + w /\ w * p \in Nat
        BY <1>2
      <3> QED
        BY <1>2, <3>1, <3>2
    <2>6. PICK lo \in Nat, hi \in Nat : lo = w * (g - 1) /\ hi = w * g /\ hi = lo + w /\ lo < c
      BY <1>4, <2>5
    <2>7. \A i : i \in S <=> i \in 0 .. c - 1 /\ i < lo
      BY <2>3, <2>6
    <2>8. \A i : i \in Z <=> i \in 0 .. c - 1 /\ lo <= i /\ i < hi
      BY <2>4, <2>6
    <2>9. lo \in Z /\ S \in SUBSET DOMAIN range /\ Z \in SUBSET DOMAIN range
      BY <1>2, <1>3, <2>6, <2>7, <2>8
    <2>10. \A s \in S, t \in Z : s < t
      BY <2>6, <2>7, <2>8
    <2>11. Upto(g) = S \cup Z
      <3>1. \A i : i \in Upto(g) <=> i \in 0 .. c - 1 /\ i < hi
        BY <1>2, <1>3, <2>6 DEF Upto
      <3>2. \A i : i \in S \cup Z <=> i \in 0 .. c - 1 /\ i < hi
        BY <2>6, <2>7, <2>8
      <3> QED
        BY <3>1, <3>2
    <2>12. WinnerOf(host[g], Z)
      <3>1. g \in SearchGroups /\ Z # {}
        BY <1>1, <2>9
      <3> QED
        BY <2>2, <3>1, BlockWinner
    <2>13. (S = {} /\ b = Nothing) \/ (S # {} /\ WinnerOf(b, S))
      <3>1. CASE g = 1
        <4>1. lo = 0
          BY <1>2, <2>6, <3>1
        <4>2. S = {}
          BY <2>7, <4>1
        <4>3. b = Nothing
          BY <1>5, <3>1, BestUnfolds
        <4> QED
          BY <4>2, <4>3
      <3>2. CASE g # 1
        <4>1. lo >= w
          <5>1. PICK p \in Nat : p = g - 2
            BY <3>2
          <5>2. w * (p + 1) = w * p + w /\ w * p \in Nat
            BY <1>2
          <5> QED
            BY <1>2, <2>6, <5>1, <5>2
        <4>2. 0 \in S
          BY <1>2, <1>3, <2>6, <2>7, <4>1
        <4> QED
          BY <1>5, <2>1, <3>2, <4>2
      <3> QED
        BY <3>1, <3>2
    <2>14. WinnerOf(AfterBlock(b, g), S \cup Z)
      <3>1. g \in SearchGroups
        BY <1>1
      <3> QED
        BY <2>9, <2>10, <2>12, <2>13, <3>1, JoinBlock
    <2>15. Best[g] = AfterBlock(b, g)
      BY <1>1, <1>5, BestUnfolds
    <2> QED
      BY <2>11, <2>14, <2>15
  <1>6. 0 \in T
    <2>1. ASSUME 0 < q PROVE WinnerOf(Best[1], Upto(1))
      <3>1. 1 \in 1 .. q /\ 1 - 1 = 0
        BY <2>1
      <3>2. PICK b : b = Best[1 - 1]
        OBVIOUS
      <3> QED
        BY <1>5, <3>1, <3>2
    <2> QED
      BY <2>1
  <1>7. ASSUME NEW m \in Nat, m \in T PROVE m + 1 \in T
    <2>1. ASSUME m + 1 < q PROVE WinnerOf(Best[m + 1 + 1], Upto(m + 1 + 1))
      <3>1. PICK g \in 1 .. q : g = m + 1 + 1 /\ g - 1 = m + 1
        BY <2>1
      <3>2. PICK b : b = Best[g - 1]
        OBVIOUS
      <3>3. WinnerOf(b, Upto(g - 1))
        BY <1>7, <2>1, <3>1, <3>2
      <3> QED
        BY <1>5, <3>1, <3>2, <3>3
    <2> QED
      BY <2>1
  <1>8. \A m \in Nat : m \in T
    <2> HIDE DEF T
    <2> QED
      BY <1>6, <1>7, Induction
  <1>9. ASSUME NEW g \in 1 .. q PROVE WinnerOf(Best[g], Upto(g))
    <2>1. PICK m \in Nat : m = g - 1 /\ m + 1 = g
      OBVIOUS
    <2>2. m \in T /\ m < q
      BY <1>8, <2>1
    <2> QED
      BY <2>1, <2>2
  <1> QED
    BY <1>1, <1>9

(* What Combine answers with: the winner of the whole range. *)
LEMMA CombinedIs ==
    ASSUME ExactValues, SearchShape, Count > 0,
           \A g \in SearchGroups : host[g] = Winner(g)
    PROVE  \E r : r.idx = Combined /\ WinnerOf(r, DOMAIN range)
  <1>1. PICK q \in Nat : q = Number
    BY BlocksCover
  <1>2. PICK w \in Nat : w = W
    BY BlocksCover
  <1>3. PICK c \in Nat : c = Count /\ DOMAIN range = 0 .. c - 1 /\ c > 0
    BY DEF SearchShape
  <1>4. c <= w * q
    BY <1>1, <1>2, <1>3, BlocksCover
  <1>5. q # 0
    BY <1>2, <1>3, <1>4
  <1>6. Upto(q) = DOMAIN range
    <2>1. \A i \in 0 .. c - 1 : i < w * q
      BY <1>2, <1>3, <1>4
    <2> QED
      BY <1>2, <1>3, <2>1 DEF Upto
  <1>7. q \in 1 .. q
    BY <1>5
  <1>8. WinnerOf(Best[q], DOMAIN range)
    BY <1>1, <1>6, <1>7, BestIs
  <1>9. Best[q].idx = Combined
    BY <1>1 DEF Combined, Number, Blocks
  <1> QED
    BY <1>8, <1>9

-------------------------------------------------------------------------------
(* A search starts with its invariant. *)
LEMMA SearchBegins ==
    ASSUME SearchInit
    PROVE  SearchInv
  <1>1. PICK len \in 0 .. Longest :
            range \in [0 .. len - 1 -> IF op \in {"min", "max"} THEN Values ELSE {0, 1}]
    BY DEF SearchInit
  <1>2. len \in Nat /\ {0, 1} \subseteq Values
    BY SearchAssumption, WorkgroupAssumption
  <1>3. DOMAIN range = 0 .. len - 1 /\ \A i \in DOMAIN range : range[i] \in Values
    BY <1>1, <1>2
  <1>4. Count = len
    <2>1. Cardinality(0 .. len - 1) = len
      BY <1>2, FS_Interval
    <2> QED
      BY <1>3, <2>1 DEF Count
  <1>5. SearchShape
    <2>1. op \in {"min", "max", "find", "mismatch"} /\ last \in BOOLEAN /\ (last => IsArg)
      BY DEF SearchInit, IsArg
    <2>2. DOMAIN dev = SearchGroups /\ DOMAIN host = SearchGroups
      BY DEF SearchInit
    <2> QED
      BY <1>2, <1>3, <1>4, <2>1, <2>2 DEF SearchShape
  <1>6. Running /\ Answered
    BY DEF SearchInit, Running, Answered
  <1> QED
    BY <1>5, <1>6 DEF SearchInv

(* An answer without the device, from at most one element. *)
LEMMA TrivialAnswer ==
    ASSUME SearchShape, TrivialSearch
    PROVE  Expected(0)
  <1>1. PICK c \in Nat : c = Count /\ DOMAIN range = 0 .. c - 1
    BY DEF SearchShape
  <1>2. CASE IsArg /\ c > 0
    <2>1. c = 1 /\ DOMAIN range = {0}
      BY <1>1, <1>2 DEF TrivialSearch
    <2>2. Wins(0, DOMAIN range)
      BY <2>1 DEF Wins
    <2>3. /\ Extreme({range[i] : i \in DOMAIN range}) = range[0]
          /\ Favoured({i \in DOMAIN range : range[i] = range[0]}) = 0
      BY <2>2, ExtremeIs
    <2> QED
      BY <1>1, <1>2, <2>3 DEF Expected
  <1>3. CASE ~(IsArg /\ c > 0)
    <2>1. c = 0
      BY <1>1, <1>3 DEF TrivialSearch
    <2>2. {i \in DOMAIN range : range[i] = 1} \cup {Count} = {0}
      BY <1>1, <2>1
    <2>3. Min({0}) = 0
      BY MinIs
    <2> QED
      BY <1>1, <1>3, <2>2, <2>3 DEF Expected
  <1> QED
    BY <1>2, <1>3

(* The answer of the device is that of the sequential algorithm. *)
LEMMA DeviceAnswer ==
    ASSUME ExactValues, SearchShape, ~TrivialSearch,
           \A g \in SearchGroups : host[g] = Winner(g),
           NEW a, a = IF IsArg /\ Combined = Count THEN 0 ELSE Combined
    PROVE  Expected(a)
  <1>1. PICK c \in Nat : c = Count /\ DOMAIN range = 0 .. c - 1 /\ c > 0
    BY DEF SearchShape, TrivialSearch
  <1>2. PICK r : r.idx = Combined /\ WinnerOf(r, DOMAIN range)
    BY <1>1, CombinedIs
  <1>3. PICK m : m = r.idx
    OBVIOUS
  <1>4. CASE IsArg
    <2>1. Wins(m, DOMAIN range) /\ m \in DOMAIN range
      BY <1>2, <1>3, <1>4 DEF WinnerOf, Wins
    <2>2. a = m
      BY <1>1, <1>2, <1>3, <2>1
    <2>3. /\ Extreme({range[i] : i \in DOMAIN range}) = range[m]
          /\ Favoured({i \in DOMAIN range : range[i] = range[m]}) = m
      BY <2>1, ExtremeIs
    <2> QED
      BY <1>1, <1>4, <2>2, <2>3 DEF Expected
  <1>5. CASE ~IsArg
    <2> DEFINE H == {i \in DOMAIN range : range[i] = 1} \cup {c}
    <2>1. a = m
      BY <1>2, <1>3, <1>5
    <2>2. FirstHit(m, DOMAIN range) \/ (NoHit(DOMAIN range) /\ m = c)
      BY <1>1, <1>2, <1>3, <1>5 DEF WinnerOf
    <2>3. H \in SUBSET Int /\ m \in H /\ \A y \in H : m <= y
      BY <1>1, <2>2 DEF FirstHit, NoHit
    <2>4. Min(H) = m
      <3> HIDE DEF H
      <3> QED
        BY <2>3, MinIs
    <2> QED
      BY <1>1, <1>5, <2>1, <2>4 DEF Expected
  <1> QED
    BY <1>4, <1>5

(* Only the search itself is looked at. *)
LEMMA SearchKept ==
    ASSUME op' = op, last' = last, range' = range
    PROVE  /\ Count' = Count /\ IsArg' = IsArg
           /\ SearchGroups' = SearchGroups /\ TrivialSearch' = TrivialSearch
           /\ \A g : Winner(g)' = Winner(g)
           /\ \A a : Expected(a)' = Expected(a)
  <1>1. Count' = Count /\ IsArg' = IsArg
    BY DEF Count, IsArg
  <1>2. SearchGroups' = SearchGroups /\ TrivialSearch' = TrivialSearch
    BY <1>1 DEF SearchGroups, TrivialSearch
  <1>3. \A g : Winner(g)' = Winner(g)
    BY <1>1 DEF Winner, Block, Extreme, Favoured, Nothing
  <1>4. \A a : Expected(a)' = Expected(a)
    BY <1>1 DEF Expected, Extreme, Favoured
  <1> QED
    BY <1>1, <1>2, <1>3, <1>4

(* Every step of a search keeps it. *)
LEMMA SearchGoesOn ==
    ASSUME ExactValues, SearchInv, [SearchNext]_searchVars
    PROVE  SearchInv'
  <1>1. SearchShape /\ Running /\ Answered
    BY DEF SearchInv
  <1>2. op' = op /\ last' = last /\ range' = range
    BY DEF SearchNext, searchVars, Start, DispatchSearch, RunGroup,
           Collect, Combine, SearchStopped
  <1>3. /\ Count' = Count /\ IsArg' = IsArg
        /\ SearchGroups' = SearchGroups /\ TrivialSearch' = TrivialSearch
        /\ \A g : Winner(g)' = Winner(g)
        /\ \A a : Expected(a)' = Expected(a)
    BY <1>2, SearchKept
  <1>4. ASSUME DOMAIN dev' = SearchGroups, DOMAIN host' = SearchGroups PROVE SearchShape'
    BY <1>1, <1>2, <1>3, <1>4 DEF SearchShape
  <1>5. CASE SearchStopped \/ UNCHANGED searchVars
    BY <1>1, <1>3, <1>4, <1>5 DEF SearchStopped, searchVars, SearchShape, Running, Answered, SearchInv
  <1>6. CASE Start
    <2>1. step = "start" /\ UNCHANGED <<dev, host, inFlight>> /\ blocks = 0
      BY <1>1, <1>6 DEF Start, Running
    <2>2. SearchShape'
      BY <1>1, <1>4, <2>1 DEF SearchShape
    <2>3. CASE TrivialSearch /\ step' = "done" /\ answer' = 0 /\ UNCHANGED blocks
      <3>1. Expected(0)
        BY <1>1, <2>3, TrivialAnswer
      <3>2. Expected(0)'
        BY <1>3, <3>1
      <3> QED
        BY <2>1, <2>2, <2>3, <3>2 DEF SearchInv, Running, Answered
    <2>4. CASE ~TrivialSearch /\ step' = "dispatch"
      BY <1>3, <2>2, <2>4 DEF SearchInv, Running, Answered
    <2>5. CASE step' = "failed" /\ answer' = Count
      BY <1>3, <2>2, <2>5 DEF SearchInv, Running, Answered
    <2> QED
      BY <1>6, <2>3, <2>4, <2>5 DEF Start, Answer, SearchFails
  <1>7. CASE DispatchSearch
    <2>1. step = "dispatch" /\ UNCHANGED <<dev, host>> /\ ~TrivialSearch
      BY <1>1, <1>7 DEF DispatchSearch, Running
    <2>2. SearchShape'
      BY <1>1, <1>4, <2>1 DEF SearchShape
    <2>3. CASE inFlight' = [g \in SearchGroups |-> "queued"] /\ step' = "run"
      BY <1>3, <2>1, <2>2, <2>3 DEF SearchInv, Running, Answered
    <2>4. CASE step' = "failed" /\ answer' = Count
      BY <1>3, <2>2, <2>4 DEF SearchInv, Running, Answered
    <2> QED
      BY <1>7, <2>3, <2>4 DEF DispatchSearch, SearchFails
  <1>8. ASSUME NEW g \in SearchGroups, RunGroup(g) PROVE SearchInv'
    <2>1. /\ step = "run" /\ UNCHANGED <<step, answer, blocks>>
          /\ dev' = [dev EXCEPT ![g] = Winner(g)]
          /\ host' = dev' \/ host' = host
          /\ inFlight' = [inFlight EXCEPT ![g] = "stored"]
      BY <1>8 DEF RunGroup
    <2>2. DOMAIN dev = SearchGroups /\ DOMAIN host = SearchGroups /\ DOMAIN inFlight = SearchGroups
      BY <1>1, <2>1 DEF SearchShape, Running
    <2>3. SearchShape'
      BY <1>4, <2>1, <2>2
    <2>4. \A h \in SearchGroups : inFlight'[h] = "stored" => dev'[h] = Winner(h)
      <3>1. \A h \in SearchGroups : inFlight[h] = "stored" => dev[h] = Winner(h)
        BY <1>1, <2>1 DEF Running
      <3>2. PICK v : v = Winner(g)
        OBVIOUS
      <3> QED
        BY <2>1, <2>2, <3>1, <3>2
    <2>5. DOMAIN inFlight' = SearchGroups
      BY <2>1, <2>2
    <2> QED
      BY <1>1, <1>3, <2>1, <2>3, <2>4, <2>5 DEF SearchInv, Running, Answered
  <1>9. CASE Collect
    <2>1. /\ step = "run" /\ step' = "combine" /\ UNCHANGED dev /\ host' = dev
          /\ \A g \in SearchGroups : inFlight[g] = "stored"
      BY <1>9 DEF Collect, InvalidateFromDevice
    <2>2. ~TrivialSearch /\ \A g \in SearchGroups : host'[g] = Winner(g)
      BY <1>1, <2>1 DEF Running
    <2>3. SearchShape'
      BY <1>1, <1>4, <2>1 DEF SearchShape
    <2> QED
      BY <1>3, <2>1, <2>2, <2>3 DEF SearchInv, Running, Answered
  <1>10. CASE Combine
    <2>1. PICK a : a = IF IsArg /\ Combined = Count
                      THEN 0 ELSE Combined
      OBVIOUS
    <2>2. /\ step = "combine" /\ step' = "done" /\ blocks' = 0 /\ answer' = a
          /\ UNCHANGED <<dev, host>>
      BY <1>10, <2>1 DEF Combine, Answer
    <2>3. ~TrivialSearch /\ \A g \in SearchGroups : host[g] = Winner(g)
      BY <1>1, <2>2 DEF Running
    <2>4. Expected(a)
      BY <1>1, <2>1, <2>3, DeviceAnswer
    <2>5. Expected(a)'
      BY <1>3, <2>4
    <2>6. SearchShape'
      BY <1>1, <1>4, <2>2 DEF SearchShape
    <2> QED
      BY <2>2, <2>5, <2>6 DEF SearchInv, Running, Answered
  <1> QED
    BY <1>5, <1>6, <1>7, <1>8, <1>9, <1>10 DEF SearchNext

(* The answer of a search is that of the sequential algorithm (runtime.h:    *)
(* 55-68) for every workgroup width, every range and every order of the      *)
(* workgroups, as long as no two values share a double.                      *)
THEOREM SearchExact ==
    ASSUME ExactValues
    PROVE  SearchSpec => []SearchCorrect
  <1>1. SearchInit => SearchInv
    BY SearchBegins
  <1>2. SearchInv /\ [SearchNext]_searchVars => SearchInv'
    BY SearchGoesOn
  <1>3. SearchInv => SearchCorrect
    BY DEF SearchInv, Answered, Expected, SearchCorrect
  <1> QED
    BY <1>1, <1>2, <1>3, PTL DEF SearchSpec

-------------------------------------------------------------------------------
(* The elements of G among the w from t on lie between two places, or those  *)
(* that are not in G do.                                                     *)
Between(G, t, w) == \E x, y \in Int : \A i \in t .. t + w - 1 : i \in G <=> (x <= i /\ i < y)
Outside(G, t, w) == \E x, y \in Int : \A i \in t .. t + w - 1 : i \notin G <=> (x <= i /\ i < y)
Bitonic(G, t, w) == Between(G, t, w) \/ Outside(G, t, w)

(* A compare-exchange of the two halves of a bitonic segment leaves one half *)
(* that is uniform and one that is bitonic.                                  *)
LEMMA HalfCleaner ==
    ASSUME NEW G, NEW H, NEW t \in Nat, NEW J \in Nat, J >= 1,
           Bitonic(G, t, 2 * J),
           \A i \in t .. t + J - 1 : /\ i \in H <=> i \in G /\ i + J \in G
                                     /\ i + J \in H <=> i \in G \/ i + J \in G
    PROVE  \/ Bitonic(H, t + J, J) /\ \A i \in t .. t + J - 1 : i \notin H
           \/ Bitonic(H, t, J) /\ \A i \in t + J .. t + 2 * J - 1 : i \in H
  <1>1. \A i \in t + J .. t + J + J - 1 :
            /\ i - J \in t .. t + J - 1 /\ (i - J) + J = i
            /\ i \in H <=> i - J \in G \/ i \in G
    <2>1. ASSUME NEW i \in t + J .. t + J + J - 1
          PROVE  i - J \in t .. t + J - 1 /\ (i - J) + J = i
      OBVIOUS
    <2> QED
      BY <2>1
  <1>2. CASE Between(G, t, 2 * J)
    <2>1. PICK x, y \in Int : \A i \in t .. t + 2 * J - 1 : i \in G <=> (x <= i /\ i < y)
      BY <1>2 DEF Between
    <2>2. \A i \in t .. t + J - 1 : /\ i \in G <=> (x <= i /\ i < y)
                                    /\ i + J \in G <=> (x <= i + J /\ i + J < y)
      BY <2>1
    <2>3. CASE y <= t + J
      <3>1. \A i \in t .. t + J - 1 : i \notin H
        BY <2>2, <2>3
      <3>2. \A i \in t + J .. t + J + J - 1 : i \in H <=> (x + J <= i /\ i < y + J)
        BY <1>1, <2>1, <2>3
      <3>3. x + J \in Int /\ y + J \in Int
        OBVIOUS
      <3> QED
        BY <3>1, <3>2, <3>3 DEF Bitonic, Between
    <2>4. CASE x >= t + J
      <3>1. \A i \in t .. t + J - 1 : i \notin H
        BY <2>2, <2>4
      <3>2. \A i \in t + J .. t + J + J - 1 : i \in H <=> (x <= i /\ i < y)
        BY <1>1, <2>1, <2>4
      <3> QED
        BY <3>1, <3>2 DEF Bitonic, Between
    <2>5. CASE x < t + J /\ t + J < y /\ y - J <= x
      <3>1. \A i \in t .. t + J - 1 : i \notin H
        BY <2>2, <2>5
      <3>2. \A i \in t + J .. t + J + J - 1 : i \notin H <=> (y <= i /\ i < x + J)
        BY <1>1, <2>1, <2>5
      <3>3. x + J \in Int
        OBVIOUS
      <3> QED
        BY <3>1, <3>2, <3>3 DEF Bitonic, Outside
    <2>6. CASE x < t + J /\ t + J < y /\ x < y - J
      <3>1. \A i \in t .. t + J - 1 : i \in H <=> (x <= i /\ i < y - J)
        BY <2>2, <2>6
      <3>2. \A i \in t + J .. t + J + J - 1 : i \in H
        BY <1>1, <2>1, <2>6
      <3>3. y - J \in Int
        OBVIOUS
      <3>4. Bitonic(H, t, J)
        BY <3>1, <3>3 DEF Bitonic, Between
      <3> QED
        BY <3>2, <3>4
    <2> QED
      BY <2>3, <2>4, <2>5, <2>6
  <1>3. CASE Outside(G, t, 2 * J)
    <2>1. PICK x, y \in Int : \A i \in t .. t + 2 * J - 1 : i \notin G <=> (x <= i /\ i < y)
      BY <1>3 DEF Outside
    <2>2. \A i \in t .. t + J - 1 : /\ i \notin G <=> (x <= i /\ i < y)
                                    /\ i + J \notin G <=> (x <= i + J /\ i + J < y)
      BY <2>1
    <2>3. CASE y <= t + J
      <3>1. \A i \in t .. t + J - 1 : i \notin H <=> (x <= i /\ i < y)
        BY <2>2, <2>3
      <3>2. \A i \in t + J .. t + J + J - 1 : i \in H
        BY <1>1, <2>1, <2>3
      <3>3. Bitonic(H, t, J)
        BY <3>1 DEF Bitonic, Outside
      <3> QED
        BY <3>2, <3>3
    <2>4. CASE x >= t + J
      <3>1. \A i \in t .. t + J - 1 : i \notin H <=> (x - J <= i /\ i < y - J)
        BY <2>2, <2>4
      <3>2. \A i \in t + J .. t + J + J - 1 : i \in H
        BY <1>1, <2>1, <2>4
      <3>3. x - J \in Int /\ y - J \in Int
        OBVIOUS
      <3>4. Bitonic(H, t, J)
        BY <3>1, <3>3 DEF Bitonic, Outside
      <3> QED
        BY <3>2, <3>4
    <2>5. CASE x < t + J /\ t + J < y /\ y - J <= x
      <3>1. \A i \in t .. t + J - 1 : i \in H <=> (y - J <= i /\ i < x)
        BY <2>2, <2>5
      <3>2. \A i \in t + J .. t + J + J - 1 : i \in H
        BY <1>1, <2>1, <2>5
      <3>3. y - J \in Int
        OBVIOUS
      <3>4. Bitonic(H, t, J)
        BY <3>1, <3>3 DEF Bitonic, Between
      <3> QED
        BY <3>2, <3>4
    <2>6. CASE x < t + J /\ t + J < y /\ x < y - J
      <3>1. \A i \in t .. t + J - 1 : i \notin H
        BY <2>2, <2>6
      <3>2. \A i \in t + J .. t + J + J - 1 : i \notin H <=> (x + J <= i /\ i < y)
        BY <1>1, <2>1, <2>6
      <3>3. x + J \in Int
        OBVIOUS
      <3> QED
        BY <3>1, <3>2, <3>3 DEF Bitonic, Outside
    <2> QED
      BY <2>3, <2>4, <2>5, <2>6
  <1> QED
    BY <1>2, <1>3 DEF Bitonic

(* i is the lower element of its pair in a stage of stride j. *)
Lower(i, J) == (i \div J) % 2 = 0

(* Where c blocks of J precede i, c says which half of a pair i is in. *)
LEMMA LowerIs ==
    ASSUME NEW J \in Nat, J >= 1, NEW c \in Nat, NEW i \in Nat, J * c <= i, i < J * c + J
    PROVE  i \div J = c /\ (Lower(i, J) <=> c % 2 = 0)
  <1>1. PICK q \in Nat : q = i \div J /\ J * q <= i /\ i < J * (q + 1)
    BY Quotient
  <1>2. J * (q + 1) = J * q + J /\ J * q \in Nat /\ J * c \in Nat
    OBVIOUS
  <1>3. ~(q < c)
    <2>1. ASSUME q < c PROVE FALSE
      <3>1. PICK e \in Nat : c = q + 1 + e
        <4>1. c - q - 1 \in Nat /\ c = q + 1 + (c - q - 1)
          BY <2>1
        <4> QED
          BY <4>1
      <3>2. J * c = J * q + J + J * e /\ J * e \in Nat
        BY <3>1
      <3> QED
        BY <1>1, <1>2, <3>2
    <2> QED
      BY <2>1
  <1>4. ~(c < q)
    <2>1. ASSUME c < q PROVE FALSE
      <3>1. PICK e \in Nat : q = c + 1 + e
        <4>1. q - c - 1 \in Nat /\ q = c + 1 + (q - c - 1)
          BY <2>1
        <4> QED
          BY <4>1
      <3>2. J * q = J * c + J + J * e /\ J * e \in Nat
        BY <3>1
      <3> QED
        BY <1>1, <1>2, <3>2
    <2> QED
      BY <2>1
  <1>5. q = c
    BY <1>3, <1>4
  <1> QED
    BY <1>1, <1>5 DEF Lower

(* The two elements of a pair. *)
LEMMA Pairs ==
    ASSUME NEW J \in Nat, J >= 1, NEW i \in Nat
    PROVE  \E e \in Nat :
              /\ 2 * J * e <= i /\ i < 2 * J * e + 2 * J
              /\ Lower(i, J) <=> i < 2 * J * e + J
              /\ Lower(i, J) => ~Lower(i + J, J)
              /\ ~Lower(i, J) => i - J \in Nat /\ Lower(i - J, J)
  <1>1. PICK q \in Nat : q = i \div J /\ J * q <= i /\ i < J * (q + 1)
    BY Quotient
  <1>2. J * (q + 1) = J * q + J /\ J * q \in Nat
    OBVIOUS
  <1>3. PICK e \in Nat : q = 2 * e \/ q = 2 * e + 1
    <2>1. q \div 2 \in Nat /\ (q = 2 * (q \div 2) \/ q = 2 * (q \div 2) + 1)
      OBVIOUS
    <2> QED
      BY <2>1
  <1>4. PICK t \in Nat : t = 2 * J * e /\ t = J * (2 * e)
    OBVIOUS
  <1>5. J * (2 * e + 1) = t + J
    BY <1>4
  <1>6. CASE q = 2 * e
    <2>1. J * q = t /\ t <= i /\ i < t + J
      BY <1>1, <1>2, <1>4, <1>6
    <2>2. Lower(i, J)
      BY <1>1, <1>6 DEF Lower
    <2>3. (2 * e + 1) % 2 # 0 /\ 2 * e + 1 \in Nat
      OBVIOUS
    <2>4. ~Lower(i + J, J)
      <3>1. PICK c \in Nat : c = 2 * e + 1 /\ J * c = t + J /\ c % 2 # 0
        BY <1>5, <2>3
      <3>2. PICK u \in Nat : u = i + J /\ J * c <= u /\ u < J * c + J
        BY <2>1, <3>1
      <3> QED
        BY <3>1, <3>2, LowerIs
    <2> QED
      BY <1>4, <2>1, <2>2, <2>4
  <1>7. CASE q = 2 * e + 1
    <2>1. J * q = t + J /\ t + J <= i /\ i < t + 2 * J
      BY <1>1, <1>2, <1>5, <1>7
    <2>2. (2 * e + 1) % 2 # 0 /\ (2 * e) % 2 = 0 /\ 2 * e \in Nat
      OBVIOUS
    <2>3. ~Lower(i, J)
      BY <1>1, <1>7, <2>2 DEF Lower
    <2>4. i - J \in Nat /\ t <= i - J /\ i - J < t + J
      BY <2>1
    <2>5. Lower(i - J, J)
      <3>1. PICK c \in Nat : c = 2 * e /\ J * c = t /\ c % 2 = 0
        BY <1>4, <2>2
      <3>2. PICK u \in Nat : u = i - J /\ J * c <= u /\ u < J * c + J
        BY <2>4, <3>1
      <3> QED
        BY <3>1, <3>2, LowerIs
    <2> QED
      BY <1>4, <2>1, <2>3, <2>4, <2>5
  <1> QED
    BY <1>3, <1>6, <1>7

(* A block of k elements from s on, whose segments of w elements are in      *)
(* order: up to one of them none is in G, after it all are, and it is        *)
(* bitonic.                                                                  *)
Up(G, s, K, w) ==
    \E d \in Nat :
        /\ s <= w * d /\ w * d + w <= s + K
        /\ \A i \in s .. w * d - 1 : i \notin G
        /\ \A i \in w * d + w .. s + K - 1 : i \in G
        /\ Bitonic(G, w * d, w)

(* One stage halves the segments. *)
LEMMA StageUp ==
    ASSUME NEW G, NEW H, NEW s \in Nat, NEW K \in Nat, NEW J \in Nat, J >= 1,
           Up(G, s, K, 2 * J),
           \A i \in s .. s + K - 1 : Lower(i, J) =>
               /\ i + J \in s .. s + K - 1
               /\ i \in H <=> i \in G /\ i + J \in G
               /\ i + J \in H <=> i \in G \/ i + J \in G,
           \A i \in s .. s + K - 1 : ~Lower(i, J) => i - J \in s .. s + K - 1
    PROVE  Up(H, s, K, J)
  <1>1. PICK d \in Nat :
            /\ s <= 2 * J * d /\ 2 * J * d + 2 * J <= s + K
            /\ \A i \in s .. 2 * J * d - 1 : i \notin G
            /\ \A i \in 2 * J * d + 2 * J .. s + K - 1 : i \in G
            /\ Bitonic(G, 2 * J * d, 2 * J)
    BY DEF Up
  <1>2. PICK t \in Nat : t = 2 * J * d /\ t = J * (2 * d) /\ t + J = J * (2 * d + 1)
    OBVIOUS
  <1>3. /\ s <= t /\ t + 2 * J <= s + K
        /\ \A i \in s .. t - 1 : i \notin G
        /\ \A i \in t + 2 * J .. s + K - 1 : i \in G
        /\ Bitonic(G, t, 2 * J)
    BY <1>1, <1>2
  <1>4. \A i \in s .. s + K - 1 : ~Lower(i, J) =>
            /\ i - J \in s .. s + K - 1 /\ (i - J) + J = i
            /\ i \in H <=> i - J \in G \/ i \in G
    <2>1. ASSUME NEW i \in s .. s + K - 1, ~Lower(i, J)
          PROVE  /\ i - J \in s .. s + K - 1 /\ (i - J) + J = i
                 /\ i \in H <=> i - J \in G \/ i \in G
      <3>1. i \in Nat
        OBVIOUS
      <3>2. Lower(i - J, J)
        BY <2>1, <3>1, Pairs
      <3>3. PICK l \in s .. s + K - 1 : l = i - J /\ l + J = i
        BY <2>1
      <3> QED
        BY <3>2, <3>3
    <2> QED
      BY <2>1
  <1>5. \A i \in s .. t - 1 : i \notin H
    <2>1. ASSUME NEW i \in s .. t - 1 PROVE i \notin H
      <3>1. i \in s .. s + K - 1 /\ i \notin G
        BY <1>3
      <3>2. CASE Lower(i, J)
        BY <3>1, <3>2
      <3>3. CASE ~Lower(i, J)
        <4>1. PICK l \in s .. s + K - 1 : l = i - J /\ (i \in H <=> l \in G \/ i \in G)
          BY <1>4, <3>1, <3>3
        <4>2. l \in s .. t - 1
          BY <4>1
        <4> QED
          BY <1>3, <3>1, <4>1, <4>2
      <3> QED
        BY <3>2, <3>3
    <2> QED
      BY <2>1
  <1>6. \A i \in t + 2 * J .. s + K - 1 : i \in H
    <2>1. ASSUME NEW i \in t + 2 * J .. s + K - 1 PROVE i \in H
      <3>1. i \in s .. s + K - 1 /\ i \in G
        BY <1>3
      <3>2. CASE Lower(i, J)
        <4>1. PICK l \in s .. s + K - 1 : l = i + J /\ (i \in H <=> i \in G /\ l \in G)
          BY <3>1, <3>2
        <4>2. l \in t + 2 * J .. s + K - 1
          BY <4>1
        <4> QED
          BY <1>3, <3>1, <4>1, <4>2
      <3>3. CASE ~Lower(i, J)
        BY <1>4, <3>1, <3>3
      <3> QED
        BY <3>2, <3>3
    <2> QED
      BY <2>1
  <1>7. \A i \in t .. t + J - 1 : Lower(i, J) /\ i \in s .. s + K - 1
    <2>1. ASSUME NEW i \in t .. t + J - 1 PROVE Lower(i, J) /\ i \in s .. s + K - 1
      <3>1. PICK c \in Nat : c = 2 * d /\ J * c = t /\ c % 2 = 0
        BY <1>2
      <3>2. i \in Nat /\ J * c <= i /\ i < J * c + J
        BY <3>1
      <3>3. Lower(i, J)
        BY <3>1, <3>2, LowerIs
      <3> QED
        BY <1>3, <3>3
    <2> QED
      BY <2>1
  <1>8. \A i \in t .. t + J - 1 : /\ i \in H <=> i \in G /\ i + J \in G
                                  /\ i + J \in H <=> i \in G \/ i + J \in G
    BY <1>7
  <1>9. \/ Bitonic(H, t + J, J) /\ \A i \in t .. t + J - 1 : i \notin H
        \/ Bitonic(H, t, J) /\ \A i \in t + J .. t + 2 * J - 1 : i \in H
    BY <1>3, <1>8, HalfCleaner
  <1>10. CASE Bitonic(H, t + J, J) /\ \A i \in t .. t + J - 1 : i \notin H
    <2>1. PICK e \in Nat : e = 2 * d + 1 /\ J * e = t + J
      BY <1>2
    <2>2. PICK u \in Nat : u = J * e /\ u = t + J
      BY <2>1
    <2>3. \A i \in s .. u - 1 : i \notin H
      BY <1>5, <1>10, <2>2
    <2>4. \A i \in u + J .. s + K - 1 : i \in H
      BY <1>6, <2>2
    <2>5. s <= u /\ u + J <= s + K /\ Bitonic(H, u, J)
      BY <1>3, <1>10, <2>2
    <2> QED
      BY <2>2, <2>3, <2>4, <2>5 DEF Up
  <1>11. CASE Bitonic(H, t, J) /\ \A i \in t + J .. t + 2 * J - 1 : i \in H
    <2>1. PICK e \in Nat : e = 2 * d /\ t = J * e
      BY <1>2
    <2>2. \A i \in t + J .. s + K - 1 : i \in H
      BY <1>6, <1>11
    <2>3. s <= t /\ t + J <= s + K
      BY <1>3
    <2> QED
      BY <1>5, <1>11, <2>1, <2>2, <2>3 DEF Up
  <1> QED
    BY <1>9, <1>10, <1>11


(* The elements that belong at the end of block c: the large ones in a block *)
(* that is sorted in ascending order, the small ones in the others.          *)
Side(a, L, v, c) ==
    IF c % 2 = 0 THEN {i \in 0 .. L - 1 : a[i] >= v} ELSE {i \in 0 .. L - 1 : a[i] < v}

(* Every block of k elements is sorted down to segments of w. *)
Merged(a, L, K, w) ==
    \A c \in Nat, v \in Int : K * c + K <= L => Up(Side(a, L, v, c), K * c, K, w)

(* A compare-exchange. *)
Lesser(x, y)  == IF x <= y THEN x ELSE y
Greater(x, y) == IF x <= y THEN y ELSE x

Exchanged(a, b, L, K, J) ==
    \A i \in 0 .. L - 1 : Lower(i, J) =>
        /\ i + J < L
        /\ IF Lower(i, K) THEN b[i] = Lesser(a[i], a[i + J]) /\ b[i + J] = Greater(a[i], a[i + J])
                          ELSE b[i] = Greater(a[i], a[i + J]) /\ b[i + J] = Lesser(a[i], a[i + J])

(* A pair of a stage lies within one block. *)
LEMMA PairsInBlock ==
    ASSUME NEW J \in Nat, J >= 1, NEW h \in Nat, NEW K \in Nat, K = 2 * J * h, NEW c \in Nat,
           NEW i \in Nat, K * c <= i, i < K * c + K
    PROVE  /\ Lower(i, J) => i + J < K * c + K
           /\ ~Lower(i, J) => K * c <= i - J
  <1>1. PICK e \in Nat : /\ 2 * J * e <= i /\ i < 2 * J * e + 2 * J
                         /\ Lower(i, J) <=> i < 2 * J * e + J
    BY Pairs
  <1>2. PICK w \in Nat : w = 2 * J /\ w >= 1
    OBVIOUS
  <1>3. K * c = w * (h * c) /\ K * c + K = w * (h * c + h) /\ h * c \in Nat
    BY <1>2
  <1>4. PICK f \in Nat : f = h * c
    BY <1>3
  <1>5. K * c = w * f /\ K * c + K = w * (f + h) /\ w * e <= i /\ i < w * e + w
    BY <1>1, <1>2, <1>3, <1>4
  <1>6. f <= e
    <2>1. ASSUME e < f PROVE FALSE
      <3>1. PICK g \in Nat : f = e + 1 + g
        <4>1. f - e - 1 \in Nat /\ f = e + 1 + (f - e - 1)
          BY <2>1
        <4> QED
          BY <4>1
      <3>2. w * f = w * e + w + w * g /\ w * g \in Nat /\ w * e \in Nat
        BY <3>1
      <3> QED
        BY <1>5, <3>2
    <2> QED
      BY <2>1
  <1>7. e + 1 <= f + h
    <2>1. ASSUME f + h <= e PROVE FALSE
      <3>1. PICK g \in Nat : e = f + h + g
        <4>1. e - (f + h) \in Nat /\ e = f + h + (e - (f + h))
          BY <2>1
        <4> QED
          BY <4>1
      <3>2. w * e = w * (f + h) + w * g /\ w * g \in Nat /\ w * (f + h) \in Nat
        BY <3>1
      <3> QED
        BY <1>5, <3>2
    <2> QED
      BY <2>1
  <1>8. w * f <= w * e /\ w * e + w <= w * (f + h)
    <2>1. PICK g \in Nat : e = f + g
      <3>1. e - f \in Nat /\ e = f + (e - f)
        BY <1>6
      <3> QED
        BY <3>1
    <2>2. PICK p \in Nat : f + h = e + 1 + p
      <3>1. f + h - (e + 1) \in Nat /\ f + h = e + 1 + (f + h - (e + 1))
        BY <1>7
      <3> QED
        BY <3>1
    <2>3. w * e = w * f + w * g /\ w * g \in Nat /\ w * f \in Nat
      BY <2>1
    <2>4. w * (f + h) = w * e + w + w * p /\ w * p \in Nat
      BY <2>2
    <2> QED
      BY <2>3, <2>4
  <1> QED
    BY <1>1, <1>2, <1>5, <1>8

(* One stage halves the segments to which every block is sorted. *)
LEMMA StageMerges ==
    ASSUME NEW L \in Nat, NEW a, NEW b,
           \A i \in 0 .. L - 1 : a[i] \in Int /\ b[i] \in Int,
           NEW J \in Nat, J >= 1, NEW h \in Nat, NEW K \in Nat, K = 2 * J * h, K >= 1,
           Merged(a, L, K, 2 * J), Exchanged(a, b, L, K, J)
    PROVE  Merged(b, L, K, J)
  <1> SUFFICES ASSUME NEW c \in Nat, NEW v \in Int, K * c + K <= L
               PROVE  Up(Side(b, L, v, c), K * c, K, J)
    BY DEF Merged
  <1>1. PICK s \in Nat : s = K * c
    OBVIOUS
  <1>2. PICK G : G = Side(a, L, v, c)
    OBVIOUS
  <1>3. PICK H : H = Side(b, L, v, c)
    OBVIOUS
  <1>4. Up(G, s, K, 2 * J)
    BY <1>1, <1>2 DEF Merged
  <1>5. \A i \in s .. s + K - 1 : i \in 0 .. L - 1 /\ i \in Nat
    BY <1>1
  <1>6. \A i \in s .. s + K - 1 : Lower(i, J) => i + J \in s .. s + K - 1
    <2>1. ASSUME NEW i \in s .. s + K - 1, Lower(i, J) PROVE i + J \in s .. s + K - 1
      <3>1. i \in Nat /\ K * c <= i /\ i < K * c + K
        BY <1>1
      <3>2. i + J < K * c + K
        BY <2>1, <3>1, PairsInBlock
      <3> QED
        BY <1>1, <3>1, <3>2
    <2> QED
      BY <2>1
  <1>7. \A i \in s .. s + K - 1 : ~Lower(i, J) => i - J \in s .. s + K - 1
    <2>1. ASSUME NEW i \in s .. s + K - 1, ~Lower(i, J) PROVE i - J \in s .. s + K - 1
      <3>1. i \in Nat /\ K * c <= i /\ i < K * c + K
        BY <1>1
      <3>2. K * c <= i - J
        BY <2>1, <3>1, PairsInBlock
      <3> QED
        BY <1>1, <3>1, <3>2
    <2> QED
      BY <2>1
  <1>8. \A i \in s .. s + K - 1 : Lower(i, J) =>
            /\ i \in H <=> i \in G /\ i + J \in G
            /\ i + J \in H <=> i \in G \/ i + J \in G
    <2>1. ASSUME NEW i \in s .. s + K - 1, Lower(i, J)
          PROVE  /\ i \in H <=> i \in G /\ i + J \in G
                 /\ i + J \in H <=> i \in G \/ i + J \in G
      <3>1. i \in Nat /\ K * c <= i /\ i < K * c + K
        BY <1>1
      <3>2. Lower(i, K) <=> c % 2 = 0
        BY <3>1, LowerIs
      <3>3. PICK l \in 0 .. L - 1 : l = i + J
        BY <1>5, <1>6, <2>1
      <3>4. i \in 0 .. L - 1
        BY <1>5
      <3>5. IF c % 2 = 0 THEN b[i] = Lesser(a[i], a[l]) /\ b[l] = Greater(a[i], a[l])
                         ELSE b[i] = Greater(a[i], a[l]) /\ b[l] = Lesser(a[i], a[l])
        BY <2>1, <3>2, <3>3, <3>4 DEF Exchanged
      <3>6. PICK p \in Int, q \in Int, x \in Int, y \in Int :
                a[i] = p /\ a[l] = q /\ b[i] = x /\ b[l] = y
        BY <3>3, <3>4
      <3>7. CASE c % 2 = 0
        <4>1. /\ i \in G <=> p >= v
              /\ l \in G <=> q >= v
              /\ i \in H <=> x >= v
              /\ l \in H <=> y >= v
          BY <1>2, <1>3, <3>3, <3>4, <3>6, <3>7 DEF Side
        <4>2. x = Lesser(p, q) /\ y = Greater(p, q)
          BY <3>5, <3>6, <3>7
        <4> QED
          BY <3>3, <4>1, <4>2 DEF Lesser, Greater
      <3>8. CASE c % 2 # 0
        <4>1. /\ i \in G <=> p < v
              /\ l \in G <=> q < v
              /\ i \in H <=> x < v
              /\ l \in H <=> y < v
          BY <1>2, <1>3, <3>3, <3>4, <3>6, <3>8 DEF Side
        <4>2. x = Greater(p, q) /\ y = Lesser(p, q)
          BY <3>5, <3>6, <3>8
        <4> QED
          BY <3>3, <4>1, <4>2 DEF Lesser, Greater
      <3> QED
        BY <3>7, <3>8
    <2> QED
      BY <2>1
  <1>9. Up(H, s, K, J)
    BY <1>4, <1>6, <1>7, <1>8, StageUp
  <1> QED
    BY <1>1, <1>3, <1>9

(* Two elements are a bitonic segment. *)
LEMMA StartMerged ==
    ASSUME NEW L \in Nat, NEW a
    PROVE  Merged(a, L, 2, 2)
  <1> SUFFICES ASSUME NEW c \in Nat, NEW v \in Int
               PROVE  Up(Side(a, L, v, c), 2 * c, 2, 2)
    BY DEF Merged
  <1>1. PICK G : G = Side(a, L, v, c)
    OBVIOUS
  <1>2. PICK s \in Nat : s = 2 * c
    OBVIOUS
  <1>3. \A i \in s .. s + 2 - 1 : i = s \/ i = s + 1
    OBVIOUS
  <1>4. Between(G, s, 2)
    <2> DEFINE x == IF s \in G THEN s ELSE s + 1
               y == IF s + 1 \in G THEN s + 2 ELSE s + 1
    <2>1. x \in Int /\ y \in Int /\ \A i \in s .. s + 2 - 1 : i \in G <=> (x <= i /\ i < y)
      BY <1>3
    <2> HIDE DEF x, y
    <2> QED
      BY <2>1 DEF Between
  <1>5. Up(G, s, 2, 2)
    BY <1>2, <1>4 DEF Up, Bitonic
  <1> QED
    BY <1>1, <1>2, <1>5

(* Two sorted neighbours, one ascending and one descending, are a bitonic    *)
(* block of twice the size.                                                  *)
LEMMA BlocksMerge ==
    ASSUME NEW L \in Nat, NEW a, \A i \in 0 .. L - 1 : a[i] \in Int,
           NEW K \in Nat, K >= 1, Merged(a, L, K, 1)
    PROVE  Merged(a, L, 2 * K, 2 * K)
  <1> SUFFICES ASSUME NEW c \in Nat, NEW v \in Int, 2 * K * c + 2 * K <= L
               PROVE  Up(Side(a, L, v, c), 2 * K * c, 2 * K, 2 * K)
    BY DEF Merged
  <1>1. PICK s \in Nat : s = 2 * K * c /\ s = K * (2 * c) /\ s + K = K * (2 * c + 1)
    OBVIOUS
  <1>2. PICK lo \in Nat : lo = 2 * c /\ lo % 2 = 0 /\ K * lo = s
    BY <1>1
  <1>3. PICK hi \in Nat : hi = 2 * c + 1 /\ hi % 2 # 0 /\ K * hi = s + K
    BY <1>1
  <1>4. PICK A : A = Side(a, L, v, lo)
    OBVIOUS
  <1>5. PICK B : B = Side(a, L, v, hi)
    OBVIOUS
  <1>6. \A i \in 0 .. L - 1 : i \in B <=> i \notin A
    BY <1>2, <1>3, <1>4, <1>5 DEF Side
  <1>7. Up(A, s, K, 1) /\ Up(B, s + K, K, 1)
    <2>1. K * lo + K <= L /\ K * hi + K <= L
      BY <1>1, <1>2, <1>3
    <2> QED
      BY <1>2, <1>3, <1>4, <1>5, <2>1 DEF Merged
  <1>8. PICK x \in Int : s <= x /\ x <= s + K /\ \A i \in s .. s + K - 1 : i \in A <=> x <= i
    <2>1. PICK d \in Nat :
            /\ s <= d /\ d + 1 <= s + K
            /\ \A i \in s .. d - 1 : i \notin A
            /\ \A i \in d + 1 .. s + K - 1 : i \in A
      <3>1. \A d \in Nat : 1 * d = d
        OBVIOUS
      <3> QED
        BY <1>7, <3>1 DEF Up
    <2>2. CASE d \in A
      <3>1. \A i \in s .. s + K - 1 : i \in A <=> d <= i
        BY <2>1, <2>2
      <3> QED
        BY <2>1, <3>1
    <2>3. CASE d \notin A
      <3>1. \A i \in s .. s + K - 1 : i \in A <=> d + 1 <= i
        BY <2>1, <2>3
      <3>2. PICK e \in Int : e = d + 1 /\ s <= e /\ e <= s + K
        BY <2>1
      <3> QED
        BY <3>1, <3>2
    <2> QED
      BY <2>2, <2>3
  <1>9. PICK y \in Int :
          /\ s + K <= y /\ y <= s + K + K
          /\ \A i \in s + K .. s + K + K - 1 : i \in B <=> y <= i
    <2>1. PICK d \in Nat :
            /\ s + K <= d /\ d + 1 <= s + K + K
            /\ \A i \in s + K .. d - 1 : i \notin B
            /\ \A i \in d + 1 .. s + K + K - 1 : i \in B
      <3>1. \A d \in Nat : 1 * d = d
        OBVIOUS
      <3> QED
        BY <1>7, <3>1 DEF Up
    <2>2. CASE d \in B
      <3>1. \A i \in s + K .. s + K + K - 1 : i \in B <=> d <= i
        BY <2>1, <2>2
      <3> QED
        BY <2>1, <3>1
    <2>3. CASE d \notin B
      <3>1. \A i \in s + K .. s + K + K - 1 : i \in B <=> d + 1 <= i
        BY <2>1, <2>3
      <3>2. PICK e \in Int : e = d + 1 /\ s + K <= e /\ e <= s + K + K
        BY <2>1
      <3> QED
        BY <3>1, <3>2
    <2> QED
      BY <2>2, <2>3
  <1>10. PICK m \in Nat : m = 2 * K
    OBVIOUS
  <1>11. \A i \in s .. s + m - 1 : i \in A <=> (x <= i /\ i < y)
    <2>1. ASSUME NEW i \in s .. s + m - 1 PROVE i \in A <=> (x <= i /\ i < y)
      <3>1. i \in 0 .. L - 1
        BY <1>1, <1>10
      <3>2. CASE i < s + K
        BY <1>8, <1>9, <3>2
      <3>3. CASE s + K <= i
        <4>1. i \in s + K .. s + K + K - 1
          BY <1>10, <3>3
        <4> QED
          BY <1>6, <1>8, <1>9, <3>1, <3>3, <4>1
      <3> QED
        BY <3>2, <3>3
    <2> QED
      BY <2>1
  <1>12. PICK G : G = Side(a, L, v, c)
    OBVIOUS
  <1>13. Bitonic(G, s, m)
    <2>1. CASE c % 2 = 0
      <3>1. G = A
        BY <1>2, <1>4, <1>12, <2>1 DEF Side
      <3> QED
        BY <1>11, <3>1 DEF Bitonic, Between
    <2>2. CASE c % 2 # 0
      <3>1. G = B
        BY <1>3, <1>5, <1>12, <2>2 DEF Side
      <3>2. \A i \in s .. s + m - 1 : i \notin B <=> (x <= i /\ i < y)
        <4>1. \A i \in s .. s + m - 1 : i \in 0 .. L - 1
          BY <1>1, <1>10
        <4> QED
          BY <1>6, <1>11, <4>1
      <3> QED
        BY <3>1, <3>2 DEF Bitonic, Outside
    <2> QED
      BY <2>1, <2>2
  <1>14. Up(G, s, m, m)
    BY <1>1, <1>10, <1>13 DEF Up
  <1> QED
    BY <1>1, <1>10, <1>12, <1>14

(* The last block is the whole array. *)
LEMMA WholeSorted ==
    ASSUME NEW L \in Nat, NEW a, \A i \in 0 .. L - 1 : a[i] \in Int, Merged(a, L, L, 1)
    PROVE  \A i \in 0 .. L - 1, m \in 0 .. L - 1 : i < m => a[i] <= a[m]
  <1> SUFFICES ASSUME NEW i \in 0 .. L - 1, NEW m \in 0 .. L - 1, i < m PROVE a[i] <= a[m]
    OBVIOUS
  <1>1. PICK v \in Int : v = a[i]
    OBVIOUS
  <1>2. PICK G : G = Side(a, L, v, 0)
    OBVIOUS
  <1>3. Up(G, 0, L, 1)
    <2>1. L * 0 = 0 /\ L * 0 + L <= L /\ 0 \in Nat
      OBVIOUS
    <2> QED
      BY <1>2, <2>1 DEF Merged
  <1>4. PICK d \in Nat :
          /\ \A e \in 0 .. d - 1 : e \notin G
          /\ \A e \in d + 1 .. L - 1 : e \in G
    <2>1. PICK d \in Nat :
              /\ \A e \in 0 .. 1 * d - 1 : e \notin G
              /\ \A e \in 1 * d + 1 .. 0 + L - 1 : e \in G
      BY <1>3 DEF Up
    <2>2. \A e \in 0 .. d - 1 : e \notin G
      BY <2>1
    <2>3. \A e \in d + 1 .. L - 1 : e \in G
      BY <2>1
    <2> QED
      BY <2>2, <2>3
  <1>5. \A e \in 0 .. L - 1 : e \in G <=> a[e] >= v
    BY <1>2 DEF Side
  <1>6. i \in G
    BY <1>1, <1>5
  <1>7. m \in G
    BY <1>4, <1>6
  <1> QED
    BY <1>1, <1>5, <1>7


(* Powers of two below the width of the loop variables. *)
Power(e) == 2^e

(* All of them. *)
LEMMA PowerTable ==
    /\ Power(0) = 1 /\ Power(1) = 2 /\ Power(2) = 4 /\ Power(3) = 8 /\ Power(4) = 16
    /\ Power(5) = 32 /\ Power(6) = 64 /\ Power(7) = 128 /\ Power(8) = 256 /\ Power(9) = 512
    /\ Power(10) = 1024 /\ Power(11) = 2048 /\ Power(12) = 4096 /\ Power(13) = 8192
    /\ Power(14) = 16384 /\ Power(15) = 32768 /\ Power(16) = 65536 /\ Power(17) = 131072
    /\ Power(18) = 262144 /\ Power(19) = 524288 /\ Power(20) = 1048576
    /\ Power(21) = 2097152 /\ Power(22) = 4194304 /\ Power(23) = 8388608
    /\ Power(24) = 16777216 /\ Power(25) = 33554432 /\ Power(26) = 67108864
    /\ Power(27) = 134217728 /\ Power(28) = 268435456 /\ Power(29) = 536870912
    /\ Power(30) = 1073741824
  BY DEF Power

(* Each is twice the one before. *)
LEMMA PowerDoubles ==
    \A e \in 0 .. 29 : Power(e) \in Nat /\ Power(e) >= 1 /\ Power(e + 1) = 2 * Power(e)
  BY PowerTable

(* They grow. *)
LEMMA PowerGrows ==
    ASSUME NEW x \in 0 .. 30, NEW y \in 0 .. 30, x < y
    PROVE  2 * Power(x) <= Power(y)
  <1> DEFINE T == {d \in Nat : x + d + 1 <= 30 => 2 * Power(x) <= Power(x + d + 1)}
  <1>1. 0 \in T
    <2>1. ASSUME x + 0 + 1 <= 30 PROVE 2 * Power(x) <= Power(x + 0 + 1)
      BY <2>1, PowerDoubles
    <2> QED
      BY <2>1
  <1>2. ASSUME NEW d \in Nat, d \in T PROVE d + 1 \in T
    <2>1. ASSUME x + (d + 1) + 1 <= 30 PROVE 2 * Power(x) <= Power(x + (d + 1) + 1)
      <3>1. PICK z \in 0 .. 29 : z = x + d + 1 /\ x + (d + 1) + 1 = z + 1
        BY <2>1
      <3>2. 2 * Power(x) <= Power(z)
        BY <1>2, <3>1
      <3>3. x \in 0 .. 29 /\ Power(x) \in Nat
        BY <2>1, PowerDoubles
      <3> QED
        BY <3>1, <3>2, <3>3, PowerDoubles
    <2> QED
      BY <2>1
  <1>3. PICK d \in Nat : y = x + d + 1
    <2>1. y - x - 1 \in Nat /\ y = x + (y - x - 1) + 1
      OBVIOUS
    <2> QED
      BY <2>1
  <1>4. d \in T
    <2> HIDE DEF T
    <2> QED
      BY <1>1, <1>2, Induction
  <1> QED
    BY <1>3, <1>4

(* They are positive numbers. *)
LEMMA PowerIsNat == \A e \in 0 .. 30 : Power(e) \in Nat /\ Power(e) >= 1
  BY PowerTable




(* A smaller one divides a larger one. *)
LEMMA PowerDivides ==
    ASSUME NEW x \in 0 .. 30, NEW y \in 0 .. 30, x <= y
    PROVE  \E h \in Nat : h >= 1 /\ Power(y) = Power(x) * h
  <1> DEFINE T == {d \in Nat : x + d <= 30 => \E h \in Nat : h >= 1 /\ Power(x + d) = Power(x) * h}
  <1>1. 0 \in T
    <2>1. Power(x + 0) = Power(x) * 1
      BY PowerIsNat
    <2> QED
      BY <2>1
  <1>2. ASSUME NEW d \in Nat, d \in T PROVE d + 1 \in T
    <2>1. ASSUME x + (d + 1) <= 30
          PROVE  \E h \in Nat : h >= 1 /\ Power(x + (d + 1)) = Power(x) * h
      <3>1. PICK z \in 0 .. 29 : z = x + d /\ x + (d + 1) = z + 1
        BY <2>1
      <3>2. PICK h \in Nat : h >= 1 /\ Power(z) = Power(x) * h
        BY <1>2, <3>1
      <3>3. PICK p \in Nat : p = Power(x)
        BY PowerIsNat
      <3>4. Power(z + 1) = p * (2 * h)
        BY <3>2, <3>3, PowerDoubles
      <3> QED
        BY <3>1, <3>2, <3>3, <3>4
    <2> QED
      BY <2>1
  <1>3. PICK d \in Nat : y = x + d
    <2>1. y - x \in Nat /\ y = x + (y - x)
      OBVIOUS
    <2> QED
      BY <2>1
  <1>4. d \in T
    <2> HIDE DEF T
    <2> QED
      BY <1>1, <1>2, Induction
  <1> QED
    BY <1>3, <1>4

(* Padded returns the least power of two that is no less than its argument. *)
LEMMA PaddedIs ==
    ASSUME NEW L \in Nat, L <= Power(30)
    PROVE  \E e \in 0 .. 30 : /\ Padded(L) = Power(e)
                              /\ L <= Power(e) /\ (e = 0 \/ Power(e - 1) < L)
  <1> DEFINE T == {e \in 0 .. 30 : L <= Power(e)}
  <1>1. PICK e \in T : \A f \in T : e <= f
    <2>1. T \in SUBSET Nat /\ T # {}
      OBVIOUS
    <2> HIDE DEF T
    <2> QED
      BY <2>1, Smallest
  <1>2. e = 0 \/ Power(e - 1) < L
    <2>1. ASSUME e # 0, ~(Power(e - 1) < L) PROVE FALSE
      <3>1. PICK f \in 0 .. 30 : f = e - 1
        BY <2>1
      <3>2. Power(f) \in Nat
        BY PowerIsNat
      <3>3. f \in T
        BY <2>1, <3>1, <3>2
      <3> QED
        BY <1>1, <3>1, <3>3
    <2> QED
      BY <2>1
  <1>3. \E c \in 0 .. 30 : 2^c >= L /\ (c = 0 \/ 2^(c - 1) < L)
    <2>1. Power(e) \in Nat
      BY PowerIsNat
    <2> QED
      BY <1>1, <1>2, <2>1 DEF Power
  <1>4. PICK c : c = CHOOSE f \in 0 .. 30 : 2^f >= L /\ (f = 0 \/ 2^(f - 1) < L)
    OBVIOUS
  <1>5. c \in 0 .. 30 /\ 2^c >= L /\ (c = 0 \/ 2^(c - 1) < L)
    BY <1>3, <1>4, Zenon
  <1>6. Padded(L) = Power(c)
    BY <1>4 DEF Padded, Power
  <1>7. L <= Power(c) /\ (c = 0 \/ Power(c - 1) < L)
    <2>1. Power(c) >= L /\ (c = 0 \/ Power(c - 1) < L)
      BY <1>5 DEF Power
    <2>2. Power(c) \in Nat
      BY <1>5, PowerIsNat
    <2> QED
      BY <2>1, <2>2
  <1> QED
    BY <1>5, <1>6, <1>7


(* a holds the elements of b in some order. *)
Permuted(a, b, L) ==
    \E f \in Bijection(1 .. L, 1 .. L) : \A i \in 1 .. L : a[i] = b[f[i]]

(* An array is a permutation of itself. *)
LEMMA PermutedItself ==
    ASSUME NEW L \in Nat, NEW a, NEW b, \A i \in 1 .. L : a[i] = b[i]
    PROVE  Permuted(a, b, L)
  <1> DEFINE f == [i \in 1 .. L |-> i]
  <1>1. f \in [1 .. L -> 1 .. L] /\ \A i \in 1 .. L : f[i] = i
    OBVIOUS
  <1> HIDE DEF f
  <1>2. f \in Bijection(1 .. L, 1 .. L)
    BY <1>1, Fun_IsBij
  <1> QED
    BY <1>1, <1>2 DEF Permuted

(* g is f with the images of x and y exchanged. *)
Swapped(g, f, S, x, y) ==
    /\ g[x] = f[y] /\ g[y] = f[x]
    /\ \A i \in S : i # x /\ i # y => g[i] = f[i]

(* Exchanging two images of a bijection leaves a bijection. *)
LEMMA SwapBijection ==
    ASSUME NEW S, NEW f \in Bijection(S, S), NEW x \in S, NEW y \in S
    PROVE  \E g : g \in Bijection(S, S) /\ Swapped(g, f, S, x, y)
  <1>1. /\ f \in [S -> S]
        /\ \A i, m \in S : f[i] = f[m] => i = m
        /\ \A t \in S : \E i \in S : f[i] = t
    BY Fun_BijectionProperties
  <1> DEFINE g == [i \in S |-> IF i = x THEN f[y] ELSE IF i = y THEN f[x] ELSE f[i]]
  <1>2. /\ g \in [S -> S] /\ g[x] = f[y] /\ g[y] = f[x]
        /\ \A i \in S : i # x /\ i # y => g[i] = f[i]
    BY <1>1
  <1> HIDE DEF g
  <1>3. ASSUME NEW i \in S, NEW m \in S, g[i] = g[m] PROVE i = m
    <2>1. CASE i = x
      BY <1>1, <1>2, <1>3, <2>1
    <2>2. CASE i = y
      BY <1>1, <1>2, <1>3, <2>2
    <2>3. CASE i # x /\ i # y
      BY <1>1, <1>2, <1>3, <2>3
    <2> QED
      BY <2>1, <2>2, <2>3
  <1>4. ASSUME NEW t \in S PROVE \E i \in S : g[i] = t
    <2>1. PICK m \in S : f[m] = t
      BY <1>1
    <2>2. CASE m = x
      BY <1>2, <2>1, <2>2
    <2>3. CASE m = y
      BY <1>2, <2>1, <2>3
    <2>4. CASE m # x /\ m # y
      BY <1>2, <2>1, <2>4
    <2> QED
      BY <2>2, <2>3, <2>4
  <1>5. g \in Bijection(S, S)
    BY <1>2, <1>3, <1>4, Fun_IsBij
  <1> QED
    BY <1>2, <1>5 DEF Swapped

(* Exchanging two elements of a permutation leaves a permutation. *)
LEMMA SwapPermuted ==
    ASSUME NEW L \in Nat, NEW a, NEW b, NEW c, Permuted(a, b, L),
           NEW x \in 1 .. L, NEW y \in 1 .. L,
           c[x] = a[y], c[y] = a[x], \A i \in 1 .. L : i # x /\ i # y => c[i] = a[i]
    PROVE  Permuted(c, b, L)
  <1>1. PICK S : S = 1 .. L
    OBVIOUS
  <1>2. PICK f \in Bijection(S, S) : \A i \in S : a[i] = b[f[i]]
    BY <1>1 DEF Permuted
  <1>3. x \in S /\ y \in S
    BY <1>1
  <1>4. PICK g : g \in Bijection(S, S) /\ Swapped(g, f, S, x, y)
    BY <1>3, SwapBijection
  <1>5. ASSUME NEW i \in S PROVE c[i] = b[g[i]]
    <2>1. CASE i = x
      BY <1>1, <1>2, <1>4, <2>1 DEF Swapped
    <2>2. CASE i = y
      BY <1>1, <1>2, <1>4, <2>2 DEF Swapped
    <2>3. CASE i # x /\ i # y
      BY <1>1, <1>2, <1>4, <2>3 DEF Swapped
    <2> QED
      BY <2>1, <2>2, <2>3
  <1> QED
    BY <1>1, <1>4, <1>5 DEF Permuted

(* Where elements of a set lie in a, and where in b. *)
Places(A, a, L, V) == \A i : i \in A <=> i \in 1 .. L /\ a[i] \in V

(* A value, or a set of them, occurs as often in one as in the other. *)
LEMMA PermutedPlaces ==
    ASSUME NEW L \in Nat, NEW a, NEW b, Permuted(a, b, L), NEW V,
           NEW A, Places(A, a, L, V), NEW B, Places(B, b, L, V)
    PROVE  IsFiniteSet(A) /\ IsFiniteSet(B) /\ Cardinality(A) = Cardinality(B)
  <1>1. PICK S : S = 1 .. L
    OBVIOUS
  <1>2. PICK f \in Bijection(S, S) : \A i \in S : a[i] = b[f[i]]
    BY <1>1 DEF Permuted
  <1>3. /\ f \in [S -> S]
        /\ \A i, m \in S : f[i] = f[m] => i = m
        /\ \A t \in S : \E i \in S : f[i] = t
    BY Fun_BijectionProperties
  <1>4. /\ \A i : i \in A <=> i \in S /\ a[i] \in V
        /\ \A i : i \in B <=> i \in S /\ b[i] \in V
    BY <1>1 DEF Places
  <1>5. IsFiniteSet(A) /\ IsFiniteSet(B)
    <2>1. IsFiniteSet(1 .. L) /\ A \in SUBSET (1 .. L) /\ B \in SUBSET (1 .. L)
      BY <1>1, <1>4, FS_Interval
    <2> QED
      BY <2>1, FS_Subset
  <1> DEFINE g == [i \in A |-> f[i]]
  <1>6. g \in [A -> B] /\ \A i \in A : g[i] = f[i]
    BY <1>2, <1>3, <1>4
  <1> HIDE DEF g
  <1>7. \A i, m \in A : g[i] = g[m] => i = m
    BY <1>3, <1>4, <1>6
  <1>8. ASSUME NEW t \in B PROVE \E i \in A : g[i] = t
    <2>1. PICK i \in S : f[i] = t
      BY <1>3, <1>4
    <2>2. i \in A
      BY <1>2, <1>4, <2>1
    <2> QED
      BY <1>6, <2>1, <2>2
  <1>9. g \in Bijection(A, B)
    BY <1>6, <1>7, <1>8, Fun_IsBij
  <1>10. ExistsBijection(A, B)
    BY <1>9, Fun_ExistsBij
  <1> QED
    BY <1>5, <1>10, FS_Bijection

(* a sorts b, which is g and its padding. *)
Padding(a, b, g, L, p, top) ==
    /\ L \in Nat /\ p \in Nat /\ L <= p /\ top \in Nat
    /\ \A i \in 1 .. L : g[i] \in 0 .. top
    /\ \A i \in 1 .. p : a[i] \in 0 .. top
    /\ \A i \in 1 .. p : b[i] = IF i <= L THEN g[i] ELSE top
    /\ Permuted(a, b, p)
    /\ L = p \/ \A i, m \in 1 .. p : i < m => a[i] <= a[m]

(* The first n elements of a sorted array whose other elements are the       *)
(* largest there are: the padding is at its end.                             *)
LEMMA PaddingLast ==
    ASSUME NEW L, NEW p, NEW top, NEW a, NEW b, NEW g, Padding(a, b, g, L, p, top),
           NEW v \in 0 .. top
    PROVE  Cardinality({i \in 1 .. L : a[i] = v}) = Cardinality({i \in 1 .. L : g[i] = v})
  <1> SUFFICES ASSUME L \in Nat, p \in Nat, L <= p, top \in Nat,
                      \A i \in 1 .. L : g[i] \in 0 .. top,
                      \A i \in 1 .. p : a[i] \in 0 .. top,
                      \A i \in 1 .. p : b[i] = IF i <= L THEN g[i] ELSE top,
                      Permuted(a, b, p),
                      L = p \/ \A i, m \in 1 .. p : i < m => a[i] <= a[m]
               PROVE  Cardinality({i \in 1 .. L : a[i] = v})
                      = Cardinality({i \in 1 .. L : g[i] = v})
    BY DEF Padding
  <1>1. PICK same : same = {v}
    OBVIOUS
  <1>2. PICK A : A = {i \in 1 .. p : a[i] \in same}
    OBVIOUS
  <1>3. PICK B : B = {i \in 1 .. p : b[i] \in same}
    OBVIOUS
  <1>4. IsFiniteSet(A) /\ IsFiniteSet(B) /\ Cardinality(A) = Cardinality(B)
    <2>1. Places(A, a, p, same) /\ Places(B, b, p, same)
      BY <1>2, <1>3 DEF Places
    <2> QED
      BY <2>1, PermutedPlaces
  <1>5. PICK C : C = {i \in 1 .. L : a[i] = v}
    OBVIOUS
  <1>6. PICK D : D = {i \in 1 .. L : g[i] = v}
    OBVIOUS
  <1> SUFFICES Cardinality(C) = Cardinality(D)
    BY <1>5, <1>6
  <1>7. CASE L = p
    <2>1. A = C /\ B = D
      BY <1>1, <1>2, <1>3, <1>5, <1>6, <1>7
    <2> QED
      BY <1>4, <2>1
  <1>8. CASE L # p
    <2>1. ASSUME NEW i \in L + 1 .. p, a[i] # top PROVE FALSE
      <3>1. PICK low : low = 0 .. top - 1
        OBVIOUS
      <3>2. PICK E : E = {m \in 1 .. p : a[m] \in low}
        OBVIOUS
      <3>3. PICK F : F = {m \in 1 .. p : b[m] \in low}
        OBVIOUS
      <3>4. IsFiniteSet(E) /\ IsFiniteSet(F) /\ Cardinality(E) = Cardinality(F)
        <4>1. Places(E, a, p, low) /\ Places(F, b, p, low)
          BY <3>2, <3>3 DEF Places
        <4> QED
          BY <4>1, PermutedPlaces
      <3>5. F \subseteq 1 .. L
        BY <3>1, <3>3
      <3>6. 1 .. L + 1 \subseteq E
        <4>1. i \in 1 .. p /\ a[i] \in 0 .. top - 1 /\ L + 1 <= i
          BY <2>1
        <4>2. ASSUME NEW m \in 1 .. L + 1 PROVE m \in 1 .. p /\ a[m] \in low
          <5>1. m \in 1 .. p /\ (m = i \/ m < i)
            BY <4>1
          <5>2. a[m] \in 0 .. top /\ a[m] <= a[i]
            BY <1>8, <4>1, <5>1
          <5> QED
            BY <3>1, <4>1, <5>1, <5>2
        <4> QED
          BY <3>2, <4>2
      <3>7. PICK Short : Short = 1 .. L
        OBVIOUS
      <3>8. PICK Long : Long = 1 .. L + 1
        OBVIOUS
      <3>9. /\ IsFiniteSet(Short) /\ Cardinality(Short) = L
            /\ IsFiniteSet(Long) /\ Cardinality(Long) = L + 1
        <4>1. 1 \in Int /\ L \in Int /\ L + 1 \in Int
          OBVIOUS
        <4> QED
          BY <3>7, <3>8, <4>1, FS_Interval
      <3>10. F \in SUBSET Short /\ Long \in SUBSET E
        BY <3>5, <3>6, <3>7, <3>8
      <3>11. Cardinality(F) <= L
        BY <3>9, <3>10, FS_Subset
      <3>12. L + 1 <= Cardinality(E)
        BY <3>4, <3>9, <3>10, FS_Subset
      <3>13. PICK c \in Nat : c = Cardinality(E)
        BY <3>4, FS_CardinalityType
      <3> QED
        BY <3>4, <3>11, <3>12, <3>13
    <2>2. CASE v # top
      <3>1. A = C
        BY <1>1, <1>2, <1>5, <2>1, <2>2
      <3>2. B = D
        BY <1>1, <1>3, <1>6, <2>2
      <3> QED
        BY <1>4, <3>1, <3>2
    <2>3. CASE v = top
      <3>1. PICK rest : rest = L + 1 .. p
        OBVIOUS
      <3>2. A = C \cup rest /\ C \cap rest = {}
        BY <1>1, <1>2, <1>5, <2>1, <2>3, <3>1
      <3>3. B = D \cup rest /\ D \cap rest = {}
        BY <1>1, <1>3, <1>6, <2>3, <3>1
      <3>4. IsFiniteSet(rest)
        <4>1. L + 1 \in Int /\ p \in Int
          OBVIOUS
        <4> QED
          BY <3>1, <4>1, FS_Interval
      <3>5. C \in SUBSET A /\ D \in SUBSET B
        BY <3>2, <3>3
      <3>6. IsFiniteSet(C) /\ IsFiniteSet(D)
        BY <1>4, <3>5, FS_Subset
      <3>7. PICK cc \in Nat, cd \in Nat, cr \in Nat :
                cc = Cardinality(C) /\ cd = Cardinality(D) /\ cr = Cardinality(rest)
        BY <3>4, <3>6, FS_CardinalityType
      <3>8. Cardinality(A) = Cardinality(C) + Cardinality(rest) - Cardinality({})
        BY <3>2, <3>4, <3>6, FS_Union
      <3>9. Cardinality(B) = Cardinality(D) + Cardinality(rest) - Cardinality({})
        BY <3>3, <3>4, <3>6, FS_Union
      <3>10. Cardinality(A) = cc + cr /\ Cardinality(B) = cd + cr
        <4>1. Cardinality({}) = 0
          BY FS_EmptySet
        <4> QED
          BY <3>7, <3>8, <3>9, <4>1
      <3>11. cc + cr = cd + cr
        BY <1>4, <3>10
      <3>12. cc = cd
        BY <3>11
      <3> QED
        BY <3>7, <3>12
    <2> QED
      BY <2>2, <2>3
  <1> QED
    BY <1>7, <1>8


(* L elements are sorted in p = 2^e places. *)
Sized(L, p, e) ==
    /\ L \in Counts /\ L \in Nat /\ p \in Nat /\ e \in 0 .. 30
    /\ p = Power(e) /\ L <= p /\ (e = 0 \/ Power(e - 1) < L)
    /\ Padded(L) = p

Original(L, p) == [i \in 1 .. p |-> IF i <= L THEN orig[i] ELSE MaxValue]

(* The array launch_sort works on is a permutation of the caller's elements  *)
(* and the padding.                                                          *)
Kept(L, p) ==
    /\ orig \in [1 .. L -> 0 .. Top]
    /\ line \in {"call", "launch", "loop", "run", "return", "done"}
    /\ line # "done" => data = orig
    /\ k \in Nat /\ j \in Nat
    /\ line \in {"launch", "loop", "run", "return"} =>
           pad \in [1 .. p -> 0 .. Top] /\ Permuted(pad, Original(L, p), p)
    /\ line = "run" =>
           j >= 1 /\ \A i \in todo : i \in Nat /\ Lower(i, j) /\ i + j < p
    /\ line = "done" => /\ data \in [1 .. L -> 0 .. Top]
                        /\ pool /\ L = p => SameElements(data, orig)

(* The length of an array. *)
LEMMA LengthIs ==
    ASSUME NEW S, NEW L \in Nat, NEW s \in [1 .. L -> S]
    PROVE  Len(s) = L
  OBVIOUS

(* SameElements, with the domains written out. *)
LEMMA SameIs ==
    ASSUME NEW L \in Nat, NEW s \in [1 .. L -> 0 .. Top], NEW t \in [1 .. L -> 0 .. Top],
           \A v \in 0 .. Top : Cardinality({i \in 1 .. L : s[i] = v})
                               = Cardinality({i \in 1 .. L : t[i] = v})
    PROVE  SameElements(s, t)
  <1>1. DOMAIN s = 1 .. L /\ DOMAIN t = 1 .. L
    OBVIOUS
  <1> QED
    BY <1>1 DEF SameElements

(* The invocation that owns a pair is that of its lower element. *)
LEMMA OwnsIs ==
    ASSUME NEW i \in Nat, j \in Nat, j >= 1, Owns(i)
    PROVE  Lower(i, j) /\ Partner(i) = i + j
  BY DEF Owns, Partner, Lower

(* An invocation puts the lesser element of its pair first where the block   *)
(* ascends, and the greater where it descends.                               *)
LEMMA InvokeIs ==
    ASSUME NEW L \in Nat, NEW p \in Nat, Kept(L, p),
           NEW i \in todo, Invoke(i)
    PROVE  /\ i \in Nat /\ Lower(i, j) /\ i + j < p /\ j >= 1
           /\ pad' \in [1 .. p -> 0 .. Top]
           /\ \A m \in 1 .. p : m # i + 1 /\ m # i + j + 1 => pad'[m] = pad[m]
           /\ IF Lower(i, k)
              THEN /\ pad'[i + 1] = Lesser(pad[i + 1], pad[i + j + 1])
                   /\ pad'[i + j + 1] = Greater(pad[i + 1], pad[i + j + 1])
              ELSE /\ pad'[i + 1] = Greater(pad[i + 1], pad[i + j + 1])
                   /\ pad'[i + j + 1] = Lesser(pad[i + 1], pad[i + j + 1])
           /\ \/ \A m \in 1 .. p : pad'[m] = pad[m]
              \/ pad'[i + 1] = pad[i + j + 1] /\ pad'[i + j + 1] = pad[i + 1]
  <1>1. /\ line = "run" /\ i \in Nat /\ Lower(i, j) /\ i + j < p
        /\ j \in Nat /\ j >= 1 /\ pad \in [1 .. p -> 0 .. Top]
    BY DEF Kept, Invoke
  <1>2. PICK l \in Nat : l = i + j
    BY <1>1
  <1>3. Partner(i) = l
    BY <1>1, <1>2 DEF Partner, Lower
  <1>4. /\ i + 1 \in 1 .. p /\ l + 1 \in 1 .. p /\ i + 1 # l + 1
        /\ pad[i + 1] \in Int /\ pad[l + 1] \in Int
    BY <1>1, <1>2
  <1>5. pad' = IF (pad[i + 1] > pad[l + 1]) <=> Lower(i, k)
                THEN [pad EXCEPT ![i + 1] = pad[l + 1], ![l + 1] = pad[i + 1]] ELSE pad
    BY <1>3 DEF Invoke, At, Ascending, Exchange, Lower
  <1>6. CASE (pad[i + 1] > pad[l + 1]) <=> Lower(i, k)
    <2>1. /\ pad' \in [1 .. p -> 0 .. Top]
          /\ \A m \in 1 .. p : m # i + 1 /\ m # l + 1 => pad'[m] = pad[m]
          /\ pad'[i + 1] = pad[l + 1] /\ pad'[l + 1] = pad[i + 1]
      BY <1>1, <1>4, <1>5, <1>6
    <2> QED
      BY <1>1, <1>2, <1>4, <1>6, <2>1 DEF Lesser, Greater
  <1>7. CASE ~((pad[i + 1] > pad[l + 1]) <=> Lower(i, k))
    <2>1. pad' = pad
      BY <1>5, <1>7
    <2> QED
      BY <1>1, <1>2, <1>4, <1>7, <2>1 DEF Lesser, Greater
  <1> QED
    BY <1>6, <1>7


(* What the width of an integer leaves of a number. *)
LEMMA RemainderIs ==
    ASSUME NEW x \in Nat, NEW m \in Nat, m >= 1
    PROVE  /\ x % m \in Nat /\ x % m <= x /\ x % m < m
           /\ x < m => x % m = x
           /\ x = m => x % m = 0
  <1>1. x % m \in 0 .. m - 1 /\ x = m * (x \div m) + (x % m) /\ x \div m \in Int
    OBVIOUS
  <1>2. PICK q \in Int, r \in Int : q = x \div m /\ r = x % m
    BY <1>1
  <1>3. r \in 0 .. m - 1 /\ x = m * q + r
    BY <1>1, <1>2
  <1>4. q >= 0
    BY <1>3
  <1>5. m * q \in Nat /\ (q >= 1 => m * q >= m)
    BY <1>4
  <1>6. x < m => q = 0
    BY <1>3, <1>4, <1>5
  <1>7. x = m => r = 0
    <2>1. m = m * q + r /\ q >= 2 => m * q >= 2 * m
      BY <1>3, <1>4
    <2> QED
      BY <1>3, <1>4, <1>5, <2>1
  <1> QED
    BY <1>2, <1>3, <1>5, <1>6, <1>7

(* The loops' bound is the length of the array, where its bits hold it. *)
LEMMA BoundIs ==
    ASSUME NEW p \in Nat, DOMAIN pad = 1 .. p, pad \in [1 .. p -> 0 .. Top]
    PROVE  N \in Nat /\ N <= p /\ (p < Power(Bits) => N = p)
  <1>1. PICK m \in Nat : m = Power(Bits) /\ m >= 1
    <2>1. Bits \in 0 .. 30
      BY SortAssumption
    <2> QED
      BY <2>1, PowerIsNat
  <1>2. Len(pad) = p
    BY LengthIs
  <1>3. N = p % m
    BY <1>1, <1>2 DEF N, U, Power
  <1> QED
    BY <1>1, <1>3, RemainderIs

(* At the call nothing has been permuted. *)
LEMMA InitKept ==
    ASSUME SortInit, NEW L \in Counts, orig \in [1 .. L -> 0 .. Top], NEW p \in Nat
    PROVE  Kept(L, p)
  BY DEF Kept, SortInit

(* No step of the sort loses or duplicates an element. *)
LEMMA NextKept ==
    ASSUME NEW L, NEW p, NEW e, Sized(L, p, e), Kept(L, p), [SortNext]_sortVars
    PROVE  Kept(L, p)'
  <1> USE DEF Sized
  <1>0. L \in Nat /\ p \in Nat
    OBVIOUS
  <1>1. ASSUME Sort PROVE Kept(L, p)'
    <2>1. line = "call" /\ data = orig /\ orig \in [1 .. L -> 0 .. Top] /\ DOMAIN data = 1 .. L
      BY <1>1 DEF Kept, Sort
    <2>2. Len(data) = L
      BY <2>1, LengthIs
    <2>3. CASE InPlace /\ pad' = data /\ line' = "launch" /\ UNCHANGED <<data, ok>>
      <3>1. L = p
        BY <2>2, <2>3 DEF InPlace
      <3>2. pad' \in [1 .. p -> 0 .. Top] /\ \A i \in 1 .. p : pad'[i] = Original(L, p)[i]
        BY <2>1, <2>3, <3>1 DEF Original
      <3>3. Permuted(pad', Original(L, p), p)
        BY <1>0, <3>2, PermutedItself
      <3> QED
        BY <1>1, <2>1, <2>3, <3>2, <3>3 DEF Kept, Sort, Original
    <2>4. CASE /\ ~InPlace
               /\ pad' = [i \in 1 .. p |-> IF i <= L THEN data[i] ELSE MaxValue]
               /\ line' = "launch" /\ UNCHANGED <<data, ok>>
      <3>1. \A i \in 1 .. p : i <= L => i \in 1 .. L
        BY <1>0
      <3>2. pad' \in [1 .. p -> 0 .. Top] /\ \A i \in 1 .. p : pad'[i] = Original(L, p)[i]
        BY <2>1, <2>4, <3>1, SortAssumption DEF Original
      <3>3. Permuted(pad', Original(L, p), p)
        BY <1>0, <3>2, PermutedItself
      <3> QED
        BY <1>1, <2>1, <2>4, <3>2, <3>3 DEF Kept, Sort, Original
    <2>5. CASE /\ data' \in [DOMAIN data -> 0 .. Top] /\ SameElements(data', data)
               /\ line' = "done"
      BY <1>1, <2>1, <2>5 DEF Kept, Sort
    <2> QED
      BY <1>1, <2>2, <2>3, <2>4, <2>5 DEF Sort, PadWith
  <1>2. ASSUME Launch PROVE Kept(L, p)'
    BY <1>2 DEF Kept, Launch, Original
  <1>3. ASSUME Stage PROVE Kept(L, p)'
    <2>1. /\ line = "loop" /\ pad \in [1 .. p -> 0 .. Top] /\ DOMAIN pad = 1 .. p
          /\ j \in Nat /\ j >= 1
      BY <1>3 DEF Kept, Stage
    <2>2. N \in Nat /\ N <= p
      BY <2>1, BoundIs
    <2>3. CASE todo' = {i \in 0 .. N - 1 : Owns(i)} /\ line' = "run"
      <3>1. ASSUME NEW i \in todo' PROVE i \in Nat /\ Lower(i, j) /\ i + j < p
        <4>1. i \in Nat /\ Owns(i)
          BY <2>2, <2>3
        <4>2. Lower(i, j) /\ Partner(i) = i + j
          BY <2>1, <4>1, OwnsIs
        <4> QED
          BY <2>1, <2>2, <4>1, <4>2 DEF Owns
      <3> QED
        BY <1>3, <2>1, <2>3, <3>1 DEF Kept, Stage, Original
    <2>4. CASE line' = "return"
      BY <1>3, <2>1, <2>4 DEF Kept, Stage, Original
    <2> QED
      BY <1>3, <2>3, <2>4 DEF Stage
  <1>4. ASSUME NEW i \in todo, Invoke(i) PROVE Kept(L, p)'
    <2>1. /\ i \in Nat /\ i + j < p /\ j \in Nat /\ j >= 1
          /\ pad' \in [1 .. p -> 0 .. Top]
          /\ \A m \in 1 .. p : m # i + 1 /\ m # i + j + 1 => pad'[m] = pad[m]
          /\ \/ \A m \in 1 .. p : pad'[m] = pad[m]
             \/ pad'[i + 1] = pad[i + j + 1] /\ pad'[i + j + 1] = pad[i + 1]
      <3>1. j \in Nat
        BY DEF Kept
      <3> QED
        BY <1>0, <1>4, <3>1, InvokeIs
    <2>2. Permuted(pad', Original(L, p), p)
      <3>1. Permuted(pad, Original(L, p), p) /\ pad \in [1 .. p -> 0 .. Top]
        BY <1>4 DEF Kept, Invoke
      <3>2. CASE \A m \in 1 .. p : pad'[m] = pad[m]
        <4>1. pad' = pad
          BY <2>1, <3>1, <3>2
        <4> QED
          BY <3>1, <4>1
      <3>3. CASE pad'[i + 1] = pad[i + j + 1] /\ pad'[i + j + 1] = pad[i + 1]
        <4>1. PICK x \in 1 .. p, y \in 1 .. p : x = i + 1 /\ y = i + j + 1
          BY <2>1
        <4>2. /\ pad'[x] = pad[y] /\ pad'[y] = pad[x]
              /\ \A m \in 1 .. p : m # x /\ m # y => pad'[m] = pad[m]
          BY <2>1, <3>3, <4>1
        <4> QED
          BY <1>0, <3>1, <4>2, SwapPermuted
      <3> QED
        BY <2>1, <3>2, <3>3
    <2> QED
      BY <1>4, <2>1, <2>2 DEF Kept, Invoke, Original
  <1>5. ASSUME StageDone PROVE Kept(L, p)'
    <2>1. j \div 2 \in Nat
      BY DEF Kept
    <2> QED
      BY <1>5, <2>1 DEF Kept, StageDone, Original
  <1>6. ASSUME NextK PROVE Kept(L, p)'
    <2>1. PICK m \in Nat : m = Power(Bits) /\ m >= 1
      <3>1. Bits \in 0 .. 30
        BY SortAssumption
      <3> QED
        BY <3>1, PowerIsNat
    <2>2. k' = (2 * k) % m /\ j' = k' \div 2
      BY <1>6, <2>1 DEF NextK, U, Power
    <2>3. k' \in Nat
      <3>1. 2 * k \in Nat
        BY DEF Kept
      <3> QED
        BY <2>1, <2>2, <3>1, RemainderIs
    <2>4. j' \in Nat
      BY <2>2, <2>3
    <2> QED
      BY <1>6, <2>3, <2>4 DEF Kept, NextK, Original
  <1>7. ASSUME LoopDone PROVE Kept(L, p)'
    BY <1>7 DEF Kept, LoopDone, Original
  <1>8. ASSUME Return PROVE Kept(L, p)'
    <2>1. /\ line = "return" /\ data = orig /\ orig \in [1 .. L -> 0 .. Top]
          /\ pad \in [1 .. p -> 0 .. Top] /\ Permuted(pad, Original(L, p), p)
      BY <1>8 DEF Kept, Return
    <2>2. data' = [i \in 1 .. L |-> pad[i]]
      BY <1>8, <2>1 DEF Return
    <2>3. data' \in [1 .. L -> 0 .. Top] /\ \A i \in 1 .. L : data'[i] = pad[i]
      BY <1>0, <2>1, <2>2
    <2>4. ASSUME L = p PROVE SameElements(data', orig)
      <3>1. PICK a : a = data'
        OBVIOUS
      <3>2. PICK g : g = orig
        OBVIOUS
      <3>3. a \in [1 .. L -> 0 .. Top] /\ g \in [1 .. L -> 0 .. Top]
        BY <2>1, <2>3, <3>1, <3>2
      <3>4. ASSUME NEW v \in 0 .. Top
            PROVE  Cardinality({i \in 1 .. L : a[i] = v}) = Cardinality({i \in 1 .. L : g[i] = v})
        <4>1. PICK b : b = Original(L, p)
          OBVIOUS
        <4>2. PICK w : w = pad
          OBVIOUS
        <4>3. \A i \in 1 .. L : b[i] = g[i] /\ a[i] = w[i]
          BY <2>3, <2>4, <3>1, <3>2, <4>1, <4>2 DEF Original
        <4>4. Permuted(w, b, L)
          BY <2>1, <2>4, <4>1, <4>2
        <4>5. PICK V : V = {v}
          OBVIOUS
        <4>6. PICK A : A = {i \in 1 .. L : a[i] = v}
          OBVIOUS
        <4>7. PICK B : B = {i \in 1 .. L : g[i] = v}
          OBVIOUS
        <4>8. Places(A, w, L, V) /\ Places(B, b, L, V)
          BY <4>3, <4>5, <4>6, <4>7 DEF Places
        <4>9. Cardinality(A) = Cardinality(B)
          BY <1>0, <4>4, <4>8, PermutedPlaces
        <4> QED
          BY <4>6, <4>7, <4>9
      <3>5. SameElements(a, g)
        BY <1>0, <3>3, <3>4, SameIs
      <3> QED
        BY <3>1, <3>2, <3>5
    <2> QED
      BY <1>8, <2>1, <2>3, <2>4 DEF Kept, Return
  <1>9. ASSUME UNCHANGED sortVars PROVE Kept(L, p)'
    BY <1>9 DEF Kept, sortVars, Original
  <1> QED
    BY <1>1, <1>2, <1>3, <1>4, <1>5, <1>6, <1>7, <1>8, <1>9
       DEF SortNext, Step, SortStopped


Ascends(s, L) == \A i, m \in 1 .. L : i < m => s[i] <= s[m]

(* a is the array as the kernel numbers it. *)
Reads(a, p) == a \in [0 .. p - 1 -> 0 .. Top] /\ \A i \in 0 .. p - 1 : a[i] = pad[i + 1]

(* b is the array at the end of the dispatch, whatever the order in which    *)
(* the waiting invocations run.                                              *)
Reaches(b, p) ==
    /\ b \in [0 .. p - 1 -> 0 .. Top]
    /\ \A i \in 0 .. p - 1 : Lower(i, j) /\ i + j < p =>
           IF i \in todo
           THEN IF Lower(i, k)
                THEN /\ b[i] = Lesser(pad[i + 1], pad[i + j + 1])
                     /\ b[i + j] = Greater(pad[i + 1], pad[i + j + 1])
                ELSE /\ b[i] = Greater(pad[i + 1], pad[i + j + 1])
                     /\ b[i + j] = Lesser(pad[i + 1], pad[i + j + 1])
           ELSE b[i] = pad[i + 1] /\ b[i + j] = pad[i + j + 1]

AtLoop(p, x, a) ==
    /\ k = Power(x) /\ Reads(a, p)
    /\ \/ j = 0 /\ Merged(a, p, k, 1)
       \/ \E y \in 0 .. x - 1 : j = Power(y) /\ Merged(a, p, k, 2 * j)

AtRun(p, x, y, b) ==
    k = Power(x) /\ j = Power(y) /\ Reaches(b, p) /\ Merged(b, p, k, j)

(* How far the schedule is. *)
Scheduled(L, p, e) ==
    /\ line = "loop" => \/ k = 0 /\ j = 0
                        \/ k > p /\ Ascends(pad, p)
                        \/ \E x \in 1 .. e : \E a : AtLoop(p, x, a)
    /\ line = "run" => \E x \in 1 .. e : \E y \in 0 .. x - 1 : \E b : AtRun(p, x, y, b)
    /\ line = "return" /\ ok => Ascends(pad, p)
    /\ line = "done" /\ ok => Ascends(data, L) /\ SameElements(data, orig)

(* No element lies behind the padding. *)
LargestPadding == Top = MaxValue

(* Within the width of the loop variables. *)
Fits(e) == Bits \in 1 .. 30 /\ e \in 0 .. Bits - 1

(* A power of two is a number of pairs of a smaller one. *)
LEMMA Whole ==
    ASSUME NEW x \in 0 .. 30, NEW y \in 0 .. 30, y < x
    PROVE  \E h \in Nat : h >= 1 /\ Power(x) = 2 * Power(y) * h
  <1>1. PICK z \in 0 .. 30 : z = y + 1 /\ z <= x
    OBVIOUS
  <1>2. PICK h \in Nat : h >= 1 /\ Power(x) = Power(z) * h
    BY <1>1, PowerDivides
  <1>3. Power(z) = 2 * Power(y)
    BY <1>1, PowerDoubles
  <1> QED
    BY <1>2, <1>3

(* The pairs of a stage tile the array. *)
LEMMA Tiles ==
    ASSUME NEW e \in 0 .. 30, NEW y \in 0 .. 30, y < e, NEW p \in Nat, p = Power(e),
           NEW J \in Nat, J = Power(y), NEW i \in 0 .. p - 1
    PROVE  /\ J >= 1
           /\ Lower(i, J) => i + J < p
           /\ ~Lower(i, J) => i - J \in 0 .. p - 1 /\ Lower(i - J, J) /\ (i - J) + J = i
  <1>1. J >= 1
    BY PowerIsNat
  <1>2. PICK h \in Nat : p = 2 * J * h
    BY Whole
  <1>3. i \in Nat /\ p * 0 <= i /\ i < p * 0 + p
    OBVIOUS
  <1>4. /\ Lower(i, J) => i + J < p * 0 + p
        /\ ~Lower(i, J) => p * 0 <= i - J
    BY <1>1, <1>2, <1>3, PairsInBlock
  <1>5. ~Lower(i, J) => Lower(i - J, J)
    BY <1>1, <1>3, Pairs
  <1> QED
    BY <1>1, <1>4, <1>5

(* A stage is begun: what it will leave is one compare-exchange further.     *)
LEMMA StageReaches ==
    ASSUME NEW L, NEW p, NEW e, Sized(L, p, e), Fits(e), Kept(L, p),
           NEW x \in 1 .. e, NEW a, Reads(a, p), k = Power(x),
           NEW y \in 0 .. x - 1, j = Power(y), Merged(a, p, k, 2 * j),
           Stage, line' = "run", todo' = {i \in 0 .. N - 1 : Owns(i)}
    PROVE  \E b : AtRun(p, x, y, b)'
  <1>1. /\ L \in Nat /\ p \in Nat /\ e \in 0 .. 30 /\ p = Power(e)
        /\ x \in 0 .. 30 /\ y \in 0 .. 30 /\ y < x /\ y < e
    BY DEF Sized
  <1>2. /\ UNCHANGED <<pad, k, j>>
        /\ pad \in [1 .. p -> 0 .. Top] /\ DOMAIN pad = 1 .. p
    BY DEF Stage, Kept
  <1>3. PICK J \in Nat : J = j
    BY DEF Kept
  <1>4. PICK K \in Nat : K = k
    BY DEF Kept
  <1>5. N = p
    <2>1. e \in 0 .. 30 /\ Bits \in 0 .. 30 /\ e < Bits
      BY <1>1 DEF Fits
    <2>2. p < Power(Bits)
      <3>1. 2 * Power(e) <= Power(Bits) /\ p >= 1 /\ Power(Bits) \in Nat
        BY <1>1, <2>1, PowerGrows, PowerIsNat
      <3> QED
        BY <1>1, <3>1
    <2> QED
      BY <1>1, <1>2, <2>2, BoundIs
  <1>6. ASSUME NEW i \in 0 .. p - 1
        PROVE  /\ J >= 1
               /\ Lower(i, J) => i + J < p
               /\ ~Lower(i, J) => i - J \in 0 .. p - 1 /\ Lower(i - J, J) /\ (i - J) + J = i
    BY <1>1, <1>3, Tiles
  <1>7. \A i \in 0 .. p - 1 : Lower(i, J) => i \in todo'
    <2>1. ASSUME NEW i \in 0 .. p - 1, Lower(i, J) PROVE i \in todo'
      <3>1. i + J < p /\ J >= 1
        BY <1>6, <2>1
      <3>2. Partner(i) = i + J
        BY <1>3, <2>1 DEF Partner, Lower
      <3>3. Owns(i)
        BY <1>5, <3>1, <3>2 DEF Owns
      <3> QED
        BY <1>5, <3>3
    <2> QED
      BY <2>1
  <1> DEFINE Pair(i, m) ==
                 IF Lower(i, K)
                 THEN IF m = i THEN Lesser(a[i], a[i + J]) ELSE Greater(a[i], a[i + J])
                 ELSE IF m = i THEN Greater(a[i], a[i + J]) ELSE Lesser(a[i], a[i + J])
             b == [i \in 0 .. p - 1 |-> IF Lower(i, J) THEN Pair(i, i) ELSE Pair(i - J, i)]
  <1>8. \A i \in 0 .. p - 1 : a[i] \in 0 .. Top /\ a[i] = pad[i + 1]
    BY DEF Reads
  <1>9. ASSUME NEW i \in 0 .. p - 1, Lower(i, J)
        PROVE  /\ i + J \in 0 .. p - 1 /\ i + J < p
               /\ IF Lower(i, K)
                  THEN b[i] = Lesser(a[i], a[i + J]) /\ b[i + J] = Greater(a[i], a[i + J])
                  ELSE b[i] = Greater(a[i], a[i + J]) /\ b[i + J] = Lesser(a[i], a[i + J])
               /\ b[i] \in 0 .. Top /\ b[i + J] \in 0 .. Top
    <2>1. i + J \in 0 .. p - 1 /\ i + J < p /\ J >= 1 /\ i + J # i /\ (i + J) - J = i
      BY <1>1, <1>6, <1>9
    <2>2. ~Lower(i + J, J)
      BY <1>9, <2>1, Pairs
    <2>3. b[i] = Pair(i, i) /\ b[i + J] = Pair(i, i + J)
      BY <1>9, <2>1, <2>2
    <2>4. a[i] \in 0 .. Top /\ a[i + J] \in 0 .. Top
      BY <1>8, <2>1
    <2> QED
      BY <2>1, <2>3, <2>4 DEF Lesser, Greater
  <1>10. \A i \in 0 .. p - 1 : b[i] \in 0 .. Top
    <2>1. ASSUME NEW i \in 0 .. p - 1 PROVE b[i] \in 0 .. Top
      <3>1. CASE Lower(i, J)
        BY <1>9, <3>1
      <3>2. CASE ~Lower(i, J)
        <4>1. PICK m \in 0 .. p - 1 : m = i - J /\ Lower(m, J) /\ m + J = i
          BY <1>6, <3>2
        <4>2. b[m + J] \in 0 .. Top
          BY <1>9, <4>1
        <4> QED
          BY <4>1, <4>2
      <3> QED
        BY <3>1, <3>2
    <2> QED
      BY <2>1
  <1>11. b \in [0 .. p - 1 -> 0 .. Top]
    BY <1>10
  <1> HIDE DEF b, Pair
  <1>12. Exchanged(a, b, p, K, J)
    BY <1>9 DEF Exchanged
  <1>13. PICK h \in Nat : K = 2 * J * h
    BY <1>1, <1>3, <1>4, Whole
  <1>14. J >= 1 /\ K >= 1
    BY <1>1, <1>3, <1>4, PowerIsNat
  <1>15. \A i \in 0 .. p - 1 : a[i] \in Int /\ b[i] \in Int
    BY <1>8, <1>10
  <1>16. Merged(a, p, K, 2 * J)
    BY <1>3, <1>4
  <1>17. Merged(b, p, K, J)
    BY <1>1, <1>12, <1>13, <1>14, <1>15, <1>16, StageMerges
  <1>18. Reaches(b, p)'
    <2>1. ASSUME NEW i \in 0 .. p - 1, Lower(i, J)
          PROVE  /\ i \in todo'
                 /\ IF Lower(i, K)
                    THEN /\ b[i] = Lesser(pad[i + 1], pad[i + J + 1])
                         /\ b[i + J] = Greater(pad[i + 1], pad[i + J + 1])
                    ELSE /\ b[i] = Greater(pad[i + 1], pad[i + J + 1])
                         /\ b[i + J] = Lesser(pad[i + 1], pad[i + J + 1])
      <3>1. a[i] = pad[i + 1] /\ a[i + J] = pad[i + J + 1]
        BY <1>8, <1>9, <2>1
      <3> QED
        BY <1>7, <1>9, <2>1, <3>1
    <2>2. J = j' /\ K = k' /\ pad = pad'
      BY <1>2, <1>3, <1>4
    <2> QED
      BY <1>11, <2>1, <2>2 DEF Reaches
  <1> QED
    BY <1>2, <1>3, <1>4, <1>17, <1>18 DEF AtRun


(* The schedule goes on: the arrays of the sort are merged a step further at *)
(* each stage, and whole when it ends.                                       *)
LEMMA NextScheduled ==
    ASSUME NEW L, NEW p, NEW e, Sized(L, p, e), Fits(e), LargestPadding,
           Kept(L, p), Scheduled(L, p, e), [SortNext]_sortVars
    PROVE  Scheduled(L, p, e)'
  <1>0. L \in Nat /\ p \in Nat /\ e \in 0 .. 30 /\ p = Power(e) /\ L <= p /\ p >= 1
    BY PowerIsNat DEF Sized
  <1>b. ASSUME pad \in [1 .. p -> 0 .. Top] PROVE N = p
    <2>1. e \in 0 .. 30 /\ Bits \in 0 .. 30 /\ e < Bits
      BY <1>0 DEF Fits
    <2>2. p < Power(Bits)
      <3>1. 2 * Power(e) <= Power(Bits) /\ Power(Bits) \in Nat
        BY <2>1, PowerGrows, PowerIsNat
      <3> QED
        BY <1>0, <3>1
    <2>3. DOMAIN pad = 1 .. p
      BY <1>b
    <2> QED
      BY <1>0, <1>b, <2>2, <2>3, BoundIs
  <1>1. ASSUME Sort PROVE Scheduled(L, p, e)'
    <2>1. line = "call" /\ data = orig /\ DOMAIN data = 1 .. L /\ orig' = orig
      BY <1>1 DEF Kept, Sort
    <2>2. CASE line' = "launch"
      BY <2>2 DEF Scheduled
    <2>3. CASE /\ data' \in [DOMAIN data -> 0 .. Top] /\ SortedAscending(data')
               /\ SameElements(data', data) /\ line' = "done"
      <3>1. Ascends(data', L)
        BY <2>1, <2>3 DEF Ascends, SortedAscending
      <3> QED
        BY <2>1, <2>3, <3>1 DEF Scheduled
    <2> QED
      BY <1>1, <2>2, <2>3 DEF Sort
  <1>2. ASSUME Launch PROVE Scheduled(L, p, e)'
    <2>1. line = "launch" /\ pad \in [1 .. p -> 0 .. Top] /\ pad' = pad
      BY <1>2 DEF Kept, Launch
    <2>2. Len(pad) = p
      BY <1>0, <2>1, LengthIs
    <2>3. CASE p <= 1
      <3>1. Ascends(pad', p)
        BY <1>0, <2>3 DEF Ascends
      <3>2. line' = "return"
        BY <1>2, <2>2, <2>3 DEF Launch
      <3> QED
        BY <3>1, <3>2 DEF Scheduled
    <2>4. CASE p > 1
      <3>1. k' = 2 /\ j' = 1 /\ line' = "loop"
        BY <1>0, <1>2, <2>2, <2>4 DEF Launch
      <3>2. PICK a : a = [i \in 0 .. p - 1 |-> pad[i + 1]]
        OBVIOUS
      <3>3. Reads(a, p)'
        BY <1>0, <2>1, <3>2 DEF Reads
      <3>4. Merged(a, p, 2, 2)
        BY <1>0, StartMerged
      <3>5. 1 \in 1 .. e /\ 0 \in 0 .. 1 - 1 /\ Power(1) = 2 /\ Power(0) = 1
        <4>1. e # 0
          BY <1>0, <2>4, PowerTable
        <4> QED
          BY <1>0, <4>1, PowerTable
      <3>6. Merged(a, p, k', 2 * j')
        <4>1. 2 * j' = 2
          BY <3>1
        <4> QED
          BY <3>1, <3>4, <4>1
      <3>7. AtLoop(p, 1, a)'
        BY <3>1, <3>3, <3>5, <3>6 DEF AtLoop
      <3> QED
        BY <3>1, <3>5, <3>7 DEF Scheduled
    <2> QED
      BY <1>0, <2>3, <2>4
  <1>3. ASSUME Stage PROVE Scheduled(L, p, e)'
    <2>1. CASE line' = "run" /\ todo' = {i \in 0 .. N - 1 : Owns(i)}
      <3>1. /\ line = "loop" /\ k <= p /\ j > 0 /\ k \in Nat /\ j \in Nat
        <4>1. line = "loop" /\ k <= N /\ j > 0
          BY <1>3 DEF Stage
        <4>2. pad \in [1 .. p -> 0 .. Top] /\ k \in Nat /\ j \in Nat
          BY <4>1 DEF Kept
        <4> QED
          BY <1>b, <4>1, <4>2
      <3>2. PICK x \in 1 .. e : \E a : AtLoop(p, x, a)
        BY <1>0, <3>1 DEF Scheduled
      <3>3. PICK a : AtLoop(p, x, a)
        BY <3>2
      <3>4. PICK y \in 0 .. x - 1 : j = Power(y) /\ Merged(a, p, k, 2 * j)
        BY <3>1, <3>3 DEF AtLoop
      <3>5. k = Power(x) /\ Reads(a, p)
        BY <3>3 DEF AtLoop
      <3>6. \E b : AtRun(p, x, y, b)'
        BY <1>3, <2>1, <3>4, <3>5, StageReaches
      <3> QED
        BY <2>1, <3>6 DEF Scheduled
    <2>2. CASE line' = "return" /\ ok' = FALSE
      BY <2>2 DEF Scheduled
    <2> QED
      BY <1>3, <2>1, <2>2 DEF Stage
  <1>4. ASSUME NEW m \in todo, Invoke(m) PROVE Scheduled(L, p, e)'
    <2>1. line = "run" /\ UNCHANGED <<k, j, line>> /\ todo' = todo \ {m}
      BY <1>4 DEF Invoke
    <2>2. PICK x \in 1 .. e : \E y \in 0 .. x - 1 : \E b : AtRun(p, x, y, b)
      BY <2>1 DEF Scheduled
    <2>3. PICK y \in 0 .. x - 1 : \E b : AtRun(p, x, y, b)
      BY <2>2
    <2>0. PICK b : AtRun(p, x, y, b)
      BY <2>3
    <2>4. /\ k = Power(x) /\ j = Power(y) /\ Reaches(b, p) /\ Merged(b, p, k, j)
      BY <2>0 DEF AtRun
    <2>5. PICK J \in Nat : J = j
      BY DEF Kept
    <2>6. PICK K \in Nat : K = k
      BY DEF Kept
    <2>7. /\ m \in Nat /\ Lower(m, J) /\ m + J < p /\ J >= 1
          /\ \A i \in 1 .. p : i # m + 1 /\ i # m + J + 1 => pad'[i] = pad[i]
          /\ IF Lower(m, K)
             THEN /\ pad'[m + 1] = Lesser(pad[m + 1], pad[m + J + 1])
                  /\ pad'[m + J + 1] = Greater(pad[m + 1], pad[m + J + 1])
             ELSE /\ pad'[m + 1] = Greater(pad[m + 1], pad[m + J + 1])
                  /\ pad'[m + J + 1] = Lesser(pad[m + 1], pad[m + J + 1])
      BY <1>0, <1>4, <2>5, <2>6, InvokeIs
    <2>8. /\ b \in [0 .. p - 1 -> 0 .. Top]
          /\ \A i \in 0 .. p - 1 : Lower(i, J) /\ i + J < p =>
                 IF i \in todo
                 THEN IF Lower(i, K)
                      THEN /\ b[i] = Lesser(pad[i + 1], pad[i + J + 1])
                           /\ b[i + J] = Greater(pad[i + 1], pad[i + J + 1])
                      ELSE /\ b[i] = Greater(pad[i + 1], pad[i + J + 1])
                           /\ b[i + J] = Lesser(pad[i + 1], pad[i + J + 1])
                 ELSE b[i] = pad[i + 1] /\ b[i + J] = pad[i + J + 1]
      BY <2>4, <2>5, <2>6 DEF Reaches
    <2>9. ASSUME NEW i \in 0 .. p - 1, Lower(i, J), i + J < p
          PROVE  IF i \in todo'
                 THEN IF Lower(i, K)
                      THEN /\ b[i] = Lesser(pad'[i + 1], pad'[i + J + 1])
                           /\ b[i + J] = Greater(pad'[i + 1], pad'[i + J + 1])
                      ELSE /\ b[i] = Greater(pad'[i + 1], pad'[i + J + 1])
                           /\ b[i + J] = Lesser(pad'[i + 1], pad'[i + J + 1])
                 ELSE b[i] = pad'[i + 1] /\ b[i + J] = pad'[i + J + 1]
      <3>1. CASE i = m
        <4>1. i \in todo /\ i \notin todo'
          BY <1>4, <2>1, <3>1
        <4> QED
          BY <2>7, <2>8, <2>9, <3>1, <4>1
      <3>2. CASE i # m
        <4>1. i # m + J /\ i + J # m
          <5>1. ~Lower(m + J, J) /\ ~Lower(i + J, J)
            BY <2>7, <2>9, Pairs
          <5> QED
            BY <2>7, <2>9, <5>1
        <4>2. i + 1 \in 1 .. p /\ i + J + 1 \in 1 .. p
          BY <1>0, <2>9
        <4>3. i + 1 # m + 1 /\ i + 1 # m + J + 1 /\ i + J + 1 # m + 1 /\ i + J + 1 # m + J + 1
          BY <1>0, <2>7, <3>2, <4>1
        <4>4. pad'[i + 1] = pad[i + 1] /\ pad'[i + J + 1] = pad[i + J + 1]
          BY <2>7, <4>2, <4>3
        <4>5. i \in todo' <=> i \in todo
          BY <2>1, <3>2
        <4> QED
          BY <2>8, <2>9, <4>4, <4>5
      <3> QED
        BY <3>1, <3>2
    <2>10. Reaches(b, p)'
      <3>1. J = j' /\ K = k'
        BY <2>1, <2>5, <2>6
      <3> QED
        BY <2>8, <2>9, <3>1 DEF Reaches
    <2>11. AtRun(p, x, y, b)'
      BY <2>1, <2>4, <2>10 DEF AtRun
    <2> QED
      BY <2>1, <2>2, <2>11 DEF Scheduled
  <1>5. ASSUME StageDone PROVE Scheduled(L, p, e)'
    <2>1. /\ line = "run" /\ line' = "loop" /\ todo = {} /\ j' = j \div 2
          /\ UNCHANGED <<k, pad>>
      BY <1>5 DEF StageDone
    <2>2. PICK x \in 1 .. e : \E y \in 0 .. x - 1 : \E b : AtRun(p, x, y, b)
      BY <2>1 DEF Scheduled
    <2>3. PICK y \in 0 .. x - 1 : \E b : AtRun(p, x, y, b)
      BY <2>2
    <2>0. PICK b : AtRun(p, x, y, b)
      BY <2>3
    <2>4. /\ k = Power(x) /\ j = Power(y) /\ Reaches(b, p) /\ Merged(b, p, k, j)
      BY <2>0 DEF AtRun
    <2>5. PICK J \in Nat : J = j
      BY DEF Kept
    <2>6. /\ y \in 0 .. 30 /\ y < e /\ J = Power(y) /\ x \in 0 .. 30
      BY <1>0, <2>4, <2>5
    <2>7. /\ b \in [0 .. p - 1 -> 0 .. Top]
          /\ \A i \in 0 .. p - 1 : Lower(i, J) /\ i + J < p =>
                 b[i] = pad[i + 1] /\ b[i + J] = pad[i + J + 1]
      BY <2>1, <2>4, <2>5 DEF Reaches
    <2>8. ASSUME NEW i \in 0 .. p - 1 PROVE b[i] = pad[i + 1]
      <3>1. /\ Lower(i, J) => i + J < p
            /\ ~Lower(i, J) => i - J \in 0 .. p - 1 /\ Lower(i - J, J) /\ (i - J) + J = i
        BY <1>0, <2>6, Tiles
      <3>2. CASE Lower(i, J)
        BY <2>7, <3>1, <3>2
      <3>3. CASE ~Lower(i, J)
        <4>1. PICK h \in 0 .. p - 1 : h = i - J /\ Lower(h, J) /\ h + J = i
          BY <3>1, <3>3
        <4>2. h + J < p
          BY <1>0, <4>1
        <4>3. b[h + J] = pad[h + J + 1]
          BY <2>7, <4>1, <4>2
        <4> QED
          BY <4>1, <4>3
      <3> QED
        BY <3>2, <3>3
    <2>9. Reads(b, p)'
      BY <2>1, <2>7, <2>8 DEF Reads
    <2>10. CASE y = 0
      <3>1. j = 1 /\ j' = 0
        BY <2>1, <2>4, <2>10, PowerTable
      <3>2. AtLoop(p, x, b)'
        BY <2>1, <2>4, <2>9, <3>1 DEF AtLoop
      <3> QED
        BY <2>1, <3>2 DEF Scheduled
    <2>11. CASE y # 0
      <3>1. PICK z \in 0 .. 29 : z + 1 = y /\ z \in 0 .. x - 1
        <4>1. y - 1 \in 0 .. 29 /\ (y - 1) + 1 = y /\ y - 1 \in 0 .. x - 1
          BY <2>6, <2>11
        <4> QED
          BY <4>1
      <3>2. PICK q \in Nat : q = Power(z) /\ Power(y) = 2 * q
        BY <3>1, PowerDoubles
      <3>3. j = 2 * q /\ j' = q
        BY <2>1, <2>4, <3>2
      <3>4. Merged(b, p, k', 2 * j')
        BY <2>1, <2>4, <3>3
      <3>5. AtLoop(p, x, b)'
        BY <2>1, <2>4, <2>9, <3>1, <3>2, <3>3, <3>4 DEF AtLoop
      <3> QED
        BY <2>1, <3>5 DEF Scheduled
    <2> QED
      BY <2>10, <2>11
  <1>6. ASSUME NextK PROVE Scheduled(L, p, e)'
    <2>1. /\ line = "loop" /\ line' = "loop" /\ j = 0 /\ k <= N
          /\ pad \in [1 .. p -> 0 .. Top] /\ pad' = pad /\ k \in Nat
      BY <1>6 DEF NextK, Kept
    <2>2. k <= p
      BY <1>b, <2>1
    <2>3. PICK m \in Nat : m = Power(Bits)
      <3>1. Bits \in 0 .. 30
        BY DEF Fits
      <3> QED
        BY <3>1, PowerIsNat
    <2>4. k' = (2 * k) % m /\ j' = k' \div 2
      BY <1>6, <2>3 DEF NextK, U, Power
    <2>5. m >= 1
      <3>1. Bits \in 0 .. 30
        BY DEF Fits
      <3> QED
        BY <2>3, <3>1, PowerIsNat
    <2>6. CASE k = 0
      <3>1. 2 * k = 0 /\ 0 \in Nat /\ 0 < m
        BY <2>5, <2>6
      <3>2. 0 % m = 0
        BY <2>5, <3>1, RemainderIs
      <3>3. k' = 0 /\ j' = 0
        BY <2>4, <3>1, <3>2
      <3> QED
        BY <2>1, <3>3 DEF Scheduled
    <2>7. CASE k # 0
      <3>1. PICK x \in 1 .. e : \E a : AtLoop(p, x, a)
        BY <1>0, <2>1, <2>2, <2>7 DEF Scheduled
      <3>2. PICK a : AtLoop(p, x, a)
        BY <3>1
      <3>3. x \in 0 .. 30 /\ k = Power(x) /\ Reads(a, p)
        BY <1>0, <3>2 DEF AtLoop
      <3>4. Merged(a, p, k, 1)
        <4>1. ASSUME NEW y \in 0 .. x - 1, j = Power(y) PROVE FALSE
          <5>1. y \in 0 .. 30
            BY <3>3
          <5>2. PICK q \in Nat : q = Power(y) /\ q >= 1
            BY <5>1, PowerIsNat
          <5>3. j = q
            BY <4>1, <5>2
          <5> QED
            BY <2>1, <5>2, <5>3
        <4> QED
          BY <3>2, <4>1 DEF AtLoop
      <3>5. PICK K \in Nat : K = k /\ K >= 1
        BY <2>1, <2>7
      <3>6. \A i \in 0 .. p - 1 : a[i] \in Int /\ a[i] = pad[i + 1]
        BY <3>3 DEF Reads
      <3>7. x \in 0 .. 29 /\ x < Bits /\ Bits \in 0 .. 30 /\ x <= e
        BY <1>0 DEF Fits
      <3>8. 2 * k = Power(x + 1)
        BY <3>3, <3>7, PowerDoubles
      <3>9. CASE x + 1 = Bits
        <4>1. 2 * k = m /\ m % m = 0
          BY <2>3, <2>5, <3>8, <3>9, RemainderIs
        <4>2. k' = 0 /\ j' = 0
          BY <2>4, <4>1
        <4> QED
          BY <2>1, <4>2 DEF Scheduled
      <3>10. CASE x + 1 # Bits
        <4>1. PICK z \in 0 .. 30 : z = x + 1 /\ z < Bits
          BY <3>7, <3>10
        <4>2. PICK q \in Nat : q = Power(z)
          BY PowerIsNat
        <4>3. 2 * k = q /\ q < m
          <5>1. 2 * q <= m /\ q >= 1
            BY <2>3, <3>7, <4>1, <4>2, PowerGrows, PowerIsNat
          <5> QED
            BY <2>3, <3>8, <4>1, <4>2, <5>1
        <4>4. q % m = q
          BY <2>5, <4>3, RemainderIs
        <4>5. k' = q /\ j' = k
          BY <2>1, <2>4, <4>3, <4>4
        <4>6. CASE x = e
          <5>1. Merged(a, p, p, 1)
            BY <1>0, <3>3, <3>4, <4>6
          <5>2. \A i \in 0 .. p - 1, h \in 0 .. p - 1 : i < h => a[i] <= a[h]
            BY <1>0, <3>6, <5>1, WholeSorted
          <5>3. ASSUME NEW i \in 1 .. p, NEW h \in 1 .. p, i < h PROVE pad[i] <= pad[h]
            <6>1. PICK u \in 0 .. p - 1, v \in 0 .. p - 1 : u + 1 = i /\ v + 1 = h
              <7>1. i - 1 \in 0 .. p - 1 /\ h - 1 \in 0 .. p - 1
                BY <1>0, <5>3
              <7>2. (i - 1) + 1 = i /\ (h - 1) + 1 = h
                BY <1>0, <5>3
              <7> QED
                BY <7>1, <7>2
            <6>2. a[u] <= a[v]
              BY <1>0, <5>2, <5>3, <6>1
            <6> QED
              BY <3>6, <6>1, <6>2
          <5>4. Ascends(pad', p)
            BY <2>1, <5>3 DEF Ascends
          <5>5. k' > p
            BY <1>0, <3>3, <4>3, <4>5, <4>6
          <5> QED
            BY <2>1, <5>4, <5>5 DEF Scheduled
        <4>7. CASE x # e
          <5>1. z \in 1 .. e /\ x \in 0 .. z - 1
            BY <1>0, <3>7, <4>1, <4>7
          <5>2. Merged(a, p, 2 * K, 2 * K)
            <6>1. Merged(a, p, K, 1) /\ \A i \in 0 .. p - 1 : a[i] \in Int
              BY <3>4, <3>5, <3>6
            <6> QED
              BY <1>0, <3>5, <6>1, BlocksMerge
          <5>3. Merged(a, p, k', 2 * j')
            BY <3>5, <4>3, <4>5, <5>2
          <5>4. Reads(a, p)'
            BY <2>1, <3>3 DEF Reads
          <5>5. AtLoop(p, z, a)'
            BY <3>3, <4>2, <4>5, <5>1, <5>3, <5>4 DEF AtLoop
          <5> QED
            BY <2>1, <5>1, <5>5 DEF Scheduled
        <4> QED
          BY <4>6, <4>7
      <3> QED
        BY <3>9, <3>10
    <2> QED
      BY <2>6, <2>7
  <1>7. ASSUME LoopDone PROVE Scheduled(L, p, e)'
    <2>1. /\ line = "loop" /\ line' = "return" /\ k > N /\ k \in Nat
          /\ pad \in [1 .. p -> 0 .. Top] /\ pad' = pad
      BY <1>7 DEF LoopDone, Kept
    <2>2. k > p
      BY <1>b, <2>1
    <2>3. ASSUME NEW x \in 1 .. e, k = Power(x) PROVE FALSE
      <3>1. x \in 0 .. 30 /\ Power(x) \in Nat
        BY <1>0, PowerIsNat
      <3>2. x = e \/ 2 * Power(x) <= Power(e)
        BY <1>0, <3>1, PowerGrows
      <3> QED
        BY <1>0, <2>2, <2>3, <3>1, <3>2
    <2>4. Ascends(pad, p)
      BY <1>0, <2>1, <2>2, <2>3 DEF Scheduled, AtLoop
    <2>5. Ascends(pad', p)
      BY <2>1, <2>4
    <2> QED
      BY <2>1, <2>5 DEF Scheduled
  <1>8. ASSUME Return PROVE Scheduled(L, p, e)'
    <2>1. /\ line = "return" /\ line' = "done" /\ data = orig
          /\ orig \in [1 .. L -> 0 .. Top] /\ UNCHANGED <<orig, ok>>
          /\ pad \in [1 .. p -> 0 .. Top] /\ Permuted(pad, Original(L, p), p)
      BY <1>8 DEF Kept, Return
    <2>2. data' = [i \in 1 .. L |-> pad[i]]
      BY <1>8, <2>1 DEF Return
    <2>3. data' \in [1 .. L -> 0 .. Top] /\ \A i \in 1 .. L : data'[i] = pad[i]
      BY <1>0, <2>1, <2>2
    <2>4. ASSUME ok PROVE Ascends(data', L) /\ SameElements(data', orig)
      <3>1. Ascends(pad, p)
        BY <2>1, <2>4 DEF Scheduled
      <3>2. Ascends(data', L)
        BY <1>0, <2>3, <3>1 DEF Ascends
      <3>3. PICK a : a = data'
        OBVIOUS
      <3>4. PICK g : g = orig
        OBVIOUS
      <3>5. a \in [1 .. L -> 0 .. Top] /\ g \in [1 .. L -> 0 .. Top]
        BY <2>1, <2>3, <3>3, <3>4
      <3>6. PICK c : c = pad
        OBVIOUS
      <3>7. PICK b : b = Original(L, p)
        OBVIOUS
      <3>8. /\ \A i \in 1 .. p : b[i] = IF i <= L THEN g[i] ELSE Top
            /\ \A i \in 1 .. p : c[i] \in 0 .. Top
            /\ \A i \in 1 .. L : a[i] = c[i]
            /\ \A i \in 1 .. L : g[i] \in 0 .. Top
        BY <2>1, <2>3, <3>3, <3>4, <3>6, <3>7 DEF Original, LargestPadding
      <3>9. Permuted(c, b, p) /\ \A i, m \in 1 .. p : i < m => c[i] <= c[m]
        BY <2>1, <3>1, <3>6, <3>7 DEF Ascends
      <3>10. Top \in Nat
        BY SortAssumption
      <3>11. ASSUME NEW v \in 0 .. Top
             PROVE  Cardinality({i \in 1 .. L : a[i] = v}) = Cardinality({i \in 1 .. L : g[i] = v})
        <4>1. Cardinality({i \in 1 .. L : c[i] = v}) = Cardinality({i \in 1 .. L : g[i] = v})
          <5>1. Padding(c, b, g, L, p, Top)
            BY <1>0, <3>8, <3>9, <3>10 DEF Padding
          <5> QED
            BY <5>1, PaddingLast
        <4>2. {i \in 1 .. L : c[i] = v} = {i \in 1 .. L : a[i] = v}
          BY <3>8
        <4> QED
          BY <4>1, <4>2
      <3>12. SameElements(a, g)
        BY <1>0, <3>5, <3>11, SameIs
      <3> QED
        BY <3>2, <3>3, <3>4, <3>12
    <2> QED
      BY <2>1, <2>4 DEF Scheduled
  <1>9. ASSUME UNCHANGED sortVars PROVE Scheduled(L, p, e)'
    BY <1>9 DEF Scheduled, sortVars, AtLoop, AtRun, Reads, Reaches
  <1> QED
    BY <1>1, <1>2, <1>3, <1>4, <1>5, <1>6, <1>7, <1>8, <1>9
       DEF SortNext, Step, SortStopped


(* The counts have a next power of two below the bound of Padded. *)
Paddable == \A L \in Counts : L <= Power(30)

(* The padded array has a length that the loop variables hold. *)
NoWrap == \A L \in Counts : L <= Power(Bits - 1)

SortKept      == \E L, p, e : Sized(L, p, e) /\ Kept(L, p)
SortScheduled == \E L, p, e : Sized(L, p, e) /\ Fits(e) /\ Kept(L, p) /\ Scheduled(L, p, e)

(* A caller's count has a padded size. *)
LEMMA InitSized ==
    ASSUME Paddable, SortInit
    PROVE  \E L, p, e : Sized(L, p, e) /\ Kept(L, p)
  <1>1. PICK L \in Counts : orig \in [1 .. L -> 0 .. Top]
    BY DEF SortInit
  <1>2. L \in Nat /\ L <= Power(30)
    BY SortAssumption DEF Paddable
  <1>3. PICK e \in 0 .. 30 : Padded(L) = Power(e) /\ L <= Power(e) /\ (e = 0 \/ Power(e - 1) < L)
    BY <1>2, PaddedIs
  <1>4. PICK p \in Nat : p = Power(e)
    BY PowerIsNat
  <1>5. Sized(L, p, e)
    BY <1>2, <1>3, <1>4 DEF Sized
  <1>6. Kept(L, p)
    BY <1>1, InitKept
  <1> QED
    BY <1>5, <1>6

(* In a full-length array no element is lost or duplicated, whatever the     *)
(* order of the invocations and wherever a dispatch fails: for arrays of any *)
(* length, any width of the loop variables and any pool of sets.             *)
THEOREM SortKeepsElements ==
    ASSUME Paddable
    PROVE  SortSpec => []InPlaceKeepsElements
  <1>1. SortInit => SortKept
    BY InitSized DEF SortKept
  <1>2. SortKept /\ [SortNext]_sortVars => SortKept'
    <2> SUFFICES ASSUME SortKept, [SortNext]_sortVars PROVE SortKept'
      OBVIOUS
    <2>1. PICK L, p, e : Sized(L, p, e) /\ Kept(L, p)
      BY DEF SortKept
    <2>2. Kept(L, p)'
      BY <2>1, NextKept
    <2>3. Sized(L, p, e)'
      BY <2>1 DEF Sized, Power, Padded
    <2> QED
      BY <2>2, <2>3 DEF SortKept
  <1>3. SortKept => InPlaceKeepsElements
    <2> SUFFICES ASSUME SortKept PROVE InPlaceKeepsElements
      OBVIOUS
    <2>1. PICK L, p, e : Sized(L, p, e) /\ Kept(L, p)
      BY DEF SortKept
    <2>2. L \in Nat /\ Padded(L) = p /\ orig \in [1 .. L -> 0 .. Top]
      BY <2>1 DEF Sized, Kept
    <2>3. Len(orig) = L
      BY <2>2, LengthIs
    <2> QED
      BY <2>1, <2>2, <2>3 DEF Kept, InPlaceKeepsElements
  <1> QED
    BY <1>1, <1>2, <1>3, PTL DEF SortSpec

(* A padded size within the width of the loop variables. *)
LEMMA FitsIs ==
    ASSUME NoWrap, NEW L, NEW p, NEW e, Sized(L, p, e)
    PROVE  Fits(e)
  <1>1. /\ L \in Counts /\ L \in Nat /\ e \in 0 .. 30 /\ (e = 0 \/ Power(e - 1) < L)
        /\ Bits \in 1 .. 30
    BY SortAssumption DEF Sized
  <1>2. PICK m \in 0 .. 30 : m = Bits - 1
    BY <1>1
  <1>3. L <= Power(m)
    BY <1>1, <1>2 DEF NoWrap
  <1>4. ASSUME e > m PROVE FALSE
    <2>1. PICK f \in 0 .. 30 : f = e - 1 /\ m <= f
      BY <1>1, <1>2, <1>4
    <2>2. Power(f) \in Nat /\ Power(m) \in Nat /\ Power(m) <= Power(f)
      <3>1. Power(f) \in Nat /\ Power(m) \in Nat
        BY PowerIsNat
      <3>2. m = f \/ 2 * Power(m) <= Power(f)
        BY <2>1, PowerGrows
      <3> QED
        BY <3>1, <3>2
    <2>3. Power(f) < L
      BY <1>1, <1>2, <1>4, <2>1
    <2> QED
      BY <1>1, <1>3, <2>2, <2>3
  <1> QED
    BY <1>1, <1>2, <1>4 DEF Fits

(* A sort whose dispatches succeed leaves the elements in ascending order,   *)
(* padded or not, for every count up to half of what the loop variables      *)
(* hold, every order of the invocations and every element that does not sort *)
(* behind the padding.                                                       *)
THEOREM SortExact ==
    ASSUME NoWrap, LargestPadding
    PROVE  SortSpec => []SortCorrect
  <1>1. SortInit => SortScheduled
    <2> SUFFICES ASSUME SortInit PROVE SortScheduled
      OBVIOUS
    <2>1. Paddable
      <3>1. PICK m \in 0 .. 30 : m = Bits - 1
        BY SortAssumption
      <3>2. m = 30 \/ 2 * Power(m) <= Power(30)
        BY PowerGrows
      <3>3. Power(m) \in Nat /\ Power(30) \in Nat
        BY PowerIsNat
      <3>4. Power(m) <= Power(30)
        BY <3>2, <3>3
      <3>5. ASSUME NEW L \in Counts PROVE L <= Power(30)
        <4>1. L \in Nat /\ L <= Power(m)
          BY <3>1, SortAssumption DEF NoWrap
        <4> QED
          BY <3>3, <3>4, <4>1
      <3> QED
        BY <3>5 DEF Paddable
    <2>2. PICK L, p, e : Sized(L, p, e) /\ Kept(L, p)
      BY <2>1, InitSized
    <2>3. Fits(e)
      BY <2>2, FitsIs
    <2>4. line = "call"
      BY DEF SortInit
    <2>5. Scheduled(L, p, e)
      BY <2>4 DEF Scheduled
    <2> QED
      BY <2>2, <2>3, <2>5 DEF SortScheduled
  <1>2. SortScheduled /\ [SortNext]_sortVars => SortScheduled'
    <2> SUFFICES ASSUME SortScheduled, [SortNext]_sortVars PROVE SortScheduled'
      OBVIOUS
    <2>1. PICK L, p, e : Sized(L, p, e) /\ Fits(e) /\ Kept(L, p) /\ Scheduled(L, p, e)
      BY DEF SortScheduled
    <2>2. Kept(L, p)'
      BY <2>1, NextKept
    <2>3. Scheduled(L, p, e)'
      BY <2>1, NextScheduled
    <2>4. Sized(L, p, e)' /\ Fits(e)'
      BY <2>1 DEF Sized, Fits, Power, Padded
    <2> QED
      BY <2>2, <2>3, <2>4 DEF SortScheduled
  <1>3. SortScheduled => SortCorrect
    <2> SUFFICES ASSUME SortScheduled, line = "done", ok
                 PROVE  SortedAscending(data) /\ SameElements(data, orig)
      BY DEF SortCorrect
    <2>1. PICK L, p, e : Kept(L, p) /\ Scheduled(L, p, e)
      BY DEF SortScheduled
    <2>2. Ascends(data, L) /\ SameElements(data, orig)
      BY <2>1 DEF Scheduled
    <2>3. DOMAIN data = 1 .. L
      BY <2>1 DEF Kept
    <2> QED
      BY <2>2, <2>3 DEF Ascends, SortedAscending
  <1> QED
    BY <1>1, <1>2, <1>3, PTL DEF SortSpec
===============================================================================
