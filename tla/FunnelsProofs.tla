--------------------------- MODULE FunnelsProofs ---------------------------
(***************************************************************************)
(* The funnels, whatever programs use and however small the arena is: the  *)
(* operation is applied once, the input survives, the staging comes back.  *)
(***************************************************************************)
EXTENDS Funnels, TLAPS

(* The shapes the proofs distinguish. *)
LEMMA ShapeFacts ==
    ASSUME NEW n \in DOMAIN Shape
    PROVE  /\ Shape[n].blocks \in {1, 2}
           /\ Shape[n].zero \in SUBSET {"x", "y"}
           /\ Shape[n].out \in {"x", "y", "v"}
           /\ Shape[n].zero # {} /\ Shape[n].out # "v" => Shape[n].out \in Shape[n].zero
           /\ Shape[n].zero # {} => "x" \in Shape[n].zero
           /\ n = "scan" => Shape[n].blocks = 1 /\ Shape[n].out = "y"
           /\ n = "map_reduce" => Shape[n].zero = {} /\ Shape[n].blocks = 2 /\ Shape[n].out = "v"
           /\ n = "exclusive" => Shape[n].zero = {} 
           /\ Shape[n].out = "v" /\ n # "map_reduce" => Shape[n].blocks = 1
           /\ Shape[n].out = "y" /\ Shape[n].blocks = 1 => n = "scan"
  BY DEF Shape

-------------------------------------------------------------------------------
(* Staging blocks.  A call holds all its blocks between Stage and CopyOut,   *)
(* and the ones taken for good are those of calls that got half of them.     *)

Known == f \in DOMAIN Shape /\ DOMAIN handle \subseteq DOMAIN Shape

Holding == pc \in {"staged", "fold", "out"}

StagingSound ==
    /\ Known /\ held \in Int /\ halved \in Int
    /\ Holding => held = halved + S.blocks
    /\ ~Holding => held = halved

LEMMA InitStaging == Init => StagingSound
  BY FunnelAssumption DEF Init, StagingSound, Known, Holding, Names

LEMMA NextStaging == StagingSound /\ [Next]_vars => StagingSound'
  <1> SUFFICES ASSUME StagingSound, [Next]_vars PROVE StagingSound'
    OBVIOUS
  <1> USE DEF StagingSound, Known, Holding, S, Goto
  <1>1. ASSUME NEW n \in Names, Register(n) PROVE StagingSound'
    BY <1>1 DEF Register
  <1>2. ASSUME NEW n \in Names, NEW arrays, NEW caps, Call(n, arrays, caps) PROVE StagingSound'
    BY <1>2 DEF Call, Names
  <1>3. CASE Lookup
    <2>1. DOMAIN handle' = DOMAIN handle
      BY <1>3 DEF Lookup
    <2> QED
      BY <1>3, <2>1 DEF Lookup, Route
  <1>4. CASE Bind
    BY <1>4 DEF Bind
  <1>5. CASE Stage
    <2>1. S.blocks \in {1, 2}
      BY ShapeFacts
    <2> QED
      BY <1>5, <2>1 DEF Stage, memVars
  <1>6. CASE Launch
    BY <1>6 DEF Launch
  <1>7. CASE Fold
    BY <1>7 DEF Fold
  <1>8. CASE CopyOut
    <2>1. S.blocks \in {1, 2}
      BY ShapeFacts
    <2> QED
      BY <1>8, <2>1 DEF CopyOut, FreeAll
  <1>9. CASE Host
    BY <1>9 DEF Host
  <1>10. CASE UNCHANGED vars
    BY <1>10 DEF vars
  <1> QED
    BY <1>1, <1>2, <1>3, <1>4, <1>5, <1>6, <1>7, <1>8, <1>9, <1>10 DEF Next

LEMMA StagingHolds == Spec => []StagingSound
  <1> QED
    BY InitStaging, NextStaging, PTL DEF Spec

(* A funnel gives back what it staged on every path but the half-granted one *)
(* (stdpar.hpp:108-116), for any arena and any history of calls.             *)
THEOREM StagingBalanced == Spec => []StagingReturned
  <1>1. StagingSound => StagingReturned
    BY DEF StagingSound, Holding, StagingReturned
  <1> QED
    BY <1>1, StagingHolds, PTL

-------------------------------------------------------------------------------
(* Contents.  Along each route the place the next step reads holds what the  *)
(* operation has been applied to so far; a failed launch voids that, but     *)
(* never touches the input.                                                  *)

Cells == {"x", "y", "a", "b", "v"}

Resident == S.zero # {} /\ S.zero \subseteq resident

Started == pc \in {"lookup", "bind", "stage", "host"} => mem.x = 0 /\ mem.y = Old /\ ~failed

Launching ==
    /\ pc \in {"bind", "direct"} => Resident
    /\ pc = "direct" => ~failed /\ mem.x = 0 /\ mem.y = IF f = "scan" THEN 0 ELSE Old
    /\ pc = "staged" => ~failed /\ mem.x = 0 /\ mem.y = Old /\ mem.a = 0

Launched ==
    /\ pc \in {"fold", "out"} => mem.x = 0 /\ mem.y = Old
    /\ pc = "fold" => f = "map_reduce" /\ (~failed => mem.b = 1)
    /\ pc = "out" /\ ~failed => mem[IF S.out = "v" THEN "v" ELSE To(FALSE)] = 1

Done ==
    pc = "returned" /\ mem.x # Old =>
        /\ S.out # "x" => mem.x = 0
        /\ ~failed => mem[S.out] = 1 /\ (S.out # "y" => mem.y = Old)

ContentsSound == Known /\ DOMAIN mem = Cells /\ Started /\ Launching /\ Launched /\ Done

LEMMA InitContents == Init => ContentsSound
  BY FunnelAssumption
  DEF Init, ContentsSound, Known, Names, Cells, Started, Launching, Launched, Done

(* Where a launch reads and writes, on either route. *)
LEMMA Places ==
    ASSUME Known
    PROVE  /\ S.out \in {"x", "y", "v"}
           /\ From(FALSE) = "a" /\ To(FALSE) \in {"a", "b", "v"}
           /\ To(FALSE) = "v" => S.out = "v"
           /\ S.out = "v" /\ f # "map_reduce" => To(FALSE) = "v"
           /\ f = "map_reduce" => To(FALSE) = "b" /\ S.out = "v"
  BY ShapeFacts DEF Known, S, From, To

LEMMA DirectPlaces ==
    ASSUME Known, Resident
    PROVE  /\ f \notin {"map_reduce", "exclusive"}
           /\ To(TRUE) = S.out /\ S.out \in {"x", "y", "v"}
           /\ S.out # "v" => S.out \in resident
           /\ From(TRUE) \in {"x", "y"} \cap resident
           /\ From(TRUE) = IF f = "scan" THEN "y" ELSE "x"
           /\ f = "scan" => S.out = "y"
  <1>1. f \in DOMAIN Shape /\ S = Shape[f]
    BY DEF Known, S
  <1>2. /\ S.zero # {} => "x" \in S.zero
        /\ S.zero # {} /\ S.out # "v" => S.out \in S.zero
        /\ S.out = "v" /\ f # "map_reduce" => S.blocks = 1
        /\ f \in {"map_reduce", "exclusive"} => S.zero = {}
        /\ S.out \in {"x", "y", "v"} /\ (f = "scan" => S.out = "y")
    BY <1>1, ShapeFacts
  <1> QED
    BY <1>2 DEF Resident, From, To

(* A launch that succeeds applies the operation, on either route. *)
LEMMA DirectApplied ==
    ASSUME ContentsSound, pc = "direct", LaunchOk(TRUE)
    PROVE  /\ ~failed' /\ mem' = [mem EXCEPT ![S.out] = 1]
           /\ mem.x = 0 /\ DOMAIN mem = Cells
           /\ S.out # "y" => mem.y = Old
  <1>1. Known /\ Resident /\ ~failed /\ mem.x = 0 /\ mem.y = IF f = "scan" THEN 0 ELSE Old
    BY DEF ContentsSound, Launching
  <1>2. mem[From(TRUE)] = 0 /\ (f # "scan" => mem.y = Old)
    BY <1>1, DirectPlaces
  <1>3. Visible(From(TRUE)) /\ Visible(To(TRUE)) /\ Applied(mem[From(TRUE)]) = 1
    <2>1. Applied(0) = 1
      BY DEF Applied
    <2>2. Visible(From(TRUE)) /\ Visible(To(TRUE))
      BY <1>1, DirectPlaces DEF Visible
    <2> QED
      BY <1>2, <2>1, <2>2
  <1>4. mem' = [mem EXCEPT ![S.out] = 1] /\ UNCHANGED failed
    BY <1>1, <1>3, DirectPlaces DEF LaunchOk
  <1>5. S.out # "y" => f # "scan"
    BY <1>1, DirectPlaces
  <1> QED
    BY <1>1, <1>2, <1>4, <1>5 DEF ContentsSound

LEMMA StagedApplied ==
    ASSUME ContentsSound, pc = "staged", LaunchOk(FALSE)
    PROVE  /\ ~failed' /\ mem' = [mem EXCEPT ![To(FALSE)] = 1]
           /\ mem.x = 0 /\ mem.y = Old /\ DOMAIN mem = Cells
  <1>1. Known /\ ~failed /\ mem.a = 0 /\ mem.x = 0 /\ mem.y = Old
    BY DEF ContentsSound, Launching
  <1>2. From(FALSE) = "a" /\ To(FALSE) \in {"a", "b", "v"}
    BY <1>1, Places
  <1>3. Visible(From(FALSE)) /\ Visible(To(FALSE)) /\ Applied(mem[From(FALSE)]) = 1
    <2>1. Applied(0) = 1
      BY DEF Applied
    <2>2. mem[From(FALSE)] = 0
      BY <1>1, <1>2
    <2> QED
      BY <1>2, <2>1, <2>2 DEF Visible
  <1>4. mem' = [mem EXCEPT ![To(FALSE)] = 1] /\ UNCHANGED failed
    BY <1>3 DEF LaunchOk
  <1> QED
    BY <1>1, <1>4 DEF ContentsSound

(* A launch that fails has touched neither the input nor, unless it is a     *)
(* scan in place, the output.                                                *)
LEMMA FailureApart ==
    ASSUME ContentsSound, pc \in {"direct", "staged"}, LaunchFails(pc = "direct")
    PROVE  /\ failed' /\ DOMAIN mem' = Cells
           /\ mem'.x = 0 /\ (pc = "staged" => mem'.y = Old)
  <1>1. CASE pc = "direct"
    <2>1. Known /\ Resident /\ mem.x = 0
      BY <1>1 DEF ContentsSound, Launching
    <2>2. f \in {"scan", "exclusive"} => From(TRUE) = "y"
      BY <2>1, DirectPlaces
    <2> QED
      BY <1>1, <2>1, <2>2 DEF LaunchFails, ContentsSound, Cells
  <1>2. CASE pc = "staged"
    <2>1. From(FALSE) = "a" /\ mem.x = 0 /\ mem.y = Old
      BY <1>2, Places DEF ContentsSound, Launching
    <2> QED
      BY <1>2, <2>1 DEF LaunchFails, ContentsSound, Cells
  <1> QED
    BY <1>1, <1>2

LEMMA LaunchContents ==
    ASSUME ContentsSound, Launch
    PROVE  ContentsSound'
  <1>1. /\ pc \in {"direct", "staged"} /\ UNCHANGED <<f, handle, resident>>
        /\ pc' = IF pc = "direct" THEN "returned" ELSE IF f = "map_reduce" THEN "fold" ELSE "out"
    BY DEF Launch, Goto
  <1>2. /\ Known /\ Known' /\ S' = S /\ To(FALSE)' = To(FALSE) /\ S.out \in {"x", "y", "v"}
        /\ pc' \in {"returned", "fold", "out"}
        /\ S.out = "v" /\ f # "map_reduce" => To(FALSE) = "v"
        /\ f = "map_reduce" => To(FALSE) = "b"
    BY <1>1, Places DEF ContentsSound, Known, S, To
  <1>3. Started' /\ Launching'
    BY <1>1, <1>2 DEF Started, Launching
  <1>4. CASE LaunchOk(pc = "direct") /\ pc = "direct"
    BY <1>1, <1>2, <1>3, <1>4, DirectApplied DEF ContentsSound, Launched, Done, Cells
  <1>5. CASE LaunchOk(pc = "direct") /\ pc = "staged"
    <2>1. To(FALSE) \in {"a", "b", "v"}
      BY <1>2, Places
    <2> QED
      BY <1>1, <1>2, <1>3, <1>5, <2>1, StagedApplied DEF ContentsSound, Launched, Done, Cells
  <1>6. CASE LaunchFails(pc = "direct")
    BY <1>1, <1>2, <1>3, <1>6, FailureApart DEF ContentsSound, Launched, Done, Cells
  <1> QED
    BY <1>4, <1>5, <1>6, <1>1 DEF Launch

LEMMA NextContents == ContentsSound /\ [Next]_vars => ContentsSound'
  <1> SUFFICES ASSUME ContentsSound, [Next]_vars PROVE ContentsSound'
    OBVIOUS
  <1> USE DEF ContentsSound, Known, Cells, Started, Launching, Launched, Done, S, Goto
  <1> S.out \in {"x", "y", "v"} /\ f \in DOMAIN Shape
    BY ShapeFacts
  <1>1. ASSUME NEW n \in Names, Register(n) PROVE ContentsSound'
    BY <1>1 DEF Register
  <1>2. ASSUME NEW n \in Names, NEW arrays, NEW caps, Call(n, arrays, caps) PROVE ContentsSound'
    BY <1>2 DEF Call, Names
  <1>3. CASE Lookup
    <2>1. DOMAIN handle' = DOMAIN handle
      BY <1>3 DEF Lookup
    <2>2. pc' = "bind" => Resident
      BY <1>3 DEF Lookup, Route, ZeroCopy, Resident
    <2> QED
      BY <1>3, <2>1, <2>2 DEF Lookup, Route, Resident
  <1>4. CASE Bind
    BY <1>4 DEF Bind, CopyToOutput, Resident
  <1>5. CASE Stage
    BY <1>5 DEF Stage, memVars
  <1>6. CASE Launch
    BY <1>6, LaunchContents
  <1>7. CASE Fold
    BY <1>7, ShapeFacts DEF Fold, To
  <1>8. CASE CopyOut
    BY <1>8 DEF CopyOut
  <1>9. CASE Host
    BY <1>9 DEF Host, Applied
  <1>10. CASE UNCHANGED vars
    BY <1>10 DEF vars, Resident, To
  <1> QED
    BY <1>1, <1>2, <1>3, <1>4, <1>5, <1>6, <1>7, <1>8, <1>9, <1>10 DEF Next

LEMMA ContentsHold == Spec => []ContentsSound
  <1> QED
    BY InitContents, NextContents, PTL DEF Spec

(* An algorithm that does not work in place leaves its input as it was,      *)
(* whichever route it took and whatever failed on it.                        *)
THEOREM InputSurvives == Spec => []InputKept
  <1>1. ContentsSound => InputKept
    BY DEF ContentsSound, Done, InputKept
  <1> QED
    BY <1>1, ContentsHold, PTL

(* Device, staged or host loop: an algorithm none of whose launches failed   *)
(* has applied its operation exactly once (stdpar.hpp:16-17).                *)
THEOREM OperationAppliedOnce == Spec => []AppliedOnce
  <1>1. ContentsSound => AppliedOnce
    BY DEF ContentsSound, Done, AppliedOnce
  <1> QED
    BY <1>1, ContentsHold, PTL
==============================================================================
