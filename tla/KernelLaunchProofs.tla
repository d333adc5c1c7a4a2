------------------------- MODULE KernelLaunchProofs -------------------------
(***************************************************************************)
(* The launch protocol of KernelLaunch for any buffers, lengths, captures, *)
(* operations and sizes of the descriptor pool: the migration scope is     *)
(* balanced, nothing a running kernel uses is touched, only the output of  *)
(* an operation changes, and, for the operations whose descriptor sets are *)
(* written for each call, it changes to the sequential result.             *)
(***************************************************************************)
EXTENDS KernelLaunch, FiniteSetTheorems, WellFoundedInduction, TLAPS

(* Other threads may write while a call runs only where nothing is migrated: *)
(* a staged device overwrites what they wrote with the copy it took before.  *)
ASSUME NoWritesWhileStaged == \A c \in Cases : c.others => c.uma

-------------------------------------------------------------------------------
(* The inductive invariant.  Neither property is preserved alone: that the   *)
(* depth is zero when a call returns depends on how many scopes each stage   *)
(* of the operation is in, and that no kernel runs when the next stage       *)
(* begins depends on what the fence and its flag say of a pending one.       *)

(* A call keeps its fields. *)
IsCall == call = [f \in DOMAIN NoCall |-> call[f]]

(* The scopes entered when a stage dispatches its kernel. *)
Scopes(stage) == IF stage = "scan" THEN 2 ELSE 1

Stages == {"only", "flags", "scan", "scatter"}

AtEnter ==
    /\ call.stage \in {"only", "flags", "scan"}
    /\ depth = Scopes(call.stage) - 1

AtDispatch ==
    /\ call.stage \in Stages
    /\ depth = Scopes(call.stage)

(* launch() and its likes return before their kernel has run, and the C API  *)
(* waits outside their scope; a primitive waits inside.                      *)
AtWait ==
    /\ call.stage \in Stages
    /\ depth = IF call.stage = "only" THEN 0 ELSE Scopes(call.stage)

(* An operation that leaves its outermost scope has failed or has submitted  *)
(* its last kernel.                                                          *)
AtExit ==
    /\ depth \in {1, 2}
    /\ depth = 2 => call.stage = "scan"
    /\ depth = 1 /\ call.error = "no" => call.stage \in {"only", "scatter"}
    /\ pending # None => call.stage = "only" /\ call.error = "no"

ScopesSound ==
    /\ pc = "idle"  => depth = 0
    /\ pc = "enter" => AtEnter
    /\ pc = "resolve" => call.stage \in {"only", "flags"} /\ depth = 1
    /\ pc \in {"bind", "submit"} => AtDispatch
    /\ pc = "wait"  => AtWait
    /\ pc = "exit"  => AtExit
    /\ pc = "kept"  => call.stage = "scan" /\ depth = 1

(* A pending kernel is one the caller will wait for, and it will. *)
PendingSound ==
    /\ pending # None => pc \in {"exit", "wait"} /\ ~flag /\ ~fence
    /\ pc \notin {"idle", "exit"} => call.error = "no"

Inductive == IsCall /\ ScopesSound /\ PendingSound

-------------------------------------------------------------------------------
LEMMA InitInductive == Init => Inductive
  BY DEF Init, Inductive, IsCall, ScopesSound, PendingSound, NoCall

(* Steps that leave the caller's place, its call and the kernel as they are. *)
LEMMA StutterInductive ==
    ASSUME Inductive, UNCHANGED <<depth, pending, fence, flag, pc, call>>
    PROVE  Inductive'
  BY DEF Inductive, IsCall, ScopesSound, PendingSound, AtEnter, AtDispatch, AtWait, AtExit

LEMMA CallInductive ==
    ASSUME Inductive, NEW op, NEW in, NEW out, NEW n, NEW c, Call(op, in, out, n, c)
    PROVE  Inductive'
  <1>1. /\ pc = "idle" /\ pc' = "enter" /\ UNCHANGED <<depth, pending, fence, flag>>
        /\ call' = [NoCall EXCEPT !.op = op, !.in = in, !.out = out, !.n = n, !.cap = c,
                                  !.stage = IF op = "compact" THEN "flags" ELSE "only"]
    BY DEF Call, Goto, fenceVars
  <1>2. IsCall' /\ call'.stage \in {"only", "flags"} /\ call'.error = "no"
    BY <1>1 DEF IsCall, NoCall
  <1> QED
    BY <1>1, <1>2 DEF Inductive, ScopesSound, PendingSound, AtEnter, Scopes

LEMMA EnterInductive == Inductive /\ Enter => Inductive'
  BY DEF Inductive, IsCall, ScopesSound, PendingSound, AtEnter, AtDispatch, AtExit,
         Scopes, Stages, Enter, Goto, fenceVars

LEMMA ResolveInductive == Inductive /\ Resolve => Inductive'
  BY DEF Inductive, IsCall, ScopesSound, PendingSound, AtDispatch,
         Scopes, Stages, Resolve, Goto, fenceVars

LEMMA ResolveFailsInductive == Inductive /\ ResolveFails => Inductive'
  BY DEF Inductive, IsCall, ScopesSound, PendingSound, AtExit,
         ResolveFails, Fail, Goto, fenceVars, NoCall

LEMMA BindInductive == Inductive /\ Bind => Inductive'
  BY DEF Inductive, IsCall, ScopesSound, PendingSound, AtDispatch, AtExit,
         Scopes, Stages, Bind, UseCached, TakeSet, Fail, Goto, fenceVars, NoCall

(* The fence and the flag are lowered together, before the kernel can run.   *)
LEMMA SubmitInductive == Inductive /\ Submit => Inductive'
  BY DEF Inductive, IsCall, ScopesSound, PendingSound, AtDispatch, AtWait, AtExit,
         Scopes, Stages, Submit, FlagKept, Fail, Goto, fenceVars, NoCall

LEMMA ExecuteInductive == Inductive /\ Execute => Inductive'
  <1> SUFFICES ASSUME Inductive, Execute PROVE Inductive'
    OBVIOUS
  <1>1. pending' = None /\ UNCHANGED <<depth, pc, call>>
    BY DEF Execute, ghosts, setVars
  <1> QED
    BY <1>1 DEF Inductive, IsCall, ScopesSound, PendingSound, AtEnter, AtDispatch, AtWait, AtExit

(* sync() returns only when no kernel is pending: a lowered flag is raised   *)
(* only after the fence was signalled.                                       *)
LEMMA WaitInductive == Inductive /\ Wait => Inductive'
  BY DEF Inductive, IsCall, ScopesSound, PendingSound, AtEnter, AtWait, AtExit,
         Scopes, Stages, Wait, Synced, Goto, fenceVars, NoCall

LEMMA ExitInductive == Inductive /\ Exit => Inductive'
  BY DEF Inductive, IsCall, ScopesSound, PendingSound, AtWait, AtExit,
         Scopes, Stages, Exit, DepthAfter, Goto, fenceVars, NoCall

LEMMA ReadKeptInductive == Inductive /\ ReadKept => Inductive'
  BY DEF Inductive, IsCall, ScopesSound, PendingSound, AtDispatch,
         Scopes, Stages, ReadKept, Goto, fenceVars, NoCall

LEMMA NextInductive == Inductive /\ [Next]_vars => Inductive'
  <1> SUFFICES ASSUME Inductive, [Next]_vars PROVE Inductive'
    OBVIOUS
  <1>1. CASE \E p \in Buffers, i \in Indices, x \in 0 .. V - 1 :
                HostWrite(p, i, x) \/ OtherWrite(p, i, x)
    BY <1>1, StutterInductive DEF HostWrite, OtherWrite, fenceVars
  <1>2. CASE \E op \in case.ops, in, out \in Buffers, n \in Indices,
                 c \in Captures \cup {0, 1} : Call(op, in, out, n, c)
    BY <1>2, CallInductive
  <1>3. CASE HostStep
    BY <1>3, EnterInductive, ResolveInductive, ResolveFailsInductive, BindInductive,
       SubmitInductive, WaitInductive, ExitInductive, ReadKeptInductive DEF HostStep
  <1>4. CASE Execute
    BY <1>4, ExecuteInductive
  <1>5. CASE UNCHANGED vars
    BY <1>5, StutterInductive DEF vars
  <1> QED
    BY <1>1, <1>2, <1>3, <1>4, <1>5 DEF Next

THEOREM InductiveHolds == Spec => []Inductive
  <1> QED
    BY InitInductive, NextInductive, PTL DEF Spec

-------------------------------------------------------------------------------
(* Whatever failed, and in whichever nested scope, a call that has returned  *)
(* left the migration depth at zero and no kernel running (~ArenaSyncScope). *)
THEOREM BalancedScopes == Spec => []ScopeBalanced
  <1>1. Inductive => ScopeBalanced
    BY DEF Inductive, ScopesSound, PendingSound, ScopeBalanced
  <1> QED
    BY <1>1, InductiveHolds, PTL

(* No descriptor set, command buffer or intermediate result is touched while *)
(* a kernel that uses it may be running: every dispatch is behind a sync().  *)
THEOREM NothingInFlightTouched == Spec => []InFlightUntouched
  <1>1. Inductive => InFlightUntouched
    BY DEF Inductive, PendingSound, InFlightUntouched
  <1> QED
    BY <1>1, InductiveHolds, PTL
-------------------------------------------------------------------------------
(* The bystanders.  A buffer keeps the contents it had when the call was     *)
(* made until the last kernel of the operation has been submitted, and for   *)
(* ever if it is not the output; on a staged device that is true of both     *)
(* copies while the scope is open, so that the copy back changes nothing.    *)

Written == call.stage \in {"only", "scatter"} /\ pc \in {"exit", "wait"} /\ call.error = "no"

Bystander(p) == p # call.out \/ ~Written

HostKept == pc # "idle" => \A p \in Buffers : Bystander(p) => host[p] = before[p]

DevKept ==
    pc # "idle" /\ depth # 0 /\ ~case.uma =>
        \A p \in Arena : Bystander(p) => dev[p] = before[p]

(* A set found in the cache, bound or in use by a kernel names the output of *)
(* the call, since the output is part of the key.                            *)
CacheKeys == {"each", "capEach", "map"} \X Buffers

SetsSound ==
    /\ DOMAIN cache = CacheKeys
    /\ \A k \in CacheKeys : cache[k] # None => cache[k].out = k[2]
    /\ pc # "idle" => call.out \in Buffers
    /\ pc = "submit" => call.set.out = call.out
    /\ pending # None => pending.stage = call.stage /\ pending.set.out = call.out

MemorySound ==
    /\ DOMAIN host = Memories /\ DOMAIN dev = Memories /\ DOMAIN before = Memories
    /\ case.others => case.uma

Bystanders == MemorySound /\ SetsSound /\ HostKept /\ DevKept

LEMMA InitBystanders == Init => Bystanders
  BY NoWritesWhileStaged
  DEF Init, Bystanders, MemorySound, SetsSound, HostKept, DevKept, CacheKeys

(* Migration in either direction. *)
LEMMA FlushFacts ==
    ASSUME MemorySound, FlushToDevice
    PROVE  /\ UNCHANGED host /\ DOMAIN dev' = Memories
           /\ ~case.uma => \A p \in Arena : dev'[p] = host[p]
  BY DEF FlushToDevice, Migrated, Memories, Buffers, MemorySound

LEMMA InvalidateFacts ==
    ASSUME MemorySound, InvalidateFromDevice
    PROVE  /\ UNCHANGED dev /\ DOMAIN host' = Memories
           /\ \A p \in Buffers : host'[p] = host[p]
                                  \/ (p \in Arena /\ ~case.uma /\ host'[p] = dev[p])
  BY LaunchAssumption DEF InvalidateFromDevice, Migrated, Memories, Buffers, MemorySound

(* A kernel writes one buffer, on the side where the device has it. *)
LEMMA WriteFacts ==
    ASSUME MemorySound, NEW q, NEW contents, Write(q, contents)
    PROVE  /\ DOMAIN host' = Memories /\ DOMAIN dev' = Memories
           /\ \A p \in Memories : p # q => host'[p] = host[p] /\ dev'[p] = dev[p]
  BY DEF Write, MemorySound

LEMMA CallBystanders ==
    ASSUME Inductive, Bystanders,
           NEW op, NEW in, NEW out \in Buffers, NEW n, NEW c, Call(op, in, out, n, c)
    PROVE  Bystanders'
  <1>1. /\ pc = "idle" /\ pc' = "enter" /\ before' = host
        /\ UNCHANGED <<case, host, dev, cache, pending, depth>>
        /\ call'.out = out
    BY DEF Call, Goto, fenceVars, memVars, setVars, NoCall
  <1>2. depth = 0 /\ pending = None
    BY <1>1 DEF Inductive, ScopesSound, PendingSound
  <1> QED
    BY <1>1, <1>2 DEF Bystanders, MemorySound, SetsSound, HostKept, DevKept

LEMMA EnterBystanders == Inductive /\ Bystanders /\ Enter => Bystanders'
  <1> SUFFICES ASSUME Inductive, Bystanders, Enter PROVE Bystanders'
    OBVIOUS
  <1>1. /\ pc = "enter" /\ pc' \in {"resolve", "bind", "exit"}
        /\ pc' = "exit" => call.stage = "scan"
        /\ UNCHANGED <<case, cache, pending, call, before>>
    BY DEF Enter, Goto, fenceVars, setVars, ghosts
  <1>2. pending = None /\ ~Written /\ ~Written'
    BY <1>1 DEF Inductive, PendingSound, Written
  <1>3. MemorySound' /\ UNCHANGED host
    BY <1>1, FlushFacts DEF Enter, memVars, Bystanders, MemorySound
  <1>4. ~case.uma => \A p \in Arena : dev'[p] = before[p]
    <2>1. CASE depth = 0
      BY <2>1, <1>1, <1>2, FlushFacts
      DEF Enter, Outermost, Bystanders, HostKept, Bystander, Buffers
    <2>2. CASE depth # 0
      BY <2>2, <1>1, <1>2 DEF Enter, Outermost, memVars, Bystanders, DevKept, Bystander
    <2> QED
      BY <2>1, <2>2
  <1>5. HostKept' /\ DevKept'
    BY <1>1, <1>2, <1>3, <1>4 DEF Bystanders, HostKept, DevKept, Bystander
  <1>6. SetsSound'
    BY <1>1, <1>2 DEF Bystanders, SetsSound
  <1> QED
    BY <1>3, <1>5, <1>6 DEF Bystanders

(* Steps that move no data and write no set. *)
LEMMA QuietBystanders ==
    ASSUME Inductive, Bystanders, pc # "idle", pc' # "submit",
           UNCHANGED <<case, host, cache, pending, depth, before>>,
           UNCHANGED call \/ (pending = None /\ call'.out = call.out),
           Written => Written' \/ pc' = "idle",
           DOMAIN dev' = Memories, \A p \in Arena : dev'[p] = dev[p]
    PROVE  Bystanders'
  <1>1. MemorySound'
    BY DEF Bystanders, MemorySound
  <1>2. SetsSound'
    BY DEF Bystanders, SetsSound
  <1>3. HostKept'
    BY DEF Bystanders, HostKept, Bystander
  <1>4. DevKept'
    BY DEF Bystanders, DevKept, Bystander
  <1> QED
    BY <1>1, <1>2, <1>3, <1>4 DEF Bystanders

LEMMA ResolveBystanders == Inductive /\ Bystanders /\ Resolve => Bystanders'
  <1> SUFFICES ASSUME Inductive, Bystanders, Resolve PROVE Bystanders'
    OBVIOUS
  <1>1. /\ pc = "resolve" /\ pc' = "bind"
        /\ UNCHANGED <<case, host, cache, pending, depth, before, call>>
    BY DEF Resolve, Goto, fenceVars, setVars, ghosts
  <1>2. DOMAIN dev' = Memories /\ \A p \in Arena : dev'[p] = dev[p]
    BY LaunchAssumption DEF Resolve, ToRegister, Memories, Buffers
  <1> QED
    BY <1>1, <1>2, QuietBystanders DEF Written

LEMMA ResolveFailsBystanders == Inductive /\ Bystanders /\ ResolveFails => Bystanders'
  <1> SUFFICES ASSUME Inductive, Bystanders, ResolveFails PROVE Bystanders'
    OBVIOUS
  <1>1. /\ pc = "resolve" /\ pc' = "exit" /\ pending = None /\ call'.out = call.out
        /\ UNCHANGED <<case, host, dev, cache, pending, depth, before>>
    BY DEF ResolveFails, Fail, Goto, fenceVars, setVars, memVars, ghosts,
           Inductive, IsCall, PendingSound, NoCall
  <1> QED
    BY <1>1, QuietBystanders DEF Written, Bystanders, MemorySound

(* Whether the set was found, taken or written again, it names this output. *)
LEMMA BindBystanders == Inductive /\ Bystanders /\ Bind => Bystanders'
  <1> SUFFICES ASSUME Inductive, Bystanders, Bind PROVE Bystanders'
    OBVIOUS
  <1>1. /\ pc = "bind" /\ pc' \in {"submit", "exit"}
        /\ UNCHANGED <<case, host, dev, pending, depth, before>>
    BY DEF Bind, Fail, Goto, fenceVars, memVars, ghosts
  <1>2. pending = None /\ IsCall /\ call.out \in Buffers
    BY <1>1 DEF Inductive, PendingSound, Bystanders, SetsSound
  <1>3. /\ call'.out = call.out /\ SetsSound'
        /\ pc' = "exit" => call'.error # "no"
    <2>1. CASE Cached /\ UseCached /\ Goto("submit")
      <3>1. Key \in CacheKeys /\ Key[2] = call.out /\ cache[Key] # None
        BY <2>1, <1>2 DEF Cached, CachesOp, Key, CacheKeys
      <3>2. PICK s : /\ s.out = call.out
                     /\ call' = [call EXCEPT !.set = s] /\ cache' = [cache EXCEPT ![Key] = s]
        BY <2>1, <3>1 DEF UseCached, NewSet, Bystanders, SetsSound
      <3> QED
        BY <1>1, <1>2, <2>1, <3>1, <3>2
        DEF IsCall, NoCall, Bystanders, SetsSound, Goto
    <2>2. CASE ~Cached /\ TakeSet /\ Goto("submit")
      <3>1. call' = [call EXCEPT !.set = NewSet] /\ NewSet.out = call.out
        BY <2>2 DEF TakeSet, NewSet
      <3>2. DOMAIN cache' = CacheKeys /\ \A k \in CacheKeys : cache'[k] # None => cache'[k].out = k[2]
        <4>1. CASE CachesOp(call.op)
          <5>1. Key \in CacheKeys /\ Key[2] = call.out
            BY <4>1, <1>2 DEF CachesOp, Key, CacheKeys
          <5> QED
            BY <2>2, <3>1, <4>1, <5>1 DEF TakeSet, Bystanders, SetsSound
        <4>2. CASE ~CachesOp(call.op)
          BY <2>2, <4>2 DEF TakeSet, Bystanders, SetsSound
        <4> QED
          BY <4>1, <4>2
      <3> QED
        BY <1>1, <1>2, <2>2, <3>1, <3>2 DEF IsCall, NoCall, SetsSound, Goto
    <2>3. CASE ~Cached /\ sets = MaxSets /\ Fail("pool") /\ UNCHANGED setVars
      BY <1>1, <1>2, <2>3 DEF Fail, Goto, setVars, IsCall, NoCall, Bystanders, SetsSound
    <2> QED
      BY <2>1, <2>2, <2>3 DEF Bind
  <1>4. ~Written /\ ~Written'
    BY <1>1, <1>3 DEF Written
  <1> QED
    BY <1>1, <1>3, <1>4 DEF Bystanders, MemorySound, HostKept, DevKept, Bystander

LEMMA SubmitBystanders == Inductive /\ Bystanders /\ Submit => Bystanders'
  <1> SUFFICES ASSUME Inductive, Bystanders, Submit PROVE Bystanders'
    OBVIOUS
  <1>1. /\ pc = "submit" /\ pc' \in {"exit", "wait"}
        /\ UNCHANGED <<case, host, dev, cache, depth, before>>
    BY DEF Submit, Fail, Goto, setVars, memVars, ghosts
  <1>2. pending = None /\ IsCall /\ call.set.out = call.out /\ call.out \in Buffers
    BY <1>1 DEF Inductive, PendingSound, Bystanders, SetsSound
  <1>3. /\ call'.out = call.out
        /\ pending' # None => pending'.stage = call'.stage /\ pending'.set.out = call'.out
    BY <1>2 DEF Submit, Fail, IsCall, NoCall
  <1>4. SetsSound'
    BY <1>1, <1>2, <1>3 DEF Bystanders, SetsSound
  <1>5. ~Written
    BY <1>1 DEF Written
  <1> QED
    BY <1>1, <1>2, <1>3, <1>4, <1>5 DEF Bystanders, MemorySound, HostKept, DevKept, Bystander

(* A kernel writes the positions, or the output of a call that has submitted *)
(* its last kernel.                                                          *)
LEMMA ExecuteBystanders == Inductive /\ Bystanders /\ Execute => Bystanders'
  <1> SUFFICES ASSUME Inductive, Bystanders, Execute PROVE Bystanders'
    OBVIOUS
  <1>1. /\ pending # None /\ pending' = None
        /\ UNCHANGED <<case, cache, depth, pc, call, before>>
    BY DEF Execute, setVars, ghosts
  <1>2. /\ pc \in {"exit", "wait"} /\ call.error = "no"
        /\ pending.stage = call.stage /\ pending.set.out = call.out
    BY <1>1 DEF Inductive, PendingSound, ScopesSound, AtExit, Bystanders, SetsSound
  <1>3. PICK q, contents : /\ Write(q, contents)
                           /\ q = Scratch \/ (q = call.out /\ Written)
    BY <1>2 DEF Execute, Written
  <1>4. /\ MemorySound'
        /\ \A p \in Buffers : Bystander(p) => host'[p] = host[p] /\ dev'[p] = dev[p]
    BY <1>1, <1>3, WriteFacts, LaunchAssumption
    DEF Bystanders, MemorySound, Bystander, Memories, Buffers
  <1> QED
    BY <1>1, <1>4 DEF Bystanders, SetsSound, HostKept, DevKept, Bystander, Written, Buffers

LEMMA WaitBystanders == Inductive /\ Bystanders /\ Wait => Bystanders'
  <1> SUFFICES ASSUME Inductive, Bystanders, Wait PROVE Bystanders'
    OBVIOUS
  <1>1. /\ pc = "wait" /\ pc' \in {"idle", "enter", "exit"} /\ pending = None
        /\ UNCHANGED <<case, host, dev, cache, pending, depth, before>>
    BY DEF Wait, Synced, Goto, setVars, memVars, ghosts, Inductive, PendingSound
  <1>2. /\ pc' = "enter" => call.stage = "flags" /\ call'.out = call.out
        /\ pc' = "exit" => UNCHANGED call
    BY DEF Wait, Goto, Inductive, IsCall, NoCall
  <1>3. SetsSound'
    BY <1>1, <1>2 DEF Bystanders, SetsSound
  <1>4. pc' # "idle" => (Written => Written') /\ call'.out = call.out
    BY <1>1, <1>2 DEF Written
  <1> QED
    BY <1>1, <1>3, <1>4 DEF Bystanders, MemorySound, HostKept, DevKept, Bystander

(* The copy back brings every bystander the contents it had. *)
LEMMA ExitKeeps ==
    ASSUME Inductive, Bystanders, Exit
    PROVE  /\ MemorySound' /\ UNCHANGED <<case, cache, pending, dev, before>>
           /\ \A p \in Buffers : Bystander(p) => host'[p] = before[p]
  <1>1. /\ pc = "exit" /\ depth # 0
        /\ UNCHANGED <<case, cache, pending, before>>
    BY DEF Exit, fenceVars, setVars, Inductive, ScopesSound, AtExit
  <1>2. \A p \in Buffers : Bystander(p) => host[p] = before[p]
    BY <1>1 DEF Bystanders, HostKept
  <1>3. ~case.uma => \A p \in Arena : Bystander(p) => dev[p] = before[p]
    BY <1>1 DEF Bystanders, DevKept
  <1>4. CASE depth = 1
    BY <1>1, <1>2, <1>3, <1>4, InvalidateFacts DEF Exit, Bystanders, MemorySound
  <1>5. CASE depth # 1
    BY <1>1, <1>2, <1>5 DEF Exit, memVars, Bystanders, MemorySound
  <1> QED
    BY <1>4, <1>5

LEMMA ExitBystanders == Inductive /\ Bystanders /\ Exit => Bystanders'
  <1> SUFFICES ASSUME Inductive, Bystanders, Exit PROVE Bystanders'
    OBVIOUS
  <1>1. pc = "exit" /\ depth \in {1, 2} /\ depth' = depth - 1
    BY DEF Exit, DepthAfter, Inductive, ScopesSound, AtExit
  <1>2. /\ MemorySound' /\ UNCHANGED <<case, cache, pending, dev, before>>
        /\ \A p \in Buffers : Bystander(p) => host'[p] = before[p]
    BY ExitKeeps
  <1>3. /\ pc' \in {"kept", "exit", "wait", "idle"}
        /\ pc' # "idle" => UNCHANGED call
        /\ pc' = "kept" => depth = 2
        /\ pc' = "idle" => depth' = 0 /\ pending = None
    BY <1>1 DEF Exit, DepthAfter, Goto, Inductive, ScopesSound, AtExit
  <1>4. SetsSound'
    BY <1>1, <1>2, <1>3 DEF Bystanders, SetsSound
  <1>5. pc' # "idle" => (Written => Written')
    BY <1>1, <1>3 DEF Written, Inductive, ScopesSound, AtExit
  <1>6. HostKept'
    BY <1>2, <1>3, <1>5 DEF HostKept, Bystander
  <1>7. DevKept'
    BY <1>1, <1>2, <1>3, <1>5 DEF Bystanders, DevKept, Bystander
  <1> QED
    BY <1>2, <1>4, <1>6, <1>7 DEF Bystanders

LEMMA ReadKeptBystanders == Inductive /\ Bystanders /\ ReadKept => Bystanders'
  <1> SUFFICES ASSUME Inductive, Bystanders, ReadKept PROVE Bystanders'
    OBVIOUS
  <1>1. /\ pc = "kept" /\ pc' = "bind" /\ depth # 0 /\ pending = None
        /\ UNCHANGED <<case, cache, pending, depth, before>> /\ call'.out = call.out
    BY DEF ReadKept, Goto, fenceVars, setVars, ghosts, Inductive, IsCall, ScopesSound,
           PendingSound, NoCall
  <1>2. ~Written /\ ~Written'
    BY <1>1 DEF Written
  <1>3. UNCHANGED dev /\ MemorySound'
    BY <1>1, InvalidateFacts DEF ReadKept, Bystanders, MemorySound
  <1>4. \A p \in Buffers : host'[p] = before[p]
    BY <1>1, <1>2, InvalidateFacts DEF ReadKept, Bystanders, HostKept, DevKept, Bystander
  <1> QED
    BY <1>1, <1>2, <1>3, <1>4 DEF Bystanders, SetsSound, HostKept, DevKept, Bystander

(* The application's own writes. *)
LEMMA WritesBystanders ==
    ASSUME Inductive, Bystanders, NEW p \in Buffers, NEW i, NEW x,
           HostWrite(p, i, x) \/ OtherWrite(p, i, x)
    PROVE  Bystanders'
  <1>1. UNCHANGED <<case, dev, cache, pending, depth, pc, call>>
    BY DEF HostWrite, OtherWrite, fenceVars, setVars
  <1>2. CASE HostWrite(p, i, x)
    BY <1>1, <1>2 DEF HostWrite, Bystanders, MemorySound, SetsSound, HostKept, DevKept
  <1>3. CASE OtherWrite(p, i, x)
    <2>1. case.uma
      BY <1>3 DEF OtherWrite, Bystanders, MemorySound
    <2>2. \A q \in Buffers : Bystander(q) => host'[q] = before'[q]
      BY <1>3 DEF OtherWrite, Bystanders, MemorySound, HostKept, Bystander, Memories
    <2> QED
      BY <1>1, <1>3, <2>1, <2>2
      DEF OtherWrite, Bystanders, MemorySound, SetsSound, HostKept, DevKept, Bystander, Written
  <1> QED
    BY <1>2, <1>3

LEMMA NextBystanders == Inductive /\ Bystanders /\ [Next]_vars => Bystanders'
  <1> SUFFICES ASSUME Inductive, Bystanders, [Next]_vars PROVE Bystanders'
    OBVIOUS
  <1>1. CASE \E p \in Buffers, i \in Indices, x \in 0 .. V - 1 :
                HostWrite(p, i, x) \/ OtherWrite(p, i, x)
    BY <1>1, WritesBystanders
  <1>2. CASE \E op \in case.ops, in, out \in Buffers, n \in Indices,
                 c \in Captures \cup {0, 1} : Call(op, in, out, n, c)
    BY <1>2, CallBystanders
  <1>3. CASE HostStep
    BY <1>3, EnterBystanders, ResolveBystanders, ResolveFailsBystanders, BindBystanders,
       SubmitBystanders, WaitBystanders, ExitBystanders, ReadKeptBystanders DEF HostStep
  <1>4. CASE Execute
    BY <1>4, ExecuteBystanders
  <1>5. CASE UNCHANGED vars
    BY <1>5 DEF vars, Bystanders, MemorySound, SetsSound, HostKept, DevKept, Bystander, Written
  <1> QED
    BY <1>1, <1>2, <1>3, <1>4, <1>5 DEF Next

(* A call returns from its outermost scope, or from the wait behind it. *)
LEMMA ReturnKeeps ==
    ASSUME Inductive, Bystanders, Next, pc # "idle", pc' = "idle"
    PROVE  \A p \in Buffers : p # call.out \/ call.error # "no" => host'[p] = before[p]
  <1>1. Exit \/ Wait
    <2>1. ~(\E p \in Buffers, i \in Indices, x \in 0 .. V - 1 :
                HostWrite(p, i, x) \/ OtherWrite(p, i, x))
      BY DEF HostWrite, OtherWrite
    <2>2. ~(\E op \in case.ops, in, out \in Buffers, n \in Indices,
                 c \in Captures \cup {0, 1} : Call(op, in, out, n, c))
      BY DEF Call
    <2>3. HostStep => Exit \/ Wait
      BY DEF HostStep, Enter, Resolve, ResolveFails, Bind, Submit, ReadKept, Fail, Goto
    <2>4. ~Execute
      BY DEF Execute
    <2> QED
      BY <2>1, <2>2, <2>3, <2>4 DEF Next
  <1>2. CASE Exit
    BY <1>2, ExitKeeps DEF Bystander, Written
  <1>3. CASE Wait
    BY <1>3 DEF Wait, memVars, Inductive, PendingSound, Bystanders, HostKept, Bystander
  <1> QED
    BY <1>1, <1>2, <1>3

(* For any set of buffers, on either kind of device and through every        *)
(* failure: an operation changes no buffer but its output, and that one only *)
(* if it succeeds, although a staged device copies the whole arena around it. *)
THEOREM OthersKept == Spec => BystandersKept
  <1>1. Inductive /\ Bystanders /\ [Next]_vars =>
           [pc # "idle" /\ pc' = "idle" =>
               \A p \in Buffers : p # call.out \/ call.error # "no" => host'[p] = before[p]]_vars
    BY ReturnKeeps
  <1> QED
    BY <1>1, InitBystanders, NextBystanders, InductiveHolds, PTL DEF Spec, BystandersKept

-------------------------------------------------------------------------------
(* Sums of flags count.  Induction is over the least counterexample in Nat.  *)
Less == {p \in Nat \X Nat : p[1] < p[2]}

LEMMA Induction ==
    ASSUME NEW S, 0 \in S, \A k \in Nat : k \in S => k + 1 \in S
    PROVE  Nat \subseteq S
  <1> SUFFICES ASSUME Nat \ S # {} PROVE FALSE
    OBVIOUS
  <1>1. IsWellFoundedOn(Less, Nat)
    BY NatLessThanWellFounded DEF OpToRel, Less
  <1>2. PICK m \in Nat \ S : \A k \in Nat \ S : <<k, m>> \notin Less
    <2>1. Nat \ S \in SUBSET Nat
      OBVIOUS
    <2> QED
      BY <1>1, <2>1, WFMin
  <1>3. m # 0 /\ m - 1 \in Nat /\ <<m - 1, m>> \in Less
    BY <1>2 DEF Less
  <1>4. m - 1 \in S
    BY <1>2, <1>3
  <1> QED
    BY <1>2, <1>3, <1>4

Count(f, i) == Cardinality({j \in 1 .. i : f[j] > 0})

LEMMA CountFacts ==
    ASSUME NEW f
    PROVE  /\ Count(f, 0) = 0 /\ \A i \in Nat : Count(f, i) \in Nat
           /\ \A i \in Nat \ {0} : Count(f, i) = Count(f, i - 1) + (IF f[i] > 0 THEN 1 ELSE 0)
  <1>1. \A i \in Nat : IsFiniteSet({j \in 1 .. i : f[j] > 0}) /\ Count(f, i) \in Nat
    <2> SUFFICES ASSUME NEW i \in Nat
                 PROVE  IsFiniteSet({j \in 1 .. i : f[j] > 0}) /\ Count(f, i) \in Nat
      OBVIOUS
    <2>1. IsFiniteSet(1 .. i)
      BY FS_Interval
    <2>2. IsFiniteSet({j \in 1 .. i : f[j] > 0})
      BY <2>1, FS_Subset
    <2> QED
      BY <2>2, FS_CardinalityType DEF Count
  <1>2. Count(f, 0) = 0
    <2>1. {j \in 1 .. 0 : f[j] > 0} = {}
      OBVIOUS
    <2> QED
      BY <2>1, FS_EmptySet DEF Count
  <1>3. ASSUME NEW i \in Nat \ {0}
        PROVE  Count(f, i) = Count(f, i - 1) + (IF f[i] > 0 THEN 1 ELSE 0)
    <2>1. \A j : j \in 1 .. i <=> j \in 1 .. i - 1 \/ j = i
      OBVIOUS
    <2>2. i \notin {j \in 1 .. i - 1 : f[j] > 0} /\ i - 1 \in Nat
      OBVIOUS
    <2>3. CASE f[i] > 0
      <3>1. {j \in 1 .. i : f[j] > 0} = {j \in 1 .. i - 1 : f[j] > 0} \cup {i}
        BY <2>1, <2>3
      <3> QED
        BY <1>1, <2>2, <2>3, <3>1, FS_AddElement DEF Count
    <2>4. CASE ~(f[i] > 0)
      <3>1. {j \in 1 .. i : f[j] > 0} = {j \in 1 .. i - 1 : f[j] > 0}
        BY <2>1, <2>4
      <3>2. Count(f, i) = Count(f, i - 1)
        BY <3>1 DEF Count
      <3>3. Count(f, i - 1) \in Nat
        BY <1>1, <2>2
      <3> QED
        BY <2>4, <3>2, <3>3
    <2> QED
      BY <2>3, <2>4
  <1> QED
    BY <1>1, <1>2, <1>3

LEMMA PrefixCounts ==
    ASSUME NEW f, NEW n \in Indices
    PROVE  Prefix(Flags(f, n), n) = [i \in Indices |-> IF i <= n THEN Count(f, i) ELSE 0]
  <1> DEFINE s == Flags(f, n)
             sum == CHOOSE g : g = [i \in 0 .. n |-> IF i = 0 THEN 0 ELSE g[i - 1] + s[i]]
             count == [i \in 0 .. n |-> Count(f, i)]
  <1>1. Prefix(s, n) = [i \in Indices |-> IF i <= n THEN sum[i] ELSE s[i]]
    BY DEF Prefix
  <1>2. n \in Nat \ {0} /\ 1 .. n \subseteq Indices
    BY LaunchAssumption DEF Indices
  <1>3. /\ \A i \in 1 .. n : s[i] = IF f[i] > 0 THEN 1 ELSE 0
        /\ \A i \in Indices : ~(i <= n) => s[i] = 0
    BY <1>2 DEF Flags, Indices
  <1> HIDE DEF s
  <1>4. count = [i \in 0 .. n |-> IF i = 0 THEN 0 ELSE count[i - 1] + s[i]]
    <2>1. ASSUME NEW i \in 0 .. n
          PROVE  Count(f, i) = IF i = 0 THEN 0 ELSE count[i - 1] + s[i]
      <3>1. CASE i = 0
        BY <3>1, CountFacts
      <3>2. CASE i # 0
        <4>1. i \in 1 .. n /\ i \in Nat \ {0} /\ i - 1 \in 0 .. n
          BY <1>2, <2>1, <3>2
        <4> QED
          BY <1>3, <3>2, <4>1, CountFacts
      <3> QED
        BY <3>1, <3>2
    <2> QED
      BY <2>1
  <1>5. sum = [i \in 0 .. n |-> IF i = 0 THEN 0 ELSE sum[i - 1] + s[i]]
    <2>1. \E g : g = [i \in 0 .. n |-> IF i = 0 THEN 0 ELSE g[i - 1] + s[i]]
      BY <1>4
    <2> QED
      BY <2>1
  <1> HIDE DEF sum, count
  <1>6. \A i \in 0 .. n : sum[i] = Count(f, i)
    <2> DEFINE S == {i \in Nat : i <= n => sum[i] = Count(f, i)}
    <2>1. 0 \in S
      <3>1. sum[0] = 0
        BY <1>2, <1>5
      <3> QED
        BY <3>1, CountFacts
    <2>2. ASSUME NEW k \in Nat, k \in S PROVE k + 1 \in S
      <3> SUFFICES ASSUME k + 1 <= n PROVE sum[k + 1] = Count(f, k + 1)
        OBVIOUS
      <3>1. k + 1 \in 1 .. n /\ (k + 1) - 1 = k /\ k + 1 # 0 /\ k + 1 \in 0 .. n /\ k <= n
        BY <1>2
      <3>2. sum[k + 1] = sum[k] + s[k + 1]
        BY <1>5, <3>1
      <3>3. sum[k] = Count(f, k)
        BY <2>2, <3>1
      <3>4. Count(f, k + 1) = Count(f, k) + (IF f[k + 1] > 0 THEN 1 ELSE 0)
        BY <3>1, CountFacts
      <3> QED
        BY <1>3, <3>1, <3>2, <3>3, <3>4
    <2> HIDE DEF S
    <2>3. Nat \subseteq S
      BY <2>1, <2>2, Induction
    <2> QED
      BY <1>2, <2>3 DEF S
  <1>7. \A i \in Indices : (IF i <= n THEN sum[i] ELSE s[i]) = (IF i <= n THEN Count(f, i) ELSE 0)
    BY <1>2, <1>3, <1>6 DEF Indices
  <1> QED
    BY <1>1, <1>7 DEF s

(* The scan of one element, which launch_scan leaves as it is. *)
LEMMA PrefixOfOne ==
    ASSUME NEW f, NEW n \in Indices, ~(n > 1)
    PROVE  Prefix(Flags(f, n), n) = Flags(f, n)
  <1>1. n = 1
    BY LaunchAssumption DEF Indices
  <1>2. Count(f, 1) = IF f[1] > 0 THEN 1 ELSE 0
    <2>1. Count(f, 1) = Count(f, 1 - 1) + (IF f[1] > 0 THEN 1 ELSE 0) /\ Count(f, 0) = 0
      BY CountFacts
    <2> QED
      BY <2>1
  <1>3. \A i \in Indices : (IF i <= n THEN Count(f, i) ELSE 0) = (IF i <= n /\ f[i] > 0 THEN 1 ELSE 0)
    BY <1>1, <1>2 DEF Indices
  <1> QED
    BY <1>3, PrefixCounts DEF Flags

-------------------------------------------------------------------------------
(* The results.  On buffers of the arena, and for the operations whose sets  *)
(* are written for the call and, on a staged device, waited for inside the   *)
(* scope, what the caller finds is what the sequential algorithm leaves.     *)

RightOps(c) == IF c.uma THEN {"each", "capMap", "compact"} ELSE {"compact"}

Faithful == External = {} /\ \A c \in Cases : c.ops \subseteq RightOps(c)

Positions(c, m) == Prefix(Flags(m[c.in], c.n), c.n)

Outcome(c, m) ==
    IF c.op = "compact" THEN Scatter(m[c.in], m[c.out], Positions(c, m), c.n)
    ELSE Mapped(m[c.in], m[c.out], c.n, c.cap)

Arguments ==
    /\ case \in Cases
    /\ pc # "idle" =>
          /\ call.op \in case.ops /\ call.n \in Indices
          /\ call.in \in Buffers /\ call.out \in Buffers
          /\ IF call.op = "compact" THEN call.stage \in {"flags", "scan", "scatter"}
             ELSE call.stage = "only"

(* A set is the call's own from its binding to the end of its kernel. *)
SetIsNew ==
    /\ pc = "submit" => call.set = NewSet
    /\ pending # None => pending = [set |-> NewSet, n |-> call.n, stage |-> call.stage]

WantSound ==
    /\ DOMAIN want = Memories
    /\ pc = "idle" => \A p \in Buffers : host[p] = want[p]
    /\ pc # "idle" => \A p \in Buffers :
          want[p] = IF p = call.out THEN Outcome(call, before) ELSE before[p]

(* The output before and after the last kernel. *)
OutputSound ==
    Written => Read(call.out) = IF pending # None THEN before[call.out] ELSE Outcome(call, before)

(* The positions hold the flags until the scan has run, and then their sums. *)
FlagsThere ==
    \/ call.stage = "flags" /\ pc = "wait" /\ pending = None
    \/ call.stage = "scan" /\ pc \in {"enter", "bind", "submit"}
    \/ call.stage = "scan" /\ pc = "wait" /\ pending # None

SumsThere ==
    \/ call.stage = "scan" /\ pc = "wait" /\ pending = None
    \/ call.stage = "scan" /\ pc = "exit" /\ call.error = "no"
    \/ call.stage = "scan" /\ pc = "kept"
    \/ call.stage = "scatter" /\ pc \in {"bind", "submit"}
    \/ call.stage = "scatter" /\ pc = "wait" /\ pending # None

PositionsSound ==
    /\ FlagsThere => Read(Scratch) = Flags(before[call.in], call.n)
    /\ SumsThere => Read(Scratch) = Positions(call, before)

Results ==
    /\ Arguments /\ SetIsNew /\ WantSound /\ OutputSound /\ PositionsSound /\ KeptRight

LEMMA InitResults == Init => Results
  <1> SUFFICES ASSUME Init PROVE Results
    OBVIOUS
  <1>1. /\ case \in Cases /\ pc = "idle" /\ call = NoCall /\ pending = None /\ want = host
        /\ DOMAIN host = Memories
    BY DEF Init
  <1>2. call.stage = "none"
    BY <1>1 DEF NoCall
  <1> QED
    BY <1>1, <1>2
    DEF Results, Arguments, SetIsNew, WantSound, OutputSound, PositionsSound, KeptRight,
        Written, FlagsThere, SumsThere

LEMMA DeviceReads ==
    ASSUME Faithful
    PROVE  \A p : Read(p) = IF case.uma THEN host[p] ELSE dev[p]
  BY DEF Faithful, Read, Shared

(* Only compactions run on a staged device. *)
LEMMA StagedCompacts ==
    ASSUME Faithful, Results, pc # "idle"
    PROVE  /\ call.op \in {"each", "capMap", "compact"}
           /\ ~case.uma => call.op = "compact" /\ call.stage \in {"flags", "scan", "scatter"}
  BY DEF Faithful, RightOps, Results, Arguments

LEMMA CallResults ==
    ASSUME Faithful, Inductive, Bystanders, Results,
           NEW op \in case.ops, NEW in \in Buffers, NEW out \in Buffers, NEW n \in Indices, NEW c,
           Call(op, in, out, n, c)
    PROVE  Results'
  <1>1. /\ pc = "idle" /\ pc' = "enter" /\ before' = host
        /\ UNCHANGED <<case, host, dev, pending>>
        /\ call' = [NoCall EXCEPT !.op = op, !.in = in, !.out = out, !.n = n, !.cap = c,
                                  !.stage = IF op = "compact" THEN "flags" ELSE "only"]
        /\ want' = Sequential(call', want)
    BY DEF Call, Goto, fenceVars, memVars
  <1>2. /\ call'.op = op /\ call'.in = in /\ call'.out = out /\ call'.n = n /\ call'.cap = c
        /\ call'.stage = IF op = "compact" THEN "flags" ELSE "only"
    BY <1>1 DEF NoCall
  <1>3. pending = None
    BY <1>1 DEF Inductive, PendingSound
  <1>4. \A p \in Buffers : host[p] = want[p]
    BY <1>1 DEF Results, WantSound
  <1>5. PICK k : k = call'
    OBVIOUS
  <1>6. Outcome(k, host) = Outcome(k, want)
    BY <1>2, <1>4, <1>5 DEF Outcome, Positions
  <1>7. want' = [want EXCEPT ![k.out] = Outcome(k, want)] /\ k.out = out
    <2>1. want' = Sequential(k, want) /\ k.out = out
      BY <1>1, <1>2, <1>5
    <2>2. CASE k.op = "compact"
      BY <2>1, <2>2 DEF Sequential, Outcome, Positions
    <2>3. CASE k.op # "compact"
      BY <2>1, <2>3 DEF Sequential, Outcome
    <2> QED
      BY <2>1, <2>2, <2>3
  <1>8. WantSound'
    <2>1. out \in Memories /\ DOMAIN want = Memories
      BY DEF Memories, Results, WantSound
    <2>2. DOMAIN want' = Memories
      BY <1>7, <2>1
    <2>3. \A p \in Buffers : want'[p] = IF p = out THEN Outcome(k, host) ELSE host[p]
      BY <1>4, <1>6, <1>7, <2>1 DEF Memories
    <2> QED
      BY <1>1, <1>2, <1>5, <2>2, <2>3 DEF WantSound
  <1>9. /\ Arguments' /\ SetIsNew' /\ OutputSound' /\ PositionsSound' /\ KeptRight'
    BY <1>1, <1>2, <1>3
    DEF Results, Arguments, SetIsNew, OutputSound, PositionsSound, KeptRight,
        Written, FlagsThere, SumsThere
  <1> QED
    BY <1>8, <1>9 DEF Results

LEMMA EnterResults ==
    ASSUME Faithful, Inductive, Bystanders, Results, Enter
    PROVE  Results'
  <1>1. /\ pc = "enter" /\ pc' \in {"resolve", "bind", "exit"} /\ UNCHANGED <<case, pending, call, ghosts>>
        /\ pc' = "resolve" => call.stage \in {"only", "flags"}
        /\ pc' \in {"bind", "exit"} => call.stage = "scan"
        /\ pc' = "exit" => ~(call.n > 1)
    BY DEF Enter, Goto, fenceVars
  <1>2. pending = None /\ call.stage \in {"only", "flags", "scan"} /\ call.error = "no"
        /\ depth = Scopes(call.stage) - 1
    BY <1>1 DEF Inductive, PendingSound, ScopesSound, AtEnter
  <1>3. call.stage = "scan" => UNCHANGED memVars
    BY <1>2 DEF Enter, Outermost, Scopes
  <1>4. call.stage = "scan" => Read(Scratch)' = Read(Scratch)
    BY <1>1, <1>3 DEF Read, Shared, memVars
  <1>5. UNCHANGED host
    BY DEF Enter, FlushToDevice, memVars
  <1>6. PositionsSound'
    <2>1. CASE call.stage = "scan"
      <3>1. Read(Scratch) = Flags(before[call.in], call.n)
        BY <1>1, <2>1 DEF Results, PositionsSound, FlagsThere
      <3>2. pc' = "exit" => Flags(before[call.in], call.n) = Positions(call, before)
        BY <1>1, <2>1, PrefixOfOne DEF Positions, Results, Arguments
      <3> QED
        BY <1>1, <1>2, <1>4, <2>1, <3>1, <3>2 DEF PositionsSound, FlagsThere, SumsThere, Positions, ghosts
    <2>2. CASE call.stage # "scan"
      BY <1>1, <1>2, <2>2 DEF PositionsSound, FlagsThere, SumsThere
    <2> QED
      BY <2>1, <2>2
  <1>7. WantSound' /\ Arguments'
    BY <1>1, <1>5 DEF Results, WantSound, Arguments, Outcome, Positions, ghosts
  <1>8. SetIsNew' /\ KeptRight' /\ OutputSound'
    BY <1>1, <1>2 DEF SetIsNew, KeptRight, OutputSound, Written
  <1> QED
    BY <1>6, <1>7, <1>8 DEF Results

(* Within a call the arguments stay, and with them what it should compute.   *)
SameArguments ==
    /\ call'.op = call.op /\ call'.in = call.in /\ call'.out = call.out
    /\ call'.n = call.n /\ call'.cap = call.cap

LEMMA SameCallSame ==
    ASSUME IsCall, UNCHANGED call \/ \E s, e, k : call' = [call EXCEPT !.set = s]
                \/ call' = [call EXCEPT !.error = e] \/ call' = [call EXCEPT !.stage = s]
                \/ call' = [call EXCEPT !.kept = k, !.stage = s]
    PROVE  SameArguments
  BY DEF IsCall, NoCall, SameArguments

LEMMA SameOutcome ==
    ASSUME NEW c, NEW d, NEW m, NEW w, c.op = d.op, c.in = d.in, c.out = d.out,
           c.n = d.n, c.cap = d.cap, m[c.in] = w[c.in], m[c.out] = w[c.out]
    PROVE  Outcome(c, m) = Outcome(d, w) /\ Positions(c, m) = Positions(d, w)
  BY DEF Outcome, Positions

LEMMA WantKept ==
    ASSUME Results, pc # "idle", pc' # "idle", UNCHANGED <<case, want, before>>, SameArguments
    PROVE  /\ WantSound' /\ Outcome(call, before)' = Outcome(call, before)
           /\ Positions(call, before)' = Positions(call, before)
  <1>1. PICK k : k = call'
    OBVIOUS
  <1>2. Outcome(k, before) = Outcome(call, before) /\ Positions(k, before) = Positions(call, before)
    BY <1>1, SameOutcome DEF SameArguments
  <1>3. \A p \in Buffers : want[p] = IF p = k.out THEN Outcome(k, before) ELSE before[p]
    BY <1>1, <1>2 DEF Results, WantSound, SameArguments
  <1>4. before' = before /\ want' = want
    OBVIOUS
  <1> QED
    BY <1>1, <1>2, <1>3, <1>4 DEF Results, WantSound

(* With no external buffer there is nothing to register. *)
LEMMA ResolveResults ==
    ASSUME Faithful, Inductive, Bystanders, Results, Resolve
    PROVE  Results'
  <1>1. /\ pc = "resolve" /\ pc' = "bind" /\ UNCHANGED <<case, pending, call, want, before>>
    BY DEF Resolve, Goto, fenceVars, ghosts
  <1>2. pending = None /\ call.stage \in {"only", "flags"}
    BY <1>1 DEF Inductive, PendingSound, ScopesSound
  <1>3. WantSound'
    BY <1>1, WantKept DEF SameArguments
  <1>4. /\ Arguments' /\ SetIsNew' /\ OutputSound' /\ PositionsSound' /\ KeptRight'
    BY <1>1, <1>2
    DEF Results, Arguments, SetIsNew, OutputSound, PositionsSound, KeptRight,
        Written, FlagsThere, SumsThere
  <1> QED
    BY <1>3, <1>4 DEF Results

(* A call that has failed promises nothing of its output. *)
LEMMA FailResults ==
    ASSUME Inductive, Results, NEW why \in {"pool", "device"}, Fail(why),
           pc \in {"resolve", "bind", "submit"}, UNCHANGED <<case, pending, want, before>>
    PROVE  Results'
  <1>1. pc' = "exit" /\ call' = [call EXCEPT !.error = why] /\ pending = None
    BY DEF Fail, Goto, Inductive, PendingSound
  <1>2. SameArguments /\ call'.error = why /\ call'.stage = call.stage
    BY <1>1 DEF Inductive, IsCall, NoCall, SameArguments
  <1>3. WantSound'
    BY <1>1, <1>2, WantKept
  <1>4. /\ Arguments' /\ SetIsNew' /\ OutputSound' /\ PositionsSound' /\ KeptRight'
    BY <1>1, <1>2
    DEF Results, Arguments, SetIsNew, OutputSound, PositionsSound, KeptRight,
        Written, FlagsThere, SumsThere, SameArguments
  <1> QED
    BY <1>3, <1>4 DEF Results

LEMMA ResolveFailsResults ==
    ASSUME Faithful, Inductive, Bystanders, Results, ResolveFails
    PROVE  Results'
  BY FailResults DEF ResolveFails, fenceVars, ghosts

(* launch() writes its set on a hit as well, and the other operations here   *)
(* take a set for each call.                                                 *)
LEMMA BindResults ==
    ASSUME Faithful, Inductive, Bystanders, Results, Bind
    PROVE  Results'
  <1>1. pc = "bind" /\ UNCHANGED <<case, host, dev, pending, want, before>>
    BY DEF Bind, fenceVars, memVars, ghosts
  <1>2. pending = None /\ call.op \in {"each", "capMap", "compact"}
    BY <1>1, StagedCompacts DEF Inductive, PendingSound
  <1>3. CASE Fail("pool")
    BY <1>1, <1>3, FailResults
  <1>4. CASE Goto("submit") /\ ((Cached /\ UseCached) \/ TakeSet)
    <2>1. call' = [call EXCEPT !.set = NewSet] /\ pc' = "submit"
      BY <1>2, <1>4 DEF Goto, Cached, CachesOp, UseCached, TakeSet
    <2>2. SameArguments /\ call'.set = NewSet /\ call'.stage = call.stage /\ NewSet' = NewSet
      BY <2>1 DEF Inductive, IsCall, NoCall, SameArguments, NewSet
    <2>3. WantSound' /\ Positions(call, before)' = Positions(call, before)
      BY <1>1, <2>1, <2>2, WantKept
    <2>4. \A p : Read(p)' = Read(p)
      BY <1>1 DEF Read, Shared
    <2>5. Arguments' /\ SetIsNew' /\ OutputSound' /\ KeptRight'
      BY <1>1, <1>2, <2>1, <2>2
      DEF Results, Arguments, SetIsNew, OutputSound, KeptRight, Written, SameArguments
    <2>6. (FlagsThere' => FlagsThere) /\ (SumsThere' => SumsThere)
      BY <1>1, <1>2, <2>1, <2>2 DEF FlagsThere, SumsThere
    <2>7. PositionsSound'
      BY <1>1, <2>2, <2>3, <2>4, <2>6 DEF Results, PositionsSound, SameArguments
    <2> QED
      BY <2>3, <2>5, <2>7 DEF Results
  <1> QED
    BY <1>3, <1>4 DEF Bind

LEMMA SubmitResults ==
    ASSUME Faithful, Inductive, Bystanders, Results, Submit
    PROVE  Results'
  <1>1. pc = "submit" /\ UNCHANGED <<case, host, dev, want, before>>
    BY DEF Submit, memVars, ghosts
  <1>2. pending = None /\ call.error = "no" /\ call.stage \in Stages
    BY <1>1 DEF Inductive, PendingSound, ScopesSound, AtDispatch
  <1>3. CASE UNCHANGED pending /\ Fail("device")
    BY <1>1, <1>3, FailResults
  <1>4. CASE /\ pending' = [set |-> call.set, n |-> call.n, stage |-> call.stage]
             /\ Goto(IF call.stage = "only" THEN "exit" ELSE "wait")
             /\ UNCHANGED call
    <2>1. call.set = NewSet /\ NewSet' = NewSet
      BY <1>1, <1>4 DEF Results, SetIsNew, NewSet
    <2>2. pending' # None
      BY <1>4 DEF None
    <2>3. WantSound' /\ Positions(call, before)' = Positions(call, before)
      BY <1>1, <1>4, WantKept DEF SameArguments, Goto
    <2>4. \A p : Read(p)' = Read(p)
      BY <1>1 DEF Read, Shared
    <2>5. Arguments' /\ SetIsNew' /\ KeptRight'
      BY <1>1, <1>2, <1>4, <2>1, <2>2 DEF Results, Arguments, SetIsNew, KeptRight, Goto
    <2>6. OutputSound'
      <3>1. Read(call.out) = before[call.out]
        BY <1>1, <1>2, DeviceReads, StagedCompacts
        DEF Bystanders, HostKept, DevKept, Bystander, Written, Results, Arguments, Faithful,
            Inductive, ScopesSound, AtDispatch, Scopes, Buffers
      <3> QED
        BY <1>1, <1>4, <2>2, <2>4, <3>1 DEF OutputSound
    <2>7. (FlagsThere' => FlagsThere) /\ (SumsThere' => SumsThere)
      BY <1>1, <1>2, <1>4, <2>2 DEF FlagsThere, SumsThere, Goto
    <2>8. PositionsSound'
      BY <1>1, <1>4, <2>3, <2>4, <2>7 DEF Results, PositionsSound
    <2> QED
      BY <2>3, <2>5, <2>6, <2>8 DEF Results
  <1> QED
    BY <1>3, <1>4 DEF Submit

(* What a kernel finds at the caller's input and output. *)
LEMMA InputRead ==
    ASSUME Faithful, Inductive, Bystanders, Results, pending # None
    PROVE  /\ pc \in {"exit", "wait"} /\ call.error = "no"
           /\ Read(call.in) = before[call.in] /\ Read(call.out) = before[call.out]
  <1>1. pc \in {"exit", "wait"} /\ call.error = "no"
    BY DEF Inductive, PendingSound, ScopesSound, AtExit
  <1>2. ~case.uma => depth # 0
    BY <1>1, StagedCompacts DEF Inductive, ScopesSound, AtWait, AtExit, Scopes
  <1>3. call.in \in Arena /\ call.out \in Arena
    BY <1>1 DEF Results, Arguments, Faithful, Buffers
  <1>4. \A p \in Arena : Bystander(p) => Read(p) = before[p]
    BY <1>1, <1>2, DeviceReads DEF Bystanders, HostKept, DevKept, Buffers
  <1> QED
    BY <1>1, <1>3, <1>4 DEF Bystander, Results, OutputSound

LEMMA WriteReads ==
    ASSUME Faithful, MemorySound, NEW q \in Memories, NEW contents, Write(q, contents), case' = case
    PROVE  /\ Read(q)' = contents
           /\ \A p \in Memories : p # q => Read(p)' = Read(p)
  <1>1. /\ case.uma => host' = [host EXCEPT ![q] = contents]
        /\ ~case.uma => dev' = [dev EXCEPT ![q] = contents]
    BY DEF Write, Shared, Faithful
  <1>2. \A p : Read(p)' = IF case.uma THEN host'[p] ELSE dev'[p]
    BY DEF Faithful, Read, Shared
  <1> QED
    BY <1>1, <1>2, DeviceReads DEF MemorySound

(* Each kernel leaves what the next one, or the caller, is to find.          *)
LEMMA ExecuteResults ==
    ASSUME Faithful, Inductive, Bystanders, Results, Execute
    PROVE  Results'
  <1>1. /\ pending # None /\ pending' = None /\ UNCHANGED <<case, pc, call, want, before>>
    BY DEF Execute, ghosts
  <1>2. /\ pc \in {"exit", "wait"} /\ call.error = "no"
        /\ Read(call.in) = before[call.in] /\ Read(call.out) = before[call.out]
    BY <1>1, InputRead
  <1>3. /\ pending.set.in = call.in /\ pending.set.out = call.out /\ pending.set.cap = call.cap
        /\ pending.set.range = call.n /\ pending.n = call.n /\ pending.stage = call.stage
    BY <1>1 DEF Results, SetIsNew, NewSet
  <1>4. pc = "exit" => call.stage = "only"
    BY <1>1 DEF Inductive, ScopesSound, AtExit
  <1>5. /\ call.n \in Indices /\ call.in \in Buffers /\ call.out \in Buffers
        /\ call.stage = "only" => call.op # "compact"
        /\ call.stage \in {"flags", "scan", "scatter"} => call.op = "compact"
    BY <1>2 DEF Results, Arguments
  <1>6. MemorySound /\ Scratch \in Memories /\ Scratch \notin Buffers /\ Buffers \subseteq Memories
    BY LaunchAssumption DEF Bystanders, Memories, Buffers
  <1>7. /\ WantSound' /\ Outcome(call, before)' = Outcome(call, before)
        /\ Positions(call, before)' = Positions(call, before)
    BY <1>1, <1>2, WantKept DEF SameArguments
  <1>8. Arguments' /\ SetIsNew' /\ KeptRight'
    BY <1>1, <1>2 DEF Results, Arguments, SetIsNew, KeptRight
  <1>9. CASE call.stage = "only"
    <2>1. PICK I \in SUBSET (1 .. call.n) :
             /\ InBounds(pending.set, call.n) \subseteq I
             /\ Write(call.out, [i \in Indices |->
                   IF i \in I THEN Add(Read(call.in)[i], call.cap) ELSE Read(call.out)[i]])
      BY <1>3, <1>9 DEF Execute
    <2>2. I = 1 .. call.n
      <3>1. \A i \in 1 .. call.n : i \in InBounds(pending.set, call.n)
        BY <1>3 DEF InBounds, Faithful
      <3> QED
        BY <2>1, <3>1
    <2>3. [i \in Indices |-> IF i \in I THEN Add(Read(call.in)[i], call.cap) ELSE Read(call.out)[i]]
             = Outcome(call, before)
      <3>1. \A i \in Indices : i \in I <=> i <= call.n
        BY <1>5, <2>2, LaunchAssumption DEF Indices
      <3>2. \A i \in Indices :
               (IF i \in I THEN Add(Read(call.in)[i], call.cap) ELSE Read(call.out)[i])
                  = IF i <= call.n THEN Add(before[call.in][i], call.cap) ELSE before[call.out][i]
        BY <1>2, <3>1
      <3> QED
        BY <1>5, <1>9, <3>2 DEF Outcome, Mapped
    <2>4. Read(call.out)' = Outcome(call, before)
      <3>1. PICK q \in Memories : q = call.out
        BY <1>5, <1>6
      <3>2. Write(q, Outcome(call, before))
        BY <2>1, <2>3, <3>1
      <3>3. Read(q)' = Outcome(call, before)
        BY <1>1, <1>6, <3>2, WriteReads
      <3> QED
        BY <1>1, <3>1, <3>3
    <2>5. OutputSound' /\ PositionsSound'
      BY <1>1, <1>7, <1>9, <2>4 DEF OutputSound, PositionsSound, FlagsThere, SumsThere
    <2> QED
      BY <1>7, <1>8, <2>5 DEF Results
  <1>10. CASE call.stage = "flags"
    <2>1. Write(Scratch, Flags(before[call.in], call.n))
      BY <1>2, <1>3, <1>10 DEF Execute
    <2>2. Read(Scratch)' = Flags(before[call.in], call.n)
      BY <1>1, <1>6, <2>1, WriteReads
    <2>3. OutputSound' /\ PositionsSound'
      BY <1>1, <1>10, <2>2 DEF OutputSound, Written, PositionsSound, FlagsThere, SumsThere
    <2> QED
      BY <1>7, <1>8, <2>3 DEF Results
  <1>11. CASE call.stage = "scan"
    <2>1. Read(Scratch) = Flags(before[call.in], call.n)
      BY <1>1, <1>2, <1>4, <1>11 DEF Results, PositionsSound, FlagsThere
    <2>2. Write(Scratch, Positions(call, before))
      BY <1>3, <1>11, <2>1 DEF Execute, Positions
    <2>3. Read(Scratch)' = Positions(call, before)
      BY <1>1, <1>6, <2>2, WriteReads
    <2>4. OutputSound' /\ PositionsSound'
      BY <1>1, <1>2, <1>7, <1>11, <2>3 DEF OutputSound, Written, PositionsSound, FlagsThere, SumsThere
    <2> QED
      BY <1>7, <1>8, <2>4 DEF Results
  <1>12. CASE call.stage = "scatter"
    <2>1. Read(Scratch) = Positions(call, before)
      BY <1>1, <1>2, <1>4, <1>12 DEF Results, PositionsSound, SumsThere
    <2>2. Write(call.out, Outcome(call, before))
      BY <1>2, <1>3, <1>5, <1>12, <2>1 DEF Execute, Outcome
    <2>3. Read(call.out)' = Outcome(call, before)
      <3>1. PICK q \in Memories : q = call.out
        BY <1>5, <1>6
      <3>2. Read(q)' = Outcome(call, before)
        BY <1>1, <1>6, <2>2, <3>1, WriteReads
      <3> QED
        BY <1>1, <3>1, <3>2
    <2>4. OutputSound' /\ PositionsSound'
      BY <1>1, <1>2, <1>7, <1>12, <2>3 DEF OutputSound, PositionsSound, FlagsThere, SumsThere
    <2> QED
      BY <1>7, <1>8, <2>4 DEF Results
  <1> QED
    BY <1>2, <1>5, <1>9, <1>10, <1>11, <1>12 DEF Results, Arguments

LEMMA WaitResults ==
    ASSUME Faithful, Inductive, Bystanders, Results, Wait
    PROVE  Results'
  <1>1. pc = "wait" /\ pending = None /\ call.error = "no"
        /\ UNCHANGED <<case, host, dev, pending, want, before>>
    BY DEF Wait, Synced, memVars, ghosts, Inductive, PendingSound
  <1>2. \A p : Read(p)' = Read(p)
    BY <1>1 DEF Read, Shared
  <1>3. CASE call.stage = "only" /\ Goto("idle") /\ call' = NoCall
    <2>1. pc' = "idle" /\ case.uma
      BY <1>1, <1>3, StagedCompacts DEF Goto
    <2>2. Read(call.out) = Outcome(call, before) /\ call.out \in Buffers
      BY <1>1, <1>3 DEF Results, OutputSound, Written, Arguments
    <2>3. \A p \in Buffers : host[p] = want[p]
      BY <1>1, <2>1, <2>2, DeviceReads DEF Results, WantSound, Bystanders, HostKept, Bystander
    <2>4. Arguments' /\ WantSound'
      BY <1>1, <2>1, <2>3 DEF Results, Arguments, WantSound
    <2>5. SetIsNew' /\ OutputSound' /\ PositionsSound' /\ KeptRight'
      BY <1>1, <2>1 DEF SetIsNew, OutputSound, Written, PositionsSound, FlagsThere, SumsThere, KeptRight
    <2> QED
      BY <2>4, <2>5 DEF Results
  <1>4. CASE call.stage = "flags" /\ Goto("enter") /\ call' = [call EXCEPT !.stage = "scan"]
    <2>1. SameArguments /\ call'.stage = "scan" /\ pc' = "enter"
      BY <1>4 DEF Inductive, IsCall, NoCall, SameArguments, Goto
    <2>2. WantSound' /\ Positions(call, before)' = Positions(call, before)
      BY <1>1, <2>1, WantKept
    <2>3. Read(Scratch) = Flags(before[call.in], call.n)
      BY <1>1, <1>4 DEF Results, PositionsSound, FlagsThere
    <2>4. PositionsSound'
      BY <1>1, <1>2, <2>1, <2>3 DEF PositionsSound, SumsThere, SameArguments
    <2>5. Arguments' /\ SetIsNew' /\ OutputSound' /\ KeptRight'
      BY <1>1, <1>4, <2>1
      DEF Results, Arguments, SetIsNew, OutputSound, Written, KeptRight, SameArguments
    <2> QED
      BY <2>2, <2>4, <2>5 DEF Results
  <1>5. CASE call.stage \in {"scan", "scatter"} /\ Goto("exit") /\ UNCHANGED call
    <2>1. pc' = "exit"
      BY <1>5 DEF Goto
    <2>2. /\ WantSound' /\ Positions(call, before)' = Positions(call, before)
          /\ Outcome(call, before)' = Outcome(call, before)
      BY <1>1, <1>5, <2>1, WantKept DEF SameArguments
    <2>3. Arguments' /\ SetIsNew' /\ KeptRight'
      BY <1>1, <1>5, <2>1 DEF Results, Arguments, SetIsNew, KeptRight
    <2>4. OutputSound'
      BY <1>1, <1>2, <1>5, <2>1, <2>2 DEF Results, OutputSound, Written
    <2>5. PositionsSound'
      BY <1>1, <1>2, <1>5, <2>1, <2>2 DEF Results, PositionsSound, FlagsThere, SumsThere
    <2> QED
      BY <2>2, <2>3, <2>4, <2>5 DEF Results
  <1> QED
    BY <1>3, <1>4, <1>5 DEF Wait

(* The copy back at the end of the outermost scope. *)
LEMMA CopiedBack ==
    ASSUME Faithful, MemorySound, InvalidateFromDevice, case' = case
    PROVE  \A p \in Memories : host'[p] = Read(p) /\ Read(p)' = Read(p)
  <1>1. Migrated = IF case.uma THEN {} ELSE Memories
    BY DEF Migrated, Memories, Buffers, Faithful
  <1>2. \A p \in Memories : host'[p] = IF case.uma THEN host[p] ELSE dev[p]
    BY <1>1 DEF InvalidateFromDevice
  <1>3. \A p : Read(p)' = IF case.uma THEN host'[p] ELSE dev'[p]
    BY DEF Faithful, Read, Shared
  <1> QED
    BY <1>2, <1>3, DeviceReads DEF InvalidateFromDevice

LEMMA ExitResults ==
    ASSUME Faithful, Inductive, Bystanders, Results, Exit
    PROVE  Results'
  <1>1. /\ pc = "exit" /\ UNCHANGED <<case, pending, before>>
        /\ depth \in {1, 2} /\ (depth = 2 => call.stage = "scan")
        /\ pending # None => call.stage = "only" /\ call.error = "no"
        /\ depth = 1 /\ call.error = "no" => call.stage \in {"only", "scatter"}
    BY DEF Exit, fenceVars, Inductive, ScopesSound, AtExit
  <1>2. \A p \in Memories : Read(p)' = Read(p)
    <2>1. CASE depth = 1
      BY <1>1, <2>1, CopiedBack DEF Exit, Bystanders
    <2>2. CASE depth = 2
      BY <1>1, <2>2 DEF Exit, memVars, Read, Shared
    <2> QED
      BY <1>1, <2>1, <2>2
  <1>3. Scratch \in Memories /\ Buffers \subseteq Memories
    BY DEF Memories
  <1>4. call.out \in Buffers /\ call.in \in Buffers
    BY <1>1 DEF Results, Arguments
  <1>5. CASE pc' # "idle"
    <2>1. /\ UNCHANGED <<call, want>> /\ pc' \in {"kept", "exit", "wait"}
          /\ pc' = "kept" => depth = 2 /\ call.error = "no"
          /\ pc' = "exit" => call.error # "no"
          /\ pc' = "wait" => call.error = "no" /\ call.stage = "only"
      BY <1>1, <1>5 DEF Exit, Goto
    <2>2. /\ WantSound' /\ Positions(call, before)' = Positions(call, before)
          /\ Outcome(call, before)' = Outcome(call, before)
      BY <1>1, <1>5, <2>1, WantKept DEF SameArguments
    <2>3. Arguments' /\ SetIsNew' /\ KeptRight'
      BY <1>1, <2>1 DEF Results, Arguments, SetIsNew, NewSet, KeptRight
    <2>4. Written' => Written
      BY <1>1, <2>1 DEF Written
    <2>5. OutputSound'
      BY <1>1, <1>2, <1>3, <1>4, <2>1, <2>2, <2>4 DEF Results, OutputSound
    <2>6. ~FlagsThere' /\ (SumsThere' => SumsThere)
      BY <1>1, <2>1 DEF FlagsThere, SumsThere
    <2>7. PositionsSound'
      BY <1>1, <1>2, <1>3, <2>1, <2>2, <2>6 DEF Results, PositionsSound
    <2> QED
      BY <2>2, <2>3, <2>5, <2>7 DEF Results
  <1>6. CASE pc' = "idle"
    <2>1. /\ depth = 1 /\ pending = None /\ InvalidateFromDevice
          /\ want' = IF call.error = "no" THEN want ELSE before
          /\ call.error = "no" => call.stage = "scatter"
      BY <1>1, <1>6 DEF Exit, Goto
    <2>2. \A p \in Buffers : host'[p] = want'[p]
      <3> SUFFICES ASSUME NEW p \in Buffers PROVE host'[p] = want'[p]
        OBVIOUS
      <3>1. CASE Bystander(p)
        <4>1. host'[p] = before[p]
          BY <3>1, ExitKeeps
        <4> QED
          BY <1>1, <2>1, <3>1, <4>1 DEF Bystander, Written, Results, WantSound
      <3>2. CASE ~Bystander(p)
        <4>1. p = call.out /\ Written
          BY <3>2 DEF Bystander
        <4>2. host'[p] = Outcome(call, before)
          BY <1>1, <1>3, <2>1, <4>1, CopiedBack DEF Results, OutputSound, Bystanders
        <4> QED
          BY <1>1, <2>1, <4>1, <4>2 DEF Written, Results, WantSound
      <3> QED
        BY <3>1, <3>2
    <2>3. WantSound' /\ Arguments'
      BY <1>1, <1>6, <2>1, <2>2 DEF Results, WantSound, Arguments, Bystanders, MemorySound
    <2>4. SetIsNew' /\ OutputSound' /\ PositionsSound' /\ KeptRight'
      BY <1>1, <1>6, <2>1
      DEF SetIsNew, OutputSound, Written, PositionsSound, FlagsThere, SumsThere, KeptRight
    <2> QED
      BY <2>3, <2>4 DEF Results
  <1> QED
    BY <1>5, <1>6

(* The last of the positions is the number of elements kept. *)
LEMMA ReadKeptResults ==
    ASSUME Faithful, Inductive, Bystanders, Results, ReadKept
    PROVE  Results'
  <1>1. /\ pc = "kept" /\ pc' = "bind" /\ pending = None /\ call.error = "no"
        /\ InvalidateFromDevice /\ UNCHANGED <<case, pending, want, before>>
        /\ call' = [call EXCEPT !.kept = host'[Scratch][call.n], !.stage = "scatter"]
    BY DEF ReadKept, Goto, fenceVars, ghosts, Inductive, PendingSound
  <1>2. /\ SameArguments /\ call'.stage = "scatter" /\ call'.kept = host'[Scratch][call.n]
        /\ call'.error = "no"
    BY <1>1 DEF Inductive, IsCall, NoCall, SameArguments
  <1>3. /\ call.stage = "scan" /\ call.op = "compact" /\ call.n \in Indices
    BY <1>1 DEF Inductive, ScopesSound, Results, Arguments
  <1>4. host'[Scratch] = Read(Scratch) /\ Read(Scratch)' = Read(Scratch)
    BY <1>1, CopiedBack DEF Memories, Bystanders
  <1>5. Read(Scratch) = Positions(call, before)
    BY <1>1, <1>3 DEF Results, PositionsSound, SumsThere
  <1>6. Positions(call, before)[call.n] = Count(before[call.in], call.n)
    BY <1>3, PrefixCounts, LaunchAssumption DEF Positions, Indices
  <1>7. WantSound' /\ Positions(call, before)' = Positions(call, before)
    BY <1>1, <1>2, WantKept
  <1>8. KeptRight'
    BY <1>1, <1>2, <1>4, <1>5, <1>6 DEF KeptRight, Count, SameArguments
  <1>9. PositionsSound'
    BY <1>1, <1>2, <1>4, <1>5, <1>7 DEF PositionsSound, FlagsThere
  <1>10. Arguments' /\ SetIsNew' /\ OutputSound'
    BY <1>1, <1>2, <1>3
    DEF Results, Arguments, SetIsNew, OutputSound, Written, SameArguments
  <1> QED
    BY <1>7, <1>8, <1>9, <1>10 DEF Results

(* The application writes between two calls, and another thread to buffers   *)
(* the running call does not use.                                            *)
LEMMA WritesResults ==
    ASSUME Faithful, Inductive, Bystanders, Results, NEW p \in Buffers, NEW i, NEW x,
           HostWrite(p, i, x) \/ OtherWrite(p, i, x)
    PROVE  Results'
  <1>1. UNCHANGED <<case, dev, pending, pc, call>>
    BY DEF HostWrite, OtherWrite, fenceVars
  <1>2. p \in Memories /\ DOMAIN want = Memories /\ DOMAIN host = Memories /\ DOMAIN before = Memories
        /\ p # Scratch /\ Scratch \in Memories
    BY LaunchAssumption DEF Memories, Buffers, Results, WantSound, Bystanders, MemorySound
  <1>3. CASE HostWrite(p, i, x)
    <2>1. pc = "idle" /\ pending = None /\ host' = [host EXCEPT ![p][i] = x] /\ want' = [want EXCEPT ![p][i] = x]
      BY <1>3 DEF HostWrite, Inductive, PendingSound
    <2>2. \A q \in Buffers : host'[q] = want'[q]
      BY <1>2, <2>1 DEF Results, WantSound, Memories
    <2>3. WantSound' /\ Arguments'
      BY <1>1, <1>2, <2>1, <2>2 DEF Results, WantSound, Arguments
    <2>4. SetIsNew' /\ OutputSound' /\ PositionsSound' /\ KeptRight'
      BY <1>1, <2>1
      DEF SetIsNew, OutputSound, Written, PositionsSound, FlagsThere, SumsThere, KeptRight
    <2> QED
      BY <2>3, <2>4 DEF Results
  <1>4. CASE OtherWrite(p, i, x)
    <2>1. /\ pc # "idle" /\ p # call.in /\ p # call.out
          /\ host' = [host EXCEPT ![p][i] = x] /\ want' = [want EXCEPT ![p][i] = x]
          /\ before' = [before EXCEPT ![p][i] = x]
      BY <1>4 DEF OtherWrite
    <2>2. call.in \in Memories /\ call.out \in Memories /\ call.out \in Buffers
      BY <2>1 DEF Results, Arguments, Memories
    <2>3. /\ before'[call.in] = before[call.in] /\ before'[call.out] = before[call.out]
          /\ host'[call.in] = host[call.in] /\ host'[call.out] = host[call.out]
          /\ host'[Scratch] = host[Scratch]
      BY <1>2, <2>1, <2>2
    <2>4. Outcome(call, before)' = Outcome(call, before) /\ Positions(call, before)' = Positions(call, before)
      <3>1. PICK b : b = before'
        OBVIOUS
      <3>2. Outcome(call, b) = Outcome(call, before) /\ Positions(call, b) = Positions(call, before)
        BY <2>3, <3>1, SameOutcome
      <3> QED
        BY <1>1, <3>1, <3>2
    <2>5. /\ Read(call.in)' = Read(call.in) /\ Read(call.out)' = Read(call.out)
          /\ Read(Scratch)' = Read(Scratch)
      BY <1>1, <2>3 DEF Read, Shared
    <2>6. WantSound'
      <3>1. \A q \in Buffers : want'[q] = IF q = call.out THEN Outcome(call, before) ELSE before'[q]
        BY <1>2, <2>1, <2>2 DEF Results, WantSound, Memories
      <3>2. DOMAIN want' = Memories
        BY <1>2, <2>1
      <3>3. \A q \in Buffers :
               want'[q] = IF q = call'.out THEN Outcome(call, before)' ELSE before'[q]
        BY <1>1, <2>4, <3>1
      <3> QED
        BY <1>1, <2>1, <3>2, <3>3 DEF WantSound
    <2>7. Arguments' /\ SetIsNew' /\ KeptRight'
      BY <1>1, <2>1, <2>3 DEF Results, Arguments, SetIsNew, NewSet, KeptRight
    <2>8. OutputSound' /\ PositionsSound'
      BY <1>1, <2>3, <2>4, <2>5
      DEF Results, OutputSound, Written, PositionsSound, FlagsThere, SumsThere
    <2> QED
      BY <2>6, <2>7, <2>8 DEF Results
  <1> QED
    BY <1>3, <1>4

LEMMA NextResults ==
    ASSUME Faithful, Inductive, Bystanders, Results, [Next]_vars
    PROVE  Results'
  <1>1. CASE \E p \in Buffers, i \in Indices, x \in 0 .. V - 1 :
                HostWrite(p, i, x) \/ OtherWrite(p, i, x)
    BY <1>1, WritesResults
  <1>2. CASE \E op \in case.ops, in, out \in Buffers, n \in Indices,
                 c \in Captures \cup {0, 1} : Call(op, in, out, n, c)
    BY <1>2, CallResults
  <1>3. CASE HostStep
    BY <1>3, EnterResults, ResolveResults, ResolveFailsResults, BindResults,
       SubmitResults, WaitResults, ExitResults, ReadKeptResults DEF HostStep
  <1>4. CASE Execute
    BY <1>4, ExecuteResults
  <1>5. CASE UNCHANGED vars
    <2>1. UNCHANGED <<case, host, dev, pending, pc, call, want, before>>
      BY <1>5 DEF vars
    <2> QED
      BY <2>1
      DEF Results, Arguments, SetIsNew, NewSet, WantSound, OutputSound, PositionsSound, KeptRight,
          Written, FlagsThere, SumsThere, Read, Shared, Outcome, Positions
  <1> QED
    BY <1>1, <1>2, <1>3, <1>4, <1>5 DEF Next

(* For any number of buffers of any length and any captured values: after    *)
(* every sequence of calls, with kernels that run late, other threads        *)
(* writing, and calls that fail at any point, the caller finds what the      *)
(* sequential algorithms would have left, and a compaction counts what it    *)
(* kept.  It holds of arena buffers and the operations of RightOps, and of   *)
(* no other: the runs MCLaunchCaptures and MCLaunchDiscrete show two of the  *)
(* rest to differ.                                                           *)
THEOREM ResultsSequential == Faithful => (Spec => []FunnelCorrect)
  <1> SUFFICES ASSUME Faithful PROVE Spec => []FunnelCorrect
    OBVIOUS
  <1>1. Inductive /\ Bystanders /\ Results /\ [Next]_vars => Results'
    BY NextResults
  <1>2. Results => FunnelCorrect
    BY DEF Results, WantSound, FunnelCorrect
  <1> QED
    BY <1>1, <1>2, InitBystanders, NextBystanders, InitResults, InductiveHolds, PTL DEF Spec
==============================================================================
