---------------------------- MODULE KernelLaunch ----------------------------
(***************************************************************************)
(* The launch protocol of src/kernel/kernel_launcher.cpp behind the C API  *)
(* of cache.cpp: the migration scope around an operation, buffer           *)
(* resolution, the descriptor-set cache and pool, the fence, and the GPU,  *)
(* which runs a submitted kernel at some time of its own.                  *)
(*                                                                         *)
(* A buffer is named by the host pointer callers pass.  Arena buffers have *)
(* one memory on a UMA device, and a staging copy (host) and a device copy *)
(* (dev) on a discrete one; an external buffer has the application's       *)
(* memory (host) and the Vulkan buffer it was registered with (dev).       *)
(* Kernels: an element-wise x + 1, or x + the captured value, and the      *)
(* three kernels of a stream compaction that keeps the positive elements.  *)
(***************************************************************************)
EXTENDS Integers, FiniteSets, SequencesExt

CONSTANTS
    Arena,          \* pointers the callers hold into the arena
    External,       \* pointers to memory outside it
    Scratch,        \* the arena block a compaction allocates for positions
    Cases,          \* the device (uma: arena->uma()), the operations callers use, and
                    \* whether another thread works on its own buffers meanwhile (others)
    Captures,       \* the captured values callers pass
    Length,         \* elements in every buffer
    V,              \* element arithmetic is modulo V
    MaxSets         \* maxSets of the descriptor pool

None == [set |-> 0]

ASSUME LaunchAssumption ==
    /\ Scratch \notin Arena \cup External /\ Arena \cap External = {}
    /\ Cases \subseteq [uma : BOOLEAN, others : BOOLEAN,
                        ops : SUBSET {"each", "capEach", "map", "capMap", "compact"}]
    /\ V \in Nat \ {0} /\ Captures \subseteq 0 .. V - 1
    /\ Length \in Nat \ {0} /\ MaxSets \in Nat

Buffers  == Arena \cup External
Memories == Buffers \cup {Scratch}
Indices  == 1 .. Length

VARIABLES
    case,           \* the member of Cases this behaviour is about
    host,           \* what the host reads at each pointer
    dev,            \* the separate device copy, where there is one
    regd,           \* the elements an external buffer was registered with, 0: not yet
    cache,          \* descriptor_cache_
    sets,           \* descriptor sets taken from descriptor_pool_
    depth,          \* g_arena_sync_depth
    pending,        \* the submitted kernel that has not run
    fence,          \* fence_ is signalled
    flag,           \* fence_signaled_
    pc, call,       \* where the caller is, its arguments and locals
    want,           \* ghost: host memory had the successful calls run sequentially
    before,         \* ghost: host memory when the call was made
    failed          \* ghost: why the first call that failed did, or "no"

memVars   == <<host, dev>>
setVars   == <<cache, sets>>
fenceVars == <<pending, fence, flag>>
ghosts    == <<want, before, failed>>
vars == <<case, host, dev, regd, cache, sets, depth, pending, fence, flag, pc, call,
          want, before, failed>>

NoCall == [op |-> "none", in |-> Scratch, out |-> Scratch, n |-> 0, cap |-> 0,
           stage |-> "none", set |-> None, error |-> "no", kept |-> 0]

-------------------------------------------------------------------------------
(* What the kernels compute from the contents of their buffers, for the      *)
(* first n elements.                                                         *)

Add(x, c) == (x + c) % V

Mapped(in, out, n, c) == [i \in Indices |-> IF i <= n THEN Add(in[i], c) ELSE out[i]]

Flags(in, n) == [i \in Indices |-> IF i <= n /\ in[i] > 0 THEN 1 ELSE 0]

Prefix(s, n) ==
    LET sum[i \in 0 .. n] == IF i = 0 THEN 0 ELSE sum[i - 1] + s[i]
    IN  [i \in Indices |-> IF i <= n THEN sum[i] ELSE s[i]]

Scatter(in, out, pos, n) ==
    LET at(i)   == IF i = 0 THEN 0 ELSE pos[i]
        to(k)   == {i \in 1 .. n : at(i) - at(i - 1) = 1 /\ at(i) = k}
    IN  [k \in Indices |-> IF to(k) = {} THEN out[k] ELSE in[CHOOSE i \in to(k) : TRUE]]

(* The sequential meaning of an operation on host memory. *)
Sequential(c, m) ==
    IF c.op = "compact"
    THEN [m EXCEPT ![c.out] = Scatter(m[c.in], @, Prefix(Flags(m[c.in], c.n), c.n), c.n)]
    ELSE [m EXCEPT ![c.out] = Mapped(m[c.in], @, c.n, c.cap)]

-------------------------------------------------------------------------------
(* Where the device reads and writes a buffer. *)

Shared(p) == case.uma /\ p \notin External
Read(p)   == IF Shared(p) THEN host[p] ELSE dev[p]

Write(p, contents) ==
    IF Shared(p) THEN host' = [host EXCEPT ![p] = contents] /\ UNCHANGED dev
                 ELSE dev' = [dev EXCEPT ![p] = contents] /\ UNCHANGED host

Migrated == IF case.uma THEN {} ELSE Arena \cup {Scratch}

FlushSkipped == UNCHANGED memVars

FlushToDevice ==
    /\ dev' = [p \in Memories |-> IF p \in Migrated THEN host[p] ELSE dev[p]]
    /\ UNCHANGED host

InvalidateFromDevice ==
    /\ host' = [p \in Memories |-> IF p \in Migrated THEN dev[p] ELSE host[p]]
    /\ UNCHANGED dev

Zeros == [i \in Indices |-> 0]

Init ==
    /\ case \in Cases
    /\ host = [p \in Memories |-> Zeros] /\ dev = host
    /\ regd = [p \in External |-> 0]
    /\ cache = [k \in {"each", "capEach", "map"} \X Buffers |-> None] /\ sets = 0
    /\ depth = 0
    /\ pending = None /\ fence = TRUE /\ flag = TRUE
    /\ pc = "idle" /\ call = NoCall
    /\ want = host /\ before = host /\ failed = "no"

Goto(l) == pc' = l

(* The application writes its data between two calls. *)
HostWrite(p, i, x) ==
    /\ pc = "idle"
    /\ host' = [host EXCEPT ![p][i] = x]
    /\ want' = [want EXCEPT ![p][i] = x]
    /\ UNCHANGED <<case, dev, regd, setVars, depth, fenceVars, pc, call, before, failed>>

(* Another thread writes to a buffer that the running call does not use.     *)
OtherWrite(p, i, x) ==
    /\ pc # "idle" /\ case.others
    /\ p \notin {call.in, call.out}
    /\ host' = [host EXCEPT ![p][i] = x]
    /\ want' = [want EXCEPT ![p][i] = x]
    /\ before' = [before EXCEPT ![p][i] = x]
    /\ UNCHANGED <<case, dev, regd, setVars, depth, fenceVars, pc, call, failed>>

(* A call of the C API.  In-place operations have one buffer; a compaction   *)
(* is called with two different ones.                                        *)
Call(op, in, out, n, c) ==
    /\ pc = "idle"
    /\ op \in {"each", "capEach"} => in = out
    /\ op = "compact" => in # out
    /\ c = IF op \in {"capEach", "capMap"} THEN c ELSE IF op = "compact" THEN 0 ELSE 1
    /\ call' = [NoCall EXCEPT !.op = op, !.in = in, !.out = out, !.n = n, !.cap = c,
                              !.stage = IF op = "compact" THEN "flags" ELSE "only"]
    /\ want' = Sequential(call', want)
    /\ before' = host
    /\ Goto("enter")
    /\ UNCHANGED <<case, memVars, regd, setVars, depth, fenceVars, failed>>

Outermost == depth = 0

(* ArenaSyncScope(): only the outermost scope migrates. *)
Enter ==
    /\ pc = "enter"
    /\ depth' = depth + 1
    /\ IF Outermost THEN FlushToDevice ELSE UNCHANGED memVars
    /\ \/ call.stage \in {"only", "flags"} /\ Goto("resolve")
       \/ call.stage = "scan" /\ Goto(IF call.n > 1 THEN "bind" ELSE "exit")
    /\ UNCHANGED <<case, regd, setVars, fenceVars, call, ghosts>>

ToRegister == {p \in {call.in, call.out} \cap External : regd[p] = 0}

(* Arena pointers bind in place.  An external pointer that is not yet known  *)
(* gets a Vulkan buffer and its contents are copied once.                    *)
Resolve ==
    /\ pc = "resolve"
    /\ regd' = [p \in External |-> IF p \in ToRegister THEN call.n ELSE regd[p]]
    /\ dev' = [p \in Memories |->
                 IF p \in ToRegister
                 THEN [i \in Indices |-> IF i <= call.n THEN host[p][i] ELSE dev[p][i]]
                 ELSE dev[p]]
    /\ Goto("bind")
    /\ UNCHANGED <<case, host, setVars, depth, fenceVars, call, ghosts>>

Fail(why) == Goto("exit") /\ call' = [call EXCEPT !.error = why]

(* A Vulkan buffer or the positions scratch cannot be allocated. *)
ResolveFails ==
    /\ pc = "resolve"
    /\ ToRegister # {} \/ call.op = "compact"
    /\ Fail("device")
    /\ UNCHANGED <<case, memVars, regd, setVars, depth, fenceVars, ghosts>>

(* A descriptor set as it is written: what the kernel finds at its bindings. *)
NewSet == [set |-> 1, in |-> call.in, out |-> call.out, range |-> call.n, cap |-> call.cap]

Key == <<call.op, call.out>>

CachesOp(op) == op \in {"each", "capEach", "map"}

Cached == CachesOp(call.op) /\ cache[Key] # None

UseSetAsFound == call' = [call EXCEPT !.set = cache[Key]] /\ UNCHANGED setVars

(* launch() writes its set again on a hit; launch_transform() and            *)
(* launch_with_captures() use it as it was written.                          *)
UseCached ==
    LET s == IF call.op = "each" THEN NewSet ELSE cache[Key]
    IN  /\ call' = [call EXCEPT !.set = s]
        /\ cache' = [cache EXCEPT ![Key] = s]
        /\ UNCHANGED sets

(* A set from the pool; kept in the cache unless its captures vary. *)
TakeSet ==
    /\ sets < MaxSets
    /\ sets' = sets + 1
    /\ call' = [call EXCEPT !.set = NewSet]
    /\ cache' = IF CachesOp(call.op) THEN [cache EXCEPT ![Key] = NewSet] ELSE cache

Bind ==
    /\ pc = "bind"
    /\ \/ Cached /\ UseCached /\ Goto("submit")
       \/ ~Cached /\ TakeSet /\ Goto("submit")
       \/ ~Cached /\ sets = MaxSets /\ Fail("pool") /\ UNCHANGED setVars
    /\ UNCHANGED <<case, memVars, regd, depth, fenceVars, ghosts>>

FlagLowered == flag' = FALSE
FlagKept    == flag' = TRUE

NotWaited == TRUE
Synced    == flag \/ fence

(* sync(), vkResetFences, and a vkQueueSubmit that succeeds or does not.     *)
(* fence_signaled_ is cleared only once a submission will signal the fence.  *)
Submit ==
    /\ pc = "submit"
    /\ Synced
    /\ fence' = FALSE
    /\ \/ /\ pending' = [set |-> call.set, n |-> call.n, stage |-> call.stage]
          /\ flag' = FALSE
          /\ Goto(IF call.stage = "only" THEN "exit" ELSE "wait")
          /\ UNCHANGED call
       \/ /\ UNCHANGED pending
          /\ FlagKept
          /\ Fail("device")
    /\ UNCHANGED <<case, memVars, regd, setVars, depth, ghosts>>

(* The elements inside every bound range and every Vulkan buffer. *)
InBounds(s, n) ==
    {i \in 1 .. n : /\ i <= s.range
                    /\ \A p \in {s.in, s.out} \cap External : i <= regd[p]}

(* The GPU runs the pending kernel.  An access outside a binding is          *)
(* undefined (robustBufferAccess is not enabled): it happens or it does not. *)
Execute ==
    /\ pending # None
    /\ LET s == pending.set
           n == pending.n
       IN  \/ /\ pending.stage = "only"
              /\ \E I \in SUBSET (1 .. n) :
                    /\ InBounds(s, n) \subseteq I
                    /\ Write(s.out, [i \in Indices |->
                              IF i \in I THEN Add(Read(s.in)[i], s.cap) ELSE Read(s.out)[i]])
           \/ /\ pending.stage = "flags"
              /\ Write(Scratch, Flags(Read(s.in), n))
           \/ /\ pending.stage = "scan"
              /\ Write(Scratch, Prefix(Read(Scratch), n))
           \/ /\ pending.stage = "scatter"
              /\ Write(s.out, Scatter(Read(s.in), Read(s.out), Read(Scratch), n))
    /\ pending' = None
    /\ fence' = TRUE
    /\ UNCHANGED <<case, regd, setVars, depth, flag, pc, call, ghosts>>

(* sync(): in the C API after launch returned, and in every dispatch of a    *)
(* primitive.  A compaction's next stage follows; the scan has its own scope. *)
Wait ==
    /\ pc = "wait"
    /\ Synced
    /\ flag' = TRUE
    /\ \/ call.stage = "only" /\ Goto("idle") /\ call' = NoCall
       \/ call.stage = "flags" /\ Goto("enter") /\ call' = [call EXCEPT !.stage = "scan"]
       \/ call.stage \in {"scan", "scatter"} /\ Goto("exit") /\ UNCHANGED call
    /\ UNCHANGED <<case, memVars, regd, setVars, depth, pending, fence, ghosts>>

DepthAfterFailure == IF call.error = "no" THEN depth - 1 ELSE depth
DepthAfter        == depth - 1

(* ~ArenaSyncScope(): leaving the outermost scope migrates back, whether the *)
(* operation succeeded or not and whether its kernel has run or not.         *)
Exit ==
    /\ pc = "exit"
    /\ depth' = DepthAfter
    /\ IF depth = 1 THEN InvalidateFromDevice ELSE UNCHANGED memVars
    /\ \/ /\ depth > 1 /\ call.error = "no"
          /\ Goto("kept") /\ UNCHANGED <<call, want, failed>>
       \/ /\ depth > 1 /\ call.error # "no"
          /\ Goto("exit") /\ UNCHANGED <<call, want, failed>>
       \/ /\ depth <= 1 /\ call.error = "no" /\ call.stage = "only"
          /\ Goto("wait") /\ UNCHANGED <<call, want, failed>>
       \/ /\ depth <= 1 /\ (call.error # "no" \/ call.stage # "only")
          /\ Goto("idle") /\ call' = NoCall
          /\ failed' = IF failed = "no" THEN call.error ELSE failed
          /\ want' = IF call.error = "no" THEN want ELSE before
    /\ UNCHANGED <<case, regd, setVars, fenceVars, before>>

(* launch_compact brings the scanned positions back and reads the last one. *)
ReadKept ==
    /\ pc = "kept"
    /\ InvalidateFromDevice
    /\ call' = [call EXCEPT !.kept = host'[Scratch][call.n], !.stage = "scatter"]
    /\ Goto("bind")
    /\ UNCHANGED <<case, regd, setVars, depth, fenceVars, ghosts>>

HostStep == Enter \/ Resolve \/ ResolveFails \/ Bind \/ Submit \/ Wait \/ Exit \/ ReadKept

Next ==
    \/ \E p \in Buffers, i \in Indices, x \in 0 .. V - 1 : HostWrite(p, i, x) \/ OtherWrite(p, i, x)
    \/ \E op \in case.ops, in, out \in Buffers, n \in Indices, c \in Captures \cup {0, 1} :
          Call(op, in, out, n, c)
    \/ HostStep
    \/ Execute

Spec == Init /\ [][Next]_vars

(* The calling thread goes on, and a submitted kernel is eventually run. *)
FairSpec == Spec /\ WF_vars(HostStep) /\ WF_vars(Execute)

-------------------------------------------------------------------------------
(* The number of elements kept that launch_compact reports, and hands to the *)
(* partition scatter, is read from the positions of this call's scan.        *)
KeptRight ==
    pc = "bind" /\ call.stage = "scatter" =>
        call.kept = Cardinality({i \in 1 .. call.n : before[call.in][i] > 0})

(* What the caller finds in memory when a call has returned, and the count   *)
(* it is given, are those of the sequential algorithm: the kernel worked on  *)
(* the data, the range and the captures of this call and its result has come *)
(* back to the host; what other threads wrote meanwhile is still there; a    *)
(* call that failed has changed nothing (stdpar.hpp:12-17).                  *)
FunnelCorrect == KeptRight /\ (pc = "idle" => \A p \in Buffers : host[p] = want[p])

(* A call changes no buffer but its output, although a staged device copies  *)
(* the whole arena in both directions around it; a call that failed before   *)
(* its kernel was submitted changes none.                                    *)
BystandersKept ==
    [][pc # "idle" /\ pc' = "idle" =>
          \A p \in Buffers : p # call.out \/ call.error # "no" => host'[p] = before[p]]_vars

(* Every way out of an operation, the failures in a nested one included,     *)
(* leaves the migration depth at zero, so that the next call migrates, and   *)
(* leaves no kernel running on memory the caller may now touch.              *)
ScopeBalanced == pc = "idle" => depth = 0 /\ pending = None

(* No descriptor set is written, command buffer reset or intermediate result *)
(* read while a kernel that uses them may be running.                        *)
InFlightUntouched == pc \in {"resolve", "bind", "submit", "kept"} => pending = None

(* A kernel is dispatched, or the host loop runs instead, as long as the     *)
(* device works (stdpar.hpp:16-17: "a hit dispatches to the GPU, a miss runs *)
(* the ISO sequential loop (correct either way)").                           *)
DispatchesWhileDeviceWorks == failed # "pool"

(* Every call returns: no failure path leaves sync() waiting for a fence     *)
(* that nothing will signal.                                                 *)
CallReturns == pc # "idle" ~> pc = "idle"
==============================================================================
