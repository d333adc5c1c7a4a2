# Verification of the Parallax runtime

TLA+ modules, TLC configurations and TLAPS proofs for the runtime in `src/`. The
runtime gives C++ parallel algorithms a GPU through Vulkan: a heap pool or an arena
makes memory visible to the device, funnels in a header choose between the device and
the host loop, a launcher binds buffers and submits kernels, and multi-dispatch
primitives (reduce, scan, compaction, sort, searches) are built from them.

## 1. Inventory

Paths are relative to `src/`. *Modelled* names the modules of this directory.

| Component | Source | State it keeps | Operations | Modelled |
|---|---|---|---|---|
| Heap pool | `src/memory/heap_pool.cpp` | blocks with boundary tags in one mmap, bins, high-water mark, spinlock, published base and length | `px_pool_init/alloc/free/realloc/usable_size/contains/base/reservation/check` | `HeapPool` |
| Arena sub-allocator | `src/memory/arena.cpp` | bump pointer, high-water mark, free list, live map, Vulkan objects, staging buffers | `initialize`, `initialize_from_pool`, `allocate`, `deallocate`, `destroy`, `flush_to_device`, `invalidate_from_device` | `UnifiedArena` (own buffer), `Runtime` (Vulkan objects, import, fallback), `KernelLaunch` (copies) |
| Kernel launcher | `src/kernel/kernel_launcher.cpp` | pipelines, descriptor cache and pool, command buffer, fence and its flag, migration depth, transient buffers | `load_kernel`, `launch`, `launch_transform`, `launch_with_captures`, `sync`, primitives | `KernelLaunch` |
| Parallel primitives | same file, `shaders/*.comp` | scratch blocks during a call | `launch_reduce/scan/exclusive_scan/sort/argminmax/find/mismatch` | `Workgroups`, `Reduction`, `PrefixScan`, `BitonicSort`, `BlockSearch` |
| Compaction kernels | same file, `launch_compact` | positions and nested block sums during a call | flags, nested scan, kept count, scatter (copy_if, partition) | `Compaction`, `KernelLaunch` |
| C API and registry | `src/kernel/cache.cpp` | kernel registry, handles, the launcher singleton | register, lookup, load, one launch function per kind | `Funnels` (registry and lookup), `KernelLaunch` (wait and mark after a launch), `Runtime` (launcher) |
| Funnels | `include/parallax/stdpar.hpp` | a static kernel handle per instantiation | `device_invoke`, `device_transform`, `device_sort`, ... | `Funnels`, `BitonicSort` (`device_sort`) |
| External buffers | `src/memory/unified_buffer.cpp` | registered buffers, dirty blocks | allocate, deallocate, register, `sync_before_kernel`, `sync_after_kernel` | `ProcessMemory` (ownership of addresses), `KernelLaunch` (registration and copies) |
| Heap capture | `src/memory/heap_capture.cpp` | none of its own | `operator new/delete`, malloc family | `ProcessMemory` |
| Initialisation | `src/memory/unified_allocator.cpp` | singletons, re-entrancy flags | `get_global_*`, `parallax_arena_*`, `umalloc/ufree` | `Runtime`, `ProcessMemory` |
| Vulkan backend | `src/backend/vulkan/device.cpp` | driver objects | `initialize`, destructor | `Runtime` (order of creation, failure, destruction) |
| Other shaders, tests, build files | `shaders/`, `tests/` | none | none | no |

How they interact. `operator new` (heap capture) takes memory from the heap pool. The
arena imports the pool as one device buffer, or owns a buffer it sub-allocates; on a
discrete device it is a host staging buffer and a device buffer, copied whole. A
funnel looks its kernel up in the registry and calls the C API with pool pointers or
staged copies. The C API calls the launcher, which asks the arena (or the memory
manager) where a pointer lies, takes or finds a descriptor set, submits, and waits on
one fence. A primitive does this several times with scratch from the arena, and may
call another one; `ArenaSyncScope` makes only the outermost operation migrate data.
The singletons behind all this are built on first use, and building them allocates,
which under interposition asks for the same singletons again.

Where it is hard: threads share the pool; the device runs a submitted kernel at a time
of its own, and its workgroups in any order; cached descriptor sets outlive the call
that wrote them; dispatches fail in the middle of a multi-dispatch operation;
resources are taken per dispatch; initialisation is re-entered, fails and is tried
again; pointers of three allocators meet in one `free`; arithmetic on sizes is unsigned
and unchecked. `PROJECT.json` lists each hazard at its line.

What makes each part correct:

* **Heap pool** - blocks tile the reservation, bins list exactly the free ones, no
  object overlaps another or is lost, data survives, the lock comes back.
* **Arena** - no byte has two owners, everything lies in the copied range, offsets
  are valid descriptor offsets, a block has room for its request.
* **Launcher** - after every call host memory is what the sequential algorithm leaves,
  through failures; nothing in use by a running kernel is touched; a call changes only
  its output; calls return.
* **Primitives and compaction** - every element counts exactly once for every length
  and order of workgroups; scratch is large enough and comes back; workgroups of one
  dispatch do not disturb each other; recursion and loops end.
* **Funnels** - however a call is routed the operation is applied once, the input
  survives, staging blocks come back.
* **Heap capture, external buffers** - a pointer goes back to the allocator that made
  it, and a block keeps its contents until then.
* **Initialisation, backend** - nothing is built on a device that is not there, once at
  a time, and a failure leaves nothing behind but the chance to try again.

## 2. Modules

| Module | What it is |
|---|---|
| `RegionAllocator` | abstract: grants disjoint ranges of one region |
| `HeapPool` | `heap_pool.cpp`, implements `RegionAllocator` |
| `UnifiedArena` | the arena's own sub-allocator, implements `RegionAllocator` |
| `KernelLaunch` | the launcher behind the C API, the two memories and the GPU |
| `Workgroups` | what one workgroup of the reduction and scan kernels computes |
| `Reduction` | `launch_reduce`, workgroups interleaved |
| `PrefixScan` | `launch_scan` and `launch_exclusive_scan` at any depth, workgroups interleaved |
| `Compaction` | `launch_compact`, composed from the steps of `PrefixScan` |
| `BitonicSort` | `device_sort`, `launch_sort` and the bitonic kernel, invocations interleaved |
| `BlockSearch` | argmin, argmax, find, mismatch: block winners and the host's combination |
| `Funnels` | lookup, routing, staging and host loop of the other funnels |
| `Runtime` | the singletons and their Vulkan objects, from first use to exit |
| `ProcessMemory` | extends `Runtime`: the program's memory among pool, glibc and manager |
| `*Proofs` | theorems about the module named (section 5) |
| `MC*` | bounds for TLC |

A definition whose name is a variation of its neighbour's (`BinRemoveOneWay`,
`OtherBlock`/`SameBlock`, `Loaded`/`LoadedUnguarded`, `LinkedFirst`/`ExitOrder`) is a
plausible slip in that piece of code, kept to show that the properties notice it. It is
not part of the model.

### HeapPool
State: the words of the reservation (`mem`), the bin heads, `g_high`, initialisation,
the published base and length, the lock holder, a program counter and locals per
thread, and the ghost `objs` of what callers hold. One action per stretch of code
between visible effects: `Alloc` and `PoolInit` take the lock, `MapRegion` maps (or fails) and
publishes the length, `Publish` the base, `Scan` walks the bins, `CarveBlock` splits,
writes the back-pointer and unlocks, `Fill` is the caller's write, `Free`, and
`Realloc`/`Relock`/`Copy`/`FreeOld` for the four separate steps of a
reallocation that moves. What runs under the lock without a lock-free observer is one
step. `g_check` only reads and is an invariant here. A bin list is a function from places
to blocks, `Null` after the last (`BinList`); the scan takes the first place of a block
that fits (`FirstFit`). Alignments go up to 2^30.

### UnifiedArena
`bump_`, `high_water_`, `free_list_` in order and `live_`; each call is one step
because of the mutex. A pointer is its offset. Unsigned arithmetic is modulo `SizeMod`.
`asked` in a live block is a ghost. `deallocate` is called with any offset, so double
frees and foreign pointers occur. An arena backed by the pool hands its calls to
`HeapPool`.

### KernelLaunch
`host` and `dev` are the contents of the two memories; for an arena buffer on a UMA
device only `host` is used. `Enter`/`Exit` are the constructor and destructor of
`ArenaSyncScope`, `Resolve` finds or registers buffers, `Bind` finds or takes a
descriptor set, `Submit` waits for the earlier kernel, resets the fence and submits or
fails, `Execute` is the GPU, `Wait` is `sync()`. A compaction goes through them for
flags, nested scan and scatter; `ReadKept` is the host read in between. The migration of
the whole used range is a copy of every arena buffer. One thread calls; `OtherWrite` is
a second thread that works on its own buffers meanwhile. A compaction gets two different
buffers, as the interface requires. Elements are residues modulo `V`; kernels add a
constant or a captured value, keep positive elements, scan, scatter.

`Cases` is a set of records: the device (`uma`), whether another thread works (`others`)
and which operations are called (`ops`); each behaviour is about one of them. Ghosts:
`want` is sequential execution, `before` the host memory at the call, `failed` why the
first failing call failed.

### Workgroups, Reduction, PrefixScan, Compaction
An element is a bag of input positions and addition is bag union, so equality with the
expected bag means that exactly the right inputs were added, each once - more than any
test with numbers shows. Each workgroup loads in one step and stores in another; between
them the others run. Lock-step within a workgroup is given by its barriers.
Scratch starts with a stale element so that a read of unwritten memory shows.

`bufs` is the stack of arrays of the nested scans: `bufs[1]` the data, `bufs[i + 1]`
the block sums of level `i`. `Compaction` writes the flags into the array the scan then
works on, lets the scan's own actions run to their end or failure, reads the kept count
as the size of the last position's bag, and scatters, workgroup by workgroup. Plain
scans are among its behaviours, so run `compaction` checks both modules.

### BitonicSort
Elements are `0 .. Top`; each invocation of a stage is a step. `sets` starts at any value,
since earlier operations have taken sets from the same pool.
The run takes arrays of zeros and ones: by the 0-1 principle a network of
compare-exchanges that sorts all of them sorts every array of that length. The proof in
section 5 is for any elements. `Top = 1` is used where padding is not above `Top`. `line`
is where `device_sort` or `launch_sort` is.

### BlockSearch
Every workgroup writes its block's winner into scratch (`dev`), in any order and in its
own step; the host reads its copy and combines. `AsDouble` is the conversion in the host's
comparison: integers up to `Exact` (2^53 in the code) keep a value of their own. Stale
winners stand in the scratch before, as left by an earlier search. The width of a
workgroup and the number of blocks are those of `Workgroups`; `Best[g]` is what the host's
loop has after `g` blocks, `step` where the launcher's function is.

### Funnels
`Shape` tabulates how the nine funnels differ: number of staging blocks, which arrays
must lie in the arena for the direct route, where the result goes, whether only kept
elements are copied out, whether functors with captures are offloaded. One call goes
through `Lookup` (with the function-local statics in `handle`), `Bind` or `Stage` and
`Launch`, `Fold` for the second step of a map-reduce, `CopyOut`, or `Host`. The contents of an
array are the number of times the operation has been applied to it. Kernels register at
any time; loads, allocations and launches fail at any time.

### Runtime
`stack` is the stack of initialising calls, since each of them can be interrupted by an
allocation that asks for the arena. `objects` are the four global pointers, `live` the
Vulkan objects with their owner. `InitStage` is one call of `VulkanBackend::initialize()`,
`ArenaPart` one of `initialize_from_pool` or `initialize`; each may fail and then goes
through the code's clean-up. `Destroy` is static destruction in the order the linker and
the definitions give. A failed initialisation is followed by any number of others.

### ProcessMemory
Addresses belong to the pool, to glibc or to mapped Vulkan memory; the pool is the
abstract allocator that `HeapPool` implements. Actions: `Malloc` (and `operator new`),
`Calloc`, `ForeignAlloc` (prebuilt code and allocations before interposition), `Write`,
`Free`, `Realloc`, `Umalloc`, `Ufree`, `Register`. Ghosts: `held` the program's blocks
and what it stored in them, `stranded` the blocks given back in vain, `corrupt` that an
allocator was given an address that is not its own.

## 3. Runs

| Run | Question | Bounds |
|---|---|---|
| `heap_pool` | structure, data, lock and refinement of the pool | 2 threads, 2 objects, 176 bytes, 4 bins, requests of 0, 8 and 40 bytes, alignment 24, reallocations to 8 and 60; symmetric threads |
| `arena` | overlap, copied range, alignment, room, refinement | 14 bytes in units of 2, sizes up to beyond capacity, two alignments |
| `launch` | sequential results, and calls return | two arena buffers of two bits, 4 descriptor sets; UMA with for_each, capturing transform and compaction, with and without a second thread; discrete with compaction |
| `launch_all` | scope, resources in flight, bystanders | all five operations, an arena and an external buffer of one bit, discrete, 3 sets |
| `reduction` | exactness, scratch, levels, end | W = 4, 0 to 18 elements |
| `compaction` | scans, compaction, workgroups, scratch | W = 4, 0 to 18 elements, five predicates |
| `sort` | sorted, nothing lost in place, returns | all 0-1 arrays of lengths 1, 2, 3, 5, 8; 6 sets; failures at every stage |
| `block_search` | the answer is the sequential one | W = 2, all arrays of up to 6 elements of three values (so all ties across three blocks) |
| `funnels` | applied once, input kept, staging back | room for three staging blocks; programs with every pair of the nine funnels |
| `process_memory` | initialisation, exit, routing of pointers, contents | two pool addresses (symmetric), one of glibc, one mapped; two values |

The bounds reach every branch: a pool of 176 bytes holds two allocated blocks and a free
one in each order, and both kinds of carving; 18 elements with W = 4 give 5, 2 and 1
groups, three levels with a partial last group at each; 3 or 4 descriptor sets allow
calls after exhaustion as well as before; three blocks of staging are one less than two
funnels with two blocks each, so the second gets one, and none once blocks were lost;
two pool addresses and one of glibc give exhaustion, fallback and a block that moves
between the two. Each property has been seen to fail on a slip of the code it is about
(`mutants` in `PROJECT.json`). The larger spaces are `launch` (0.9 million states) and
`launch_all` (2.8 million).

Deadlock checking stays on in every run; modules whose operation ends have a `Stopped`
stutter.

### Disagreements between the code and what it says of itself
Two runs end with a violation; each quotes a line of the sources in `PROJECT.json`.

| Run | What it shows |
|---|---|
| `launch_discrete` | `launch()` migrates back before its kernel was waited for |
| `launch_captures` | a cached set keeps the captures of the first call |

The models show more of the same kind when their constants are changed as said here.
The cases of the launcher are definitions in `MCKernelLaunch.tla`.

* `DispatchesWhileDeviceWorks` as the invariant of `MCLaunchAll.cfg`: descriptor sets are
  taken per dispatch and never freed; later calls fail although the device works.
* `Uma({"map"})` with two arena buffers in `MCLaunchCaptures.cfg`: a cached set of
  `launch_transform`, keyed by the output alone, keeps the input of the first call.
* `Arena = {}`, `External = {ext}` and `Uma({"each"})` there: an external buffer is
  uploaded once and never downloaded (`sync_after_kernel` only marks it); memory freed
  and allocated again at its address keeps the old registration.
* `others |-> TRUE` with `uma |-> FALSE`, `{"compact"}` and three arena buffers, for an
  `MCKernelLaunch` that extends `KernelLaunch` instead of `KernelLaunchProofs` (whose
  assumption excludes this): the copy back of the whole arena loses what another thread
  wrote meanwhile.
* Requests within the overhead of `SizeMod`, `<<4090, 16>>` in `MCHeapPool` (extending
  `HeapPool`, without the assumption `RequestsInRange` that excludes it) or a size of 63
  for `UnifiedArena` (without `InRange`): the unchecked sums wrap and a block too small is
  returned.
* `Top = 2`, above `MaxValue`, and `Counts = {3}` in `MCSort.cfg`: infinity sorts
  behind the padding and is cut off.
* `Bits = 3`, `Counts = {4}` in `MCSort.cfg`: the schedule never ends (2^31 elements
  with the 32-bit variable of the code).
* A padded sort whose dispatch fails half-way: `device_sort` copies back what it has, and
  padding stands among it; drop the conjunct `Padded(Len(orig)) = Len(orig)` of
  `InPlaceKeepsElements` to see it.
* `Exact = 1`, `Values = {0, 1, 2, 3}` in `MCBlockSearch.cfg`: the host compares 64-bit
  values as doubles and takes two that differ for a tie.

Other properties state an exception where the code has one, and say so in their comment:
a funnel that got one of two staging blocks keeps it for ever (`StagingReturned`); a
failed launch with staging copies what it left out (`AppliedOnce` speaks of calls whose
launches succeed); scratch of a failed scan, reduction or search is not given back
(`ScratchReturned` speaks of those that succeed); a failed search answers "not found";
a block from the fallback of `parallax_umalloc` that is freed after the manager has come
is lost (`RoutedToOwner`).

For that reason `FunnelCorrect` is checked in the passing run on the operations the
defects do not touch. The other launch properties (`ScopeBalanced`, `InFlightUntouched`,
`BystandersKept`) are checked on all operations.

## 4. Fairness

* `KernelLaunch`: weak fairness of the caller's next step and of `Execute`: Vulkan
  completes submitted work or reports a lost device. No fairness of `HostWrite`,
  `OtherWrite` or `Call`: programs owe nothing.
* `Reduction`, `BitonicSort`: weak fairness of the next step: one caller and a queue.
* `HeapPool`: none. Test-and-set promises no spinner a turn, so what is stated of the
  lock is a safety property: it is held only on the straight path through the allocator.
* The others state safety only.

## 5. Proofs

All for every value of the constants that meets the assumptions. What TLC checks on a
small instance and what is proved are the same definitions.

| Module | Theorems | In words |
|---|---|---|
| `UnifiedArenaProofs` | `TypeCorrect`, `OverlapFree`, `CopiesCoverBlocks`, `RequestsHonoured`, `DescriptorAligned`, `GrantsAreFree`, `Refinement` | every safety property of the arena, and that it implements `RegionAllocator` |
| `HeapPoolProofs` | `LockHeldInside`, `NoBaseWithoutLength`, `WellTyped`, `Consistent`, `BlocksMatch`, `DataKept`, `NullWhenFull`, `Refinement` | every property of the pool, word by word, and that it implements `RegionAllocator` |
| `KernelLaunchProofs` | `BalancedScopes`, `NothingInFlightTouched`, `OthersKept`, `ResultsSequential` | migration scopes, resources of running kernels, bystanders; the caller's results |
| `PrimitivesProofs` | `ScratchLargeEnough`, `NoLevelReadsItself`, `ReductionExact`, `SearchExact`, `SortExact`, `SortKeepsElements` | every safety property of reductions, searches and sorts: room for the partials, workgroups of a level apart, the sum, the winner and the order that come out, nothing lost in place |
| `CompactionProofs` | `ScratchGivenBack`, `GroupsIndependent`, `ScanExact`, `CompactExact` | scratch at any depth, workgroups of a dispatch apart, the running sums, the compacted array |
| `FunnelsProofs` | `StagingBalanced`, `InputSurvives`, `OperationAppliedOnce` | all properties of the funnels |
| `ProcessMemoryProofs` | `PointersRouted`, `ContentsKept`, `BuiltOnDevice`, `InitialisedOnce`, `NothingLeft` | pointers to their allocator, contents of blocks; the runtime's objects through nested calls and failures |
| `WorkgroupsProofs` | lemmas | rounding up to blocks; the tree sum and the Hillis-Steele scan of one workgroup, round by round |

Assumptions: `ArenaAssumption`, `ConstantsOK`, `LaunchAssumption`, `FunnelAssumption`,
`MemoryAssumption`, `WorkgroupAssumption`, `ReductionAssumption`, `ScanAssumption`,
`CompactionAssumption`, `SortAssumption` and `SearchAssumption` type the constants. Four restrict what callers do:
`RequestsAssumption` and `InRange` (requests to the pool do not wrap `size_t` and those to
the arena not `VkDeviceSize`, which the code does not test),
`Compatible` (an alignment above the default is a multiple of it, true of powers of two)
and `NoWritesWhileStaged` (other threads write to arena memory during a call only where
nothing is migrated). TLC evaluates them in the passing runs. `ResultsSequential` has a
hypothesis of its own, `Faithful`: no buffer is external, a device with unified memory
runs for_each, capturing transforms and compactions, a staged one only compactions.
Each of the others has a finding or a divergence of section 3 to its name; the
instance of `MCLaunch.cfg` meets it. Three theorems about primitives have hypotheses, each
of which leaves out a case of section 3 where the code fails: `SearchExact` that no two
values share a double (`ExactValues`); `SortExact` that no element sorts behind the padding
(`LargestPadding`) and that the padded array is no longer than half the range of the loop
variables (`NoWrap`: at 2^31 elements `k` wraps and the loop does not end).
`SortKeepsElements` needs neither, only a length whose next power of two the model's
`Padded` looks for (`Paddable`, 2^30 elements). `MCBlockSearch.cfg` and `MCSort.cfg` meet
them.

Arguments:

* **Arena.** A new block is apart from the live ones only because it comes out of a free
  block that was, or out of the tail above `bump_`. `Inductive` joins `TypeOK`,
  `NoOverlap`, "an arena that is not valid holds nothing" (`WhenInvalid`), "every block,
  live or free, lies below `bump_`, which equals `high_water_` and is at most the
  capacity" (`TailSound`, `LiveSound`, `FreeSound`), and "a live block's offset has the
  default alignment and its size covers the request" (`LiveSound`). Lemmas give what
  `AlignUp` returns when nothing wraps; one lemma per step (`ReuseStep` and `BumpStep`,
  joined by `AllocateStep`; `DeallocateStep`; `ClearStep`) shows that it preserves
  `Inductive`. `Refinement` maps live blocks to granted ranges, and every step to a
  grant, a release, a reset or a stutter.
* **Launcher.** `Inductive` says for each place of the caller how many scopes its stage
  is in (`ScopesSound`), and that a pending kernel is one whose fence and flag are down
  and for which the caller is about to wait (`PendingSound`): neither property follows
  from itself. `Bystanders` adds what the two memories hold during a call: a bystander's
  copy on the device is the one made at the outermost entry, cached sets name their own
  output, and so the copy back restores it.
  `Results` adds, for each place of the caller, what the output holds on the side
  where the operation works: at `flags`, `scan` and `scatter` the result so far is a
  function of the arrays as they were when the call began, and a kernel under way
  brings it to the next one; a bound set names the buffers, the length and the captures
  of this call because the operations of `Faithful` write theirs each time.
* **A workgroup.** Each round of the tree sum keeps a partition of the inputs: the places
  that still count hold the sums of disjoint spans, which double until one is left
  (`TreeSumAdds`). A Hillis-Steele round doubles the window that ends at each place
  (`HillisSteeleAdds`). Both are inductions over the number of rounds: the least counterexample in
  Nat, by well-foundedness, since no theorem with an operator parameter can be used here.
* **Reduction.** A level reads the array or the block that is not written; what reaches
  the second block has been through the first, so its count is at most `Blocks(count)`,
  and `BlocksMonotonic` bounds the next. `LevelsApart` is part of the invariant. `Sums`
  says that what the level reads are the sums of a partition of the input's places
  (`Parts`); a group that stores merges the parts of its block, and at a count of one
  the only part is everything.
* **Searches.** A winner is described by what it beats: `WinnerOf` says of a block, and of
  all blocks so far, that the element named beats every other one, by value and then by the
  side that ties go to, or that there is nothing to find. `BlockWinner` shows it of a
  block, whose last one may be short, `JoinBlock` that one turn of the host's loop, with
  its comparison of doubles and the blocks without a hit that it passes over, keeps it,
  and `BestIs` is the induction over the blocks.
  `SearchInv` says that a workgroup that has stored left its winner on the device, and
  that the host combines only once it reads all of them. What is left is that the element
  that beats all others is the one the sequential definition chooses.
* **Sort.** The 0-1 principle speaks of networks; the proof follows the elements instead.
  For every threshold the set of positions with an element at or above it is, within a block of `k`,
  first nothing, then one bitonic segment, then everything (`Up`), and a stage of the
  schedule halves that segment, whatever the threshold (`StageUp`, `Merged`): at `j = 0` it
  is gone and the block is in order, ascending or descending by its parity, so that two
  neighbours form a bitonic block of `2k` (`BlocksMerge`). Within a stage the invocations interleave:
  `Reaches` says that the array at the end of the dispatch is fixed by the present one and
  the invocations still to run, and `Scheduled` relates `k` and `j` to how much is sorted.
  `Kept` says that at all times the array is a permutation of the caller's elements and the
  padding, which alone gives `SortKeepsElements`. That the padding ends up last follows by
  counting the elements at the maximum (`PaddingLast`).
* **Compaction.** `Stack` relates the number of arrays on the stack to the level and the
  kernel under way (`Depth`): a level that has begun owns its block sums until it frees
  them. `GroupsApart` (different workgroups have different elements) gives the shift
  kernel, where a workgroup reads its neighbour's last element. For `ScanExact` each
  array on the stack is one of sums of consecutive spans of the input: `Tower` says the
  spans of a level are the blocks of the one below, `Below` and `Here` how much of the
  running sums is there already, before and after the recursion. For `CompactExact` the
  position of a kept element is its rank among the kept (`Rank`, `Compacted`), and the
  scatter fills the ranks in any order of the workgroups (`Placed`, `Kept`).
* **Funnels.** `StagingSound` counts the blocks a call holds by its place;
  `ContentsSound` says what each array contains along each of the three routes.
* **Process memory.** `Routing`: what is in use is what the program holds and what is
  stranded; a pool address is in use only after the pool became live, a mapped one only
  through `parallax_umalloc` while the manager is there. `DataKept` is inductive on top.
* **Runtime.** `Objects` describes the stack of calls: which call may stand on which
  (`Nested`), that the two flags are up exactly while an initialisation is on the stack
  (`Flagged`), and which Vulkan objects exist after so many steps of each one
  (`LiveSound`, `ArenaSound`, `OwnersSound`). With an empty stack what is left are the
  objects of the globals that are set.
* **Heap pool.** `IInv` is the lock: `LockFollowsPath` with the type of program counters;
  a base that a thread has read implies that the length is there (`Published`). `PoolInv`
  is the heap, in layers. `Tile`: a set of block starts with sizes covers the reservation
  without gap or overlap; joining and splitting blocks keeps that. `Links`: the free lists
  described by their links alone (next and previous agree, each list in its size class, and a
  rank rises along `next`, so that nothing is cyclic), which `bin_insert` and `bin_remove`
  keep without a word about the order of the blocks. `Sound`: a tiling with right headers
  and footers, lists of exactly the free blocks, no two of which touch. While
  `block_free` and `block_alloc` work the heap is `Open` at one block; they close it again,
  and leave every word of the other allocated blocks (`Undisturbed`): `FreeFacts`,
  `CarveFacts`. `Serves`: each pointer held lies in an allocated block of its own behind a
  back-pointer to it, and every allocated block has one. `PoolInv` says that some tiling
  makes the heap sound and serve the pointers held, that a block chosen by `Scan` stays
  free until it is carved, and what each thread and each object rely on at each place of a
  reallocation (`CallOK`, `ObjOK`: the old pointer's bytes are in place until the copy, the
  new pointer's after it). The existential cannot be an invariant of a run; its parts are
  what `Consistent`, `BlocksMatch` and `DataKept` conclude and the run checks. What the
  operators of the run compute by walking (`Boundaries`, `BinList`, `FirstFit`) is related
  to the tiling and the links by `BlocksFacts`, `ListsFree` and `NothingFits`; a list that
  does not end would need more blocks than there is room for (`NoRoom`). Each step keeps
  the pointers, adds one or takes one away (`HeldStep`), from which `Refinement` follows.

Every safety property and every refinement that a passing run checks is stated by a
theorem. Only model-checked is liveness (`CallReturns`, `ReduceReturns`, `SortReturns`),
outside what the prover's backends do.

## 6. Not modelled

* Driver calls without state of the runtime's: queries of features, limits and memory
  types, pipelines and layouts, command recording.
* The relocation path of `launch()`, which patches pointers inside the data: contents
  here have no pointers. The dirty-block bitmaps of the memory manager: only the two
  synchronisation functions read them, and on its mapped buffers they copy nothing.
* Compile-time choice of a funnel by execution policy and iterator category, and the
  variadic unpacking of arguments in the C API.
* Two threads in the launcher: it has no lock and its API does not promise thread
  safety; every property would fail at the first race.
* Width and rounding of elements beyond those named (the sort's shift, the search's
  comparison, sizes of allocations).
* Tests, examples, test shaders: no logic of the runtime.

Known hazards outside the list in `PROJECT.json`, for the same reasons: `fork()` while
another thread holds the pool's lock (`heap_pool.cpp:51`); transient buffers that live as
long as the launcher (`kernel_launcher.hpp:181`); a cached set that names a destroyed
buffer (`unified_buffer.cpp:87`); float positions, exact to 2^24
(`kernel_launcher.cpp:1774`), and 8- and 16-bit positions read as 32-bit ones (`:1777`);
the unchecked command pool of migrations (`arena.cpp:154`); two threads that initialise
(`unified_allocator.cpp:23`); containers that outlive the manager (`:125`); an
over-aligned `operator new` that falls back to `malloc` (`heap_capture.cpp:37`) and the
aligned family, which does not fall back at all (`heap_capture.cpp:103`, `:108`, against
`heap_pool.hpp:23-24`); the device's own minimum of descriptor offsets
(`device.cpp:343`).

## 7. Status

Modelled, checked and where possible proved: the two allocators with a common
abstraction, the launch protocol, all primitives with compaction and searches, the
funnels, initialisation and exit, the routing of the program's memory.

What would add most next: the dirty-block protocol of the memory manager, if a caller
comes to rely on it, and a second thread in the launcher, if its API comes to promise one.
