------------------------------ MODULE HeapPool ------------------------------
(***************************************************************************)
(* The process heap pool of src/memory/heap_pool.cpp: a boundary-tag,      *)
(* segregated-fit allocator with coalescing over one reservation, used by  *)
(* several threads under the spinlock g_lock.                              *)
(*                                                                         *)
(* The reservation is modelled word by word: headers, footers, free-list   *)
(* links, back-pointers and the callers' data share one memory, so a wrong *)
(* pointer reads or overwrites whatever is there, as in the program.  An   *)
(* address is a byte address; 0 is nullptr.  A header or footer word holds *)
(* its size_t, a link or back-pointer word an address, and a caller's word *)
(* the negated identity of the object that wrote it.                       *)
(***************************************************************************)
EXTENDS Integers, FiniteSets

CONSTANTS
    Threads,
    NoThread,       \* the value of a free g_lock
    Base,           \* the address mmap returns
    Res,            \* length of the reservation in bytes
    NBins,          \* number of size classes
    SizeMod,        \* size_t arithmetic is modulo SizeMod
    Requests,       \* the <<size, align>> pairs callers pass to px_pool_alloc
    ReallocSizes,   \* the sizes callers pass to px_pool_realloc
    MaxObjects      \* bound: objects callers hold at one time

ALIGN     == 16
HDR       == 8
FTR       == 8
PTR       == 8      \* sizeof(void*)
MIN_BSIZE == 32
Null      == 0

ASSUME ConstantsOK ==
    /\ NoThread \notin Threads
    /\ Base \in Nat \ {0} /\ Base % ALIGN = 0
    /\ Res \in Nat /\ Res >= MIN_BSIZE /\ Res % ALIGN = 0
    /\ NBins \in Nat \ {0}
    /\ SizeMod \in Nat /\ SizeMod > Base + Res
    /\ \A r \in Requests : r[1] \in 0 .. SizeMod - 1 /\ r[2] \in 0 .. SizeMod - 1
    /\ ReallocSizes \subseteq 0 .. SizeMod - 1
    /\ MaxObjects \in Nat

VARIABLES
    mem,            \* the words of the reservation
    bins,           \* g_bins: head of each size class's free list
    high,           \* g_high
    init,           \* g_init_done and g_init_failed: "no", "done" or "failed"
    gbase,          \* g_base
    gres,           \* g_reservation
    lock,           \* the holder of g_lock
    pc,             \* where each thread is
    call,           \* each thread's arguments and locals
    objs            \* ghost: the objects the callers hold

heapVars == <<mem, bins, high>>
poolVars == <<init, gbase, gres>>
vars == <<mem, bins, high, init, gbase, gres, lock, pc, call, objs>>

Ids   == 1 .. MaxObjects
NoObj == [ptr |-> Null, size |-> 0, align |-> 0, written |-> 0, busy |-> FALSE]
NoCall == [id |-> 0, size |-> 0, align |-> 0, block |-> Null, ptr |-> Null,
           old |-> 0, base |-> Null]

-------------------------------------------------------------------------------
(* Block accessors.  A heap is a record of the words and the bin heads.      *)

Heap == [mem |-> mem, bins |-> bins]

Word(h, a)   == h.mem[(a - Base) \div PTR]
Put(h, a, w) == [h EXCEPT !.mem[(a - Base) \div PTR] = w]

PutHead(h, i, B) == [h EXCEPT !.bins[i] = B]

BSize(h, B)     == LET w == Word(h, B) IN w - (w % 2)
Allocated(h, B) == Word(h, B) % 2 = 1
FlNext(h, B)    == Word(h, B + HDR)
FlPrev(h, B)    == Word(h, B + HDR + PTR)

(* The size, with the allocation bit (0 or 1) in the header. *)
SetBlock(h, B, bs, alloc) ==
    Put(Put(h, B, bs + alloc), B + bs - FTR, bs)

RoundUp(x, a) == ((x + a - 1) \div a) * a

(* floor_log2(bs) - 4, clamped to the bins there are: the number of classes   *)
(* above the first whose smallest size, 2^(i + 4), bs reaches.               *)
BinIndex(bs) == Cardinality({i \in 1 .. NBins - 1 : 2^(i + 4) <= bs})

BinInsert(h, B) ==
    LET i    == BinIndex(BSize(h, B))
        head == h.bins[i]
        h1   == Put(Put(h, B + HDR + PTR, Null), B + HDR, head)
        h2   == IF head = Null THEN h1 ELSE Put(h1, head + HDR + PTR, B)
    IN  PutHead(h2, i, B)

BinRemove(h, B) ==
    LET p  == FlPrev(h, B)
        n  == FlNext(h, B)
        h1 == IF p = Null THEN PutHead(h, BinIndex(BSize(h, B)), n)
              ELSE Put(h, p + HDR, n)
    IN  IF n = Null THEN h1 ELSE Put(h1, n + HDR + PTR, p)

Bins      == 0 .. NBins - 1
MaxBlocks == Res \div MIN_BSIZE

(* The blocks of bin i in list order, and Null after the last. *)
BinList(h, i) ==
    LET at[k \in 1 .. MaxBlocks] ==
            IF k = 1 THEN h.bins[i]
            ELSE IF at[k - 1] = Null THEN Null ELSE FlNext(h, at[k - 1])
    IN  at

(* The places in the lists, from bin_index(need) on, of blocks that fit. *)
FitsIn(h, need, searched) ==
    {x \in searched \X (1 .. MaxBlocks) :
        LET B == BinList(h, x[1])[x[2]] IN B # Null /\ BSize(h, B) >= need}

FitsOwnBin(h, need) == FitsIn(h, need, {BinIndex(need)})
Fits(h, need)       == FitsIn(h, need, BinIndex(need) .. NBins - 1)

(* The fitting block that block_alloc's scan meets first. *)
FirstFit(h, need) ==
    LET first == CHOOSE x \in Fits(h, need) :
                    \A y \in Fits(h, need) : x[1] < y[1] \/ (x[1] = y[1] /\ x[2] <= y[2])
    IN  BinList(h, first[1])[first[2]]

CarveStillListed(h, B, need) == SetBlock(h, B, BSize(h, B), 1)

(* The rest of block_alloc once the scan stops at B: unlink, and split when  *)
(* the remainder can be a block of its own.                                  *)
Carve(h, B, need) ==
    LET bs == BSize(h, B)
        h1 == BinRemove(h, B)
        R  == B + need
    IN  IF bs - need >= MIN_BSIZE
        THEN BinInsert(SetBlock(SetBlock(h1, B, need, 1), R, bs - need, 0), R)
        ELSE SetBlock(h1, B, bs, 1)

BlockFreeForwardOnly(h, B) ==
    LET next == B + BSize(h, B)
        fwd  == next < Base + Res /\ ~Allocated(h, next)
        h1   == IF fwd THEN BinRemove(h, next) ELSE h
        bs   == IF fwd THEN BSize(h, B) + BSize(h1, next) ELSE BSize(h, B)
    IN  BinInsert(SetBlock(h1, B, bs, 0), B)

BlockFree(h, B) ==
    LET next == B + BSize(h, B)
        fwd  == next < Base + Res /\ ~Allocated(h, next)
        h1   == IF fwd THEN BinRemove(h, next) ELSE h
        bs1  == IF fwd THEN BSize(h, B) + BSize(h1, next) ELSE BSize(h, B)
        prev == B - Word(h1, B - FTR)
        bwd  == B > Base /\ prev >= Base /\ ~Allocated(h1, prev)
        h2   == IF bwd THEN BinRemove(h1, prev) ELSE h1
        bs2  == IF bwd THEN bs1 + BSize(h2, prev) ELSE bs1
        B2   == IF bwd THEN prev ELSE B
    IN  BinInsert(SetBlock(h2, B2, bs2, 0), B2)

-------------------------------------------------------------------------------
(* The arithmetic of px_pool_alloc, in size_t.                               *)

(* The power of two to which align is rounded, at least ALIGN. *)
EffectiveAlign(align) ==
    LET k == CHOOSE k \in 4 .. 30 : 2^k >= align /\ (k = 4 \/ 2^(k - 1) < align)
    IN  2^k

NeedBSize(size, align) ==
    LET payload == ((IF size = 0 THEN 1 ELSE size) + EffectiveAlign(align) + PTR) % SizeMod
        need    == RoundUp(HDR + payload + FTR, ALIGN) % SizeMod
    IN  IF need < MIN_BSIZE THEN MIN_BSIZE ELSE need

Payload(B, align) == RoundUp(B + HDR + PTR, EffectiveAlign(align))

(* No request is so large that adding its header and padding wraps size_t:   *)
(* what the code needs of its callers and does not test.                     *)
InRange(size, align) ==
    align <= 2^30 /\ size + EffectiveAlign(align) + 4 * ALIGN <= SizeMod
RequestsInRange ==
    /\ \A r \in Requests : InRange(r[1], r[2])
    /\ \A n \in ReallocSizes : InRange(n, ALIGN)

Header(h, p)     == Word(h, p - PTR)
UsableSize(h, p) == Header(h, p) + BSize(h, Header(h, p)) - FTR - p

-------------------------------------------------------------------------------
TypeOK ==
    /\ mem \in [0 .. Res \div PTR - 1 -> Int]
    /\ bins \in [0 .. NBins - 1 -> Int]
    /\ high \in 0 .. Res
    /\ init \in {"no", "done", "failed"}
    /\ gbase \in {Null, Base}
    /\ gres \in {0, Res}
    /\ lock \in Threads \cup {NoThread}
    /\ pc \in [Threads -> {"idle", "init", "publish", "poolinit", "poolpublish", "scan", "carve",
                           "fill", "relock", "copy", "refree", "query"}]
    /\ DOMAIN call = Threads
    /\ DOMAIN objs = Ids

(* Static storage: nothing is mapped until the first call needs it. *)
Init ==
    /\ mem = [w \in 0 .. Res \div PTR - 1 |-> 0]
    /\ bins = [i \in 0 .. NBins - 1 |-> Null]
    /\ high = 0
    /\ init = "no"
    /\ gbase = Null
    /\ gres = 0
    /\ lock = NoThread
    /\ pc = [t \in Threads |-> "idle"]
    /\ call = [t \in Threads |-> NoCall]
    /\ objs = [i \in Ids |-> NoObj]

Goto(t, l)    == pc' = [pc EXCEPT ![t] = l]
Return(t)     == Goto(t, "idle") /\ call' = [call EXCEPT ![t] = NoCall]
Store(h)      == mem' = h.mem /\ bins' = h.bins

LockNotTested == TRUE
LockFree      == lock = NoThread
KeepLock      == UNCHANGED lock
Unlock        == lock' = NoThread

Held(i)       == objs[i] # NoObj /\ ~objs[i].busy
ReservedIds   == {call[t].id : t \in {u \in Threads : pc[u] # "idle"}}
FreshIds      == {i \in Ids : objs[i] = NoObj /\ i \notin ReservedIds}

(* Where ensure_init_locked leads a thread that has just taken g_lock. *)
AfterLock(t, c) ==
    \/ /\ init = "no"
       /\ lock' = t /\ Goto(t, "init") /\ call' = [call EXCEPT ![t] = c]
    \/ /\ init = "done"
       /\ lock' = t /\ Goto(t, "scan") /\ call' = [call EXCEPT ![t] = c]
    \/ /\ init = "failed"            \* nullptr, and the guard drops the lock
       /\ Return(t) /\ UNCHANGED lock

(* px_pool_alloc, and px_pool_realloc of nullptr: arguments and the lock.    *)
Alloc(t, size, align) ==
    /\ pc[t] = "idle" /\ LockFree
    /\ \E i \in FreshIds :
        /\ \A j \in FreshIds : i <= j
        /\ AfterLock(t, [NoCall EXCEPT !.id = i, !.size = size, !.align = align])
    /\ UNCHANGED <<heapVars, poolVars, objs>>

(* px_pool_init: the first half of px_pool_alloc alone.  Once initialisation  *)
(* was tried it only reads the outcome.                                      *)
PoolInit(t) ==
    /\ pc[t] = "idle" /\ LockFree /\ init = "no"
    /\ lock' = t /\ Goto(t, "poolinit")
    /\ UNCHANGED <<heapVars, poolVars, call, objs>>

(* The two stores that make the pool visible: its length, then its base. *)
PublishBaseOnly == gbase' = Base /\ UNCHANGED gres
PublishLength   == gres' = Res /\ UNCHANGED gbase
PublishBase     == gbase' = Base /\ UNCHANGED gres

(* mmap: g_init_done is set first, so a failure is never retried.  On        *)
(* success one free block covers the reservation, whose length is stored.    *)
MapRegion(t) ==
    /\ pc[t] \in {"init", "poolinit"}
    /\ \/ /\ init' = "failed"
          /\ Return(t) /\ Unlock
          /\ UNCHANGED <<heapVars, gbase, gres>>
       \/ /\ init' = "done"
          /\ Store(BinInsert(SetBlock([mem |-> mem, bins |-> [i \in 0 .. NBins - 1 |-> Null]],
                                      Base, Res, 0), Base))
          /\ PublishLength
          /\ Goto(t, IF pc[t] = "init" THEN "publish" ELSE "poolpublish")
          /\ UNCHANGED <<high, call, lock>>
    /\ UNCHANGED objs

Publish(t) ==
    /\ PublishBase
    /\ \/ /\ pc[t] = "publish"
          /\ Goto(t, "scan") /\ UNCHANGED <<lock, call>>
       \/ /\ pc[t] = "poolpublish"
          /\ Return(t) /\ Unlock
    /\ UNCHANGED <<heapVars, init, objs>>

Need(t) == NeedBSize(call[t].size, call[t].align)

(* The scan of block_alloc: the first block that fits, or nullptr.  A failed *)
(* px_pool_realloc leaves its object as it was.                              *)
Scan(t) ==
    /\ pc[t] = "scan"
    /\ \/ /\ Fits(Heap, Need(t)) = {}
          /\ Return(t) /\ Unlock
          /\ objs' = [objs EXCEPT ![call[t].id].busy = FALSE]
       \/ /\ Fits(Heap, Need(t)) # {}
          /\ call' = [call EXCEPT ![t].block = FirstFit(Heap, Need(t))]
          /\ Goto(t, "carve")
          /\ UNCHANGED <<lock, objs>>
    /\ UNCHANGED <<heapVars, poolVars>>

HighAsTotal(end) == high + end
HighAfter(end)   == IF end > high THEN end ELSE high

(* The rest of block_alloc, the back-pointer, and the end of the guard.  A   *)
(* plain allocation becomes a held object; a reallocation goes on to memcpy. *)
CarveBlock(t) ==
    /\ pc[t] = "carve"
    /\ LET c == call[t]
           h == Carve(Heap, c.block, Need(t))
           p == Payload(c.block, c.align)
       IN  /\ Store(Put(h, p - PTR, c.block))
           /\ high' = HighAfter(c.block - Base + BSize(h, c.block))
           /\ call' = [call EXCEPT ![t].ptr = p]
           /\ \/ /\ objs[c.id] = NoObj
                 /\ objs' = [objs EXCEPT ![c.id] =
                        [NoObj EXCEPT !.ptr = p, !.size = c.size, !.align = c.align, !.busy = TRUE]]
                 /\ Goto(t, "fill")
              \/ /\ objs[c.id] # NoObj
                 /\ Goto(t, "copy")
                 /\ UNCHANGED objs
    /\ Unlock
    /\ UNCHANGED poolVars

(* The caller writes every byte px_pool_usable_size promises it. *)
Fill(t) ==
    /\ pc[t] = "fill"
    /\ LET p == objs[call[t].id].ptr
           n == UsableSize(Heap, p)
           first == (p - Base) \div PTR
       IN  /\ mem' = [w \in DOMAIN mem |->
                        IF w \in first .. first + n \div PTR - 1 THEN -call[t].id ELSE mem[w]]
           /\ objs' = [objs EXCEPT ![call[t].id].written = n, ![call[t].id].busy = FALSE]
    /\ Return(t)
    /\ UNCHANGED <<bins, high, poolVars, lock>>

(* px_pool_free of an object some thread holds, under one hold of g_lock;    *)
(* also px_pool_realloc to size 0.                                           *)
Free(t, i) ==
    /\ pc[t] = "idle" /\ LockFree /\ Held(i)
    /\ Store(BlockFree(Heap, Header(Heap, objs[i].ptr)))
    /\ objs' = [objs EXCEPT ![i] = NoObj]
    /\ UNCHANGED <<high, poolVars, lock, pc, call>>

(* px_pool_realloc: px_pool_usable_size under the lock, which is dropped.    *)
(* A size that fits returns the pointer unchanged.                           *)
Realloc(t, i, size) ==
    /\ pc[t] = "idle" /\ LockFree /\ Held(i) /\ size > 0
    /\ LET old == UsableSize(Heap, objs[i].ptr) IN
       \/ /\ size <= old
          /\ objs' = [objs EXCEPT ![i].size = size, ![i].align = ALIGN]
          /\ UNCHANGED <<pc, call>>
       \/ /\ size > old
          /\ objs' = [objs EXCEPT ![i].busy = TRUE]
          /\ call' = [call EXCEPT ![t] = [NoCall EXCEPT !.id = i, !.size = size,
                                                        !.align = ALIGN, !.old = old]]
          /\ Goto(t, "relock")
    /\ UNCHANGED <<heapVars, poolVars, lock>>

(* The nested px_pool_alloc takes the lock again; the pool is initialised. *)
Relock(t) ==
    /\ pc[t] = "relock" /\ LockFree
    /\ lock' = t
    /\ Goto(t, "scan")
    /\ UNCHANGED <<heapVars, poolVars, call, objs>>

(* memcpy(np, ptr, old), outside the lock. *)
Copy(t) ==
    /\ pc[t] = "copy"
    /\ LET c    == call[t]
           to   == (c.ptr - Base) \div PTR
           from == (objs[c.id].ptr - Base) \div PTR
       IN  mem' = [w \in DOMAIN mem |->
                      IF w \in to .. to + c.old \div PTR - 1 THEN mem[from + w - to] ELSE mem[w]]
    /\ Goto(t, "refree")
    /\ UNCHANGED <<bins, high, poolVars, lock, call, objs>>

FreeOldLeaked(t) ==
    /\ pc[t] = "refree" /\ LockFree
    /\ objs' = [objs EXCEPT ![call[t].id].ptr = call[t].ptr,
                            ![call[t].id].written = call[t].old]
    /\ Goto(t, "fill")
    /\ UNCHANGED <<heapVars, poolVars, lock, call>>

(* The nested px_pool_free of the old pointer, and the return of the new. *)
FreeOld(t) ==
    /\ pc[t] = "refree" /\ LockFree
    /\ LET c == call[t] IN
        /\ Store(BlockFree(Heap, Header(Heap, objs[c.id].ptr)))
        /\ objs' = [objs EXCEPT ![c.id] =
              [@ EXCEPT !.ptr = c.ptr, !.size = c.size, !.align = ALIGN, !.written = c.old]]
    /\ Goto(t, "fill")
    /\ UNCHANGED <<high, poolVars, lock, call>>

(* px_pool_contains, and the arena's px_pool_base / px_pool_reservation:     *)
(* the base and then the length, read without the lock.                      *)
QueryBase(t) ==
    /\ pc[t] = "idle"
    /\ call' = [call EXCEPT ![t] = [NoCall EXCEPT !.base = gbase]]
    /\ Goto(t, "query")
    /\ UNCHANGED <<heapVars, poolVars, lock, objs>>

QueryRes(t) ==
    /\ pc[t] = "query"
    /\ Return(t)
    /\ UNCHANGED <<heapVars, poolVars, lock, objs>>

Locked(t) == MapRegion(t) \/ Publish(t) \/ Scan(t) \/ CarveBlock(t)

Next ==
    \E t \in Threads :
        \/ PoolInit(t)
        \/ \E r \in Requests : Alloc(t, r[1], r[2])
        \/ \E i \in Ids : Free(t, i)
        \/ \E i \in Ids, n \in ReallocSizes : Realloc(t, i, n)
        \/ Locked(t)
        \/ Fill(t)
        \/ Relock(t) \/ Copy(t) \/ FreeOld(t)
        \/ QueryBase(t) \/ QueryRes(t)

Spec == Init /\ [][Next]_vars

-------------------------------------------------------------------------------
(* The walk of check_locked: the k-th block boundary, stuck at the first     *)
(* block that is malformed.                                                  *)
WellFormed(h, B) ==
    LET bs == BSize(h, B)
    IN  /\ bs >= MIN_BSIZE /\ bs % ALIGN = 0
        /\ B + bs <= Base + Res
        /\ Word(h, B + bs - FTR) = bs

Boundaries(h) ==
    LET at[k \in 0 .. MaxBlocks] ==
            IF k = 0 THEN Base
            ELSE LET b == at[k - 1]
                 IN  IF b < Base + Res /\ WellFormed(h, b) THEN b + BSize(h, b) ELSE b
    IN  [k \in 0 .. MaxBlocks |-> at[k]]

Blocks(h) == LET at == Boundaries(h) IN {at[k] : k \in 0 .. MaxBlocks} \ {Base + Res}

FreeBlocks(h)      == {B \in Blocks(h) : ~Allocated(h, B)}
AllocatedBlocks(h) == {B \in Blocks(h) : Allocated(h, B)}

(* The objects with their pointers, and the block a running reallocation has *)
(* already obtained for its copy.                                            *)
Objects   == {i \in Ids : objs[i] # NoObj}
InFlight  == {t \in Threads : pc[t] \in {"copy", "refree"}}
HeldPtrs  == {objs[i].ptr : i \in Objects} \cup {call[t].ptr : t \in InFlight}
PtrRange(p) == [lo |-> (p - Base) \div PTR, hi |-> (p - Base + UsableSize(Heap, p)) \div PTR]

(* The blocks tile the reservation exactly and every footer repeats its      *)
(* header: what px_pool_check tests, and what pointer arithmetic and         *)
(* block_free's backward step rely on.                                       *)
Tiled == Boundaries(Heap)[MaxBlocks] = Base + Res

(* No two neighbouring blocks are both free. *)
Coalesced ==
    LET free == FreeBlocks(Heap)
    IN  \A B \in free : B + BSize(Heap, B) \notin free

(* g_bins lists every free block once, in the bin of its current size, in    *)
(* lists that agree in both directions.                                      *)
BinsExact ==
    /\ {BinList(Heap, i)[k] : i \in Bins, k \in 1 .. MaxBlocks} \ {Null} = FreeBlocks(Heap)
    /\ \A i \in Bins :
          LET list == BinList(Heap, i)
          IN  \A k \in {k \in 1 .. MaxBlocks : list[k] # Null} :
                /\ BinIndex(BSize(Heap, list[k])) = i
                /\ FlPrev(Heap, list[k]) = IF k = 1 THEN Null ELSE list[k - 1]
                /\ \A m \in 1 .. MaxBlocks : list[m] = list[k] => m = k

(* g_high bounds every block that was ever handed out. *)
HighWater == \A B \in AllocatedBlocks(Heap) : B - Base + BSize(Heap, B) <= high

(* After any history of calls of several threads the boundary tags and the   *)
(* free lists describe the same blocks: they tile the reservation, a freed   *)
(* block was merged with free neighbours on both sides (so a pool whose      *)
(* objects are all freed is one block again), and no block is lost, listed   *)
(* twice, or still listed after it was taken or merged.                      *)
PoolConsistent == init = "done" => Tiled /\ Coalesced /\ BinsExact /\ HighWater

(* Every pointer a caller holds reaches a block of its own through the       *)
(* back-pointer and is a multiple of a power of two no smaller than the      *)
(* alignment asked for (heap_pool.hpp:22-25).                                *)
ObjectsSound ==
    /\ \A i, j \in Objects :
          Header(Heap, objs[i].ptr) = Header(Heap, objs[j].ptr) => i = j
    /\ \A i \in Objects :
          \E k \in 4 .. 30 : 2^k >= objs[i].align /\ objs[i].ptr % 2^k = 0

(* px_pool_usable_size is at least what was requested (heap_pool.hpp:34).    *)
UsableCoversRequest ==
    \A i \in Objects : UsableSize(Heap, objs[i].ptr) >= objs[i].size

(* The allocated blocks are exactly those whose pointers callers hold, or a  *)
(* running reallocation: a pointer stays good while the neighbours of its    *)
(* block are split and merged by other threads, and no history of calls      *)
(* leaks a block; each is aligned and large enough for its request.          *)
BlocksMatchObjects ==
    /\ init = "done" => AllocatedBlocks(Heap) = {Header(Heap, p) : p \in HeldPtrs}
    /\ ObjectsSound /\ UsableCoversRequest

(* What a caller wrote stays, whatever other threads allocate, free or       *)
(* reallocate meanwhile, and a moved object brings its old bytes with it.    *)
DataIntact ==
    \A i \in Objects :
        LET first == (objs[i].ptr - Base) \div PTR
        IN  \A w \in first .. first + objs[i].written \div PTR - 1 : mem[w] = -i

(* A lock-free reader that sees the base also sees the length, so the arena  *)
(* never imports, and contains() never tests against, an empty pool.         *)
PublishedTogether ==
    \A t \in Threads : pc[t] = "query" /\ call[t].base # Null => gres = Res

(* g_lock is held by exactly the thread on the path it protects: never two   *)
(* threads inside, and no way out of the allocator, a failed mmap and an     *)
(* exhausted pool included, that leaves it locked and every allocation of    *)
(* the process spinning.                                                     *)
LockFollowsPath ==
    \A t \in Threads :
        lock = t <=> pc[t] \in {"init", "publish", "poolinit", "poolpublish", "scan", "carve"}

(* px_pool_alloc returns nullptr only when no free block is large enough:    *)
(* starting the scan at bin_index(need) skips no block that fits.            *)
NullOnlyWhenFull ==
    [][\A t \in Threads :
          pc[t] = "scan" /\ pc'[t] = "idle" =>
              \A B \in FreeBlocks(Heap) : BSize(Heap, B) < Need(t)]_vars

(* The pool hands out disjoint ranges of the reservation. *)
Granted  == {PtrRange(p) : p \in HeldPtrs}
Abstract == INSTANCE RegionAllocator WITH Region <- Res \div PTR, granted <- Granted
Implements == Abstract!Spec
==============================================================================
