---------------------------- MODULE HeapPoolProofs ----------------------------
(***************************************************************************)
(* The heap pool, for any number of threads, any reservation, any size     *)
(* classes and any requests whose sizes do not wrap size_t around: what    *)
(* the spinlock and the lock-free readers see, and the allocator itself,   *)
(* word by word.                                                           *)
(*                                                                         *)
(* The argument is in layers.  A set of block starts with sizes tiles the  *)
(* reservation (Tile); the free lists are described by their links alone   *)
(* (Links), never by the order of their blocks; a sound heap (Sound) is a  *)
(* tiling with right tags and lists of exactly its free blocks, no two of  *)
(* which touch.  block_alloc and block_free take a sound heap to a sound   *)
(* heap and leave the other allocated blocks alone.  A sound heap serves   *)
(* the pointers that callers hold (Serves), and PoolInv says that the      *)
(* program's heap does, whatever the threads are in the middle of.         *)
(***************************************************************************)
EXTENDS HeapPool, FiniteSetTheorems, WellFoundedInduction, TLAPS

(* No request is so large that its header and padding wrap size_t around.    *)
ASSUME RequestsAssumption == RequestsInRange

Inside    == {"init", "publish", "poolinit", "poolpublish", "scan", "carve"}
Locations == Inside \cup {"idle", "fill", "relock", "copy", "refree", "query"}

Local(c) == [id |-> c.id, size |-> c.size, align |-> c.align, block |-> c.block,
             ptr |-> c.ptr, old |-> c.old, base |-> c.base]

Types ==
    /\ lock \in Threads \cup {NoThread}
    /\ pc \in [Threads -> Locations]
    /\ call = [t \in Threads |-> Local(call[t])]

(* The length is there before the base is, and neither is ever taken back:   *)
(* a reader that has got a base keeps it until it reads the length.          *)
Published ==
    /\ gbase # Null => gres = Res
    /\ \A t \in Threads :
          pc[t] \in {"publish", "poolpublish"} \/ call[t].base # Null => gres = Res

IInv == Types /\ LockFollowsPath /\ Published

LEMMA InitInv == Init => IInv
  BY ConstantsOK
  DEF Init, IInv, Types, LockFollowsPath, Published, Locations, Inside, NoCall, Local, Null

(* A thread that moves between places of the same side of the lock. *)
LEMMA MoveKeeps ==
    ASSUME IInv, NEW t \in Threads, NEW l \in Locations, Goto(t, l),
           pc[t] \in Inside <=> l \in Inside,
           l \notin {"publish", "poolpublish"},
           call' = [u \in Threads |-> Local(call'[u])],
           \A u \in Threads : call'[u].base # Null => call[u].base # Null \/ gbase # Null,
           UNCHANGED <<gbase, gres, lock>>
    PROVE  IInv'
  BY DEF IInv, Types, LockFollowsPath, Published, Goto, Inside

(* A thread that takes the lock, on its way into the allocator. *)
LEMMA EnterKeeps ==
    ASSUME IInv, NEW t \in Threads, NEW l \in {"init", "poolinit", "scan"}, Goto(t, l),
           lock = NoThread, lock' = t,
           call' = [u \in Threads |-> Local(call'[u])],
           \A u \in Threads : call'[u].base # Null => call[u].base # Null,
           UNCHANGED <<gbase, gres>>
    PROVE  IInv'
  BY ConstantsOK
  DEF IInv, Types, LockFollowsPath, Published, Goto, Inside, Locations

(* A thread that gives the lock back, on its way out. *)
LEMMA LeaveKeeps ==
    ASSUME IInv, NEW t \in Threads, NEW l \in Locations \ Inside, Goto(t, l),
           pc[t] \in Inside, lock' = NoThread,
           call' = [u \in Threads |-> Local(call'[u])],
           \A u \in Threads : call'[u].base # Null => call[u].base # Null,
           UNCHANGED <<gbase, gres>>
    PROVE  IInv'
  BY ConstantsOK
  DEF IInv, Types, LockFollowsPath, Published, Goto, Inside

LEMMA NoArguments == NoCall = Local(NoCall) /\ NoCall.base = Null
  BY DEF NoCall, Local

(* The locals of a thread that starts a call, or has returned. *)
LEMMA NewCall ==
    ASSUME IInv, NEW t \in Threads, NEW c, c = Local(c), call' = [call EXCEPT ![t] = c]
    PROVE  /\ call' = [u \in Threads |-> Local(call'[u])]
           /\ call'[t] = c /\ \A u \in Threads : u # t => call'[u] = call[u]
  BY DEF IInv, Types, Local

LEMMA ReturnFacts ==
    ASSUME IInv, NEW t \in Threads, Return(t)
    PROVE  /\ call' = [u \in Threads |-> Local(call'[u])]
           /\ \A u \in Threads : call'[u].base # Null => call[u].base # Null
           /\ Goto(t, "idle")
  BY NoArguments, NewCall DEF Return

LEMMA AllocKeeps ==
    ASSUME IInv, NEW t \in Threads, NEW size, NEW align, Alloc(t, size, align)
    PROVE  IInv'
  <1>1. PICK i \in FreshIds :
            AfterLock(t, [NoCall EXCEPT !.id = i, !.size = size, !.align = align])
    BY DEF Alloc
  <1>2. PICK c : /\ c = [NoCall EXCEPT !.id = i, !.size = size, !.align = align]
                 /\ AfterLock(t, c)
    BY <1>1
  <1>3. c = Local(c)
    BY <1>2, NoArguments DEF Local
  <1>4. c.base = Null
    BY <1>2, NoArguments DEF Local
  <1>5. pc[t] = "idle" /\ lock = NoThread /\ UNCHANGED <<gbase, gres>>
    BY DEF Alloc, LockFree, poolVars
  <1>6. CASE Return(t) /\ UNCHANGED lock
    BY <1>5, <1>6, ReturnFacts, MoveKeeps DEF Inside, Locations
  <1>7. ASSUME NEW l \in {"init", "scan"}, lock' = t, Goto(t, l), call' = [call EXCEPT ![t] = c]
        PROVE  IInv'
    BY <1>4, <1>3, <1>5, <1>7, NewCall, EnterKeeps
  <1> QED
    BY <1>2, <1>6, <1>7 DEF AfterLock

LEMMA MapRegionKeeps ==
    ASSUME IInv, NEW t \in Threads, MapRegion(t)
    PROVE  IInv'
  <1>1. pc[t] \in {"init", "poolinit"}
    BY DEF MapRegion
  <1>2. CASE Return(t) /\ Unlock /\ UNCHANGED <<gbase, gres>>
    BY <1>1, <1>2, ReturnFacts, LeaveKeeps DEF Unlock, Inside, Locations
  <1>3. ASSUME NEW l \in {"publish", "poolpublish"}, PublishLength, Goto(t, l), UNCHANGED <<call, lock>>
        PROVE  IInv'
    BY <1>1, <1>3
    DEF IInv, Types, LockFollowsPath, Published, PublishLength, Goto, Inside, Locations
  <1> QED
    BY <1>2, <1>3 DEF MapRegion

LEMMA PublishKeeps ==
    ASSUME IInv, NEW t \in Threads, Publish(t)
    PROVE  IInv'
  <1>1. /\ pc[t] \in {"publish", "poolpublish"} /\ gbase' = Base /\ UNCHANGED gres
        /\ gres = Res
    BY DEF Publish, PublishBase, IInv, Published
  <1>2. CASE pc[t] = "publish" /\ Goto(t, "scan") /\ UNCHANGED <<lock, call>>
    BY <1>1, <1>2 DEF Goto, IInv, Types, LockFollowsPath, Published, Inside, Locations
  <1>3. CASE pc[t] = "poolpublish" /\ Return(t) /\ Unlock
    <2>1. /\ call' = [u \in Threads |-> Local(call'[u])] /\ Goto(t, "idle") /\ lock' = NoThread
      BY <1>3, ReturnFacts DEF Unlock
    <2> QED
      BY <1>1, <1>3, <2>1, ConstantsOK
      DEF Goto, IInv, Types, LockFollowsPath, Published, Inside, Locations
  <1> QED
    BY <1>2, <1>3 DEF Publish

LEMMA PoolInitKeeps ==
    ASSUME IInv, NEW t \in Threads, PoolInit(t)
    PROVE  IInv'
  <1>1. call' = [u \in Threads |-> Local(call'[u])] /\ UNCHANGED call
    BY DEF PoolInit, IInv, Types
  <1> QED
    BY <1>1, EnterKeeps DEF PoolInit, LockFree, poolVars

LEMMA ScanKeeps ==
    ASSUME IInv, NEW t \in Threads, Scan(t)
    PROVE  IInv'
  <1>1. pc[t] = "scan" /\ UNCHANGED <<gbase, gres>>
    BY DEF Scan, poolVars
  <1>2. CASE Return(t) /\ Unlock
    BY <1>1, <1>2, ReturnFacts, LeaveKeeps DEF Unlock, Inside, Locations
  <1>3. ASSUME NEW b, call' = [call EXCEPT ![t].block = b], Goto(t, "carve"), UNCHANGED lock
        PROVE  IInv'
    <2> DEFINE c == [call[t] EXCEPT !.block = b]
    <2>1. call[t] = Local(call[t])
      BY DEF IInv, Types
    <2>2. c = Local(c) /\ c.base = call[t].base /\ call' = [call EXCEPT ![t] = c]
      BY <1>3, <2>1 DEF Local
    <2> HIDE DEF c
    <2> QED
      BY <1>1, <1>3, <2>2, NewCall, MoveKeeps DEF Inside, Locations
  <1> QED
    BY <1>2, <1>3 DEF Scan

LEMMA CarveBlockKeeps ==
    ASSUME IInv, NEW t \in Threads, CarveBlock(t)
    PROVE  IInv'
  <1>1. /\ pc[t] = "carve" /\ lock' = NoThread /\ UNCHANGED <<gbase, gres>>
        /\ Goto(t, "fill") \/ Goto(t, "copy")
    BY DEF CarveBlock, Unlock, poolVars
  <1>2. PICK p : call' = [call EXCEPT ![t].ptr = p]
    BY DEF CarveBlock
  <1> DEFINE c == [call[t] EXCEPT !.ptr = p]
  <1>3. call[t] = Local(call[t])
    BY DEF IInv, Types
  <1>4. c = Local(c) /\ c.base = call[t].base /\ call' = [call EXCEPT ![t] = c]
    BY <1>2, <1>3 DEF Local
  <1> HIDE DEF c
  <1> QED
    BY <1>1, <1>4, NewCall, LeaveKeeps DEF Inside, Locations

LEMMA ReallocKeeps ==
    ASSUME IInv, NEW t \in Threads, NEW i, NEW size, Realloc(t, i, size)
    PROVE  IInv'
  <1>1. pc[t] = "idle" /\ UNCHANGED <<gbase, gres, lock>>
    BY DEF Realloc, poolVars
  <1>2. CASE UNCHANGED <<pc, call>>
    BY <1>1, <1>2 DEF IInv, Types, LockFollowsPath, Published
  <1>3. ASSUME NEW old, Goto(t, "relock"),
               call' = [call EXCEPT ![t] = [NoCall EXCEPT !.id = i, !.size = size,
                                                        !.align = ALIGN, !.old = old]]
        PROVE  IInv'
    <2>1. PICK c : /\ c = [NoCall EXCEPT !.id = i, !.size = size, !.align = ALIGN, !.old = old]
                   /\ call' = [call EXCEPT ![t] = c]
      BY <1>3
    <2>2. c = Local(c)
      BY <2>1, NoArguments DEF Local
    <2>3. c.base = Null
      BY <2>1, NoArguments DEF Local
    <2> QED
      BY <1>1, <1>3, <2>1, <2>2, <2>3, NewCall, MoveKeeps DEF Inside, Locations
  <1> QED
    BY <1>2, <1>3 DEF Realloc

LEMMA QueryKeeps ==
    ASSUME IInv, NEW t \in Threads, QueryBase(t) \/ QueryRes(t)
    PROVE  IInv'
  <1>1. CASE QueryRes(t)
    BY <1>1, ReturnFacts, MoveKeeps DEF QueryRes, poolVars, Inside, Locations
  <1>2. CASE QueryBase(t)
    <2> DEFINE c == [NoCall EXCEPT !.base = gbase]
    <2>1. c = Local(c) /\ c.base = gbase /\ call' = [call EXCEPT ![t] = c]
      BY <1>2 DEF QueryBase, NoCall, Local
    <2> HIDE DEF c
    <2> QED
      BY <1>2, <2>1, NewCall, MoveKeeps DEF QueryBase, poolVars, Inside, Locations
  <1> QED
    BY <1>1, <1>2

LEMMA NextInv == IInv /\ [Next]_vars => IInv'
  <1> SUFFICES ASSUME IInv, [Next]_vars PROVE IInv'
    OBVIOUS
  <1>1. CASE UNCHANGED vars
    BY <1>1 DEF vars, IInv, Types, LockFollowsPath, Published
  <1>2. ASSUME NEW t \in Threads, NEW r \in Requests, Alloc(t, r[1], r[2]) PROVE IInv'
    BY <1>2, AllocKeeps
  <1>3. ASSUME NEW t \in Threads, NEW i \in Ids, Free(t, i) PROVE IInv'
    BY <1>3 DEF Free, poolVars, IInv, Types, LockFollowsPath, Published
  <1>4. ASSUME NEW t \in Threads, NEW i \in Ids, NEW n \in ReallocSizes, Realloc(t, i, n)
        PROVE  IInv'
    BY <1>4, ReallocKeeps
  <1>5. ASSUME NEW t \in Threads, Locked(t) PROVE IInv'
    BY <1>5, MapRegionKeeps, PublishKeeps, ScanKeeps, CarveBlockKeeps DEF Locked
  <1>6. ASSUME NEW t \in Threads, Fill(t) PROVE IInv'
    BY <1>6, ReturnFacts, MoveKeeps DEF Fill, poolVars, Inside, Locations
  <1>7. ASSUME NEW t \in Threads, Relock(t) PROVE IInv'
    <2>1. call' = [u \in Threads |-> Local(call'[u])]
      BY <1>7 DEF Relock, IInv, Types
    <2> QED
      BY <1>7, <2>1, EnterKeeps DEF Relock, LockFree, poolVars
  <1>8. ASSUME NEW t \in Threads, Copy(t) \/ FreeOld(t) PROVE IInv'
    <2>1. call' = [u \in Threads |-> Local(call'[u])]
      BY <1>8 DEF Copy, FreeOld, IInv, Types
    <2>2. /\ pc[t] \in {"copy", "refree"}
          /\ Goto(t, "refree") \/ Goto(t, "fill")
          /\ UNCHANGED <<gbase, gres, lock, call>>
      BY <1>8 DEF Copy, FreeOld, poolVars
    <2> QED
      BY <2>1, <2>2, MoveKeeps DEF Inside, Locations
  <1>9. ASSUME NEW t \in Threads, QueryBase(t) \/ QueryRes(t) PROVE IInv'
    BY <1>9, QueryKeeps
  <1>10. ASSUME NEW t \in Threads, PoolInit(t) PROVE IInv'
    BY <1>10, PoolInitKeeps
  <1> QED
    BY <1>1, <1>2, <1>3, <1>4, <1>5, <1>6, <1>7, <1>8, <1>9, <1>10 DEF Next

LEMMA InvHolds == Spec => []IInv
  BY InitInv, NextInv, PTL DEF Spec

(* At most one thread is inside the allocator, and g_lock is free whenever   *)
(* none is, after a failed mmap and an exhausted pool too: SpinLockGuard     *)
(* (heap_pool.cpp:46-58) covers every way out.                               *)
THEOREM LockHeldInside == Spec => []LockFollowsPath
  <1>1. IInv => LockFollowsPath
    BY DEF IInv
  <1> QED
    BY <1>1, InvHolds, PTL

(* A lock-free reader that has seen the base then sees the length            *)
(* (heap_pool.cpp:105-107).                                                  *)
THEOREM NoBaseWithoutLength == Spec => []PublishedTogether
  <1>1. IInv => PublishedTogether
    BY DEF IInv, Published, PublishedTogether
  <1> QED
    BY <1>1, InvHolds, PTL

USE DEF ALIGN, HDR, FTR, PTR, MIN_BSIZE, Null

-------------------------------------------------------------------------------
(* The words of a heap.                                                      *)

End    == Base + Res
Addr   == {a \in Int : Base <= a /\ a < End /\ a % 8 = 0}
Words  == [0 .. Res \div PTR - 1 -> Int]
IsHeap(h) == h \in [mem : Words, bins : [Bins -> Int]]

(* The reservation. *)
LEMMA Region ==
    /\ Base \in Nat /\ Base > 0 /\ Base % 16 = 0 /\ End \in Nat /\ End % 16 = 0
    /\ Res \in Nat /\ Res >= 32 /\ Res % 16 = 0 /\ NBins \in Nat /\ NBins >= 1
    /\ 0 \in Bins
  BY ConstantsOK DEF End, Bins

(* Every word address is the address of the word its index names. *)
LEMMA WordIndex ==
    \A a \in Addr : (a - Base) \div 8 \in 0 .. Res \div 8 - 1 /\ a = Base + 8 * ((a - Base) \div 8)
  BY Region DEF Addr, End

(* What is read at a word address is a number. *)
LEMMA WordType == ASSUME NEW h, IsHeap(h), NEW a \in Addr PROVE Word(h, a) \in Int
  BY WordIndex DEF IsHeap, Words, Word

(* A word is stored where it is read, and nowhere else. *)
LEMMA PutFacts ==
    ASSUME NEW h, IsHeap(h), NEW a \in Addr, NEW w \in Int
    PROVE  /\ IsHeap(Put(h, a, w)) /\ Put(h, a, w).bins = h.bins
           /\ Word(Put(h, a, w), a) = w
           /\ \A b \in Addr : b # a => Word(Put(h, a, w), b) = Word(h, b)
  BY WordIndex DEF IsHeap, Words, Put, Word

(* A bin head is stored where it is read, and no word changes. *)
LEMMA HeadFacts ==
    ASSUME NEW h, IsHeap(h), NEW i \in Bins, NEW B \in Int
    PROVE  /\ IsHeap(PutHead(h, i, B)) /\ PutHead(h, i, B).bins = [h.bins EXCEPT ![i] = B]
           /\ \A b : Word(PutHead(h, i, B), b) = Word(h, b)
  BY DEF IsHeap, Words, Word, PutHead

(* Sizes and the allocation bit. *)
LEMMA HeaderFacts ==
    ASSUME NEW h, IsHeap(h), NEW B \in Addr
    PROVE  /\ BSize(h, B) \in Int /\ Allocated(h, B) \in BOOLEAN
           /\ Word(h, B) = BSize(h, B) + (IF Allocated(h, B) THEN 1 ELSE 0)
  BY WordType DEF BSize, Allocated

(* Equal header words give equal sizes and allocation bits. *)
LEMMA SameHeader ==
    ASSUME NEW h, NEW g, NEW B, Word(g, B) = Word(h, B)
    PROVE  BSize(g, B) = BSize(h, B) /\ (Allocated(g, B) <=> Allocated(h, B))
  BY DEF BSize, Allocated

(* The size classes are ordered as the sizes are. *)
LEMMA BinIndexFacts ==
    /\ \A bs \in Int : BinIndex(bs) \in Bins
    /\ \A x, y \in Int : x <= y => BinIndex(x) <= BinIndex(y)
  <1> DEFINE Classes(bs) == {i \in 1 .. NBins - 1 : 2^(i + 4) <= bs}
  <1>1. IsFiniteSet(1 .. NBins - 1) /\ Cardinality(1 .. NBins - 1) = NBins - 1
    BY Region, FS_Interval
  <1>2. ASSUME NEW bs \in Int
        PROVE  IsFiniteSet(Classes(bs)) /\ Cardinality(Classes(bs)) \in 0 .. NBins - 1
    <2>1. IsFiniteSet(Classes(bs)) /\ Cardinality(Classes(bs)) <= NBins - 1
      BY <1>1, FS_Subset
    <2>2. Cardinality(Classes(bs)) \in Nat
      BY <2>1, FS_CardinalityType
    <2> QED
      BY <2>1, <2>2, Region
  <1>3. ASSUME NEW x \in Int, NEW y \in Int, x <= y
        PROVE  Cardinality(Classes(x)) <= Cardinality(Classes(y))
    <2>1. \A i \in 1 .. NBins - 1 : 2^(i + 4) <= x => 2^(i + 4) <= y
      BY <1>3, Region, SMT
    <2>2. Classes(x) \subseteq Classes(y)
      BY <2>1
    <2> QED
      BY <1>2, <2>2, FS_Subset
  <1> QED
    BY <1>2, <1>3 DEF BinIndex, Bins

-------------------------------------------------------------------------------
(* The free lists.  A set of block starts: aligned, at least a minimal block *)
(* from each other and from the end.                                         *)
Starts(S) ==
    /\ \A B \in S : B \in Int /\ B % 16 = 0 /\ Base <= B /\ B + 32 <= End
    /\ \A B, C \in S : B < C => B + 32 <= C

(* The header and link words of a block are words of the reservation, and no *)
(* other block has them.                                                     *)
LEMMA StartWords ==
    ASSUME NEW S, Starts(S)
    PROVE  /\ \A B \in S : B \in Addr /\ B + 8 \in Addr /\ B + 16 \in Addr /\ B # Null
           /\ \A B, C \in S : /\ B # C + 8 /\ B # C + 16 /\ B + 8 # C + 16
                              /\ (B + 8 = C + 8 \/ B + 16 = C + 16) => B = C
  <1>1. ASSUME NEW B \in S PROVE B \in Addr /\ B + 8 \in Addr /\ B + 16 \in Addr /\ B # Null
    <2>1. B \in Int /\ B % 16 = 0 /\ Base <= B /\ B + 32 <= End
      BY <1>1 DEF Starts
    <2>2. B % 8 = 0 /\ (B + 8) % 8 = 0 /\ (B + 16) % 8 = 0
      BY <2>1
    <2> QED
      BY <2>1, <2>2, Region DEF Addr
  <1>2. \A B, C \in S : B \in Int /\ C \in Int /\ (B < C => B + 32 <= C) /\ (C < B => C + 32 <= B)
    BY DEF Starts
  <1>3. \A B, C \in S : /\ B # C + 8 /\ B # C + 16 /\ B + 8 # C + 16
                        /\ (B + 8 = C + 8 \/ B + 16 = C + 16) => B = C
    BY <1>2
  <1> QED
    BY <1>1, <1>3

Bin(h, B) == BinIndex(BSize(h, B))

(* The lists hold the blocks of F, each in the bin of its size: next and     *)
(* previous agree, only a head has no predecessor, and a rank that grows     *)
(* along every list shows that following the links comes to an end.          *)
Links(h, F) ==
    /\ \A B \in F : FlNext(h, B) \in F \cup {Null} /\ FlPrev(h, B) \in F \cup {Null}
    /\ \A B \in F : FlNext(h, B) # Null =>
          FlPrev(h, FlNext(h, B)) = B /\ Bin(h, FlNext(h, B)) = Bin(h, B)
    /\ \A B \in F : FlPrev(h, B) # Null => FlNext(h, FlPrev(h, B)) = B
    /\ \A B \in F : FlPrev(h, B) = Null <=> h.bins[Bin(h, B)] = B
    /\ \A i \in Bins : h.bins[i] # Null => h.bins[i] \in F /\ Bin(h, h.bins[i]) = i
    /\ \E r \in [F -> Nat] : \A B \in F : FlNext(h, B) # Null => r[B] < r[FlNext(h, B)]

(* Lists of the same blocks survive any change elsewhere. *)
LEMMA LinksKept ==
    ASSUME NEW h, NEW g, NEW F, Links(h, F), g.bins = h.bins,
           \A B \in F : BSize(g, B) = BSize(h, B) /\ FlNext(g, B) = FlNext(h, B)
                        /\ FlPrev(g, B) = FlPrev(h, B)
    PROVE  Links(g, F)
  <1>1. \A B \in F : Bin(g, B) = Bin(h, B)
    BY DEF Bin
  <1>2. Null \notin F => \A B \in F : FlNext(h, B) # Null => FlNext(h, B) \in F
    BY DEF Links
  <1>3. PICK r \in [F -> Nat] : \A B \in F : FlNext(h, B) # Null => r[B] < r[FlNext(h, B)]
    BY DEF Links
  <1>4. \A B \in F : FlNext(g, B) # Null => r[B] < r[FlNext(g, B)]
    BY <1>3
  <1>5. \A B \in F : FlNext(g, B) # Null =>
          FlPrev(g, FlNext(g, B)) = B /\ Bin(g, FlNext(g, B)) = Bin(g, B)
    BY <1>1 DEF Links
  <1>6. \A B \in F : FlPrev(g, B) # Null => FlNext(g, FlPrev(g, B)) = B
    BY <1>1 DEF Links
  <1>7. \A B \in F : FlPrev(g, B) = Null <=> g.bins[Bin(g, B)] = B
    BY <1>1 DEF Links
  <1>8. \A i \in Bins : g.bins[i] # Null => g.bins[i] \in F /\ Bin(g, g.bins[i]) = i
    BY <1>1 DEF Links
  <1> QED
    BY <1>4, <1>5, <1>6, <1>7, <1>8 DEF Links

(* bin_remove, word by word. *)
LEMMA RemoveWords ==
    ASSUME NEW h, IsHeap(h), NEW F, Starts(F), Links(h, F), NEW B \in F, NEW g, g = BinRemove(h, B),
           NEW p, p = FlPrev(h, B), NEW n, n = FlNext(h, B)
    PROVE  /\ IsHeap(g)
           /\ g.bins = IF p = Null THEN [h.bins EXCEPT ![Bin(h, B)] = n] ELSE h.bins
           /\ p # Null => Word(g, p + 8) = n
           /\ n # Null => Word(g, n + 16) = p
           /\ \A a \in Addr : (p # Null => a # p + 8) /\ (n # Null => a # n + 16) =>
                  Word(g, a) = Word(h, a)
  <1>1. /\ B \in Addr /\ p \in Int /\ n \in Int
        /\ p # Null => p \in F /\ p + 8 \in Addr
        /\ n # Null => n \in F /\ n + 16 \in Addr
        /\ p # Null /\ n # Null => p + 8 # n + 16
    <2>1. p \in F \cup {Null} /\ n \in F \cup {Null}
      BY DEF Links
    <2>2. F \subseteq Int
      BY DEF Starts
    <2> QED
      BY <2>1, <2>2, StartWords
  <1>2. Bin(h, B) \in Bins
    BY <1>1, HeaderFacts, BinIndexFacts DEF Bin
  <1>3. PICK h1 : h1 = IF p = Null THEN PutHead(h, Bin(h, B), n) ELSE Put(h, p + 8, n)
    OBVIOUS
  <1>4. g = IF n = Null THEN h1 ELSE Put(h1, n + 16, p)
    <2>1. n # Null => n + 8 + 8 = n + 16
      BY <1>1
    <2> QED
      BY <1>3, <2>1 DEF BinRemove, Bin
  <1>5. /\ IsHeap(h1)
        /\ h1.bins = IF p = Null THEN [h.bins EXCEPT ![Bin(h, B)] = n] ELSE h.bins
        /\ p # Null => Word(h1, p + 8) = n
        /\ \A a \in Addr : (p # Null => a # p + 8) => Word(h1, a) = Word(h, a)
    <2>1. CASE p = Null
      <3>1. h1 = PutHead(h, Bin(h, B), n)
        BY <1>3, <2>1
      <3> QED
        BY <1>1, <1>2, <2>1, <3>1, HeadFacts
    <2>2. CASE p # Null
      <3>1. h1 = Put(h, p + 8, n)
        BY <1>3, <2>2
      <3> QED
        BY <1>1, <2>2, <3>1, PutFacts
    <2> QED
      BY <2>1, <2>2
  <1>6. CASE n = Null
    BY <1>4, <1>5, <1>6
  <1>7. CASE n # Null
    <2>1. g = Put(h1, n + 16, p) /\ n + 16 \in Addr /\ p \in Int /\ IsHeap(h1)
      BY <1>1, <1>4, <1>5, <1>7
    <2>2. /\ IsHeap(g) /\ g.bins = h1.bins /\ Word(g, n + 16) = p
          /\ \A a \in Addr : a # n + 16 => Word(g, a) = Word(h1, a)
      BY <2>1, PutFacts
    <2> QED
      BY <1>1, <1>5, <1>7, <2>2
  <1> QED
    BY <1>6, <1>7

(* bin_remove takes one block out of the lists and keeps the others. *)
LEMMA RemoveFacts ==
    ASSUME NEW h, IsHeap(h), NEW F, Starts(F), Links(h, F), NEW B \in F, NEW g, g = BinRemove(h, B)
    PROVE  /\ IsHeap(g) /\ Links(g, F \ {B})
           /\ \A a \in Addr : (\A C \in F \ {B} : a # C + 8 /\ a # C + 16) => Word(g, a) = Word(h, a)
  <1>1. PICK p, n : p = FlPrev(h, B) /\ n = FlNext(h, B)
    OBVIOUS
  <1>2. /\ IsHeap(g)
        /\ g.bins = IF p = Null THEN [h.bins EXCEPT ![Bin(h, B)] = n] ELSE h.bins
        /\ p # Null => Word(g, p + 8) = n
        /\ n # Null => Word(g, n + 16) = p
        /\ \A a \in Addr : (p # Null => a # p + 8) /\ (n # Null => a # n + 16) =>
                  Word(g, a) = Word(h, a)
    BY <1>1, RemoveWords
  <1>3. PICK r \in [F -> Nat] : \A C \in F : FlNext(h, C) # Null => r[C] < r[FlNext(h, C)]
    BY DEF Links
  <1>4. /\ p # Null => p \in F \ {B} /\ FlNext(h, p) = B /\ Bin(h, p) = Bin(h, B) /\ r[p] < r[B]
        /\ n # Null => n \in F \ {B} /\ FlPrev(h, n) = B /\ Bin(h, n) = Bin(h, B) /\ r[B] < r[n]
        /\ B # Null
    BY <1>1, <1>3, StartWords DEF Links
  <1>5. \A C \in F : /\ FlNext(g, C) = IF p # Null /\ C = p THEN n ELSE FlNext(h, C)
                     /\ FlPrev(g, C) = IF n # Null /\ C = n THEN p ELSE FlPrev(h, C)
                     /\ BSize(g, C) = BSize(h, C) /\ Bin(g, C) = Bin(h, C)
    <2> SUFFICES ASSUME NEW C \in F
                 PROVE  /\ FlNext(g, C) = IF p # Null /\ C = p THEN n ELSE FlNext(h, C)
                        /\ FlPrev(g, C) = IF n # Null /\ C = n THEN p ELSE FlPrev(h, C)
                        /\ Word(g, C) = Word(h, C)
      BY SameHeader DEF Bin
    <2>1. C \in Addr /\ C + 8 \in Addr /\ C + 16 \in Addr
      BY StartWords
    <2>2. /\ p # Null => C # p + 8 /\ C + 16 # p + 8 /\ (C + 8 = p + 8 => C = p)
          /\ n # Null => C # n + 16 /\ C + 8 # n + 16 /\ (C + 16 = n + 16 => C = n)
      BY <1>4, StartWords
    <2>3. C + 8 + 8 = C + 16
      BY <2>1 DEF Addr
    <2>4. /\ Word(g, C + 8) = IF p # Null /\ C = p THEN n ELSE Word(h, C + 8)
          /\ Word(g, C + 16) = IF n # Null /\ C = n THEN p ELSE Word(h, C + 16)
          /\ Word(g, C) = Word(h, C)
      BY <1>2, <2>1, <2>2
    <2> QED
      BY <2>3, <2>4 DEF FlNext, FlPrev
  <1> DEFINE G == F \ {B}
  <1>6. \A C \in G : FlNext(g, C) \in G \cup {Null} /\ FlPrev(g, C) \in G \cup {Null}
    <2>1. \A C \in G : C # Null /\ FlNext(h, C) \in F \cup {Null} /\ FlPrev(h, C) \in F \cup {Null}
      BY StartWords DEF Links
    <2>2. \A C \in G : (FlNext(h, C) = B => C = p) /\ (FlPrev(h, C) = B => C = n)
      BY <1>1, <1>4 DEF Links
    <2> QED
      BY <1>4, <1>5, <2>1, <2>2
  <1>7. \A C \in G : FlNext(g, C) # Null =>
          FlPrev(g, FlNext(g, C)) = C /\ Bin(g, FlNext(g, C)) = Bin(g, C)
    BY <1>1, <1>4, <1>5 DEF Links
  <1>8. \A C \in G : FlPrev(g, C) # Null => FlNext(g, FlPrev(g, C)) = C
    BY <1>1, <1>4, <1>5 DEF Links
  <1>9. h.bins \in [Bins -> Int] /\ \A C \in F : Bin(h, C) \in Bins
    BY StartWords, HeaderFacts, BinIndexFacts DEF Bin, IsHeap
  <1>10. \A C \in G : FlPrev(g, C) = Null <=> g.bins[Bin(g, C)] = C
    <2> SUFFICES ASSUME NEW C \in G PROVE FlPrev(g, C) = Null <=> g.bins[Bin(g, C)] = C
      OBVIOUS
    <2>1. FlPrev(h, C) = Null <=> h.bins[Bin(h, C)] = C
      BY DEF Links
    <2>2. FlPrev(h, B) = Null <=> h.bins[Bin(h, B)] = B
      BY DEF Links
    <2>3. CASE p # Null
      BY <1>1, <1>2, <1>4, <1>5, <2>1, <2>3
    <2>4. CASE p = Null
      <3>1. FlPrev(g, C) = IF n # Null /\ C = n THEN Null ELSE FlPrev(h, C)
        BY <1>5, <2>4
      <3>2. g.bins[Bin(g, C)] = IF Bin(h, C) = Bin(h, B) THEN n ELSE h.bins[Bin(h, C)]
        BY <1>2, <1>5, <1>9, <2>4
      <3>3. C # Null /\ C # B
        BY StartWords
      <3> QED
        BY <1>1, <1>4, <2>1, <2>2, <2>4, <3>1, <3>2, <3>3
    <2> QED
      BY <2>3, <2>4
  <1>11. \A i \in Bins : g.bins[i] # Null => g.bins[i] \in G /\ Bin(g, g.bins[i]) = i
    <2> SUFFICES ASSUME NEW i \in Bins, g.bins[i] # Null
                 PROVE  g.bins[i] \in G /\ Bin(g, g.bins[i]) = i
      OBVIOUS
    <2>1. h.bins[i] # Null => h.bins[i] \in F /\ Bin(h, h.bins[i]) = i
      BY DEF Links
    <2>2. FlPrev(h, B) = Null <=> h.bins[Bin(h, B)] = B
      BY DEF Links
    <2> QED
      BY <1>1, <1>2, <1>4, <1>5, <1>9, <2>1, <2>2
  <1>12. \E s \in [G -> Nat] : \A C \in G : FlNext(g, C) # Null => s[C] < s[FlNext(g, C)]
    <2> DEFINE s == [C \in G |-> r[C]]
    <2>1. s \in [G -> Nat]
      BY <1>3
    <2>2. ASSUME NEW C \in G, FlNext(g, C) # Null PROVE r[C] < r[FlNext(g, C)]
      <3>1. r[C] \in Nat /\ r[B] \in Nat /\ (n # Null => r[n] \in Nat) /\ (p # Null => r[p] \in Nat)
        BY <1>3, <1>4
      <3> QED
        BY <1>3, <1>4, <1>5, <2>2, <3>1
    <2>3. \A C \in G : FlNext(g, C) # Null => s[C] < s[FlNext(g, C)]
      BY <1>6, <2>2
    <2> QED
      BY <2>1, <2>3
  <1>13. Links(g, G)
    <2> HIDE DEF G
    <2> QED
      BY <1>6, <1>7, <1>8, <1>10, <1>11, <1>12 DEF Links
  <1>14. \A a \in Addr : (\A C \in F \ {B} : a # C + 8 /\ a # C + 16) => Word(g, a) = Word(h, a)
    BY <1>2, <1>4
  <1> QED
    BY <1>2, <1>13, <1>14

(* bin_insert, word by word. *)
LEMMA InsertWords ==
    ASSUME NEW h, IsHeap(h), NEW F, NEW B, Starts(F \cup {B}), Links(h, F), B \notin F,
           NEW g, g = BinInsert(h, B), NEW d, d = h.bins[Bin(h, B)]
    PROVE  /\ IsHeap(g) /\ g.bins = [h.bins EXCEPT ![Bin(h, B)] = B]
           /\ FlNext(g, B) = d /\ FlPrev(g, B) = Null
           /\ d # Null => Word(g, d + 16) = B
           /\ \A a \in Addr : a # B + 8 /\ a # B + 16 /\ (d # Null => a # d + 16) =>
                  Word(g, a) = Word(h, a)
  <1>1. /\ B \in Addr /\ B \in Int /\ B + 8 \in Addr /\ B + 16 \in Addr
        /\ B + 8 # B + 16
    BY StartWords DEF Addr
  <1>2. Bin(h, B) \in Bins /\ d \in Int
    BY <1>1, HeaderFacts, BinIndexFacts DEF Bin, IsHeap
  <1>3. d # Null => /\ d \in F /\ d + 16 \in Addr
                    /\ d + 16 # B + 8 /\ d + 16 # B + 16 /\ d + 16 # B
    BY <1>2, StartWords DEF Links
  <1>4. PICK h0, h1, h2 :
          /\ h0 = Put(h, B + 16, Null) /\ h1 = Put(h0, B + 8, d)
          /\ h2 = IF d = Null THEN h1 ELSE Put(h1, d + 16, B)
    OBVIOUS
  <1>5. B + 8 + 8 = B + 16 /\ (d # Null => d + 8 + 8 = d + 16)
    BY <1>1, <1>2
  <1>6. g = PutHead(h2, Bin(h, B), B)
    BY <1>4, <1>5 DEF BinInsert, Bin
  <1>7. /\ IsHeap(h0) /\ h0.bins = h.bins /\ Word(h0, B + 16) = Null
        /\ \A a \in Addr : a # B + 16 => Word(h0, a) = Word(h, a)
    <2>1. PICK a : a = B + 16 /\ a \in Addr /\ h0 = Put(h, a, Null)
      BY <1>1, <1>4
    <2>2. /\ IsHeap(h0) /\ h0.bins = h.bins /\ Word(h0, a) = Null
          /\ \A b \in Addr : b # a => Word(h0, b) = Word(h, b)
      BY <2>1, PutFacts
    <2> QED
      BY <2>1, <2>2
  <1>8. /\ IsHeap(h1) /\ h1.bins = h.bins /\ Word(h1, B + 16) = Null /\ Word(h1, B + 8) = d
        /\ \A a \in Addr : a # B + 16 /\ a # B + 8 => Word(h1, a) = Word(h, a)
    <2>1. PICK a : a = B + 8 /\ a \in Addr /\ h1 = Put(h0, a, d) /\ d \in Int
      BY <1>1, <1>2, <1>4
    <2>2. /\ IsHeap(h1) /\ h1.bins = h0.bins /\ Word(h1, a) = d
          /\ \A b \in Addr : b # a => Word(h1, b) = Word(h0, b)
      BY <1>7, <2>1, PutFacts
    <2> QED
      BY <1>1, <1>7, <2>1, <2>2
  <1>9. /\ IsHeap(h2) /\ h2.bins = h.bins /\ Word(h2, B + 16) = Null /\ Word(h2, B + 8) = d
        /\ d # Null => Word(h2, d + 16) = B
        /\ \A a \in Addr : a # B + 16 /\ a # B + 8 /\ (d # Null => a # d + 16) =>
               Word(h2, a) = Word(h, a)
    <2>1. CASE d = Null
      BY <1>4, <1>8, <2>1
    <2>2. CASE d # Null
      <3>1. h2 = Put(h1, d + 16, B) /\ d + 16 \in Addr /\ B \in Int
        BY <1>1, <1>3, <1>4, <2>2
      <3>2. /\ IsHeap(h2) /\ h2.bins = h1.bins /\ Word(h2, d + 16) = B
            /\ \A a \in Addr : a # d + 16 => Word(h2, a) = Word(h1, a)
        BY <1>8, <3>1, PutFacts
      <3> QED
        BY <1>1, <1>3, <1>8, <2>2, <3>2
    <2> QED
      BY <2>1, <2>2
  <1>10. IsHeap(g) /\ g.bins = [h2.bins EXCEPT ![Bin(h, B)] = B] /\ \A a : Word(g, a) = Word(h2, a)
    BY <1>1, <1>2, <1>6, <1>9, HeadFacts
  <1> QED
    BY <1>1, <1>3, <1>5, <1>9, <1>10 DEF FlNext, FlPrev

(* bin_insert puts one block at the head of its list and keeps the others. *)
LEMMA InsertFacts ==
    ASSUME NEW h, IsHeap(h), NEW F, NEW B, Starts(F \cup {B}), Links(h, F), B \notin F,
           NEW g, g = BinInsert(h, B)
    PROVE  /\ IsHeap(g) /\ Links(g, F \cup {B})
           /\ \A a \in Addr : (\A C \in F \cup {B} : a # C + 8 /\ a # C + 16) =>
                  Word(g, a) = Word(h, a)
  <1>1. PICK d : d = h.bins[Bin(h, B)]
    OBVIOUS
  <1>2. /\ IsHeap(g) /\ g.bins = [h.bins EXCEPT ![Bin(h, B)] = B]
        /\ FlNext(g, B) = d /\ FlPrev(g, B) = Null
        /\ d # Null => Word(g, d + 16) = B
        /\ \A a \in Addr : a # B + 8 /\ a # B + 16 /\ (d # Null => a # d + 16) =>
               Word(g, a) = Word(h, a)
    BY <1>1, InsertWords
  <1> DEFINE G == F \cup {B}
  <1>3. h.bins \in [Bins -> Int] /\ \A C \in G : Bin(h, C) \in Bins
    BY StartWords, HeaderFacts, BinIndexFacts DEF Bin, IsHeap
  <1>4. d # Null => d \in F /\ Bin(h, d) = Bin(h, B) /\ FlPrev(h, d) = Null
    BY <1>1, <1>3 DEF Links
  <1>5. \A C \in G : /\ FlNext(g, C) = IF C = B THEN d ELSE FlNext(h, C)
                     /\ FlPrev(g, C) = IF C = B THEN Null
                                       ELSE IF d # Null /\ C = d THEN B ELSE FlPrev(h, C)
                     /\ BSize(g, C) = BSize(h, C) /\ Bin(g, C) = Bin(h, C)
    <2> SUFFICES ASSUME NEW C \in G
                 PROVE  /\ FlNext(g, C) = IF C = B THEN d ELSE FlNext(h, C)
                        /\ FlPrev(g, C) = IF C = B THEN Null
                                          ELSE IF d # Null /\ C = d THEN B ELSE FlPrev(h, C)
                        /\ Word(g, C) = Word(h, C)
      BY SameHeader DEF Bin
    <2>1. C \in Addr /\ C + 8 \in Addr /\ C + 16 \in Addr /\ C + 8 + 8 = C + 16
      BY StartWords DEF Addr
    <2>2. /\ C # B + 8 /\ C + 16 # B + 8 /\ (C + 8 = B + 8 => C = B)
          /\ C # B + 16 /\ C + 8 # B + 16 /\ (C + 16 = B + 16 => C = B)
          /\ d # Null => C # d + 16 /\ C + 8 # d + 16 /\ (C + 16 = d + 16 => C = d)
      BY <1>4, StartWords
    <2> QED
      BY <1>2, <1>4, <2>1, <2>2 DEF FlNext, FlPrev
  <1>6. B # Null /\ \A C \in F : C # B /\ C # Null
    BY StartWords
  <1>7. \A C \in G : FlNext(g, C) \in G \cup {Null} /\ FlPrev(g, C) \in G \cup {Null}
    BY <1>4, <1>5 DEF Links
  <1>8. \A C \in G : FlNext(g, C) # Null =>
          FlPrev(g, FlNext(g, C)) = C /\ Bin(g, FlNext(g, C)) = Bin(g, C)
    <2> SUFFICES ASSUME NEW C \in G, FlNext(g, C) # Null
                 PROVE  FlPrev(g, FlNext(g, C)) = C /\ Bin(g, FlNext(g, C)) = Bin(g, C)
      OBVIOUS
    <2>1. CASE C = B
      BY <1>4, <1>5, <1>6, <2>1
    <2>2. CASE C # B
      <3>1. FlNext(h, C) \in F /\ FlPrev(h, FlNext(h, C)) = C /\ Bin(h, FlNext(h, C)) = Bin(h, C)
        BY <1>5, <2>2 DEF Links
      <3> QED
        BY <1>4, <1>5, <1>6, <2>2, <3>1
    <2> QED
      BY <2>1, <2>2
  <1>9. \A C \in G : FlPrev(g, C) # Null => FlNext(g, FlPrev(g, C)) = C
    <2> SUFFICES ASSUME NEW C \in G, FlPrev(g, C) # Null PROVE FlNext(g, FlPrev(g, C)) = C
      OBVIOUS
    <2>1. CASE C = B
      BY <1>5, <2>1
    <2>2. CASE C # B /\ d # Null /\ C = d
      BY <1>4, <1>5, <2>2
    <2>3. CASE C # B /\ ~(d # Null /\ C = d)
      <3>1. FlPrev(h, C) \in F /\ FlNext(h, FlPrev(h, C)) = C
        BY <1>5, <2>3 DEF Links
      <3> QED
        BY <1>5, <1>6, <2>3, <3>1
    <2> QED
      BY <2>1, <2>2, <2>3
  <1>10. \A C \in G : FlPrev(g, C) = Null <=> g.bins[Bin(g, C)] = C
    <2> SUFFICES ASSUME NEW C \in G PROVE FlPrev(g, C) = Null <=> g.bins[Bin(g, C)] = C
      OBVIOUS
    <2>1. g.bins[Bin(g, C)] = IF Bin(h, C) = Bin(h, B) THEN B ELSE h.bins[Bin(h, C)]
      BY <1>2, <1>3, <1>5
    <2>2. CASE C = B
      BY <1>5, <2>1, <2>2
    <2>3. CASE C # B
      <3>1. FlPrev(h, C) = Null <=> h.bins[Bin(h, C)] = C
        BY <2>3 DEF Links
      <3> QED
        BY <1>1, <1>4, <1>5, <1>6, <2>1, <2>3, <3>1
    <2> QED
      BY <2>2, <2>3
  <1>11. \A i \in Bins : g.bins[i] # Null => g.bins[i] \in G /\ Bin(g, g.bins[i]) = i
    <2> SUFFICES ASSUME NEW i \in Bins, g.bins[i] # Null
                 PROVE  g.bins[i] \in G /\ Bin(g, g.bins[i]) = i
      OBVIOUS
    <2>1. h.bins[i] # Null => h.bins[i] \in F /\ Bin(h, h.bins[i]) = i
      BY DEF Links
    <2> QED
      BY <1>2, <1>3, <1>5, <2>1
  <1>12. \E s \in [G -> Nat] : \A C \in G : FlNext(g, C) # Null => s[C] < s[FlNext(g, C)]
    <2>1. PICK r \in [F -> Nat] : \A C \in F : FlNext(h, C) # Null => r[C] < r[FlNext(h, C)]
      BY DEF Links
    <2> DEFINE s == [C \in G |-> IF C = B THEN 0 ELSE r[C] + 1]
    <2>2. s \in [G -> Nat]
      BY <2>1
    <2>3. ASSUME NEW C \in G, FlNext(g, C) # Null PROVE s[C] < s[FlNext(g, C)]
      <3>1. CASE C = B
        BY <1>4, <1>5, <1>6, <2>1, <2>3, <3>1
      <3>2. CASE C # B
        <4>1. C \in F /\ FlNext(g, C) = FlNext(h, C) /\ FlNext(h, C) \in F
          BY <1>5, <2>3, <3>2 DEF Links
        <4>2. r[C] \in Nat /\ r[FlNext(h, C)] \in Nat /\ r[C] < r[FlNext(h, C)]
          BY <2>1, <2>3, <4>1
        <4> QED
          BY <1>6, <3>2, <4>1, <4>2
      <3> QED
        BY <3>1, <3>2
    <2> QED
      BY <2>2, <2>3
  <1>13. Links(g, G)
    <2> HIDE DEF G
    <2> QED
      BY <1>7, <1>8, <1>9, <1>10, <1>11, <1>12 DEF Links
  <1>14. \A a \in Addr : (\A C \in F \cup {B} : a # C + 8 /\ a # C + 16) => Word(g, a) = Word(h, a)
    BY <1>2, <1>4
  <1> QED
    BY <1>2, <1>13, <1>14

-------------------------------------------------------------------------------
(* Tilings.  S holds the starts of blocks of sizes sz that cover the         *)
(* reservation without gap or overlap.                                       *)
Tile(S, sz) ==
    /\ Starts(S) /\ Base \in S /\ sz \in [S -> Int]
    /\ \A B \in S : sz[B] % 16 = 0 /\ sz[B] >= 32 /\ B + sz[B] \in S \cup {End}
    /\ \A B, C \in S : B < C => B + sz[B] <= C
    /\ \A B \in S : B # Base => \E P \in S : P + sz[P] = B

(* Where the footer is. *)
Foot(B, bs) == B + bs - 8

In(a, B, sz) == B <= a /\ a < B + sz[B]

(* The header, the links and the footer of a block are words inside it, and  *)
(* no word is inside two blocks.                                             *)
LEMMA TileFacts ==
    ASSUME NEW S, NEW sz, Tile(S, sz)
    PROVE  /\ \A B \in S : /\ B \in Addr /\ B \in Int /\ B % 16 = 0 /\ sz[B] \in Int /\ B + sz[B] <= End
                           /\ B + 8 \in Addr /\ B + 16 \in Addr /\ Foot(B, sz[B]) \in Addr
                           /\ In(B, B, sz) /\ In(B + 8, B, sz) /\ In(B + 16, B, sz)
                           /\ In(Foot(B, sz[B]), B, sz)
           /\ \A B, C \in S : \A a \in Int : In(a, B, sz) /\ In(a, C, sz) => B = C
  <1>1. ASSUME NEW B \in S
        PROVE  /\ B \in Addr /\ B \in Int /\ B % 16 = 0 /\ sz[B] \in Int /\ B + sz[B] <= End
               /\ B + 8 \in Addr /\ B + 16 \in Addr /\ Foot(B, sz[B]) \in Addr
               /\ In(B, B, sz) /\ In(B + 8, B, sz) /\ In(B + 16, B, sz)
               /\ In(Foot(B, sz[B]), B, sz)
    <2>1. B \in Int /\ B % 16 = 0 /\ Base <= B /\ sz[B] \in Int /\ sz[B] % 16 = 0 /\ sz[B] >= 32
      BY <1>1 DEF Tile, Starts
    <2>2. B + sz[B] <= End
      <3>1. B + sz[B] \in S \cup {End}
        BY <1>1 DEF Tile
      <3>2. \A C \in S : C \in Int /\ C + 32 <= End
        BY DEF Tile, Starts
      <3>3. CASE B + sz[B] = End
        BY <2>1, <3>3, Region
      <3>4. CASE B + sz[B] \in S
        BY <2>1, <3>2, <3>4, Region
      <3> QED
        BY <3>1, <3>3, <3>4
    <2>3. B \in Addr /\ B + 8 \in Addr /\ B + 16 \in Addr
      BY <1>1, StartWords DEF Tile
    <2>4. (B + sz[B] - 8) % 8 = 0
      BY <2>1
    <2> QED
      BY <2>1, <2>2, <2>3, <2>4, Region DEF Addr, In, Foot
  <1>2. \A B, C \in S : /\ B \in Int /\ C \in Int /\ sz[B] \in Int /\ sz[C] \in Int
                        /\ (B < C => B + sz[B] <= C) /\ (C < B => C + sz[C] <= B)
    BY DEF Tile, Starts
  <1> QED
    BY <1>1, <1>2 DEF In

(* The places and the order of the blocks. *)
LEMMA TileParts ==
    ASSUME NEW S, NEW sz, Tile(S, sz)
    PROVE  /\ \A C \in S : /\ C \in Int /\ C % 16 = 0 /\ Base <= C /\ C < End /\ C + sz[C] <= End
                           /\ sz[C] \in Int /\ sz[C] % 16 = 0 /\ sz[C] >= 32
                           /\ C + sz[C] \in S \cup {End}
           /\ \A C, D \in S : C < D => C + sz[C] <= D
           /\ \A C \in S : C # Base => \E P \in S : P + sz[P] = C
           /\ Base \in S /\ Base \in Int /\ End \in Int
  <1>1. \A C \in S : C \in Int /\ C % 16 = 0 /\ Base <= C /\ C < End /\ sz[C] \in Int /\ C + sz[C] <= End
    BY TileFacts DEF Addr
  <1>2. \A C \in S : sz[C] % 16 = 0 /\ sz[C] >= 32 /\ C + sz[C] \in S \cup {End}
    BY DEF Tile
  <1>3. /\ \A C, D \in S : C < D => C + sz[C] <= D
        /\ \A C \in S : C # Base => \E P \in S : P + sz[P] = C
        /\ Base \in S
    BY DEF Tile
  <1> QED
    BY <1>1, <1>2, <1>3, Region

(* Two neighbours become one block, and one block two. *)
Without(S, B) == S \ {B}
With(S, B)    == S \cup {B}

Adjacent(L, N, sz) == N = L + sz[L]

Joined(S, sz, L, N)    == [C \in Without(S, N) |-> IF C = L THEN sz[L] + sz[N] ELSE sz[C]]
Parted(S, sz, B, R, n) == [C \in With(S, R) |->
                             IF C = B THEN n ELSE IF C = R THEN sz[B] - n ELSE sz[C]]

(* Joining two adjacent blocks of a tiling leaves a tiling. *)
LEMMA MergeTile ==
    ASSUME NEW S, NEW sz, Tile(S, sz), NEW B \in S, NEW N \in S, Adjacent(B, N, sz)
    PROVE  /\ Tile(Without(S, N), Joined(S, sz, B, N)) /\ B \in Without(S, N)
           /\ \A C \in Without(S, N) :
                 Joined(S, sz, B, N)[C] = IF C = B THEN sz[B] + sz[N] ELSE sz[C]
  <1> SUFFICES ASSUME NEW T, T = S \ {N},
                      NEW tz, tz = [C \in T |-> IF C = B THEN sz[B] + sz[N] ELSE sz[C]]
               PROVE  /\ Tile(T, tz) /\ B \in T
                      /\ \A C \in T : tz[C] = IF C = B THEN sz[B] + sz[N] ELSE sz[C]
    BY DEF Joined, Without
  <1> USE DEF Adjacent
  <1>1. /\ \A C \in S : /\ C \in Int /\ C % 16 = 0 /\ Base <= C /\ C < End /\ C + sz[C] <= End
                        /\ sz[C] \in Int /\ sz[C] % 16 = 0 /\ sz[C] >= 32
                        /\ C + sz[C] \in S \cup {End}
        /\ \A C, D \in S : C < D => C + sz[C] <= D
        /\ \A C \in S : C # Base => \E P \in S : P + sz[P] = C
        /\ Base \in S /\ Base \in Int /\ End \in Int
    BY TileParts
  <1>2. B # N /\ B < N /\ N # Base /\ B \in T
    BY <1>1
  <1>3. tz \in [T -> Int] /\ \A C \in T : tz[C] = IF C = B THEN sz[B] + sz[N] ELSE sz[C]
    <2>1. \A C \in T : sz[C] \in Int
      BY <1>1
    <2>2. sz[B] + sz[N] \in Int
      BY <1>1
    <2> QED
      BY <2>1, <2>2
  <1>4. Starts(T)
    BY DEF Tile, Starts
  <1>5. \A C \in T : tz[C] % 16 = 0 /\ tz[C] >= 32
    <2>1. (sz[B] + sz[N]) % 16 = 0 /\ sz[B] + sz[N] >= 32
      <3>1. /\ sz[B] \in Int /\ sz[B] % 16 = 0 /\ sz[B] >= 32
            /\ sz[N] \in Int /\ sz[N] % 16 = 0 /\ sz[N] >= 32
        BY <1>1
      <3> QED
        BY <3>1
    <2>2. \A C \in T : sz[C] % 16 = 0 /\ sz[C] >= 32
      BY <1>1
    <2> QED
      BY <1>3, <2>1, <2>2
  <1>6. ASSUME NEW C \in T PROVE C + tz[C] \in T \cup {End}
    <2>1. CASE C = B
      <3>1. C + tz[C] = N + sz[N] /\ N + sz[N] # N
        BY <1>1, <1>3, <2>1
      <3> QED
        BY <1>1, <3>1
    <2>2. CASE C # B
      <3>1. tz[C] = sz[C]
        BY <1>3, <2>2
      <3>2. /\ C \in Int /\ B \in Int /\ N \in Int /\ sz[C] \in Int /\ sz[C] >= 32 /\ B < N
            /\ (C < B => C + sz[C] <= B) /\ (B < C => N <= C)
        BY <1>1, <1>2
      <3>3. C + sz[C] # N
        BY <2>2, <3>2
      <3> QED
        BY <1>1, <3>1, <3>3
    <2> QED
      BY <2>1, <2>2
  <1>7. ASSUME NEW C \in T, NEW D \in T, C < D PROVE C + tz[C] <= D
    <2>1. C \in S /\ D \in S /\ D # N /\ C \in Int /\ D \in Int /\ N \in Int /\ sz[C] \in Int /\ sz[N] \in Int
      BY <1>1
    <2>2. CASE C = B
      <3>1. N <= D /\ C + tz[C] = N + sz[N]
        <4>1. tz[C] = sz[B] + sz[N] /\ sz[B] \in Int /\ B < D
          BY <1>1, <1>3, <1>7, <2>2
        <4>2. B + sz[B] <= D
          BY <1>1, <2>1, <4>1
        <4> QED
          BY <2>1, <2>2, <4>1, <4>2
      <3>2. N < D
        BY <2>1, <3>1
      <3>3. N + sz[N] <= D
        BY <1>1, <2>1, <3>2
      <3> QED
        BY <3>1, <3>3
    <2>3. CASE C # B
      BY <1>1, <1>3, <1>7, <2>1, <2>3
    <2> QED
      BY <2>2, <2>3
  <1>8. ASSUME NEW C \in T, C # Base PROVE \E P \in T : P + tz[P] = C
    <2>1. PICK P \in S : P + sz[P] = C
      BY <1>1, <1>8
    <2>2. CASE P = N
      <3>1. B + tz[B] = C
        BY <1>1, <1>2, <1>3, <2>1, <2>2
      <3> QED
        BY <1>2, <3>1
    <2>3. CASE P # N
      <3>1. P # B
        BY <1>8, <2>1
      <3> QED
        BY <1>3, <2>1, <2>3, <3>1
    <2> QED
      BY <2>2, <2>3
  <1> QED
    BY <1>1, <1>2, <1>3, <1>4, <1>5, <1>6, <1>7, <1>8 DEF Tile

(* Splitting a block of a tiling leaves a tiling. *)
LEMMA SplitTile ==
    ASSUME NEW S, NEW sz, Tile(S, sz), NEW B \in S, NEW n \in Int, n % 16 = 0, n >= 32, sz[B] - n >= 32,
           NEW R, R = B + n
    PROVE  /\ Tile(With(S, R), Parted(S, sz, B, R, n)) /\ R \notin S
           /\ \A C \in With(S, R) : Parted(S, sz, B, R, n)[C] =
                 IF C = B THEN n ELSE IF C = R THEN sz[B] - n ELSE sz[C]
  <1> SUFFICES ASSUME NEW T, T = S \cup {R},
                      NEW tz, tz = [C \in T |-> IF C = B THEN n ELSE IF C = R THEN sz[B] - n ELSE sz[C]]
               PROVE  /\ Tile(T, tz) /\ R \notin S
                      /\ \A C \in T : tz[C] = IF C = B THEN n ELSE IF C = R THEN sz[B] - n ELSE sz[C]
    BY DEF Parted, With
  <1>1. /\ \A C \in S : /\ C \in Int /\ C % 16 = 0 /\ Base <= C /\ C < End /\ C + sz[C] <= End
                        /\ sz[C] \in Int /\ sz[C] % 16 = 0 /\ sz[C] >= 32
                        /\ C + sz[C] \in S \cup {End}
        /\ \A C, D \in S : C < D => C + sz[C] <= D
        /\ \A C \in S : C # Base => \E P \in S : P + sz[P] = C
        /\ Base \in S /\ Base \in Int /\ End \in Int
    BY TileParts
  <1>2. /\ R \in Int /\ R > B /\ R + sz[B] - n = B + sz[B] /\ R % 16 = 0 /\ (sz[B] - n) % 16 = 0
    BY <1>1
  <1>3. R \notin S
    BY <1>1, <1>2
  <1>4. tz \in [T -> Int] /\ \A C \in T : tz[C] = IF C = B THEN n ELSE IF C = R THEN sz[B] - n ELSE sz[C]
    BY <1>1, <1>2
  <1>5. \A C, D \in T : C < D => C + tz[C] <= D
    <2> SUFFICES ASSUME NEW C \in T, NEW D \in T, C < D PROVE C + tz[C] <= D
      OBVIOUS
    <2>1. CASE C \in S /\ D \in S
      <3>1. C + sz[C] <= D /\ C \in Int /\ D \in Int /\ sz[C] \in Int
        BY <1>1, <2>1
      <3>2. C # R /\ tz[C] = IF C = B THEN n ELSE sz[C]
        BY <1>3, <1>4, <2>1
      <3>3. n <= sz[B] /\ sz[B] \in Int
        BY <1>1
      <3> QED
        BY <3>1, <3>2, <3>3
    <2>2. CASE C = R /\ D \in S
      <3>1. B < D
        BY <1>1, <1>2, <2>2
      <3>2. B + sz[B] <= D
        BY <1>1, <3>1, <2>2
      <3> QED
        BY <1>1, <1>2, <1>3, <1>4, <2>2, <3>2
    <2>3. CASE C \in S /\ D = R
      <3>1. CASE C = B
        BY <1>1, <1>2, <1>4, <2>3, <3>1
      <3>2. CASE C # B
        <4>1. C < B
          BY <1>1, <1>2, <2>3, <3>2
        <4>2. C + sz[C] <= B
          BY <1>1, <2>3, <4>1
        <4> QED
          BY <1>1, <1>2, <1>3, <1>4, <2>3, <3>2, <4>2
      <3> QED
        BY <3>1, <3>2
    <2> QED
      BY <1>2, <2>1, <2>2, <2>3
  <1>6. \A C \in T : tz[C] % 16 = 0 /\ tz[C] >= 32 /\ C + tz[C] \in T \cup {End}
    BY <1>1, <1>2, <1>3, <1>4
  <1>7. \A C \in T : C \in Int /\ C % 16 = 0 /\ Base <= C /\ C + 32 <= End
    <2>1. R + 32 <= End /\ Base <= R
      BY <1>1, <1>2
    <2> QED
      BY <1>1, <1>2, <2>1
  <1>8. ASSUME NEW C \in T, NEW D \in T, C < D PROVE C + 32 <= D
    <2>1. C + tz[C] <= D /\ tz[C] >= 32 /\ tz[C] \in Int /\ C \in Int /\ D \in Int
      BY <1>4, <1>5, <1>6, <1>7, <1>8
    <2> QED
      BY <2>1
  <1>9. ASSUME NEW C \in T, C # Base PROVE \E P \in T : P + tz[P] = C
    <2>1. CASE C = R
      BY <1>4, <2>1
    <2>2. CASE C # R
      <3>1. PICK P \in S : P + sz[P] = C
        BY <1>1, <1>9, <2>2
      <3>2. CASE P = B
        <4>1. R + tz[R] = C
          BY <1>1, <1>2, <1>3, <1>4, <3>1, <3>2
        <4> QED
          BY <4>1
      <3>3. CASE P # B
        BY <1>3, <1>4, <3>1, <3>3
      <3> QED
        BY <3>2, <3>3
    <2> QED
      BY <2>1, <2>2
  <1> QED
    BY <1>1, <1>3, <1>4, <1>5, <1>6, <1>7, <1>8, <1>9 DEF Tile, Starts

-------------------------------------------------------------------------------
(* The words of block C, of the size sz gives it, are as they were. *)
Kept(h, g, C, sz) == \A a \in Addr : In(a, C, sz) => Word(g, a) = Word(h, a)

(* A block whose words are kept has its header, footer and links kept. *)
LEMMA KeptFacts ==
    ASSUME NEW S, NEW sz, Tile(S, sz), NEW C \in S, NEW h, NEW g, Kept(h, g, C, sz)
    PROVE  /\ Word(g, C) = Word(h, C) /\ BSize(g, C) = BSize(h, C)
           /\ Allocated(g, C) <=> Allocated(h, C)
           /\ FlNext(g, C) = FlNext(h, C) /\ FlPrev(g, C) = FlPrev(h, C)
           /\ Word(g, Foot(C, sz[C])) = Word(h, Foot(C, sz[C]))
  <1>1. /\ C \in Addr /\ C + 8 \in Addr /\ C + 16 \in Addr /\ Foot(C, sz[C]) \in Addr
        /\ In(C, C, sz) /\ In(C + 8, C, sz) /\ In(C + 16, C, sz) /\ In(Foot(C, sz[C]), C, sz)
        /\ C + 8 + 8 = C + 16
    BY TileFacts
  <1>2. /\ Word(g, C) = Word(h, C) /\ Word(g, C + 8) = Word(h, C + 8)
        /\ Word(g, C + 16) = Word(h, C + 16) /\ Word(g, Foot(C, sz[C])) = Word(h, Foot(C, sz[C]))
    BY <1>1 DEF Kept
  <1> QED
    BY <1>1, <1>2, SameHeader DEF FlNext, FlPrev

(* set_block writes the header and the footer of one block. *)
LEMMA SetBlockFacts ==
    ASSUME NEW h, IsHeap(h), NEW B \in Addr, NEW bs \in Int, bs % 16 = 0, bs >= 32,
           Foot(B, bs) \in Addr, NEW alloc \in {0, 1}, NEW g, g = SetBlock(h, B, bs, alloc)
    PROVE  /\ IsHeap(g) /\ g.bins = h.bins
           /\ BSize(g, B) = bs /\ (Allocated(g, B) <=> alloc = 1) /\ Word(g, Foot(B, bs)) = bs
           /\ \A a \in Addr : a # B /\ a # Foot(B, bs) => Word(g, a) = Word(h, a)
  <1>1. PICK w, h1, e : /\ w = bs + alloc /\ h1 = Put(h, B, w)
                        /\ e = Foot(B, bs) /\ g = Put(h1, e, bs)
    BY DEF SetBlock, Foot
  <1>2. w \in Int /\ e \in Addr /\ e # B
    BY <1>1 DEF Addr, Foot
  <1>3. /\ IsHeap(h1) /\ h1.bins = h.bins /\ Word(h1, B) = w
        /\ \A a \in Addr : a # B => Word(h1, a) = Word(h, a)
    <2>1. h1 = Put(h, B, w) /\ w \in Int /\ B \in Addr
      BY <1>1, <1>2
    <2>2. IsHeap(Put(h, B, w)) /\ Put(h, B, w).bins = h.bins
      BY <2>1, PutFacts
    <2>3. Word(Put(h, B, w), B) = w
      BY <2>1, PutFacts
    <2>4. \A a \in Addr : a # B => Word(Put(h, B, w), a) = Word(h, a)
      BY <2>1, PutFacts
    <2> QED
      BY <2>1, <2>2, <2>3, <2>4
  <1>4. /\ IsHeap(g) /\ g.bins = h1.bins /\ Word(g, e) = bs
        /\ \A a \in Addr : a # e => Word(g, a) = Word(h1, a)
    <2>1. g = Put(h1, e, bs) /\ e \in Addr /\ IsHeap(h1) /\ bs \in Int
      BY <1>1, <1>2, <1>3
    <2>2. IsHeap(Put(h1, e, bs)) /\ Put(h1, e, bs).bins = h1.bins
      BY <2>1, PutFacts
    <2>3. Word(Put(h1, e, bs), e) = bs
      BY <2>1, PutFacts
    <2>4. \A a \in Addr : a # e => Word(Put(h1, e, bs), a) = Word(h1, a)
      BY <2>1, PutFacts
    <2> QED
      BY <2>1, <2>2, <2>3, <2>4
  <1>5. w - (w % 2) = bs /\ (w % 2 = 1 <=> alloc = 1)
    BY <1>1
  <1>6. Word(g, B) = w
    BY <1>2, <1>3, <1>4
  <1> QED
    BY <1>1, <1>2, <1>3, <1>4, <1>5, <1>6 DEF BSize, Allocated

(* Taking a block out of the lists. *)
LEMMA RemoveTiled ==
    ASSUME NEW h, IsHeap(h), NEW S, NEW sz, Tile(S, sz), NEW F, F \subseteq S, Links(h, F),
           NEW B \in F, NEW g, g = BinRemove(h, B)
    PROVE  /\ IsHeap(g) /\ Links(g, F \ {B})
           /\ \A C \in S : /\ Word(g, C) = Word(h, C)
                           /\ Word(g, Foot(C, sz[C])) = Word(h, Foot(C, sz[C]))
           /\ \A C \in S \ F : Kept(h, g, C, sz)
  <1>1. Starts(F)
    BY DEF Tile, Starts
  <1>2. /\ IsHeap(g) /\ Links(g, F \ {B})
        /\ \A a \in Addr : (\A C \in F \ {B} : a # C + 8 /\ a # C + 16) => Word(g, a) = Word(h, a)
    BY <1>1, RemoveFacts
  <1>3. ASSUME NEW C \in S
        PROVE  /\ C \in Addr /\ Foot(C, sz[C]) \in Addr
               /\ \A D \in F : C # D + 8 /\ C # D + 16 /\ Foot(C, sz[C]) # D + 8
                               /\ Foot(C, sz[C]) # D + 16
    <2>1. \A D \in S : D \in Int /\ sz[D] \in Int /\ sz[D] >= 32 /\ sz[D] % 16 = 0
                      /\ (C < D => C + sz[C] <= D) /\ (D < C => D + sz[D] <= C)
      BY TileParts
    <2>2. C \in Addr /\ Foot(C, sz[C]) \in Addr
      BY TileFacts
    <2>3. ASSUME NEW D \in F
          PROVE  C # D + 8 /\ C # D + 16 /\ Foot(C, sz[C]) # D + 8 /\ Foot(C, sz[C]) # D + 16
      <3>1. /\ C \in Int /\ sz[C] \in Int /\ sz[C] >= 32
            /\ D \in Int /\ sz[D] \in Int /\ sz[D] >= 32
            /\ (C < D => C + sz[C] <= D) /\ (D < C => D + sz[D] <= C)
        BY <2>1
      <3> QED
        BY <3>1 DEF Foot
    <2> QED
      BY <2>2, <2>3
  <1>4. ASSUME NEW C \in S \ F, NEW a \in Addr, In(a, C, sz) PROVE \A D \in F : a # D + 8 /\ a # D + 16
    <2>1. \A D \in F : D \in S /\ In(D + 8, D, sz) /\ In(D + 16, D, sz)
      BY TileFacts
    <2>2. \A D \in F : ~In(a, D, sz)
      BY <1>4, TileFacts DEF Addr
    <2> QED
      BY <2>1, <2>2
  <1>5. \A C \in S \ F : Kept(h, g, C, sz)
    BY <1>2, <1>4 DEF Kept
  <1> QED
    BY <1>2, <1>3, <1>5

(* Listing a block. *)
LEMMA InsertTiled ==
    ASSUME NEW h, IsHeap(h), NEW S, NEW sz, Tile(S, sz), NEW F, F \subseteq S, Links(h, F),
           NEW B \in S \ F, NEW g, g = BinInsert(h, B)
    PROVE  /\ IsHeap(g) /\ Links(g, F \cup {B})
           /\ \A C \in S : /\ Word(g, C) = Word(h, C)
                           /\ Word(g, Foot(C, sz[C])) = Word(h, Foot(C, sz[C]))
           /\ \A C \in S \ (F \cup {B}) : Kept(h, g, C, sz)
  <1> DEFINE G == F \cup {B}
  <1>1. Starts(F \cup {B})
    BY DEF Tile, Starts
  <1>2. /\ IsHeap(g) /\ Links(g, F \cup {B})
        /\ \A a \in Addr : (\A C \in F \cup {B} : a # C + 8 /\ a # C + 16) => Word(g, a) = Word(h, a)
    BY <1>1, InsertFacts
  <1>3. ASSUME NEW C \in S
        PROVE  /\ C \in Addr /\ Foot(C, sz[C]) \in Addr
               /\ \A D \in G : C # D + 8 /\ C # D + 16 /\ Foot(C, sz[C]) # D + 8
                               /\ Foot(C, sz[C]) # D + 16
    <2>1. \A D \in S : D \in Int /\ sz[D] \in Int /\ sz[D] >= 32 /\ sz[D] % 16 = 0
                      /\ (C < D => C + sz[C] <= D) /\ (D < C => D + sz[D] <= C)
      BY TileParts
    <2>2. C \in Addr /\ Foot(C, sz[C]) \in Addr
      BY TileFacts
    <2>3. ASSUME NEW D \in G
          PROVE  C # D + 8 /\ C # D + 16 /\ Foot(C, sz[C]) # D + 8 /\ Foot(C, sz[C]) # D + 16
      <3>1. /\ C \in Int /\ sz[C] \in Int /\ sz[C] >= 32
            /\ D \in Int /\ sz[D] \in Int /\ sz[D] >= 32
            /\ (C < D => C + sz[C] <= D) /\ (D < C => D + sz[D] <= C)
        BY <2>1
      <3> QED
        BY <3>1 DEF Foot
    <2> QED
      BY <2>2, <2>3
  <1>4. ASSUME NEW C \in S \ G, NEW a \in Addr, In(a, C, sz) PROVE \A D \in G : a # D + 8 /\ a # D + 16
    <2>1. \A D \in G : D \in S /\ In(D + 8, D, sz) /\ In(D + 16, D, sz)
      BY TileFacts
    <2>2. \A D \in G : ~In(a, D, sz)
      BY <1>4, TileFacts DEF Addr
    <2> QED
      BY <2>1, <2>2
  <1>5. \A C \in S \ G : Kept(h, g, C, sz)
    BY <1>2, <1>4 DEF Kept
  <1> QED
    BY <1>2, <1>3, <1>5

(* Writing the header and the footer of a block disturbs no other. *)
LEMMA SetTiled ==
    ASSUME NEW h, IsHeap(h), NEW S, NEW sz, Tile(S, sz), NEW B \in S, NEW F, F \subseteq S \ {B},
           Links(h, F), NEW alloc \in {0, 1}, NEW g, g = SetBlock(h, B, sz[B], alloc)
    PROVE  /\ IsHeap(g) /\ Links(g, F)
           /\ BSize(g, B) = sz[B] /\ (Allocated(g, B) <=> alloc = 1) /\ Word(g, Foot(B, sz[B])) = sz[B]
           /\ \A C \in S \ {B} : Kept(h, g, C, sz)
  <1>1. /\ B \in Addr /\ sz[B] \in Int /\ sz[B] % 16 = 0 /\ sz[B] >= 32 /\ Foot(B, sz[B]) \in Addr
        /\ In(B, B, sz) /\ In(Foot(B, sz[B]), B, sz)
    BY TileFacts, TileParts
  <1>2. /\ IsHeap(g) /\ g.bins = h.bins
        /\ BSize(g, B) = sz[B] /\ (Allocated(g, B) <=> alloc = 1) /\ Word(g, Foot(B, sz[B])) = sz[B]
        /\ \A a \in Addr : a # B /\ a # Foot(B, sz[B]) => Word(g, a) = Word(h, a)
    BY <1>1, SetBlockFacts
  <1>3. ASSUME NEW C \in S \ {B} PROVE Kept(h, g, C, sz)
    <2>1. \A a \in Addr : In(a, C, sz) => ~In(a, B, sz)
      BY <1>3, TileFacts DEF Addr
    <2> QED
      BY <1>1, <1>2, <2>1 DEF Kept
  <1>4. \A C \in F : /\ BSize(g, C) = BSize(h, C) /\ FlNext(g, C) = FlNext(h, C)
                     /\ FlPrev(g, C) = FlPrev(h, C)
    BY <1>3, KeptFacts
  <1>5. Links(g, F)
    BY <1>2, <1>4, LinksKept
  <1> QED
    BY <1>2, <1>3, <1>5

-------------------------------------------------------------------------------
(* A sound heap: blocks that tile the reservation, headers and footers that  *)
(* give their sizes, lists of exactly the free ones, no two of them side by  *)
(* side.  An open heap is sound but for one block, which is in no list and   *)
(* whose header and footer need not be right.                                *)
FreeOf(h, S)  == {B \in S : ~Allocated(h, B)}
AllocOf(h, S) == {B \in S : Allocated(h, B)}

Tagged(h, S, sz) == \A C \in S : BSize(h, C) = sz[C] /\ Word(h, Foot(C, sz[C])) = sz[C]

Spaced(F, sz) == \A C \in F : C + sz[C] \notin F

Sound(h, S, sz) ==
    /\ IsHeap(h) /\ Tile(S, sz) /\ Tagged(h, S, sz)
    /\ Links(h, FreeOf(h, S)) /\ Spaced(FreeOf(h, S), sz)

Open(h, S, sz, B) ==
    /\ IsHeap(h) /\ Tile(S, sz) /\ B \in S /\ Tagged(h, Without(S, B), sz)
    /\ Links(h, FreeOf(h, Without(S, B))) /\ Spaced(FreeOf(h, Without(S, B)), sz)

(* The blocks of A stay, of the same size and with every word. *)
Undisturbed(h, sz, g, tz, A) == \A D \in A : tz[D] = sz[D] /\ Kept(h, g, D, sz)

(* Two changes that leave the same blocks alone do so together. *)
LEMMA UndisturbedTwice ==
    ASSUME NEW h, NEW sz, NEW g, NEW tz, NEW k, NEW uz, NEW A,
           Undisturbed(h, sz, g, tz, A), Undisturbed(g, tz, k, uz, A)
    PROVE  Undisturbed(h, sz, k, uz, A)
  BY DEF Undisturbed, Kept, In

(* An allocated block of a sound heap may be worked on. *)
LEMMA OpenAllocated ==
    ASSUME NEW h, NEW S, NEW sz, Sound(h, S, sz), NEW B \in AllocOf(h, S)
    PROVE  /\ Open(h, S, sz, B) /\ FreeOf(h, Without(S, B)) = FreeOf(h, S)
           /\ AllocOf(h, Without(S, B)) = Without(AllocOf(h, S), B)
  <1>1. FreeOf(h, Without(S, B)) = FreeOf(h, S) /\ B \in S
    BY DEF FreeOf, AllocOf, Without
  <1>2. AllocOf(h, Without(S, B)) = Without(AllocOf(h, S), B)
    BY DEF AllocOf, Without
  <1>3. Tagged(h, Without(S, B), sz)
    BY DEF Sound, Tagged, Without
  <1> QED
    BY <1>1, <1>2, <1>3 DEF Sound, Open

(* Taking a free block out of its list. *)
LEMMA Unlist ==
    ASSUME NEW h, NEW S, NEW sz, IsHeap(h), Tile(S, sz), NEW R, R \subseteq S, Tagged(h, R, sz),
           Links(h, FreeOf(h, R)), Spaced(FreeOf(h, R), sz),
           NEW X \in FreeOf(h, R), NEW g, g = BinRemove(h, X)
    PROVE  /\ IsHeap(g) /\ Tagged(g, R, sz)
           /\ FreeOf(g, Without(R, X)) = Without(FreeOf(h, R), X)
           /\ AllocOf(g, Without(R, X)) = AllocOf(h, R)
           /\ Links(g, FreeOf(g, Without(R, X))) /\ Spaced(FreeOf(g, Without(R, X)), sz)
           /\ \A D \in S \ FreeOf(h, R) : Kept(h, g, D, sz)
  <1>1. PICK F : F = FreeOf(h, R)
    OBVIOUS
  <1>2. F \subseteq S /\ X \in F /\ Links(h, F)
    BY <1>1 DEF FreeOf
  <1>3. /\ IsHeap(g) /\ Links(g, F \ {X})
        /\ \A C \in S : Word(g, C) = Word(h, C) /\ Word(g, Foot(C, sz[C])) = Word(h, Foot(C, sz[C]))
        /\ \A C \in S \ F : Kept(h, g, C, sz)
    BY <1>2, RemoveTiled
  <1>4. \A C \in R : BSize(g, C) = BSize(h, C) /\ (Allocated(g, C) <=> Allocated(h, C))
    BY <1>3, SameHeader
  <1>5. FreeOf(g, Without(R, X)) = Without(FreeOf(h, R), X)
    BY <1>4 DEF FreeOf, Without
  <1>6. AllocOf(g, Without(R, X)) = AllocOf(h, R)
    BY <1>4 DEF FreeOf, AllocOf, Without
  <1>7. Tagged(g, R, sz)
    BY <1>3, <1>4 DEF Tagged
  <1>8. Spaced(Without(F, X), sz)
    BY <1>1 DEF Spaced, Without
  <1>9. Links(g, Without(F, X))
    BY <1>3 DEF Without
  <1> QED
    BY <1>1, <1>3, <1>5, <1>6, <1>7, <1>8, <1>9

(* A free block that was unlinked may be worked on. *)
LEMMA OpenFree ==
    ASSUME NEW h, NEW S, NEW sz, Sound(h, S, sz), NEW B \in FreeOf(h, S), NEW g, g = BinRemove(h, B)
    PROVE  /\ Open(g, S, sz, B) /\ FreeOf(g, Without(S, B)) = Without(FreeOf(h, S), B)
           /\ AllocOf(g, Without(S, B)) = AllocOf(h, S) /\ BSize(g, B) = sz[B]
           /\ Undisturbed(h, sz, g, sz, AllocOf(h, S))
  <1>1. IsHeap(h) /\ Tile(S, sz) /\ Tagged(h, S, sz) /\ Links(h, FreeOf(h, S)) /\ Spaced(FreeOf(h, S), sz)
    BY DEF Sound
  <1>2. S \subseteq S /\ B \in S
    BY DEF FreeOf
  <1>3. /\ IsHeap(g) /\ Tagged(g, S, sz)
        /\ FreeOf(g, Without(S, B)) = Without(FreeOf(h, S), B)
        /\ AllocOf(g, Without(S, B)) = AllocOf(h, S)
        /\ Links(g, FreeOf(g, Without(S, B))) /\ Spaced(FreeOf(g, Without(S, B)), sz)
        /\ \A D \in S \ FreeOf(h, S) : Kept(h, g, D, sz)
    BY <1>1, <1>2, Unlist
  <1>4. Tagged(g, Without(S, B), sz) /\ BSize(g, B) = sz[B]
    BY <1>2, <1>3 DEF Tagged, Without
  <1>5. Undisturbed(h, sz, g, sz, AllocOf(h, S))
    BY <1>3 DEF Undisturbed, FreeOf, AllocOf
  <1> QED
    BY <1>1, <1>2, <1>3, <1>4, <1>5 DEF Open

(* An open block B takes in the free block X next to it: of the two L is the *)
(* lower and N the upper.                                                    *)
LEMMA Merge ==
    ASSUME NEW h, NEW S, NEW sz, NEW B, Open(h, S, sz, B), NEW X \in FreeOf(h, Without(S, B)),
           NEW L \in {B, X}, NEW N \in {B, X}, Adjacent(L, N, sz), NEW g, g = BinRemove(h, X),
           NEW T, T = Without(S, N), NEW tz, tz = Joined(S, sz, L, N)
    PROVE  /\ Open(g, T, tz, L)
           /\ FreeOf(g, Without(T, L)) = Without(FreeOf(h, Without(S, B)), X)
           /\ AllocOf(g, Without(T, L)) = AllocOf(h, Without(S, B))
           /\ BSize(g, X) = sz[X] /\ BSize(g, B) = BSize(h, B)
           /\ tz[L] = sz[B] + sz[X] /\ L + tz[L] = N + sz[N]
           /\ Undisturbed(h, sz, g, tz, AllocOf(h, Without(S, B)))
  <1>1. PICK R : R = Without(S, B)
    OBVIOUS
  <1>2. /\ IsHeap(h) /\ Tile(S, sz) /\ B \in S /\ R \subseteq S /\ Tagged(h, R, sz)
        /\ Links(h, FreeOf(h, R)) /\ Spaced(FreeOf(h, R), sz) /\ X \in FreeOf(h, R)
    BY <1>1 DEF Open, Without
  <1>3. X \in R /\ X \in S /\ L \in S /\ N \in S /\ B \notin R
    BY <1>1, <1>2 DEF FreeOf, Without
  <1>4. L # N
    <2>1. sz[L] >= 32 /\ L \in Int /\ sz[L] \in Int
      BY <1>2, <1>3, TileParts
    <2> QED
      BY <2>1 DEF Adjacent
  <1>5. sz[L] + sz[N] = sz[B] + sz[X] /\ N + sz[N] = L + (sz[B] + sz[X])
    <2>1. sz[L] \in Int /\ L \in Int /\ sz[B] \in Int /\ sz[X] \in Int /\ sz[N] \in Int
      BY <1>2, <1>3, TileParts
    <2>2. sz[L] + sz[N] = sz[B] + sz[X]
      <3>1. CASE L = B /\ N = X
        BY <3>1
      <3>2. CASE L = X /\ N = B
        BY <2>1, <3>2
      <3> QED
        BY <1>4, <3>1, <3>2
    <2>3. N + sz[N] = L + (sz[L] + sz[N])
      BY <2>1 DEF Adjacent
    <2> QED
      BY <2>2, <2>3
  <1>6. Without(T, L) = Without(R, X)
    BY <1>1, <1>4 DEF Without
  <1>7. /\ IsHeap(g) /\ Tagged(g, R, sz)
        /\ FreeOf(g, Without(R, X)) = Without(FreeOf(h, R), X)
        /\ AllocOf(g, Without(R, X)) = AllocOf(h, R)
        /\ Links(g, FreeOf(g, Without(R, X))) /\ Spaced(FreeOf(g, Without(R, X)), sz)
        /\ \A D \in S \ FreeOf(h, R) : Kept(h, g, D, sz)
    BY <1>2, Unlist
  <1>8. /\ Tile(T, tz) /\ L \in T
        /\ \A C \in T : tz[C] = IF C = L THEN sz[L] + sz[N] ELSE sz[C]
    BY <1>2, <1>3, MergeTile
  <1>9. tz[L] = sz[B] + sz[X] /\ L + tz[L] = N + sz[N] /\ \A C \in Without(R, X) : tz[C] = sz[C]
    <2>1. tz[L] = sz[B] + sz[X]
      BY <1>5, <1>8
    <2>2. \A C \in Without(T, L) : C \in T /\ C # L
      BY DEF Without
    <2> QED
      BY <1>5, <1>6, <1>8, <2>1, <2>2
  <1>10. BSize(g, X) = sz[X] /\ BSize(g, B) = BSize(h, B)
    <2>1. B \in S \ FreeOf(h, R)
      BY <1>2, <1>3 DEF FreeOf
    <2>2. Kept(h, g, B, sz)
      BY <1>7, <2>1
    <2>3. BSize(g, B) = BSize(h, B)
      BY <1>2, <2>2, KeptFacts
    <2> QED
      BY <1>3, <1>7, <2>3 DEF Tagged
  <1>11. Tagged(g, Without(R, X), tz)
    BY <1>7, <1>9 DEF Tagged, Without
  <1>12. Spaced(FreeOf(g, Without(R, X)), tz)
    BY <1>7, <1>9 DEF Spaced, FreeOf
  <1>13. Undisturbed(h, sz, g, tz, AllocOf(h, R))
    <2> SUFFICES ASSUME NEW D \in AllocOf(h, R) PROVE tz[D] = sz[D] /\ Kept(h, g, D, sz)
      BY DEF Undisturbed
    <2>1. D \in Without(R, X) /\ D \in S \ FreeOf(h, R)
      BY <1>2, <1>7 DEF AllocOf, FreeOf
    <2> QED
      BY <1>7, <1>9, <2>1
  <1> QED
    BY <1>1, <1>6, <1>7, <1>8, <1>9, <1>10, <1>11, <1>12, <1>13 DEF Open

(* The open block becomes an allocated one. *)
LEMMA CloseAllocated ==
    ASSUME NEW h, NEW S, NEW sz, NEW B, Open(h, S, sz, B),
           NEW g, g = SetBlock(h, B, sz[B], 1)
    PROVE  /\ Sound(g, S, sz) /\ FreeOf(g, S) = FreeOf(h, Without(S, B))
           /\ AllocOf(g, S) = With(AllocOf(h, Without(S, B)), B)
           /\ Undisturbed(h, sz, g, sz, Without(S, B))
  <1>1. PICK R, F : R = Without(S, B) /\ F = FreeOf(h, R)
    OBVIOUS
  <1>2. /\ IsHeap(h) /\ Tile(S, sz) /\ B \in S /\ Tagged(h, R, sz)
        /\ Links(h, F) /\ Spaced(F, sz) /\ F \subseteq S \ {B}
    BY <1>1 DEF Open, FreeOf, Without
  <1>3. /\ IsHeap(g) /\ Links(g, F)
        /\ BSize(g, B) = sz[B] /\ Allocated(g, B) /\ Word(g, Foot(B, sz[B])) = sz[B]
        /\ \A C \in S \ {B} : Kept(h, g, C, sz)
    BY <1>2, SetTiled
  <1>4. R = S \ {B}
    BY <1>1 DEF Without
  <1>5. \A C \in R : /\ BSize(g, C) = BSize(h, C) /\ (Allocated(g, C) <=> Allocated(h, C))
                     /\ Word(g, Foot(C, sz[C])) = Word(h, Foot(C, sz[C]))
    BY <1>2, <1>3, <1>4, KeptFacts
  <1>6. FreeOf(g, S) = FreeOf(h, R)
    BY <1>2, <1>3, <1>4, <1>5 DEF FreeOf
  <1>7. AllocOf(g, S) = With(AllocOf(h, R), B)
    BY <1>2, <1>3, <1>4, <1>5 DEF AllocOf, With
  <1>8. Tagged(g, S, sz)
    BY <1>2, <1>3, <1>4, <1>5 DEF Tagged
  <1> QED
    BY <1>1, <1>2, <1>3, <1>4, <1>6, <1>7, <1>8 DEF Sound, Undisturbed

(* The open block becomes a free one between blocks that are not. *)
LEMMA CloseFree ==
    ASSUME NEW h, NEW S, NEW sz, NEW B, Open(h, S, sz, B),
           B + sz[B] \notin FreeOf(h, Without(S, B)),
           \A C \in FreeOf(h, Without(S, B)) : C + sz[C] # B,
           NEW g, g = BinInsert(SetBlock(h, B, sz[B], 0), B)
    PROVE  /\ Sound(g, S, sz) /\ FreeOf(g, S) = With(FreeOf(h, Without(S, B)), B)
           /\ AllocOf(g, S) = AllocOf(h, Without(S, B))
           /\ Undisturbed(h, sz, g, sz, AllocOf(h, Without(S, B)))
  <1>1. PICK R, F : R = Without(S, B) /\ F = FreeOf(h, R)
    OBVIOUS
  <1>2. /\ IsHeap(h) /\ Tile(S, sz) /\ B \in S /\ Tagged(h, R, sz)
        /\ Links(h, F) /\ Spaced(F, sz) /\ F \subseteq S \ {B} /\ B \in S \ F /\ F \subseteq S
    BY <1>1 DEF Open, FreeOf, Without
  <1>3. PICK h1 : h1 = SetBlock(h, B, sz[B], 0)
    OBVIOUS
  <1>4. /\ IsHeap(h1) /\ Links(h1, F)
        /\ BSize(h1, B) = sz[B] /\ ~Allocated(h1, B) /\ Word(h1, Foot(B, sz[B])) = sz[B]
        /\ \A C \in S \ {B} : Kept(h, h1, C, sz)
    BY <1>2, <1>3, SetTiled
  <1>5. /\ IsHeap(g) /\ Links(g, F \cup {B})
        /\ \A C \in S : Word(g, C) = Word(h1, C) /\ Word(g, Foot(C, sz[C])) = Word(h1, Foot(C, sz[C]))
        /\ \A C \in S \ (F \cup {B}) : Kept(h1, g, C, sz)
    <2>1. g = BinInsert(h1, B)
      BY <1>3
    <2> QED
      BY <1>2, <1>4, <2>1, InsertTiled
  <1>6. R = S \ {B}
    BY <1>1 DEF Without
  <1>7. \A C \in R : /\ BSize(h1, C) = BSize(h, C) /\ (Allocated(h1, C) <=> Allocated(h, C))
                     /\ Word(h1, Foot(C, sz[C])) = Word(h, Foot(C, sz[C]))
    BY <1>2, <1>4, <1>6, KeptFacts
  <1>8. \A C \in S : /\ BSize(g, C) = BSize(h1, C) /\ (Allocated(g, C) <=> Allocated(h1, C))
                     /\ Word(g, Foot(C, sz[C])) = Word(h1, Foot(C, sz[C]))
    BY <1>5, SameHeader
  <1>9. FreeOf(g, S) = With(F, B)
    BY <1>1, <1>2, <1>4, <1>6, <1>7, <1>8 DEF FreeOf, With
  <1>10. AllocOf(g, S) = AllocOf(h, R)
    BY <1>1, <1>2, <1>4, <1>6, <1>7, <1>8 DEF AllocOf
  <1>11. Tagged(g, S, sz)
    BY <1>2, <1>4, <1>6, <1>7, <1>8 DEF Tagged
  <1>12. Spaced(With(F, B), sz)
    <2>1. B \in Int /\ sz[B] \in Int /\ sz[B] >= 32
      BY <1>2, TileParts
    <2>2. B + sz[B] # B
      BY <2>1
    <2>3. B + sz[B] \notin F /\ \A C \in F : C + sz[C] # B
      BY <1>1
    <2> QED
      BY <1>2, <2>2, <2>3 DEF Spaced, With
  <1>13. Undisturbed(h, sz, g, sz, AllocOf(h, R))
    <2>1. \A D \in AllocOf(h, R) : D \in S \ {B} /\ D \in S \ (F \cup {B})
      BY <1>1, <1>2, <1>6 DEF AllocOf, FreeOf
    <2> QED
      BY <1>4, <1>5, <2>1 DEF Undisturbed, Kept
  <1>14. Links(g, With(F, B))
    BY <1>5 DEF With
  <1> QED
    BY <1>1, <1>2, <1>5, <1>9, <1>10, <1>11, <1>12, <1>13, <1>14 DEF Sound

-------------------------------------------------------------------------------
(* block_free: first the next block, then the previous one. *)
LEMMA JoinNext ==
    ASSUME NEW h, NEW S, NEW sz, NEW B, Open(h, S, sz, B),
           NEW n, n = B + sz[B], NEW h1, NEW bs,
           n < End /\ ~Allocated(h, n) => h1 = BinRemove(h, n) /\ bs = sz[B] + BSize(h1, n),
           ~(n < End /\ ~Allocated(h, n)) => h1 = h /\ bs = sz[B]
    PROVE  \E T, tz : /\ Open(h1, T, tz, B) /\ bs = tz[B]
                      /\ B + tz[B] \notin FreeOf(h1, Without(T, B))
                      /\ AllocOf(h1, Without(T, B)) = AllocOf(h, Without(S, B))
                      /\ Undisturbed(h, sz, h1, tz, AllocOf(h, Without(S, B)))
  <1>1. PICK F : F = FreeOf(h, Without(S, B))
    OBVIOUS
  <1>2. /\ Tile(S, sz) /\ B \in S /\ Spaced(F, sz)
        /\ \A C \in F : C \in S /\ C # B /\ ~Allocated(h, C)
        /\ \A C \in S : C # B /\ ~Allocated(h, C) => C \in F
    BY <1>1 DEF Open, FreeOf, Without
  <1>3. /\ n \in S \cup {End} /\ n # B /\ End \in Int
        /\ \A C \in S : C < End
    <2>1. B \in Int /\ sz[B] \in Int /\ sz[B] >= 32 /\ B + sz[B] \in S \cup {End}
      BY <1>2, TileParts
    <2>2. End \in Int /\ \A C \in S : C < End
      BY <1>2, TileParts
    <2> QED
      BY <2>1, <2>2
  <1>4. CASE n < End /\ ~Allocated(h, n)
    <2>1. n \in S /\ n \in F
      BY <1>2, <1>3, <1>4
    <2>2. Adjacent(B, n, sz) /\ n \in FreeOf(h, Without(S, B)) /\ h1 = BinRemove(h, n)
      BY <1>1, <1>4, <2>1 DEF Adjacent
    <2>3. PICK T, tz : T = Without(S, n) /\ tz = Joined(S, sz, B, n)
      OBVIOUS
    <2>4. /\ Open(h1, T, tz, B)
          /\ FreeOf(h1, Without(T, B)) = Without(F, n)
          /\ AllocOf(h1, Without(T, B)) = AllocOf(h, Without(S, B))
          /\ BSize(h1, n) = sz[n] /\ tz[B] = sz[B] + sz[n] /\ B + tz[B] = n + sz[n]
          /\ Undisturbed(h, sz, h1, tz, AllocOf(h, Without(S, B)))
      <3>1. B \in {B, n} /\ n \in {B, n}
        OBVIOUS
      <3> QED
        BY <1>1, <2>2, <2>3, <3>1, Merge
    <2>5. n + sz[n] \notin Without(F, n)
      BY <1>2, <2>1 DEF Spaced, Without
    <2>6. bs = tz[B]
      BY <1>4, <2>4
    <2> QED
      BY <2>4, <2>5, <2>6
  <1>5. CASE ~(n < End /\ ~Allocated(h, n))
    <2>1. n \notin F
      BY <1>2, <1>3, <1>5
    <2>2. h1 = h /\ bs = sz[B]
      BY <1>5
    <2>3. Undisturbed(h, sz, h, sz, AllocOf(h, Without(S, B)))
      BY DEF Undisturbed, Kept
    <2> QED
      BY <1>1, <2>1, <2>2, <2>3
  <1> QED
    BY <1>4, <1>5

(* A block has one predecessor, whose footer stands before it. *)
LEMMA Predecessor ==
    ASSUME NEW S, NEW sz, Tile(S, sz), NEW B \in S
    PROVE  /\ B > Base => \E P \in S : /\ Adjacent(P, B, sz) /\ P # B /\ P >= Base
                                       /\ Foot(P, sz[P]) = B - 8
                                       /\ \A C \in S : C + sz[C] = B => C = P
           /\ ~(B > Base) => \A C \in S : C + sz[C] # B
  <1>1. /\ \A C \in S : C \in Int /\ C >= Base /\ sz[C] \in Int /\ sz[C] >= 32
        /\ B \in Int /\ Base \in Int
    BY TileParts
  <1>2. ASSUME B > Base
        PROVE  \E P \in S : /\ Adjacent(P, B, sz) /\ P # B /\ P >= Base
                            /\ Foot(P, sz[P]) = B - 8
                            /\ \A C \in S : C + sz[C] = B => C = P
    <2>1. PICK P \in S : P + sz[P] = B
      BY <1>1, <1>2, TileParts
    <2>2. Adjacent(P, B, sz) /\ P # B /\ P >= Base /\ Foot(P, sz[P]) = B - 8
      BY <1>1, <2>1 DEF Adjacent, Foot
    <2>3. ASSUME NEW C \in S, C + sz[C] = B PROVE C = P
      <3>1. In(B - 8, C, sz) /\ In(B - 8, P, sz) /\ B - 8 \in Int
        BY <1>1, <2>1, <2>3 DEF In
      <3> QED
        BY <3>1, TileFacts
    <2> QED
      BY <2>2, <2>3
  <1>3. ASSUME ~(B > Base), NEW C \in S PROVE C + sz[C] # B
    BY <1>1, <1>3
  <1> QED
    BY <1>2, <1>3

(* Backward coalescing, through the footer of the previous block. *)
LEMMA JoinPrevious ==
    ASSUME NEW h, NEW S, NEW sz, NEW B, Open(h, S, sz, B),
           B + sz[B] \notin FreeOf(h, Without(S, B)),
           NEW p, p = B - Word(h, B - 8), NEW h1, NEW bs, NEW L,
           B > Base /\ p >= Base /\ ~Allocated(h, p) =>
               h1 = BinRemove(h, p) /\ bs = sz[B] + BSize(h1, p) /\ L = p,
           ~(B > Base /\ p >= Base /\ ~Allocated(h, p)) => h1 = h /\ bs = sz[B] /\ L = B
    PROVE  \E T, tz : /\ Open(h1, T, tz, L) /\ bs = tz[L]
                      /\ L + tz[L] \notin FreeOf(h1, Without(T, L))
                      /\ \A C \in FreeOf(h1, Without(T, L)) : C + tz[C] # L
                      /\ AllocOf(h1, Without(T, L)) = AllocOf(h, Without(S, B))
                      /\ Undisturbed(h, sz, h1, tz, AllocOf(h, Without(S, B)))
  <1>1. PICK F : F = FreeOf(h, Without(S, B))
    OBVIOUS
  <1>2. /\ Tile(S, sz) /\ B \in S /\ Spaced(F, sz) /\ Tagged(h, Without(S, B), sz)
        /\ \A C \in F : C \in S /\ C # B /\ ~Allocated(h, C)
        /\ \A C \in S : C # B /\ ~Allocated(h, C) => C \in F
    BY <1>1 DEF Open, FreeOf, Without
  <1>3. B \in Int /\ Base \in Int /\ \A C \in S : C \in Int /\ sz[C] \in Int /\ sz[C] >= 32
    BY <1>2, TileParts
  <1>4. ASSUME B > Base
        PROVE  /\ p \in S /\ p # B /\ p >= Base /\ Adjacent(p, B, sz)
               /\ \A C \in S : C + sz[C] = B => C = p
    <2>1. PICK P \in S : /\ Adjacent(P, B, sz) /\ P # B /\ P >= Base
                         /\ Foot(P, sz[P]) = B - 8
                         /\ \A C \in S : C + sz[C] = B => C = P
      BY <1>2, <1>4, Predecessor
    <2>2. Word(h, B - 8) = sz[P]
      BY <1>2, <2>1 DEF Tagged, Without
    <2>3. p = P
      <3>1. B = P + sz[P]
        BY <2>1 DEF Adjacent
      <3> QED
        BY <1>3, <2>2, <3>1
    <2> QED
      BY <2>1, <2>3
  <1>5. CASE B > Base /\ p >= Base /\ ~Allocated(h, p)
    <2>1. p \in F /\ p \in FreeOf(h, Without(S, B)) /\ p \in S /\ Adjacent(p, B, sz)
      BY <1>1, <1>2, <1>4, <1>5
    <2>2. h1 = BinRemove(h, p) /\ L = p /\ bs = sz[B] + BSize(h1, p)
      BY <1>5
    <2>3. PICK T, tz : T = Without(S, B) /\ tz = Joined(S, sz, L, B)
      OBVIOUS
    <2>4. /\ Open(h1, T, tz, L)
          /\ FreeOf(h1, Without(T, L)) = Without(F, L)
          /\ AllocOf(h1, Without(T, L)) = AllocOf(h, Without(S, B))
          /\ BSize(h1, L) = sz[L] /\ tz[L] = sz[B] + sz[L] /\ L + tz[L] = B + sz[B]
          /\ Undisturbed(h, sz, h1, tz, AllocOf(h, Without(S, B)))
      <3>1. L \in {B, L} /\ B \in {B, L} /\ L \in FreeOf(h, Without(S, B)) /\ Adjacent(L, B, sz)
            /\ h1 = BinRemove(h, L)
        BY <2>1, <2>2
      <3> QED
        BY <1>1, <2>3, <3>1, Merge
    <2>5. L + tz[L] \notin Without(F, L)
      BY <1>1, <2>4 DEF Without
    <2>6. ASSUME NEW C \in Without(F, L) PROVE C + tz[C] # L
      <3>1. C \in F /\ C # L /\ C \in S /\ C # B
        BY <1>2, <2>6 DEF Without
      <3>2. tz[C] = sz[C]
        BY <2>3, <3>1 DEF Joined, Without
      <3>3. L \in F
        BY <2>1, <2>2
      <3> QED
        BY <1>2, <3>1, <3>2, <3>3 DEF Spaced
    <2>7. bs = tz[L]
      BY <2>2, <2>4
    <2> QED
      BY <2>4, <2>5, <2>6, <2>7
  <1>6. CASE ~(B > Base /\ p >= Base /\ ~Allocated(h, p))
    <2>1. h1 = h /\ bs = sz[B] /\ L = B
      BY <1>6
    <2>2. ASSUME NEW C \in F PROVE C + sz[C] # B
      <3>1. CASE B > Base
        <4>1. p \notin F
          BY <1>2, <1>4, <1>6, <3>1
        <4> QED
          BY <1>2, <1>4, <2>2, <3>1, <4>1
      <3>2. CASE ~(B > Base)
        BY <1>2, <2>2, <3>2, Predecessor
      <3> QED
        BY <3>1, <3>2
    <2>3. Undisturbed(h, sz, h, sz, AllocOf(h, Without(S, B)))
      BY DEF Undisturbed, Kept
    <2> QED
      BY <1>1, <2>1, <2>2, <2>3
  <1> QED
    BY <1>5, <1>6

-------------------------------------------------------------------------------
(* block_free of an allocated block leaves a sound heap in which exactly     *)
(* that block is no longer allocated.                                        *)
LEMMA FreeFacts ==
    ASSUME NEW h, NEW S, NEW sz, Sound(h, S, sz), NEW B \in AllocOf(h, S), NEW g, g = BlockFree(h, B),
           NEW A, A = Without(AllocOf(h, S), B)
    PROVE  \E T, tz : Sound(g, T, tz) /\ AllocOf(g, T) = A /\ Undisturbed(h, sz, g, tz, A)
  <1> DEFINE next == B + BSize(h, B)
             fwd  == next < End /\ ~Allocated(h, next)
             h1   == IF fwd THEN BinRemove(h, next) ELSE h
             bs1  == IF fwd THEN BSize(h, B) + BSize(h1, next) ELSE BSize(h, B)
             prev == B - Word(h1, B - 8)
             bwd  == B > Base /\ prev >= Base /\ ~Allocated(h1, prev)
             h2   == IF bwd THEN BinRemove(h1, prev) ELSE h1
             bs2  == IF bwd THEN bs1 + BSize(h2, prev) ELSE bs1
             L    == IF bwd THEN prev ELSE B
  <1>1. g = BinInsert(SetBlock(h2, L, bs2, 0), L)
    BY DEF BlockFree, End
  <1>2. /\ Open(h, S, sz, B) /\ AllocOf(h, Without(S, B)) = A /\ BSize(h, B) = sz[B]
    BY OpenAllocated DEF Sound, Tagged, AllocOf
  <1>3. \E T, tz : /\ Open(h1, T, tz, B) /\ bs1 = tz[B]
                   /\ B + tz[B] \notin FreeOf(h1, Without(T, B))
                   /\ AllocOf(h1, Without(T, B)) = A
                   /\ Undisturbed(h, sz, h1, tz, A)
    <2>1. /\ next = B + sz[B]
          /\ next < End /\ ~Allocated(h, next) =>
                h1 = BinRemove(h, next) /\ bs1 = sz[B] + BSize(h1, next)
          /\ ~(next < End /\ ~Allocated(h, next)) => h1 = h /\ bs1 = sz[B]
      BY <1>2
    <2> HIDE DEF next, h1, bs1
    <2> QED
      BY <1>2, <2>1, JoinNext
  <1> HIDE DEF h1, bs1
  <1>4. PICK T, tz : /\ Open(h1, T, tz, B) /\ bs1 = tz[B]
                     /\ B + tz[B] \notin FreeOf(h1, Without(T, B))
                     /\ AllocOf(h1, Without(T, B)) = A
                     /\ Undisturbed(h, sz, h1, tz, A)
    BY <1>3
  <1>5. \E U, uz : /\ Open(h2, U, uz, L) /\ bs2 = uz[L]
                   /\ L + uz[L] \notin FreeOf(h2, Without(U, L))
                   /\ \A C \in FreeOf(h2, Without(U, L)) : C + uz[C] # L
                   /\ AllocOf(h2, Without(U, L)) = A
                   /\ Undisturbed(h1, tz, h2, uz, A)
    <2>1. /\ prev = B - Word(h1, B - 8)
          /\ B > Base /\ prev >= Base /\ ~Allocated(h1, prev) =>
                h2 = BinRemove(h1, prev) /\ bs2 = tz[B] + BSize(h2, prev) /\ L = prev
          /\ ~(B > Base /\ prev >= Base /\ ~Allocated(h1, prev)) => h2 = h1 /\ bs2 = tz[B] /\ L = B
      BY <1>4
    <2> HIDE DEF prev, h2, bs2, L
    <2> QED
      BY <1>4, <2>1, JoinPrevious
  <1> HIDE DEF h2, bs2, L
  <1>6. PICK U, uz : /\ Open(h2, U, uz, L) /\ bs2 = uz[L]
                     /\ L + uz[L] \notin FreeOf(h2, Without(U, L))
                     /\ \A C \in FreeOf(h2, Without(U, L)) : C + uz[C] # L
                     /\ AllocOf(h2, Without(U, L)) = A
                     /\ Undisturbed(h1, tz, h2, uz, A)
    BY <1>5
  <1>7. /\ Sound(g, U, uz) /\ AllocOf(g, U) = A /\ Undisturbed(h2, uz, g, uz, A)
    BY <1>1, <1>6, CloseFree
  <1>8. Undisturbed(h, sz, g, uz, A)
    <2>1. Undisturbed(h, sz, h2, uz, A)
      BY <1>4, <1>6, UndisturbedTwice
    <2> QED
      BY <1>7, <2>1, UndisturbedTwice
  <1> QED
    BY <1>7, <1>8

(* The rest of block_alloc for a free block that is large enough. *)
LEMMA CarveFacts ==
    ASSUME NEW h, NEW S, NEW sz, Sound(h, S, sz), NEW B \in FreeOf(h, S),
           NEW n \in Int, n % 16 = 0, n >= 32, n <= sz[B], NEW g, g = Carve(h, B, n)
    PROVE  \E T, tz : /\ Sound(g, T, tz) /\ AllocOf(g, T) = With(AllocOf(h, S), B)
                      /\ Undisturbed(h, sz, g, tz, AllocOf(h, S)) /\ tz[B] >= n /\ BSize(g, B) = tz[B]
  <1>1. PICK A : A = AllocOf(h, S)
    OBVIOUS
  <1>2. PICK h1 : h1 = BinRemove(h, B)
    OBVIOUS
  <1>3. /\ Open(h1, S, sz, B) /\ FreeOf(h1, Without(S, B)) = Without(FreeOf(h, S), B)
        /\ AllocOf(h1, Without(S, B)) = A /\ BSize(h1, B) = sz[B]
        /\ Undisturbed(h, sz, h1, sz, A)
    BY <1>1, <1>2, OpenFree
  <1>4. BSize(h, B) = sz[B] /\ B \in S /\ Spaced(FreeOf(h, S), sz)
    BY DEF Sound, Tagged, FreeOf
  <1>5. Tile(S, sz) /\ sz[B] \in Int /\ B \in Int
    <2>1. Tile(S, sz)
      BY DEF Sound
    <2> QED
      BY <1>4, <2>1, TileParts
  <1>6. CASE sz[B] - n >= 32
    <2>1. PICK R, T, tz : R = B + n /\ T = With(S, R) /\ tz = Parted(S, sz, B, R, n)
      OBVIOUS
    <2>2. /\ Tile(T, tz) /\ R \notin S /\ R \in Int
          /\ \A C \in T : tz[C] = IF C = B THEN n ELSE IF C = R THEN sz[B] - n ELSE sz[C]
      BY <1>4, <1>5, <1>6, <2>1, SplitTile
    <2>3. B \in T /\ R \in T /\ R # B /\ tz[B] = n /\ tz[R] = sz[B] - n
          /\ \A C \in Without(S, B) : C \in T /\ C # B /\ C # R /\ tz[C] = sz[C]
      BY <1>4, <2>1, <2>2 DEF With, Without
    <2>4. PICK h2, h3 : /\ h2 = SetBlock(h1, B, n, 1)
                        /\ h3 = BinInsert(SetBlock(h2, R, sz[B] - n, 0), R)
      OBVIOUS
    <2>5. g = h3
      BY <1>2, <1>4, <1>6, <2>1, <2>4 DEF Carve
    <2>6. PICK F : F = FreeOf(h1, Without(S, B))
      OBVIOUS
    <2>7. /\ IsHeap(h1) /\ Links(h1, F) /\ Spaced(F, sz) /\ Tagged(h1, Without(S, B), sz)
          /\ F = Without(FreeOf(h, S), B)
          /\ \A C \in F : C \in Without(S, B) /\ C \in S /\ C # B /\ ~Allocated(h1, C)
          /\ \A C \in Without(S, B) : ~Allocated(h1, C) => C \in F
          /\ \A C \in A : C \in Without(S, B) /\ Allocated(h1, C)
          /\ \A C \in Without(S, B) : Allocated(h1, C) => C \in A
      BY <1>3, <2>6 DEF Open, FreeOf, AllocOf, Without
    <2>8. F \subseteq T \ {B}
      BY <2>3, <2>7
    <2>9. /\ IsHeap(h2) /\ Links(h2, F)
          /\ BSize(h2, B) = n /\ Allocated(h2, B) /\ Word(h2, Foot(B, n)) = n
          /\ \A C \in T \ {B} : Kept(h1, h2, C, tz)
      <3>1. h2 = SetBlock(h1, B, tz[B], 1) /\ 1 \in {0, 1}
        BY <2>3, <2>4
      <3>2. /\ IsHeap(h2) /\ Links(h2, F)
            /\ BSize(h2, B) = tz[B] /\ Allocated(h2, B) /\ Word(h2, Foot(B, tz[B])) = tz[B]
            /\ \A C \in T \ {B} : Kept(h1, h2, C, tz)
        BY <2>2, <2>3, <2>7, <2>8, <3>1, SetTiled
      <3> QED
        BY <2>3, <3>2
    <2>10. \A C \in Without(S, B) : /\ BSize(h2, C) = sz[C] /\ Word(h2, Foot(C, sz[C])) = sz[C]
                                    /\ (Allocated(h2, C) <=> Allocated(h1, C))
      <3> SUFFICES ASSUME NEW C \in Without(S, B)
                   PROVE  /\ BSize(h2, C) = sz[C] /\ Word(h2, Foot(C, sz[C])) = sz[C]
                          /\ (Allocated(h2, C) <=> Allocated(h1, C))
        OBVIOUS
      <3>1. C \in T /\ Kept(h1, h2, C, tz) /\ tz[C] = sz[C]
        BY <2>3, <2>9
      <3>2. /\ BSize(h2, C) = BSize(h1, C) /\ (Allocated(h2, C) <=> Allocated(h1, C))
            /\ Word(h2, Foot(C, tz[C])) = Word(h1, Foot(C, tz[C]))
        BY <2>2, <3>1, KeptFacts
      <3> QED
        BY <2>7, <3>1, <3>2 DEF Tagged
    <2>11. \A C : C \in Without(T, R) <=> C = B \/ C \in Without(S, B)
      BY <1>4, <2>1, <2>2, <2>3 DEF With, Without
    <2>12. FreeOf(h2, Without(T, R)) = F
      BY <2>7, <2>9, <2>10, <2>11 DEF FreeOf
    <2>13. AllocOf(h2, Without(T, R)) = With(A, B)
      BY <2>7, <2>9, <2>10, <2>11 DEF AllocOf, With
    <2>14. Tagged(h2, Without(T, R), tz)
      BY <2>3, <2>9, <2>10, <2>11 DEF Tagged
    <2>15. Spaced(F, tz)
      BY <2>3, <2>7 DEF Spaced
    <2>16. Open(h2, T, tz, R)
      BY <2>2, <2>3, <2>9, <2>12, <2>14, <2>15 DEF Open
    <2>17. R + tz[R] \notin F
      <3>1. R + tz[R] = B + sz[B]
        BY <1>5, <2>1, <2>3
      <3> QED
        BY <1>4, <2>7, <3>1 DEF Spaced, Without
    <2>18. ASSUME NEW C \in F PROVE C + tz[C] # R
      <3>1. C + sz[C] \in S \cup {End} /\ tz[C] = sz[C]
        BY <1>5, <2>3, <2>7, <2>18, TileParts
      <3>2. R # End
        <4>1. B + sz[B] <= End /\ End \in Int
          BY <1>4, <1>5, TileParts
        <4> QED
          BY <1>5, <1>6, <2>1, <4>1
      <3> QED
        BY <2>2, <3>1, <3>2
    <2>19. /\ Sound(g, T, tz) /\ AllocOf(g, T) = With(A, B)
           /\ Undisturbed(h2, tz, g, tz, With(A, B))
      <3>1. g = BinInsert(SetBlock(h2, R, tz[R], 0), R)
        BY <2>3, <2>4, <2>5
      <3> QED
        BY <2>12, <2>13, <2>16, <2>17, <2>18, <3>1, CloseFree
    <2>20. Undisturbed(h1, sz, h2, tz, A)
      <3> SUFFICES ASSUME NEW D \in A PROVE tz[D] = sz[D] /\ Kept(h1, h2, D, sz)
        BY DEF Undisturbed
      <3>1. D \in T \ {B} /\ tz[D] = sz[D]
        BY <2>3, <2>7
      <3> QED
        BY <2>9, <3>1 DEF Kept, In
    <2>21. Undisturbed(h2, tz, g, tz, A)
      BY <2>19 DEF Undisturbed, With
    <2>22. Undisturbed(h, sz, g, tz, A)
      <3>1. Undisturbed(h, sz, h2, tz, A)
        BY <1>3, <2>20, UndisturbedTwice
      <3> QED
        BY <2>21, <3>1, UndisturbedTwice
    <2>23. BSize(g, B) = tz[B]
      BY <2>3, <2>19 DEF Sound, Tagged
    <2> QED
      BY <1>1, <2>3, <2>19, <2>22, <2>23
  <1>7. CASE ~(sz[B] - n >= 32)
    <2>1. g = SetBlock(h1, B, sz[B], 1)
      BY <1>2, <1>4, <1>7 DEF Carve
    <2>2. /\ Sound(g, S, sz) /\ AllocOf(g, S) = With(A, B)
          /\ Undisturbed(h1, sz, g, sz, Without(S, B))
      BY <1>3, <2>1, CloseAllocated
    <2>3. Undisturbed(h1, sz, g, sz, A)
      BY <1>3, <2>2 DEF Undisturbed, AllocOf
    <2>4. Undisturbed(h, sz, g, sz, A)
      BY <1>3, <2>3, UndisturbedTwice
    <2>5. BSize(g, B) = sz[B]
      BY <1>4, <2>2 DEF Sound, Tagged
    <2> QED
      BY <1>1, <2>2, <2>4, <2>5
  <1> QED
    BY <1>6, <1>7

-------------------------------------------------------------------------------
(* Induction, from the well-foundedness of Nat, and the sequences that        *)
(* repeating a step produces.                                                *)
Less == {p \in Nat \X Nat : p[1] < p[2]}

(* A set of naturals that has an element has a smallest one. *)
LEMMA Smallest ==
    ASSUME NEW T \in SUBSET Nat, T # {}
    PROVE  \E m \in T : \A k \in T : m <= k
  <1>1. IsWellFoundedOn(Less, Nat)
    BY NatLessThanWellFounded DEF OpToRel, Less
  <1>2. PICK m \in T : \A k \in T : <<k, m>> \notin Less
    BY <1>1, WFMin
  <1>3. ASSUME NEW k \in T, k < m PROVE FALSE
    <2>1. <<k, m>> \in Less
      BY <1>3 DEF Less
    <2> QED
      BY <1>2, <2>1
  <1> QED
    BY <1>3

(* A set that holds 0, and with each number the next, holds every number. *)
LEMMA Induction ==
    ASSUME NEW S, 0 \in S, \A k \in Nat : k \in S => k + 1 \in S
    PROVE  Nat \subseteq S
  <1> SUFFICES ASSUME Nat \ S # {} PROVE FALSE
    OBVIOUS
  <1>1. PICK m \in Nat \ S : \A k \in Nat \ S : m <= k
    BY Smallest
  <1>2. m # 0 /\ m - 1 \in Nat
    BY <1>1
  <1>3. m - 1 \in S
    BY <1>1, <1>2
  <1> QED
    BY <1>1, <1>2, <1>3

Repeats(f, n, x, step) ==
    f[0] = x /\ \A k \in 1 .. n : f[k] = step[f[k - 1]]

(* Repeating a step that stays in a set makes a sequence in that set. *)
LEMMA Repeated ==
    ASSUME NEW V, NEW x \in V, NEW step \in [V -> V]
    PROVE  \A n \in Nat : \E f \in [0 .. n -> V] : Repeats(f, n, x, step)
  <1> DEFINE N == {n \in Nat : \E f \in [0 .. n -> V] : Repeats(f, n, x, step)}
  <1>1. 0 \in N
    <2> DEFINE f == [k \in 0 .. 0 |-> x]
    <2>1. f \in [0 .. 0 -> V] /\ Repeats(f, 0, x, step)
      BY DEF Repeats
    <2> QED
      BY <2>1
  <1>2. ASSUME NEW n \in Nat, n \in N PROVE n + 1 \in N
    <2>1. PICK f \in [0 .. n -> V] : Repeats(f, n, x, step)
      BY <1>2
    <2> DEFINE g == [k \in 0 .. n + 1 |-> IF k = n + 1 THEN step[f[n]] ELSE f[k]]
    <2>2. f[n] \in V /\ step[f[n]] \in V
      OBVIOUS
    <2>3. g \in [0 .. n + 1 -> V]
      BY <2>2
    <2>4. Repeats(g, n + 1, x, step)
      BY <2>1 DEF Repeats
    <2> QED
      BY <2>3, <2>4
  <1> HIDE DEF N
  <1>3. Nat \subseteq N
    BY <1>1, <1>2, Induction
  <1> QED
    BY <1>3 DEF N

-------------------------------------------------------------------------------
(* The walk of check_locked over a sound heap. *)
Stepped(sz, b) == IF b = End THEN End ELSE b + sz[b]

(* The walk from block to block meets every block and ends at the end. *)
LEMMA WalkFacts ==
    ASSUME NEW h, NEW S, NEW sz, Sound(h, S, sz)
    PROVE  \E f \in [0 .. MaxBlocks -> With(S, End)] :
              /\ f[0] = Base /\ \A k \in 1 .. MaxBlocks : f[k] = Stepped(sz, f[k - 1])
              /\ \A k \in 0 .. MaxBlocks : Boundaries(h)[k] = f[k]
  <1> DEFINE V == With(S, End)
             Body(at, k) == IF k = 0 THEN Base
                            ELSE LET b == at[k - 1]
                                 IN  IF b < Base + Res /\ WellFormed(h, b) THEN b + BSize(h, b) ELSE b
             Walk(at) == at = [k \in 0 .. MaxBlocks |-> Body(at, k)]
             walk == CHOOSE at : Walk(at)
             step == [b \in V |-> Stepped(sz, b)]
  <1>1. \A b \in V : (IF b < Base + Res /\ WellFormed(h, b) THEN b + BSize(h, b) ELSE b) = Stepped(sz, b)
    <2> SUFFICES ASSUME NEW b \in V
                 PROVE  (IF b < Base + Res /\ WellFormed(h, b) THEN b + BSize(h, b) ELSE b) = Stepped(sz, b)
      OBVIOUS
    <2>1. CASE b \in S
      <3>1. /\ b \in Int /\ b % 16 = 0 /\ Base <= b /\ b < End /\ b + sz[b] <= End
            /\ sz[b] \in Int /\ sz[b] % 16 = 0 /\ sz[b] >= 32
        BY <2>1, TileParts DEF Sound
      <3>2. BSize(h, b) = sz[b] /\ Word(h, b + sz[b] - 8) = sz[b]
        BY <2>1 DEF Sound, Tagged, Foot
      <3> QED
        BY <3>1, <3>2 DEF WellFormed, Stepped, End
    <2>2. CASE b = End
      BY <2>2, Region DEF Stepped, End
    <2> QED
      BY <2>1, <2>2 DEF With
  <1>2. Base \in V /\ step \in [V -> V] /\ MaxBlocks \in Nat
    <2>1. Base \in V
      BY DEF Sound, Tile, With
    <2>2. \A b \in V : Stepped(sz, b) \in V
      BY DEF Sound, Tile, With, Stepped
    <2>3. MaxBlocks \in Nat
      BY Region DEF MaxBlocks
    <2> HIDE DEF V
    <2>4. step \in [V -> V]
      BY <2>2
    <2> QED
      BY <2>1, <2>3, <2>4
  <1> HIDE DEF step, V
  <1>3. PICK f \in [0 .. MaxBlocks -> V] : Repeats(f, MaxBlocks, Base, step)
    BY <1>2, Repeated
  <1>4. \A k \in 1 .. MaxBlocks : f[k - 1] \in V /\ f[k] = Stepped(sz, f[k - 1])
    <2> SUFFICES ASSUME NEW k \in 1 .. MaxBlocks
                 PROVE  f[k - 1] \in V /\ f[k] = Stepped(sz, f[k - 1])
      OBVIOUS
    <2>1. f[k - 1] \in V
      BY <1>2
    <2>2. f[k] = step[f[k - 1]]
      BY <1>3 DEF Repeats
    <2> QED
      BY <2>1, <2>2 DEF step
  <1>5. f[0] = Base
    BY <1>3 DEF Repeats
  <1>6. Walk(f)
    <2>1. \A k \in 0 .. MaxBlocks : f[k] = Body(f, k)
      BY <1>1, <1>2, <1>4, <1>5
    <2> HIDE DEF Body
    <2> QED
      BY <2>1
  <1> HIDE DEF Walk
  <1>7. Walk(walk)
    BY <1>6
  <1> HIDE DEF walk
  <1>8. \A k \in 0 .. MaxBlocks : walk[k] = Body(walk, k)
    <2> HIDE DEF Body
    <2> QED
      BY <1>7 DEF Walk
  <1> DEFINE N == {k \in Nat : k <= MaxBlocks => walk[k] = f[k]}
  <1>9. 0 \in N
    BY <1>2, <1>5, <1>8
  <1>10. ASSUME NEW k \in Nat, k \in N PROVE k + 1 \in N
    <2> SUFFICES ASSUME k + 1 <= MaxBlocks PROVE walk[k + 1] = f[k + 1]
      OBVIOUS
    <2>1. walk[k] = f[k] /\ k + 1 \in 1 .. MaxBlocks /\ k + 1 - 1 = k
      BY <1>2, <1>10
    <2>2. f[k] \in V /\ f[k + 1] = Stepped(sz, f[k])
      BY <1>4, <2>1
    <2>3. walk[k + 1] = LET b == walk[k]
                        IN  IF b < Base + Res /\ WellFormed(h, b) THEN b + BSize(h, b) ELSE b
      BY <1>8, <2>1
    <2> QED
      BY <1>1, <2>1, <2>2, <2>3
  <1> HIDE DEF N
  <1>11. Nat \subseteq N
    BY <1>9, <1>10, Induction
  <1>12. \A k \in 0 .. MaxBlocks : walk[k] = f[k]
    BY <1>2, <1>11 DEF N
  <1>13. Boundaries(h) = [k \in 0 .. MaxBlocks |-> walk[k]]
    BY DEF Boundaries, walk, Walk
  <1>14. \A k \in 0 .. MaxBlocks : Boundaries(h)[k] = f[k]
    BY <1>12, <1>13
  <1> QED
    BY <1>4, <1>5, <1>14 DEF V

(* The walk of check_locked over a sound heap visits exactly its blocks. *)
LEMMA BlocksFacts ==
    ASSUME NEW h, NEW S, NEW sz, Sound(h, S, sz)
    PROVE  /\ Boundaries(h)[MaxBlocks] = Base + Res
           /\ Blocks(h) = S
           /\ FreeBlocks(h) = FreeOf(h, S) /\ AllocatedBlocks(h) = AllocOf(h, S)
  <1>1. PICK f \in [0 .. MaxBlocks -> With(S, End)] :
              /\ f[0] = Base /\ \A k \in 1 .. MaxBlocks : f[k] = Stepped(sz, f[k - 1])
              /\ \A k \in 0 .. MaxBlocks : Boundaries(h)[k] = f[k]
    BY WalkFacts
  <1>2. Tile(S, sz)
    BY DEF Sound
  <1>3. /\ \A C \in S : /\ C \in Int /\ C % 16 = 0 /\ Base <= C /\ C < End /\ C + sz[C] <= End
                        /\ sz[C] \in Int /\ sz[C] >= 32
        /\ \A C \in S : C # Base => \E P \in S : P + sz[P] = C
        /\ Base \in Int /\ End \in Int
    BY <1>2, TileParts
  <1>4. MaxBlocks \in Nat /\ End - Base < 32 * (MaxBlocks + 1)
    BY Region DEF MaxBlocks, End
  <1> DEFINE N == {k \in Nat : k <= MaxBlocks => f[k] = End \/ f[k] >= Base + 32 * k}
  <1>5. \A k \in 0 .. MaxBlocks : f[k] \in S \/ f[k] = End
    BY DEF With
  <1>6. Nat \subseteq N
    <2>1. 0 \in N
      BY <1>1, <1>3
    <2>2. ASSUME NEW k \in Nat, k \in N PROVE k + 1 \in N
      <3> SUFFICES ASSUME k + 1 <= MaxBlocks PROVE f[k + 1] = End \/ f[k + 1] >= Base + 32 * (k + 1)
        OBVIOUS
      <3>1. k \in 0 .. MaxBlocks /\ k + 1 \in 1 .. MaxBlocks /\ k + 1 - 1 = k
        BY <1>4
      <3>2. f[k + 1] = Stepped(sz, f[k])
        BY <1>1, <3>1
      <3>3. f[k] \in S \/ f[k] = End
        BY <1>5, <3>1
      <3>4. f[k] = End \/ f[k] >= Base + 32 * k
        BY <2>2, <3>1
      <3>5. CASE f[k] = End
        BY <3>2, <3>5 DEF Stepped
      <3>6. CASE f[k] \in S /\ f[k] # End
        <4>1. f[k + 1] = f[k] + sz[f[k]]
          BY <3>2, <3>6 DEF Stepped
        <4>2. f[k] \in Int /\ sz[f[k]] \in Int /\ sz[f[k]] >= 32 /\ f[k] >= Base + 32 * k
          BY <1>3, <3>4, <3>6
        <4> QED
          BY <1>3, <4>1, <4>2
      <3> QED
        BY <3>3, <3>5, <3>6
    <2> HIDE DEF N
    <2> QED
      BY <2>1, <2>2, Induction
  <1>7. f[MaxBlocks] = End
    <2>1. f[MaxBlocks] = End \/ f[MaxBlocks] >= Base + 32 * MaxBlocks
      BY <1>4, <1>6
    <2>2. f[MaxBlocks] \in S \/ f[MaxBlocks] = End
      BY <1>4, <1>5
    <2>3. ASSUME f[MaxBlocks] \in S, f[MaxBlocks] >= Base + 32 * MaxBlocks PROVE FALSE
      <3>1. PICK C \in S : C = f[MaxBlocks]
        BY <2>3
      <3>2. C + sz[C] <= End /\ sz[C] >= 32 /\ C \in Int /\ sz[C] \in Int
        BY <1>3
      <3>3. C >= Base + 32 * MaxBlocks
        BY <2>3, <3>1
      <3> QED
        BY <1>3, <1>4, <3>2, <3>3
    <2> QED
      BY <2>1, <2>2, <2>3
  <1> DEFINE Missed == {B \in S : \A k \in 0 .. MaxBlocks : f[k] # B}
  <1>8. Missed = {}
    <2> SUFFICES ASSUME Missed # {} PROVE FALSE
      OBVIOUS
    <2>1. Missed \in SUBSET Nat
      BY <1>3, Region
    <2>2. PICK B \in Missed : \A C \in Missed : B <= C
      BY <2>1, Smallest
    <2>3. B \in S /\ B # Base /\ \A k \in 0 .. MaxBlocks : f[k] # B
      BY <1>1, <1>4, <2>2
    <2>4. PICK P \in S : P + sz[P] = B
      BY <1>3, <2>3
    <2>5. P \in Int /\ B \in Int /\ P < B /\ P # End
      BY <1>3, <2>3, <2>4
    <2>6. P \notin Missed
      <3> HIDE DEF Missed
      <3> QED
        BY <2>2, <2>5
    <2>7. PICK k \in 0 .. MaxBlocks : f[k] = P
      BY <2>6
    <2>8. k # MaxBlocks
      BY <1>7, <2>5, <2>7
    <2>9. k + 1 \in 1 .. MaxBlocks /\ k + 1 \in 0 .. MaxBlocks /\ k + 1 - 1 = k
      BY <1>4, <2>8
    <2>10. f[k + 1] = Stepped(sz, P)
      BY <1>1, <2>7, <2>9
    <2>11. f[k + 1] = B
      BY <2>4, <2>5, <2>10 DEF Stepped
    <2> QED
      BY <2>3, <2>9, <2>11
  <1>9. End \notin S
    BY <1>3
  <1>10. {Boundaries(h)[k] : k \in 0 .. MaxBlocks} = With(S, End)
    <2>1. ASSUME NEW B \in S PROVE \E k \in 0 .. MaxBlocks : f[k] = B
      BY <1>8
    <2>2. \E k \in 0 .. MaxBlocks : f[k] = End
      BY <1>4, <1>7
    <2>3. \A B \in With(S, End) : \E k \in 0 .. MaxBlocks : f[k] = B
      BY <2>1, <2>2 DEF With
    <2> HIDE DEF Missed, N
    <2> QED
      BY <1>1, <2>3
  <1>11. Blocks(h) = S
    <2>1. Blocks(h) = {Boundaries(h)[k] : k \in 0 .. MaxBlocks} \ {Base + Res}
      BY DEF Blocks
    <2> QED
      BY <1>9, <1>10, <2>1 DEF With, End
  <1>12. Boundaries(h)[MaxBlocks] = Base + Res
    BY <1>1, <1>4, <1>7 DEF End
  <1> QED
    BY <1>11, <1>12 DEF FreeBlocks, AllocatedBlocks, FreeOf, AllocOf

-------------------------------------------------------------------------------
(* The lists of g_bins, followed from their heads. *)
Following(h, B) == IF B = Null THEN Null ELSE FlNext(h, B)

(* Each place of a list is its head or follows the place before it. *)
LEMMA ListFacts ==
    ASSUME NEW h, NEW F, Links(h, F), NEW i \in Bins
    PROVE  /\ BinList(h, i)[1] = h.bins[i]
           /\ \A k \in 1 .. MaxBlocks : BinList(h, i)[k] \in F \cup {Null}
           /\ \A k \in 2 .. MaxBlocks : BinList(h, i)[k] = Following(h, BinList(h, i)[k - 1])
           /\ MaxBlocks \in Nat /\ MaxBlocks >= 1
  <1> DEFINE V == F \cup {Null}
             Body(at, k) == IF k = 1 THEN h.bins[i]
                            ELSE IF at[k - 1] = Null THEN Null ELSE FlNext(h, at[k - 1])
             Walk(at) == at = [k \in 1 .. MaxBlocks |-> Body(at, k)]
             list == CHOOSE at : Walk(at)
             step == [B \in V |-> Following(h, B)]
             n == MaxBlocks - 1
  <1>1. MaxBlocks \in Nat /\ MaxBlocks >= 1 /\ n \in Nat
    BY Region DEF MaxBlocks
  <1>2. h.bins[i] \in V /\ step \in [V -> V]
    <2>1. h.bins[i] \in V
      BY DEF Links
    <2>2. \A B \in V : Following(h, B) \in V
      BY DEF Links, Following
    <2> HIDE DEF V
    <2>3. step \in [V -> V]
      BY <2>2
    <2> QED
      BY <2>1, <2>3
  <1> HIDE DEF step, V
  <1>3. PICK f \in [0 .. n -> V] : Repeats(f, n, h.bins[i], step)
    BY <1>1, <1>2, Repeated
  <1> DEFINE g == [k \in 1 .. MaxBlocks |-> f[k - 1]]
  <1>4. \A k \in 1 .. MaxBlocks : g[k] = f[k - 1] /\ g[k] \in V
    BY <1>1
  <1>5. g[1] = h.bins[i]
    BY <1>1, <1>3 DEF Repeats
  <1>6. \A k \in 2 .. MaxBlocks : g[k] = Following(h, g[k - 1])
    <2> SUFFICES ASSUME NEW k \in 2 .. MaxBlocks PROVE g[k] = Following(h, g[k - 1])
      OBVIOUS
    <2>1. k - 1 \in 1 .. n /\ k - 1 \in 1 .. MaxBlocks /\ k \in 1 .. MaxBlocks
      BY <1>1
    <2>2. g[k] = f[k - 1] /\ g[k - 1] = f[k - 1 - 1] /\ g[k - 1] \in V
      BY <1>4, <2>1
    <2>3. f[k - 1] = step[f[k - 1 - 1]]
      BY <1>3, <2>1 DEF Repeats
    <2> HIDE DEF g
    <2>4. f[k - 1 - 1] \in V
      BY <2>2
    <2>5. step[f[k - 1 - 1]] = Following(h, f[k - 1 - 1])
      BY <2>4 DEF step
    <2> QED
      BY <2>2, <2>3, <2>5
  <1>7. Walk(g)
    <2>1. \A k \in 1 .. MaxBlocks : g[k] = Body(g, k)
      <3> SUFFICES ASSUME NEW k \in 1 .. MaxBlocks PROVE g[k] = Body(g, k)
        OBVIOUS
      <3> HIDE DEF g
      <3>1. CASE k = 1
        BY <1>5, <3>1
      <3>2. CASE k # 1
        <4>1. k \in 2 .. MaxBlocks
          BY <1>1, <3>2
        <4> QED
          BY <1>6, <3>2, <4>1 DEF Following
      <3> QED
        BY <3>1, <3>2
    <2>2. g = [k \in 1 .. MaxBlocks |-> g[k]]
      OBVIOUS
    <2> HIDE DEF Body, g
    <2> QED
      BY <2>1, <2>2
  <1> HIDE DEF Walk, g
  <1>8. Walk(list)
    BY <1>7
  <1> HIDE DEF list
  <1>9. \A k \in 1 .. MaxBlocks : list[k] = Body(list, k)
    <2> HIDE DEF Body
    <2> QED
      BY <1>8 DEF Walk
  <1> DEFINE N == {k \in Nat : k < MaxBlocks => list[k + 1] = g[k + 1]}
  <1>10. 0 \in N
    BY <1>1, <1>5, <1>9
  <1>11. ASSUME NEW k \in Nat, k \in N PROVE k + 1 \in N
    <2> SUFFICES ASSUME k + 1 < MaxBlocks PROVE list[k + 1 + 1] = g[k + 1 + 1]
      OBVIOUS
    <2> DEFINE m == k + 1 + 1
    <2>1. m \in 2 .. MaxBlocks /\ m \in 1 .. MaxBlocks /\ m # 1 /\ m - 1 = k + 1
      BY <1>1
    <2>2. list[k + 1] = g[k + 1]
      BY <1>1, <1>11
    <2> HIDE DEF m
    <2>3. g[m] = Following(h, g[m - 1])
      BY <1>6, <2>1
    <2>4. list[m] = Following(h, list[m - 1])
      BY <1>9, <2>1 DEF Following
    <2>5. list[m] = g[m]
      BY <2>1, <2>2, <2>3, <2>4
    <2> QED
      BY <2>5 DEF m
  <1> HIDE DEF N
  <1>12. Nat \subseteq N
    BY <1>10, <1>11, Induction
  <1>13. \A k \in 1 .. MaxBlocks : list[k] = g[k]
    <2> SUFFICES ASSUME NEW k \in 1 .. MaxBlocks PROVE list[k] = g[k]
      OBVIOUS
    <2>1. k - 1 \in N /\ k - 1 < MaxBlocks /\ k - 1 + 1 = k
      BY <1>1, <1>12
    <2> QED
      BY <2>1 DEF N
  <1>14. BinList(h, i) = list
    BY DEF BinList, list, Walk
  <1>15. \A k \in 2 .. MaxBlocks : list[k] = Following(h, list[k - 1])
    <2> SUFFICES ASSUME NEW k \in 2 .. MaxBlocks PROVE list[k] = Following(h, list[k - 1])
      OBVIOUS
    <2>1. k \in 1 .. MaxBlocks /\ k - 1 \in 1 .. MaxBlocks
      BY <1>1
    <2> QED
      BY <1>6, <1>13, <2>1
  <1> QED
    BY <1>1, <1>4, <1>5, <1>13, <1>14, <1>15 DEF V

(* The lists hold only free blocks of their bin, each once, and the links    *)
(* agree in both directions.                                                 *)
LEMMA ListSound ==
    ASSUME NEW h, NEW F, Links(h, F), NEW i \in Bins
    PROVE  \A k \in 1 .. MaxBlocks : BinList(h, i)[k] # Null =>
               /\ BinList(h, i)[k] \in F /\ Bin(h, BinList(h, i)[k]) = i
               /\ FlPrev(h, BinList(h, i)[k]) = IF k = 1 THEN Null ELSE BinList(h, i)[k - 1]
               /\ \A m \in 1 .. k - 1 : BinList(h, i)[m] # Null
               /\ \A m \in 1 .. MaxBlocks : BinList(h, i)[m] = BinList(h, i)[k] => m = k
  <1>1. PICK L : L = BinList(h, i)
    OBVIOUS
  <1>2. /\ L[1] = h.bins[i]
        /\ \A k \in 1 .. MaxBlocks : L[k] \in F \cup {Null}
        /\ \A k \in 2 .. MaxBlocks : L[k] = Following(h, L[k - 1])
        /\ MaxBlocks \in Nat /\ MaxBlocks >= 1
    BY <1>1, ListFacts
  <1>3. PICK r \in [F -> Nat] : \A B \in F : FlNext(h, B) # Null => r[B] < r[FlNext(h, B)]
    BY DEF Links
  <1> DEFINE Good(k) == L[k] # Null =>
                 /\ Bin(h, L[k]) = i
                 /\ FlPrev(h, L[k]) = IF k = 1 THEN Null ELSE L[k - 1]
                 /\ \A m \in 1 .. k - 1 : L[m] # Null /\ r[L[m]] < r[L[k]]
             N == {k \in Nat : k < MaxBlocks => Good(k + 1)}
  <1>4. 0 \in N
    <2>1. Good(1)
      BY <1>2 DEF Links
    <2> HIDE DEF Good
    <2> QED
      BY <2>1
  <1>5. ASSUME NEW k \in Nat, k \in N PROVE k + 1 \in N
    <2> DEFINE m == k + 1
    <2> SUFFICES ASSUME m < MaxBlocks PROVE Good(m + 1)
      OBVIOUS
    <2>1. Good(m) /\ m \in 1 .. MaxBlocks /\ m + 1 \in 2 .. MaxBlocks /\ m + 1 \in 1 .. MaxBlocks
      <3> HIDE DEF Good
      <3> QED
        BY <1>2, <1>5
    <2>2. L[m + 1] = Following(h, L[m])
      <3>1. m + 1 - 1 = m
        BY <2>1
      <3> QED
        BY <1>2, <2>1, <3>1
    <2> HIDE DEF m
    <2> HIDE DEF Good
    <2> SUFFICES ASSUME L[m + 1] # Null PROVE Good(m + 1)
      BY DEF Good
    <2> USE DEF Good
    <2>3. L[m] # Null /\ L[m + 1] = FlNext(h, L[m])
      BY <2>2 DEF Following
    <2>4. L[m] \in F /\ L[m + 1] \in F
      BY <1>2, <2>1, <2>3
    <2>5. Bin(h, L[m + 1]) = Bin(h, L[m]) /\ FlPrev(h, L[m + 1]) = L[m]
      BY <2>3, <2>4 DEF Links
    <2>6. r[L[m]] < r[L[m + 1]]
      BY <1>3, <2>3, <2>4
    <2>7. m + 1 # 1 /\ m + 1 - 1 = m
      BY <2>1
    <2>8. ASSUME NEW j \in 1 .. m PROVE L[j] # Null /\ r[L[j]] < r[L[m + 1]]
      <3>1. CASE j = m
        BY <2>3, <2>6, <3>1
      <3>2. CASE j # m
        <4>1. j \in 1 .. m - 1 /\ j \in 1 .. MaxBlocks
          <5> HIDE DEF Good
          <5> QED
            BY <1>2, <2>1, <3>2
        <4>2. L[j] # Null /\ r[L[j]] < r[L[m]]
          BY <2>1, <2>3, <4>1
        <4>3. L[j] \in F
          BY <1>2, <4>1, <4>2
        <4>4. r[L[j]] \in Nat /\ r[L[m]] \in Nat /\ r[L[m + 1]] \in Nat
          BY <2>4, <4>3
        <4> QED
          BY <2>6, <4>2, <4>4
      <3> QED
        BY <3>1, <3>2
    <2> QED
      BY <2>1, <2>3, <2>5, <2>7, <2>8
  <1>6. \A k \in 1 .. MaxBlocks : Good(k)
    <2> HIDE DEF Good
    <2>1. Nat \subseteq N
      <3> HIDE DEF N
      <3> QED
        BY <1>4, <1>5, Induction
    <2> SUFFICES ASSUME NEW k \in 1 .. MaxBlocks PROVE Good(k)
      OBVIOUS
    <2>2. k - 1 \in N /\ k - 1 < MaxBlocks /\ k - 1 + 1 = k
      BY <1>2, <2>1
    <2> QED
      BY <2>2
  <1>7. ASSUME NEW k \in 1 .. MaxBlocks, L[k] # Null, NEW m \in 1 .. MaxBlocks, L[m] = L[k], m # k
        PROVE  FALSE
    <2>1. L[k] \in F /\ r[L[k]] \in Nat
      BY <1>2, <1>7
    <2>2. CASE m < k
      <3>1. m \in 1 .. k - 1
        BY <2>2
      <3>2. r[L[m]] < r[L[k]]
        BY <1>6, <1>7, <3>1
      <3> QED
        BY <1>7, <2>1, <3>2
    <2>3. CASE k < m
      <3>1. k \in 1 .. m - 1
        BY <2>3
      <3>2. r[L[k]] < r[L[m]]
        BY <1>6, <1>7, <3>1
      <3> QED
        BY <1>7, <2>1, <3>2
    <2> QED
      BY <1>7, <2>2, <2>3
  <1>8. \A k \in 1 .. MaxBlocks : L[k] # Null =>
               /\ L[k] \in F /\ Bin(h, L[k]) = i
               /\ FlPrev(h, L[k]) = IF k = 1 THEN Null ELSE L[k - 1]
               /\ \A m \in 1 .. k - 1 : L[m] # Null
               /\ \A m \in 1 .. MaxBlocks : L[m] = L[k] => m = k
    BY <1>2, <1>6, <1>7
  <1> QED
    BY <1>1, <1>8

(* There is no room for a list longer than MaxBlocks. *)
LEMMA NoRoom ==
    ASSUME NEW F, Starts(F), NEW f \in [0 .. MaxBlocks -> F]
    PROVE  \E k, m \in 0 .. MaxBlocks : k # m /\ f[k] = f[m]
  <1>1. MaxBlocks \in Nat /\ MaxBlocks >= 1 /\ End - Base < 32 * (MaxBlocks + 1)
    BY Region DEF MaxBlocks, End
  <1> DEFINE g == [k \in 0 .. MaxBlocks |-> (f[k] - Base) \div 32]
  <1>2. \A B \in F : B \in Int /\ Base <= B /\ B + 32 <= End
    BY DEF Starts
  <1>3. \A B \in F : (B - Base) \div 32 \in 0 .. MaxBlocks - 1
    <2> SUFFICES ASSUME NEW B \in F PROVE (B - Base) \div 32 \in 0 .. MaxBlocks - 1
      OBVIOUS
    <2>1. PICK d \in Int : d = B - Base
      BY <1>2, Region
    <2>2. 0 <= d /\ d < 32 * MaxBlocks
      BY <1>1, <1>2, <2>1, Region
    <2>3. d \div 32 \in 0 .. MaxBlocks - 1
      BY <1>1, <2>2
    <2> QED
      BY <2>1, <2>3
  <1>4. g \in [0 .. MaxBlocks -> 0 .. MaxBlocks - 1]
    BY <1>3
  <1>5. /\ IsFiniteSet(0 .. MaxBlocks) /\ Cardinality(0 .. MaxBlocks) = MaxBlocks + 1
        /\ IsFiniteSet(0 .. MaxBlocks - 1) /\ Cardinality(0 .. MaxBlocks - 1) = MaxBlocks
    <2>1. MaxBlocks \in Int /\ MaxBlocks - 1 \in Int /\ 0 \in Int
      BY <1>1
    <2>2. /\ IsFiniteSet(0 .. MaxBlocks)
          /\ Cardinality(0 .. MaxBlocks) = IF 0 > MaxBlocks THEN 0 ELSE MaxBlocks - 0 + 1
      BY <2>1, FS_Interval
    <2>3. /\ IsFiniteSet(0 .. MaxBlocks - 1)
          /\ Cardinality(0 .. MaxBlocks - 1) = IF 0 > MaxBlocks - 1 THEN 0 ELSE MaxBlocks - 1 - 0 + 1
      BY <2>1, FS_Interval
    <2> QED
      BY <1>1, <2>2, <2>3
  <1>6. PICK k, m \in 0 .. MaxBlocks : k # m /\ g[k] = g[m]
    <2> HIDE DEF g
    <2>1. MaxBlocks < MaxBlocks + 1
      BY <1>1
    <2>2. Cardinality(0 .. MaxBlocks - 1) < Cardinality(0 .. MaxBlocks)
      BY <1>5, <2>1
    <2> QED
      BY <1>4, <1>5, <2>2, FS_PigeonHole
  <1>7. \A B, C \in F : B < C => (B - Base) \div 32 # (C - Base) \div 32
    <2> SUFFICES ASSUME NEW B \in F, NEW C \in F, B < C
                 PROVE  (B - Base) \div 32 # (C - Base) \div 32
      OBVIOUS
    <2>1. B + 32 <= C
      BY DEF Starts
    <2> QED
      BY <1>2, <2>1, Region
  <1>8. f[k] = f[m]
    <2>1. (f[k] - Base) \div 32 = (f[m] - Base) \div 32 /\ f[k] \in F /\ f[m] \in F
      BY <1>6
    <2>2. f[k] \in Int /\ f[m] \in Int
      BY <1>2, <2>1
    <2> QED
      BY <1>7, <2>1, <2>2
  <1> QED
    BY <1>6, <1>8

(* Every free block is met in the list of its bin. *)
LEMMA ListComplete ==
    ASSUME NEW h, NEW F, Starts(F), Links(h, F), NEW B \in F, NEW i, i = Bin(h, B), i \in Bins
    PROVE  \E k \in 1 .. MaxBlocks : BinList(h, i)[k] = B
  <1>1. PICK L : L = BinList(h, i)
    OBVIOUS
  <1>2. /\ L[1] = h.bins[i]
        /\ \A k \in 1 .. MaxBlocks : L[k] \in F \cup {Null}
        /\ \A k \in 2 .. MaxBlocks : L[k] = Following(h, L[k - 1])
        /\ MaxBlocks \in Nat /\ MaxBlocks >= 1
    BY <1>1, ListFacts
  <1>3. \A k \in 1 .. MaxBlocks : L[k] # Null =>
               /\ \A m \in 1 .. k - 1 : L[m] # Null
               /\ \A m \in 1 .. MaxBlocks : L[m] = L[k] => m = k
    BY <1>1, ListSound
  <1>4. PICK r \in [F -> Nat] : \A C \in F : FlNext(h, C) # Null => r[C] < r[FlNext(h, C)]
    BY DEF Links
  <1> DEFINE Missed == {C \in F : Bin(h, C) = i /\ \A k \in 1 .. MaxBlocks : L[k] # C}
             Ranks == {r[C] : C \in Missed}
  <1>5. Missed = {}
    <2> SUFFICES ASSUME Missed # {} PROVE FALSE
      OBVIOUS
    <2>1. PICK m \in Ranks : \A k \in Ranks : m <= k
      <3>1. Ranks \in SUBSET Nat /\ Ranks # {}
        OBVIOUS
      <3> HIDE DEF Ranks
      <3> QED
        BY <3>1, Smallest
    <2>2. PICK C \in Missed : m = r[C]
      OBVIOUS
    <2>3. C \in F /\ Bin(h, C) = i /\ \A k \in 1 .. MaxBlocks : L[k] # C
      OBVIOUS
    <2>4. FlPrev(h, C) # Null
      <3> SUFFICES ASSUME FlPrev(h, C) = Null PROVE FALSE
        OBVIOUS
      <3>1. h.bins[i] = C
        BY <2>3 DEF Links
      <3> QED
        BY <1>2, <2>3, <3>1
    <2>5. PICK P \in F : P = FlPrev(h, C)
      BY <2>3, <2>4 DEF Links
    <2>6. FlNext(h, P) = C /\ C # Null /\ P # Null
      <3>1. C # Null
        BY <2>3, StartWords
      <3> QED
        BY <2>3, <2>4, <2>5, <3>1 DEF Links
    <2>7. Bin(h, P) = i /\ r[P] < r[C]
      BY <1>4, <2>3, <2>5, <2>6 DEF Links
    <2>8. PICK k \in 1 .. MaxBlocks : L[k] = P
      <3>1. P \notin Missed
        <4> SUFFICES ASSUME P \in Missed PROVE FALSE
          OBVIOUS
        <4>1. r[P] \in Ranks
          OBVIOUS
        <4>2. m <= r[P] /\ r[P] \in Nat /\ m = r[C] /\ r[C] \in Nat
          BY <2>1, <2>2, <2>3, <2>5, <4>1
        <4> QED
          BY <2>7, <4>2
      <3> QED
        BY <2>5, <2>7, <3>1
    <2>9. k = MaxBlocks
      <3> SUFFICES ASSUME k # MaxBlocks PROVE FALSE
        OBVIOUS
      <3>1. k + 1 \in 2 .. MaxBlocks /\ k + 1 \in 1 .. MaxBlocks /\ k + 1 - 1 = k
        BY <1>2
      <3>2. L[k + 1] = Following(h, P)
        BY <1>2, <2>8, <3>1
      <3>3. L[k + 1] = C
        BY <2>6, <3>2 DEF Following
      <3> QED
        BY <2>3, <3>1, <3>3
    <2> DEFINE f == [j \in 0 .. MaxBlocks |-> IF j = 0 THEN C ELSE L[j]]
    <2>10. \A j \in 1 .. MaxBlocks : L[j] # Null
      <3> SUFFICES ASSUME NEW j \in 1 .. MaxBlocks PROVE L[j] # Null
        OBVIOUS
      <3>1. CASE j = MaxBlocks
        BY <2>6, <2>8, <2>9, <3>1
      <3>2. CASE j # MaxBlocks
        <4>1. j \in 1 .. k - 1
          BY <1>2, <2>9, <3>2
        <4> QED
          BY <1>3, <2>6, <2>8, <4>1
      <3> QED
        BY <3>1, <3>2
    <2>11. f \in [0 .. MaxBlocks -> F]
      <3>1. \A j \in 0 .. MaxBlocks : f[j] \in F
        <4> SUFFICES ASSUME NEW j \in 0 .. MaxBlocks PROVE f[j] \in F
          OBVIOUS
        <4>1. CASE j = 0
          BY <2>3, <4>1
        <4>2. CASE j # 0
          <5>1. j \in 1 .. MaxBlocks
            BY <1>2, <4>2
          <5> QED
            BY <1>2, <2>10, <4>2, <5>1
        <4> QED
          BY <4>1, <4>2
      <3> QED
        BY <3>1
    <2> HIDE DEF Missed, Ranks
    <2>12. \A j \in 1 .. MaxBlocks : f[j] = L[j] /\ j \in 0 .. MaxBlocks
      BY <1>2
    <2>13. f[0] = C
      BY <1>2
    <2> HIDE DEF f
    <2>14. PICK a, b \in 0 .. MaxBlocks : a # b /\ f[a] = f[b]
      BY <2>11, NoRoom
    <2>15. ASSUME NEW x \in 0 .. MaxBlocks, NEW y \in 1 .. MaxBlocks, x # y, f[x] = f[y] PROVE FALSE
      <3>1. CASE x = 0
        BY <2>3, <2>12, <2>13, <2>15, <3>1
      <3>2. CASE x # 0
        <4>1. x \in 1 .. MaxBlocks
          BY <1>2, <3>2
        <4> QED
          BY <1>3, <2>10, <2>12, <2>15, <4>1
      <3> QED
        BY <3>1, <3>2
    <2>16. a \in 1 .. MaxBlocks \/ b \in 1 .. MaxBlocks
      BY <1>2, <2>14
    <2> QED
      BY <2>14, <2>15, <2>16
  <1>6. \E k \in 1 .. MaxBlocks : L[k] = B
    BY <1>5
  <1> QED
    BY <1>1, <1>6

(* A sound heap is what check_locked and the free lists are checked for. *)
LEMMA FreeStarts ==
    ASSUME NEW h, NEW S, NEW sz, Sound(h, S, sz)
    PROVE  /\ Starts(FreeOf(h, S)) /\ Links(h, FreeOf(h, S))
           /\ \A B \in FreeOf(h, S) : BSize(h, B) = sz[B] /\ B \in Int /\ sz[B] \in Int /\ Bin(h, B) \in Bins
  <1>1. Starts(FreeOf(h, S)) /\ Links(h, FreeOf(h, S))
    BY DEF Sound, Tile, Starts, FreeOf
  <1>2. \A B \in FreeOf(h, S) : BSize(h, B) = sz[B] /\ B \in Int /\ sz[B] \in Int
    BY TileParts DEF Sound, Tagged, FreeOf
  <1> QED
    BY <1>1, <1>2, BinIndexFacts DEF Bin

(* The lists of a sound heap hold exactly its free blocks. *)
LEMMA ListsFree ==
    ASSUME NEW h, NEW S, NEW sz, Sound(h, S, sz)
    PROVE  {BinList(h, i)[k] : i \in Bins, k \in 1 .. MaxBlocks} \ {Null} = FreeOf(h, S)
  <1>1. Starts(FreeOf(h, S)) /\ Links(h, FreeOf(h, S))
    BY FreeStarts
  <1>2. ASSUME NEW i \in Bins, NEW k \in 1 .. MaxBlocks, BinList(h, i)[k] # Null
        PROVE  BinList(h, i)[k] \in FreeOf(h, S)
    BY <1>1, <1>2, ListSound
  <1>3. ASSUME NEW B \in FreeOf(h, S)
        PROVE  B # Null /\ \E i \in Bins, k \in 1 .. MaxBlocks : BinList(h, i)[k] = B
    <2>1. PICK i \in Bins : i = Bin(h, B)
      BY FreeStarts
    <2>2. \E k \in 1 .. MaxBlocks : BinList(h, i)[k] = B
      BY <1>1, <2>1, ListComplete
    <2>3. B # Null
      BY <1>1, StartWords
    <2> QED
      BY <2>2, <2>3
  <1> QED
    BY <1>2, <1>3

(* A sound heap passes every test of the pool's consistency. *)
LEMMA SoundChecks ==
    ASSUME NEW h, h = Heap, NEW S, NEW sz, Sound(h, S, sz)
    PROVE  Tiled /\ Coalesced /\ BinsExact
  <1>1. /\ Boundaries(h)[MaxBlocks] = Base + Res
        /\ FreeBlocks(h) = FreeOf(h, S)
    BY BlocksFacts
  <1>2. Tiled
    BY <1>1 DEF Tiled
  <1>3. \A B \in FreeOf(h, S) : B + BSize(h, B) \notin FreeOf(h, S)
    BY FreeStarts DEF Sound, Spaced
  <1>4. Coalesced
    BY <1>1, <1>3 DEF Coalesced
  <1>5. {BinList(h, i)[k] : i \in Bins, k \in 1 .. MaxBlocks} \ {Null} = FreeBlocks(h)
    BY <1>1, ListsFree
  <1>6. ASSUME NEW i \in Bins, NEW k \in 1 .. MaxBlocks, BinList(h, i)[k] # Null
        PROVE  /\ BinIndex(BSize(h, BinList(h, i)[k])) = i
               /\ FlPrev(h, BinList(h, i)[k]) = IF k = 1 THEN Null ELSE BinList(h, i)[k - 1]
               /\ \A m \in 1 .. MaxBlocks : BinList(h, i)[m] = BinList(h, i)[k] => m = k
    BY <1>6, FreeStarts, ListSound DEF Bin
  <1>7. BinsExact
    <2> SUFFICES /\ {BinList(h, i)[k] : i \in Bins, k \in 1 .. MaxBlocks} \ {Null} = FreeBlocks(h)
                 /\ \A i \in Bins : \A k \in {k \in 1 .. MaxBlocks : BinList(h, i)[k] # Null} :
                      /\ BinIndex(BSize(h, BinList(h, i)[k])) = i
                      /\ FlPrev(h, BinList(h, i)[k]) = IF k = 1 THEN Null ELSE BinList(h, i)[k - 1]
                      /\ \A m \in 1 .. MaxBlocks : BinList(h, i)[m] = BinList(h, i)[k] => m = k
      BY DEF BinsExact
    <2> QED
      BY <1>5, <1>6
  <1> QED
    BY <1>2, <1>4, <1>7

-------------------------------------------------------------------------------
(* The scan of block_alloc over a sound heap: it skips only bins whose       *)
(* blocks are too small.                                                     *)
LEMMA NothingFits ==
    ASSUME NEW h, NEW S, NEW sz, Sound(h, S, sz), NEW need \in Int, Fits(h, need) = {}
    PROVE  \A B \in FreeOf(h, S) : BSize(h, B) < need
  <1> SUFFICES ASSUME NEW B \in FreeOf(h, S), BSize(h, B) >= need
               PROVE  FALSE
    BY FreeStarts
  <1>1. Starts(FreeOf(h, S)) /\ Links(h, FreeOf(h, S)) /\ BSize(h, B) \in Int
    BY FreeStarts
  <1>2. PICK i \in Bins : i = Bin(h, B)
    BY FreeStarts
  <1>3. PICK k \in 1 .. MaxBlocks : BinList(h, i)[k] = B
    BY <1>1, <1>2, ListComplete
  <1>4. BinIndex(need) <= i /\ BinIndex(need) \in Bins
    BY <1>1, <1>2, BinIndexFacts DEF Bin
  <1>5. i \in BinIndex(need) .. NBins - 1
    BY <1>4, Region DEF Bins
  <1>6. B # Null
    BY <1>1, StartWords
  <1>7. <<i, k>> \in Fits(h, need)
    BY <1>3, <1>5, <1>6 DEF Fits, FitsIn
  <1> QED
    BY <1>7

(* The block the scan stops at is free and large enough. *)
LEMMA FirstFitFacts ==
    ASSUME NEW h, NEW S, NEW sz, Sound(h, S, sz), NEW need \in Int, Fits(h, need) # {}
    PROVE  FirstFit(h, need) \in FreeOf(h, S) /\ BSize(h, FirstFit(h, need)) >= need
  <1>1. Starts(FreeOf(h, S)) /\ Links(h, FreeOf(h, S))
    BY FreeStarts
  <1>2. BinIndex(need) \in Bins /\ NBins \in Nat
    BY BinIndexFacts, Region
  <1>3. \A x \in Fits(h, need) : /\ x[1] \in Bins /\ x[2] \in 1 .. MaxBlocks /\ x = <<x[1], x[2]>>
                                 /\ x[1] \in Nat /\ x[2] \in Nat
                                 /\ BinList(h, x[1])[x[2]] # Null
                                 /\ BSize(h, BinList(h, x[1])[x[2]]) >= need
    BY <1>2 DEF Fits, FitsIn, Bins
  <1> DEFINE First(x) == \A y \in Fits(h, need) : x[1] < y[1] \/ (x[1] = y[1] /\ x[2] <= y[2])
             Rows    == {x[1] : x \in Fits(h, need)}
  <1>4. PICK i \in Rows : \A j \in Rows : i <= j
    <2>1. Rows \in SUBSET Nat /\ Rows # {}
      BY <1>3
    <2> HIDE DEF Rows
    <2> QED
      BY <2>1, Smallest
  <1> DEFINE Columns == {x[2] : x \in {y \in Fits(h, need) : y[1] = i}}
  <1>5. PICK k \in Columns : \A m \in Columns : k <= m
    <2>1. Columns \in SUBSET Nat /\ Columns # {}
      BY <1>3, <1>4
    <2> HIDE DEF Columns
    <2> QED
      BY <2>1, Smallest
  <1>6. PICK x \in Fits(h, need) : x[1] = i /\ x[2] = k
    OBVIOUS
  <1>7. First(x)
    <2> SUFFICES ASSUME NEW y \in Fits(h, need)
                 PROVE  x[1] < y[1] \/ (x[1] = y[1] /\ x[2] <= y[2])
      OBVIOUS
    <2>1. x[1] \in Nat /\ y[1] \in Nat /\ x[2] \in Nat /\ y[2] \in Nat
      BY <1>3
    <2>2. x[1] <= y[1]
      BY <1>4, <1>6
    <2>3. x[1] = y[1] => x[2] <= y[2]
      BY <1>5, <1>6
    <2> QED
      BY <2>1, <2>2, <2>3
  <1>8. PICK first : first = CHOOSE z \in Fits(h, need) : First(z)
    OBVIOUS
  <1>9. first \in Fits(h, need)
    <2> HIDE DEF First
    <2> QED
      BY <1>7, <1>8
  <1>10. FirstFit(h, need) = BinList(h, first[1])[first[2]]
    BY <1>8 DEF FirstFit
  <1>11. BinList(h, first[1])[first[2]] \in FreeOf(h, S)
    BY <1>1, <1>3, <1>9, ListSound
  <1>12. BSize(h, BinList(h, first[1])[first[2]]) >= need
    BY <1>3, <1>9
  <1> QED
    BY <1>10, <1>11, <1>12

-------------------------------------------------------------------------------
(* Alignments and sizes. *)
LEMMA PowersOfTwo ==
    \A k \in 4 .. 30 : 2^k \in Nat /\ 2^k >= 16 /\ 2^k % 16 = 0
  <1> DEFINE P(x) == x \in Nat /\ x >= 16 /\ x % 16 = 0
  <1>1. 4 .. 30 = {4, 5, 6, 7, 8, 9, 10, 11, 12, 13, 14, 15, 16, 17, 18, 19, 20, 21, 22, 23,
                   24, 25, 26, 27, 28, 29, 30}
    OBVIOUS
  <1>2. /\ 2^4 = 16 /\ 2^5 = 32 /\ 2^6 = 64 /\ 2^7 = 128 /\ 2^8 = 256 /\ 2^9 = 512
        /\ 2^10 = 1024 /\ 2^11 = 2048 /\ 2^12 = 4096 /\ 2^13 = 8192 /\ 2^14 = 16384
        /\ 2^15 = 32768 /\ 2^16 = 65536 /\ 2^17 = 131072 /\ 2^18 = 262144 /\ 2^19 = 524288
        /\ 2^20 = 1048576 /\ 2^21 = 2097152 /\ 2^22 = 4194304 /\ 2^23 = 8388608
        /\ 2^24 = 16777216 /\ 2^25 = 33554432 /\ 2^26 = 67108864 /\ 2^27 = 134217728
        /\ 2^28 = 268435456 /\ 2^29 = 536870912 /\ 2^30 = 1073741824
    OBVIOUS
  <1>3. /\ P(16) /\ P(32) /\ P(64) /\ P(128) /\ P(256) /\ P(512) /\ P(1024) /\ P(2048) /\ P(4096)
        /\ P(8192) /\ P(16384) /\ P(32768) /\ P(65536) /\ P(131072) /\ P(262144) /\ P(524288)
        /\ P(1048576) /\ P(2097152) /\ P(4194304) /\ P(8388608) /\ P(16777216) /\ P(33554432)
        /\ P(67108864) /\ P(134217728) /\ P(268435456) /\ P(536870912) /\ P(1073741824)
    OBVIOUS
  <1> HIDE DEF P
  <1>4. /\ P(2^4) /\ P(2^5) /\ P(2^6) /\ P(2^7) /\ P(2^8) /\ P(2^9) /\ P(2^10) /\ P(2^11) /\ P(2^12)
        /\ P(2^13) /\ P(2^14) /\ P(2^15) /\ P(2^16) /\ P(2^17) /\ P(2^18) /\ P(2^19) /\ P(2^20)
        /\ P(2^21) /\ P(2^22) /\ P(2^23) /\ P(2^24) /\ P(2^25) /\ P(2^26) /\ P(2^27) /\ P(2^28)
        /\ P(2^29) /\ P(2^30)
    BY <1>2, <1>3
  <1>5. \A k \in 4 .. 30 : P(2^k)
    BY <1>1, <1>4, Zenon
  <1> QED
    BY <1>5 DEF P

(* A multiple leaves no remainder. *)
LEMMA Multiple ==
    ASSUME NEW q \in Nat, NEW a \in Nat \ {0}
    PROVE  (q * a) % a = 0
  OBVIOUS

(* Rounding up reaches a multiple, by less than one multiple. *)
LEMMA RoundUpFacts ==
    ASSUME NEW x \in Nat, NEW a \in Nat, a >= 16, a % 16 = 0
    PROVE  /\ RoundUp(x, a) \in Nat /\ x <= RoundUp(x, a) /\ RoundUp(x, a) < x + a
           /\ RoundUp(x, a) % a = 0 /\ RoundUp(x, a) % 16 = 0
  <1>1. PICK y \in Nat : y = x + a - 1
    OBVIOUS
  <1>2. PICK q \in Nat : q = y \div a
    BY SMT
  <1>3. q * a \in Nat /\ q * a <= y /\ y < q * a + a
    BY <1>2, SMT
  <1>4. (q * a) % a = 0
    BY Multiple
  <1>5. (q * a) % 16 = 0
    <2>1. PICK k \in Nat : a = k * 16
      BY SMT
    <2>2. q * a = (q * k) * 16
      BY <2>1, SMT
    <2>3. \A m \in Nat : (m * 16) % 16 = 0
      BY SMT
    <2>4. q * k \in Nat
      BY SMT
    <2> QED
      BY <2>2, <2>3, <2>4
  <1>6. RoundUp(x, a) = q * a
    BY <1>1, <1>2 DEF RoundUp
  <1> QED
    BY <1>1, <1>3, <1>4, <1>5, <1>6

(* The effective alignment is a power of two, at least 16 and at least what  *)
(* was asked for.                                                            *)
LEMMA EffectiveAlignFacts ==
    ASSUME NEW align \in Nat, align <= 2^30
    PROVE  \E k \in 4 .. 30 : /\ EffectiveAlign(align) = 2^k /\ 2^k >= align
                              /\ 2^k \in Nat /\ 2^k >= 16 /\ 2^k % 16 = 0
  <1> DEFINE T    == {k \in 4 .. 30 : 2^k >= align}
             P(k) == 2^k >= align /\ (k = 4 \/ 2^(k - 1) < align)
  <1>1. 30 \in T
    BY PowersOfTwo
  <1>2. PICK k \in T : \A m \in T : k <= m
    <2>1. T \in SUBSET (4 .. 30) /\ T # {}
      BY <1>1, Zenon
    <2>2. T \in SUBSET Nat
      <3> HIDE DEF T
      <3> QED
        BY <2>1
    <2> HIDE DEF T
    <2> QED
      BY <2>1, <2>2, Smallest
  <1>3. P(k)
    <2>1. CASE k = 4
      BY <2>1
    <2>2. CASE k # 4
      <3>1. k - 1 \in 4 .. 30 /\ k - 1 \notin T
        BY <1>2, <2>2
      <3>2. 2^(k - 1) \in Nat
        BY <3>1, PowersOfTwo
      <3>3. ~(2^(k - 1) >= align)
        BY <3>1
      <3>4. 2^(k - 1) < align
        BY <3>2, <3>3
      <3> QED
        BY <3>4
    <2> QED
      BY <2>1, <2>2
  <1>4. PICK m : m = CHOOSE j \in 4 .. 30 : P(j)
    OBVIOUS
  <1>5. k \in 4 .. 30
    OBVIOUS
  <1>6. m \in 4 .. 30 /\ P(m)
    <2> HIDE DEF P, T
    <2> QED
      BY <1>3, <1>4, <1>5
  <1>7. EffectiveAlign(align) = 2^m
    BY <1>4 DEF EffectiveAlign
  <1> QED
    BY <1>6, <1>7, PowersOfTwo

(* The block size asked for leaves room for header, footer, back-pointer     *)
(* and padding: for requests in range nothing wraps around.                  *)
LEMMA NeedFacts ==
    ASSUME NEW size \in Nat, NEW align \in Nat, InRange(size, align)
    PROVE  /\ NeedBSize(size, align) \in Int /\ NeedBSize(size, align) % 16 = 0
           /\ NeedBSize(size, align) >= 32
           /\ NeedBSize(size, align) >= size + EffectiveAlign(align) + 24
           /\ NeedBSize(size, align) >= EffectiveAlign(align) + 25
  <1>1. PICK A \in Nat : A = EffectiveAlign(align) /\ A >= 16
    BY EffectiveAlignFacts DEF InRange
  <1> DEFINE s == IF size = 0 THEN 1 ELSE size
  <1>2. s \in Nat /\ s >= 1 /\ s >= size /\ s <= size + 1
    OBVIOUS
  <1>3. size + A + 64 <= SizeMod /\ SizeMod \in Nat
    BY <1>1, ConstantsOK DEF InRange
  <1> HIDE DEF s
  <1>4. \A x \in Nat : x < SizeMod => x % SizeMod = x
    BY <1>3
  <1>5. PICK payload \in Nat : payload = s + A + 8
    BY <1>1, <1>2
  <1>6. payload % SizeMod = payload
    BY <1>1, <1>2, <1>3, <1>4, <1>5
  <1>7. PICK r \in Nat : r = RoundUp(8 + payload + 8, 16)
    BY RoundUpFacts
  <1>8. 8 + payload + 8 <= r /\ r < 8 + payload + 8 + 16 /\ r % 16 = 0
    BY <1>7, RoundUpFacts
  <1>9. r % SizeMod = r
    BY <1>1, <1>2, <1>3, <1>4, <1>5, <1>8
  <1>10. NeedBSize(size, align) = IF r < 32 THEN 32 ELSE r
    <2>1. NeedBSize(size, align)
            = LET p    == (s + EffectiveAlign(align) + 8) % SizeMod
                  need == RoundUp(8 + p + 8, 16) % SizeMod
              IN  IF need < 32 THEN 32 ELSE need
      BY DEF NeedBSize, s
    <2> QED
      BY <1>1, <1>5, <1>6, <1>7, <1>9, <2>1
  <1>11. r >= size + A + 24 /\ r >= A + 25
    BY <1>1, <1>2, <1>5, <1>8
  <1> QED
    BY <1>1, <1>8, <1>10, <1>11

(* The payload address is aligned, and after the back-pointer. *)
LEMMA PayloadFacts ==
    ASSUME NEW B \in Addr, B % 16 = 0, NEW align \in Nat, align <= 2^30,
           NEW A, A = EffectiveAlign(align), NEW p, p = Payload(B, align)
    PROVE  /\ p \in Int /\ p % 16 = 0 /\ B + 16 <= p /\ p < B + 16 + A
           /\ \E k \in 4 .. 30 : 2^k >= align /\ p % 2^k = 0
  <1>1. PICK k \in 4 .. 30 : A = 2^k /\ 2^k >= align /\ A \in Nat /\ A >= 16 /\ A % 16 = 0
    BY EffectiveAlignFacts
  <1>2. B + 16 \in Nat /\ p = RoundUp(B + 16, A)
    BY Region DEF Payload, Addr
  <1>3. A \in Nat /\ A >= 16 /\ A % 16 = 0
    BY <1>1
  <1>4. PICK x \in Nat : x = B + 16
    BY <1>2
  <1>5. p = RoundUp(x, A)
    BY <1>2, <1>4
  <1>6. /\ RoundUp(x, A) \in Nat /\ x <= RoundUp(x, A) /\ RoundUp(x, A) < x + A
        /\ RoundUp(x, A) % A = 0 /\ RoundUp(x, A) % 16 = 0
    BY <1>3, RoundUpFacts
  <1>7. p \in Nat /\ x <= p /\ p < x + A /\ p % A = 0 /\ p % 16 = 0
    BY <1>5, <1>6, Zenon
  <1>8. p % 2^k = 0
    BY <1>1, <1>7, Zenon
  <1>9. p \in Int /\ p % 16 = 0 /\ B + 16 <= p /\ p < B + 16 + A
    BY <1>4, <1>7
  <1> QED
    BY <1>1, <1>8, <1>9, Zenon

-------------------------------------------------------------------------------
(* Writing between the header and the footer of an allocated block. *)
LEMMA WriteInside ==
    ASSUME NEW h, NEW S, NEW sz, Sound(h, S, sz), NEW B \in AllocOf(h, S), NEW g, IsHeap(g),
           g.bins = h.bins,
           \A a \in Addr : ~(B + 8 <= a /\ a < Foot(B, sz[B])) => Word(g, a) = Word(h, a)
    PROVE  /\ Sound(g, S, sz) /\ FreeOf(g, S) = FreeOf(h, S) /\ AllocOf(g, S) = AllocOf(h, S)
           /\ Undisturbed(h, sz, g, sz, Without(S, B))
  <1>1. Tile(S, sz) /\ Tagged(h, S, sz) /\ Links(h, FreeOf(h, S)) /\ Spaced(FreeOf(h, S), sz)
    BY DEF Sound
  <1>2. B \in S /\ Allocated(h, B)
    BY DEF AllocOf
  <1>3. /\ B \in Addr /\ B \in Int /\ Foot(B, sz[B]) \in Addr
    BY <1>1, <1>2, TileFacts
  <1>4. ASSUME NEW C \in Without(S, B) PROVE Kept(h, g, C, sz)
    <2>1. C \in S /\ C # B
      BY <1>4 DEF Without
    <2>2. ASSUME NEW a \in Addr, In(a, C, sz) PROVE Word(g, a) = Word(h, a)
      <3>1. a \in Int
        BY DEF Addr
      <3>2. ~In(a, B, sz)
        BY <1>1, <1>2, <2>1, <2>2, <3>1, TileFacts
      <3>3. sz[B] \in Int
        BY <1>1, <1>2, TileParts
      <3>4. ~(B + 8 <= a /\ a < Foot(B, sz[B]))
        BY <1>3, <3>1, <3>2, <3>3 DEF In, Foot
      <3> QED
        BY <3>4
    <2> QED
      BY <2>2 DEF Kept
  <1>5. Word(g, B) = Word(h, B)
    <2>1. ~(B + 8 <= B)
      BY <1>3
    <2> QED
      BY <1>3, <2>1
  <1>6. Word(g, Foot(B, sz[B])) = Word(h, Foot(B, sz[B]))
    <2>1. Foot(B, sz[B]) \in Int
      BY <1>3 DEF Addr
    <2>2. ~(Foot(B, sz[B]) < Foot(B, sz[B]))
      BY <2>1
    <2> QED
      BY <1>3, <2>2
  <1>7. BSize(g, B) = BSize(h, B) /\ (Allocated(g, B) <=> Allocated(h, B))
    BY <1>5, SameHeader
  <1>8. \A C \in S : /\ BSize(g, C) = BSize(h, C) /\ (Allocated(g, C) <=> Allocated(h, C))
                     /\ Word(g, Foot(C, sz[C])) = Word(h, Foot(C, sz[C]))
    <2> SUFFICES ASSUME NEW C \in S
                 PROVE  /\ BSize(g, C) = BSize(h, C) /\ (Allocated(g, C) <=> Allocated(h, C))
                        /\ Word(g, Foot(C, sz[C])) = Word(h, Foot(C, sz[C]))
      OBVIOUS
    <2>1. CASE C = B
      BY <1>6, <1>7, <2>1
    <2>2. CASE C # B
      <3>1. Kept(h, g, C, sz)
        BY <1>4, <2>2 DEF Without
      <3> QED
        BY <1>1, <3>1, KeptFacts
    <2> QED
      BY <2>1, <2>2
  <1>9. FreeOf(g, S) = FreeOf(h, S)
    BY <1>8 DEF FreeOf
  <1>10. AllocOf(g, S) = AllocOf(h, S)
    BY <1>8 DEF AllocOf
  <1>11. Tagged(g, S, sz)
    BY <1>1, <1>8 DEF Tagged
  <1>12. Links(g, FreeOf(h, S))
    <2>1. ASSUME NEW C \in FreeOf(h, S)
          PROVE  BSize(g, C) = BSize(h, C) /\ FlNext(g, C) = FlNext(h, C) /\ FlPrev(g, C) = FlPrev(h, C)
      <3>1. C \in Without(S, B) /\ C \in S
        BY <1>2 DEF FreeOf, Without
      <3>2. Kept(h, g, C, sz)
        BY <1>4, <3>1
      <3> QED
        BY <1>1, <3>1, <3>2, KeptFacts
    <2> QED
      BY <1>1, <2>1, LinksKept
  <1>13. Sound(g, S, sz)
    BY <1>1, <1>9, <1>11, <1>12 DEF Sound
  <1>14. Undisturbed(h, sz, g, sz, Without(S, B))
    BY <1>4 DEF Undisturbed
  <1> QED
    BY <1>9, <1>10, <1>13, <1>14

-------------------------------------------------------------------------------
(* The heap that a successful mmap leaves: one free block. *)
LEMMA MappedFacts ==
    ASSUME NEW m \in Words, NEW h, h = [mem |-> m, bins |-> [i \in Bins |-> Null]],
           NEW g, g = BinInsert(SetBlock(h, Base, Res, 0), Base)
    PROVE  \E S, sz : Sound(g, S, sz) /\ AllocOf(g, S) = {}
  <1>1. PICK S : S = {Base}
    OBVIOUS
  <1>2. PICK sz : sz = [B \in S |-> Res]
    OBVIOUS
  <1>3. sz[Base] = Res /\ Base \in S /\ sz \in [S -> Int]
    BY <1>1, <1>2, Region
  <1>4. Tile(S, sz)
    <2>1. Starts(S)
      BY <1>1, Region DEF Starts, End
    <2>2. \A B \in S : sz[B] % 16 = 0 /\ sz[B] >= 32 /\ B + sz[B] \in S \cup {End}
      BY <1>1, <1>3, Region DEF End
    <2>3. \A B, C \in S : B = C
      BY <1>1
    <2>4. \A B, C \in S : B < C => B + sz[B] <= C
      BY <1>1, Region
    <2>5. \A B \in S : B = Base
      BY <1>1
    <2> QED
      BY <1>3, <2>1, <2>2, <2>4, <2>5 DEF Tile
  <1>5. IsHeap(h)
    BY DEF IsHeap
  <1>6. Without(S, Base) = {}
    BY <1>1 DEF Without
  <1>7. FreeOf(h, Without(S, Base)) = {} /\ AllocOf(h, Without(S, Base)) = {}
    BY <1>6 DEF FreeOf, AllocOf
  <1>8. Links(h, {})
    <2>1. h.bins = [i \in Bins |-> Null]
      OBVIOUS
    <2>2. \E r \in [{} -> Nat] : \A B \in {} : FlNext(h, B) # Null => r[B] < r[FlNext(h, B)]
      <3>1. [x \in {} |-> 0] \in [{} -> Nat]
        OBVIOUS
      <3> QED
        BY <3>1
    <2> QED
      BY <2>1, <2>2 DEF Links
  <1>9. Open(h, S, sz, Base)
    BY <1>3, <1>4, <1>5, <1>6, <1>7, <1>8 DEF Open, Tagged, Spaced
  <1>10. g = BinInsert(SetBlock(h, Base, sz[Base], 0), Base)
    BY <1>3
  <1>11. Base + sz[Base] \notin FreeOf(h, Without(S, Base))
    BY <1>7
  <1>12. \A C \in FreeOf(h, Without(S, Base)) : C + sz[C] # Base
    BY <1>7
  <1>13. Sound(g, S, sz) /\ AllocOf(g, S) = {}
    BY <1>7, <1>9, <1>10, <1>11, <1>12, CloseFree
  <1> QED
    BY <1>13

-------------------------------------------------------------------------------
(* Pointers into blocks.  A heap serves a set of pointers when each lies in  *)
(* an allocated block of its own, after a back-pointer to it, and no block   *)
(* is allocated without a pointer.                                           *)
Within(p, B, bs) == p \in Int /\ p % 16 = 0 /\ B + 16 <= p /\ p + 16 <= B + bs

Serves(h, S, sz, P) ==
    /\ \A p \in P : Header(h, p) \in AllocOf(h, S) /\ Within(p, Header(h, p), sz[Header(h, p)])
    /\ \A p, q \in P : Header(h, p) = Header(h, q) => p = q
    /\ \A B \in AllocOf(h, S) : \E p \in P : Header(h, p) = B

(* The bytes at p that px_pool_usable_size promises. *)
Bytes(h, p) == {a \in Addr : p <= a /\ a < p + UsableSize(h, p)}

(* The pointers of Q reach the same bytes, with the same contents. *)
Same(h, g, Q) ==
    \A p \in Q : /\ Header(g, p) = Header(h, p) /\ UsableSize(g, p) = UsableSize(h, p)
                 /\ \A a \in Bytes(h, p) : Word(g, a) = Word(h, a)

(* A pointer inside a block: the word before it is inside as well. *)
LEMMA WithinFacts ==
    ASSUME NEW S, NEW sz, Tile(S, sz), NEW B \in S, NEW p, Within(p, B, sz[B])
    PROVE  /\ p \in Addr /\ p - 8 \in Addr /\ In(p - 8, B, sz) /\ In(p, B, sz)
           /\ B + 8 <= p - 8 /\ p - 8 < Foot(B, sz[B]) /\ Foot(B, sz[B]) - p \in Int
           /\ Foot(B, sz[B]) - p >= 8 /\ (Foot(B, sz[B]) - p) % 8 = 0
  <1>1. /\ B \in Int /\ B % 16 = 0 /\ Base <= B /\ B + sz[B] <= End /\ sz[B] \in Int /\ sz[B] % 16 = 0
    BY TileParts
  <1>2. p \in Int /\ p % 16 = 0 /\ B + 16 <= p /\ p + 16 <= B + sz[B]
    BY DEF Within
  <1>3. PICK s \in Int : s = sz[B]
    BY <1>1
  <1>4. p % 8 = 0 /\ (p - 8) % 8 = 0
    BY <1>2
  <1>5. (B + s - 8 - p) % 8 = 0
    BY <1>1, <1>2, <1>3
  <1> QED
    BY <1>1, <1>2, <1>3, <1>4, <1>5, Region DEF Addr, In, Foot

(* A pointer that is served reaches its block and its usable size. *)
LEMMA PointerFacts ==
    ASSUME NEW h, NEW S, NEW sz, Sound(h, S, sz), NEW P, Serves(h, S, sz, P), NEW p \in P,
           NEW B, B = Header(h, p)
    PROVE  /\ B \in AllocOf(h, S) /\ B \in S /\ Within(p, B, sz[B]) /\ p \in Addr
           /\ UsableSize(h, p) = Foot(B, sz[B]) - p
           /\ UsableSize(h, p) \in Int /\ UsableSize(h, p) >= 8 /\ UsableSize(h, p) % 8 = 0
           /\ \A a \in Bytes(h, p) : In(a, B, sz) /\ B + 8 <= a /\ a < Foot(B, sz[B])
  <1>1. B \in AllocOf(h, S) /\ Within(p, B, sz[B])
    BY DEF Serves
  <1>2. B \in S /\ BSize(h, B) = sz[B]
    BY <1>1 DEF AllocOf, Sound, Tagged
  <1>3. Tile(S, sz)
    BY DEF Sound
  <1>4. /\ p \in Addr /\ B + 8 <= p - 8 /\ Foot(B, sz[B]) - p \in Int
        /\ Foot(B, sz[B]) - p >= 8 /\ (Foot(B, sz[B]) - p) % 8 = 0
    BY <1>1, <1>2, <1>3, WithinFacts
  <1>5. B \in Int /\ sz[B] \in Int /\ p \in Int
    BY <1>1, <1>2, <1>3, TileParts DEF Within
  <1>6. UsableSize(h, p) = Foot(B, sz[B]) - p
    <2>1. UsableSize(h, p) = B + sz[B] - 8 - p
      BY <1>2 DEF UsableSize
    <2> QED
      BY <1>5, <2>1 DEF Foot
  <1>7. ASSUME NEW a \in Bytes(h, p) PROVE In(a, B, sz) /\ B + 8 <= a /\ a < Foot(B, sz[B])
    <2>1. a \in Int /\ p <= a /\ a < p + UsableSize(h, p)
      BY DEF Bytes, Addr
    <2>2. a < Foot(B, sz[B])
      <3>1. PICK f \in Int : f = Foot(B, sz[B])
        BY <1>5 DEF Foot
      <3>2. a < p + (f - p)
        BY <1>6, <2>1, <3>1
      <3> QED
        BY <1>5, <2>1, <3>1, <3>2
    <2> QED
      BY <1>4, <1>5, <2>1, <2>2 DEF In, Foot
  <1> QED
    BY <1>1, <1>2, <1>4, <1>6, <1>7

(* Pointers to blocks that are not disturbed. *)
LEMMA ServesKept ==
    ASSUME NEW h, NEW S, NEW sz, Sound(h, S, sz), NEW P, Serves(h, S, sz, P),
           NEW g, NEW T, NEW tz, Sound(g, T, tz), NEW A, A \subseteq AllocOf(h, S),
           Undisturbed(h, sz, g, tz, A), NEW Q, Q \subseteq P, \A p \in Q : Header(h, p) \in A
    PROVE  /\ Same(h, g, Q)
           /\ A \subseteq T => \A p \in Q : Within(p, Header(g, p), tz[Header(g, p)])
  <1>1. ASSUME NEW p \in Q
        PROVE  /\ Header(g, p) = Header(h, p) /\ UsableSize(g, p) = UsableSize(h, p)
               /\ \A a \in Bytes(h, p) : Word(g, a) = Word(h, a)
               /\ Within(p, Header(h, p), tz[Header(h, p)])
    <2>1. PICK B : B = Header(h, p)
      OBVIOUS
    <2>2. B \in A /\ p \in P /\ B \in S
      BY <2>1 DEF AllocOf
    <2>3. tz[B] = sz[B] /\ Kept(h, g, B, sz)
      BY <2>2 DEF Undisturbed
    <2>4. Tile(S, sz) /\ Within(p, B, sz[B]) /\ \A a \in Bytes(h, p) : In(a, B, sz)
      BY <2>1, <2>2, PointerFacts DEF Sound
    <2>5. p - 8 \in Addr /\ In(p - 8, B, sz)
      BY <2>2, <2>4, WithinFacts
    <2>6. Word(g, p - 8) = Word(h, p - 8)
      BY <2>3, <2>5 DEF Kept
    <2>7. Header(g, p) = B
      BY <2>1, <2>6 DEF Header
    <2>8. BSize(g, B) = BSize(h, B)
      BY <2>2, <2>3, <2>4, KeptFacts
    <2>9. UsableSize(g, p) = UsableSize(h, p)
      BY <2>1, <2>7, <2>8 DEF UsableSize
    <2>10. \A a \in Bytes(h, p) : Word(g, a) = Word(h, a)
      BY <2>3, <2>4 DEF Kept, Bytes
    <2>11. Within(p, B, tz[B])
      BY <2>3, <2>4
    <2> QED
      BY <2>1, <2>7, <2>9, <2>10, <2>11
  <1> QED
    BY <1>1 DEF Same

(* px_pool_free of p. *)
LEMMA FreePointer ==
    ASSUME NEW h, NEW S, NEW sz, Sound(h, S, sz), NEW P, Serves(h, S, sz, P), NEW p \in P,
           NEW g, g = BlockFree(h, Header(h, p))
    PROVE  \E T, tz : /\ Sound(g, T, tz) /\ Serves(g, T, tz, P \ {p}) /\ Same(h, g, P \ {p})
                      /\ \A D \in AllocOf(g, T) : D \in AllocOf(h, S) /\ tz[D] = sz[D]
  <1>1. PICK B \in AllocOf(h, S) : B = Header(h, p)
    BY DEF Serves
  <1>2. PICK A : A = Without(AllocOf(h, S), B)
    OBVIOUS
  <1>3. PICK T, tz : Sound(g, T, tz) /\ AllocOf(g, T) = A /\ Undisturbed(h, sz, g, tz, A)
    BY <1>1, <1>2, FreeFacts
  <1>4. A \subseteq AllocOf(h, S)
    BY <1>2 DEF Without
  <1>5. A \subseteq T
    BY <1>3 DEF AllocOf
  <1>6. \A q \in P \ {p} : Header(h, q) \in A
    BY <1>1, <1>2 DEF Without, Serves
  <1>7. PICK Q : Q = P \ {p}
    OBVIOUS
  <1>8. Q \subseteq P /\ \A q \in Q : Header(h, q) \in A
    BY <1>6, <1>7
  <1>9. Same(h, g, Q) /\ \A q \in Q : Within(q, Header(g, q), tz[Header(g, q)])
    BY <1>3, <1>4, <1>5, <1>8, ServesKept
  <1>10. \A q \in Q : Header(g, q) = Header(h, q)
    BY <1>9 DEF Same
  <1>11. \A q \in Q : Header(g, q) \in AllocOf(g, T)
    BY <1>3, <1>8, <1>10
  <1>12. \A q, r \in Q : Header(g, q) = Header(g, r) => q = r
    BY <1>8, <1>10 DEF Serves
  <1>13. ASSUME NEW D \in AllocOf(g, T) PROVE \E q \in Q : Header(g, q) = D
    <2>1. D \in AllocOf(h, S) /\ D # B
      BY <1>2, <1>3, <1>13 DEF Without
    <2>2. PICK q \in P : Header(h, q) = D
      BY <2>1 DEF Serves
    <2>3. q \in Q
      BY <1>1, <1>7, <2>1, <2>2
    <2> QED
      BY <1>10, <2>2, <2>3
  <1>14. Serves(g, T, tz, Q)
    BY <1>9, <1>11, <1>12, <1>13 DEF Serves
  <1>15. \A D \in AllocOf(g, T) : D \in AllocOf(h, S) /\ tz[D] = sz[D]
    BY <1>3, <1>4 DEF Undisturbed
  <1> QED
    BY <1>3, <1>7, <1>9, <1>14, <1>15

(* The pointer that px_pool_alloc returns in a block that is large enough. *)
LEMMA PayloadFits ==
    ASSUME NEW B \in Addr, B % 16 = 0, NEW size \in Nat, NEW align \in Nat, InRange(size, align),
           NEW bs \in Int, bs % 16 = 0, bs >= NeedBSize(size, align),
           NEW p, p = Payload(B, align)
    PROVE  /\ Within(p, B, bs) /\ Foot(B, bs) - p >= size
           /\ \E k \in 4 .. 30 : 2^k >= align /\ p % 2^k = 0
  <1>1. PICK A \in Nat : A = EffectiveAlign(align)
    BY EffectiveAlignFacts DEF InRange
  <1>2. PICK n \in Int : n = NeedBSize(size, align) /\ n >= size + A + 24 /\ n >= A + 25
    BY <1>1, NeedFacts
  <1>3. p \in Int /\ p % 16 = 0 /\ B + 16 <= p /\ p < B + 16 + EffectiveAlign(align)
        /\ \E k \in 4 .. 30 : 2^k >= align /\ p % 2^k = 0
    BY PayloadFacts DEF InRange
  <1>4. B \in Int /\ p < B + 16 + A /\ bs >= n
    BY <1>1, <1>2, <1>3 DEF Addr
  <1>5. p < B + bs /\ B + bs - 8 - p >= size
    BY <1>2, <1>3, <1>4
  <1>6. (B + bs) % 16 = 0
    BY <1>4
  <1>7. p + 16 <= B + bs
    BY <1>3, <1>4, <1>5, <1>6
  <1>8. Within(p, B, bs)
    BY <1>3, <1>7 DEF Within
  <1>9. Foot(B, bs) - p >= size
    BY <1>3, <1>4, <1>5 DEF Foot
  <1> QED
    BY <1>3, <1>8, <1>9, Zenon

(* Carving a free block serves one more pointer and disturbs no other. *)
LEMMA CarvePointer ==
    ASSUME NEW h, NEW S, NEW sz, Sound(h, S, sz), NEW P, Serves(h, S, sz, P),
           NEW B \in FreeOf(h, S), NEW size \in Nat, NEW align \in Nat, InRange(size, align),
           NEW n, n = NeedBSize(size, align), n <= BSize(h, B),
           NEW k, k = Carve(h, B, n), NEW p, p = Payload(B, align),
           NEW g, g = Put(k, p - 8, B), NEW Q, Q = P \cup {p}
    PROVE  \E T, tz :
              /\ Sound(g, T, tz) /\ Serves(g, T, tz, Q) /\ Same(h, g, P) /\ p \notin P
              /\ \A D \in AllocOf(g, T) : (D \in AllocOf(h, S) /\ tz[D] = sz[D])
                                          \/ (D = B /\ tz[D] = BSize(k, B))
              /\ Header(g, p) = B /\ UsableSize(g, p) >= size
              /\ \E j \in 4 .. 30 : 2^j >= align /\ p % 2^j = 0
  <1>1. /\ B \in S /\ B \in Addr /\ B % 16 = 0 /\ sz[B] \in Int /\ BSize(h, B) = sz[B]
        /\ B \in Int /\ B + sz[B] <= End
    BY TileFacts DEF Sound, Tagged, FreeOf
  <1>2. n \in Int /\ n % 16 = 0 /\ n >= 32 /\ n <= sz[B]
    BY <1>1, NeedFacts
  <1>3. PICK T, tz : /\ Sound(k, T, tz) /\ AllocOf(k, T) = With(AllocOf(h, S), B)
                     /\ Undisturbed(h, sz, k, tz, AllocOf(h, S)) /\ tz[B] >= n
                     /\ BSize(k, B) = tz[B]
    BY <1>2, CarveFacts
  <1>4. B \in AllocOf(k, T) /\ B \in T
    BY <1>3 DEF With, AllocOf
  <1>5. Tile(T, tz) /\ tz[B] \in Int /\ tz[B] % 16 = 0
    BY <1>3, <1>4, TileParts DEF Sound
  <1>6. /\ Within(p, B, tz[B]) /\ Foot(B, tz[B]) - p >= size
        /\ \E j \in 4 .. 30 : 2^j >= align /\ p % 2^j = 0
    BY <1>1, <1>3, <1>5, PayloadFits
  <1>7. p - 8 \in Addr /\ B + 8 <= p - 8 /\ p - 8 < Foot(B, tz[B])
    BY <1>4, <1>5, <1>6, WithinFacts
  <1>8. IsHeap(k)
    BY <1>3 DEF Sound
  <1>9. /\ IsHeap(g) /\ g.bins = k.bins /\ Word(g, p - 8) = B
        /\ \A a \in Addr : a # p - 8 => Word(g, a) = Word(k, a)
    <2>1. PICK b \in Addr : b = p - 8
      BY <1>7
    <2>2. B \in Int
      BY <1>1
    <2>3. /\ IsHeap(Put(k, b, B))
          /\ Put(k, b, B).bins = k.bins
          /\ Word(Put(k, b, B), b) = B
          /\ \A a \in Addr : a # b => Word(Put(k, b, B), a) = Word(k, a)
      <3>1. IsHeap(Put(k, b, B))
        BY <1>8, <2>2, PutFacts, Zenon
      <3>2. Put(k, b, B).bins = k.bins
        BY <1>8, <2>2, PutFacts, Zenon
      <3>3. Word(Put(k, b, B), b) = B
        <4>1. \A w \in Int : Word(Put(k, b, w), b) = w
          BY <1>8, PutFacts
        <4> QED
          BY <2>2, <4>1, Zenon
      <3>4. \A a \in Addr : a # b => Word(Put(k, b, B), a) = Word(k, a)
        BY <1>8, <2>2, PutFacts, Zenon
      <3> QED
        BY <3>1, <3>2, <3>3, <3>4, Zenon
    <2>4. g = Put(k, b, B)
      BY <2>1
    <2> QED
      BY <2>1, <2>3, <2>4, Zenon
  <1>10. \A a \in Addr : ~(B + 8 <= a /\ a < Foot(B, tz[B])) => Word(g, a) = Word(k, a)
    BY <1>7, <1>9
  <1>11. /\ Sound(g, T, tz) /\ AllocOf(g, T) = AllocOf(k, T)
         /\ Undisturbed(k, tz, g, tz, Without(T, B))
    BY <1>3, <1>4, <1>9, <1>10, WriteInside
  <1>12. PICK A : A = AllocOf(h, S)
    OBVIOUS
  <1>13. B \notin A
    BY <1>12 DEF FreeOf, AllocOf
  <1>14. A \subseteq AllocOf(k, T) /\ A \subseteq T
    BY <1>3, <1>12 DEF With, AllocOf
  <1>15. Undisturbed(h, sz, g, tz, A)
    <2>1. Undisturbed(k, tz, g, tz, A)
      BY <1>11, <1>13, <1>14 DEF Undisturbed, Without
    <2> QED
      BY <1>3, <1>12, <2>1, UndisturbedTwice
  <1>16. Same(h, g, P) /\ \A q \in P : Within(q, Header(g, q), tz[Header(g, q)])
    <2>1. \A q \in P : Header(h, q) \in A
      BY <1>12 DEF Serves
    <2>2. A \subseteq AllocOf(h, S) /\ P \subseteq P
      BY <1>12
    <2> QED
      BY <1>11, <1>14, <1>15, <2>1, <2>2, ServesKept
  <1>17. \A q \in P : Header(g, q) = Header(h, q) /\ Header(h, q) \in A
    BY <1>12, <1>16 DEF Same, Serves
  <1>18. Header(g, p) = B
    BY <1>9 DEF Header
  <1>19. p \notin P
    <2> SUFFICES ASSUME p \in P PROVE FALSE
      OBVIOUS
    <2>1. PICK C : C = Header(h, p)
      OBVIOUS
    <2>2. C \in AllocOf(h, S) /\ C \in S /\ Within(p, C, sz[C]) /\ p \in Addr
      BY <2>1, PointerFacts
    <2>3. Tile(S, sz)
      BY DEF Sound
    <2>4. In(p, C, sz)
      BY <2>2, <2>3, WithinFacts
    <2>5. Within(p, B, sz[B])
      BY <1>1, <1>2, NeedFacts, TileParts, PayloadFits DEF Sound
    <2>6. In(p, B, sz)
      BY <1>1, <2>3, <2>5, WithinFacts
    <2>7. C = B
      BY <1>1, <2>2, <2>3, <2>4, <2>6, TileFacts DEF Addr
    <2> QED
      BY <1>12, <1>13, <2>2, <2>7
  <1>20. UsableSize(g, p) >= size
    <2>1. BSize(g, B) = tz[B]
      BY <1>4, <1>11 DEF Sound, Tagged
    <2>2. UsableSize(g, p) = B + tz[B] - 8 - p
      BY <1>18, <2>1 DEF UsableSize
    <2> QED
      BY <1>1, <1>5, <1>6, <2>2 DEF Foot, Within
  <1>21. Serves(g, T, tz, Q)
    <2>1. ASSUME NEW q \in Q
          PROVE  Header(g, q) \in AllocOf(g, T) /\ Within(q, Header(g, q), tz[Header(g, q)])
      <3>1. CASE q = p
        BY <1>4, <1>6, <1>11, <1>18, <3>1
      <3>2. CASE q \in P
        BY <1>11, <1>14, <1>16, <1>17, <3>2
      <3> QED
        BY <3>1, <3>2
    <2>2. ASSUME NEW q \in Q, NEW r \in Q, Header(g, q) = Header(g, r) PROVE q = r
      BY <1>13, <1>17, <1>18, <2>2 DEF Serves
    <2>3. ASSUME NEW D \in AllocOf(g, T) PROVE \E q \in Q : Header(g, q) = D
      <3>1. D \in A \/ D = B
        BY <1>3, <1>11, <1>12, <2>3 DEF With
      <3>2. CASE D = B
        BY <1>18, <3>2
      <3>3. CASE D \in A
        <4>1. PICK q \in P : Header(h, q) = D
          BY <1>12, <3>3 DEF Serves
        <4> QED
          BY <1>17, <4>1
      <3> QED
        BY <3>1, <3>2, <3>3
    <2> QED
      BY <2>1, <2>2, <2>3 DEF Serves
  <1>22. \A D \in AllocOf(g, T) : (D \in AllocOf(h, S) /\ tz[D] = sz[D])
                                  \/ (D = B /\ tz[D] = BSize(k, B))
    BY <1>3, <1>11 DEF With, Undisturbed
  <1> QED
    BY <1>6, <1>11, <1>16, <1>18, <1>19, <1>20, <1>21, <1>22

(* Writing the bytes of one pointer. *)
LEMMA WritePointer ==
    ASSUME NEW h, NEW S, NEW sz, Sound(h, S, sz), NEW P, Serves(h, S, sz, P), NEW p \in P,
           NEW g, IsHeap(g), g.bins = h.bins,
           \A a \in Addr : a \notin Bytes(h, p) => Word(g, a) = Word(h, a)
    PROVE  /\ Sound(g, S, sz) /\ Serves(g, S, sz, P) /\ Same(h, g, P \ {p})
           /\ FreeOf(g, S) = FreeOf(h, S) /\ AllocOf(g, S) = AllocOf(h, S)
           /\ Header(g, p) = Header(h, p) /\ UsableSize(g, p) = UsableSize(h, p)
  <1>1. PICK B : B = Header(h, p)
    OBVIOUS
  <1>2. /\ B \in AllocOf(h, S) /\ B \in S /\ Within(p, B, sz[B]) /\ p \in Addr
        /\ \A a \in Bytes(h, p) : B + 8 <= a /\ a < Foot(B, sz[B])
    BY <1>1, PointerFacts
  <1>3. \A a \in Addr : ~(B + 8 <= a /\ a < Foot(B, sz[B])) => Word(g, a) = Word(h, a)
    BY <1>2
  <1>4. /\ Sound(g, S, sz) /\ FreeOf(g, S) = FreeOf(h, S) /\ AllocOf(g, S) = AllocOf(h, S)
        /\ Undisturbed(h, sz, g, sz, Without(S, B))
    BY <1>2, <1>3, WriteInside
  <1>5. PICK A : A = Without(AllocOf(h, S), B)
    OBVIOUS
  <1>6. A \subseteq AllocOf(h, S) /\ A \subseteq S /\ Undisturbed(h, sz, g, sz, A)
    BY <1>4, <1>5 DEF Without, AllocOf, Undisturbed
  <1>7. PICK Q : Q = P \ {p}
    OBVIOUS
  <1>8. Q \subseteq P /\ \A q \in Q : Header(h, q) \in A
    BY <1>1, <1>5, <1>7 DEF Without, Serves
  <1>9. Same(h, g, Q) /\ \A q \in Q : Within(q, Header(g, q), sz[Header(g, q)])
    BY <1>4, <1>6, <1>8, ServesKept
  <1>10. Header(g, p) = B
    <2>1. Tile(S, sz)
      BY DEF Sound
    <2>2. p - 8 \in Addr
      BY <1>2, <2>1, WithinFacts
    <2>3. p - 8 \notin Bytes(h, p)
      BY <1>2 DEF Bytes, Addr
    <2> QED
      BY <1>1, <2>2, <2>3 DEF Header
  <1>11. UsableSize(g, p) = UsableSize(h, p)
    <2>1. BSize(g, B) = BSize(h, B)
      BY <1>2, <1>4 DEF Sound, Tagged
    <2> QED
      BY <1>1, <1>10, <2>1 DEF UsableSize
  <1>12. \A q \in P : Header(g, q) = Header(h, q)
    BY <1>1, <1>7, <1>9, <1>10 DEF Same
  <1>13. Serves(g, S, sz, P)
    BY <1>4, <1>12 DEF Serves
  <1> QED
    BY <1>1, <1>4, <1>7, <1>9, <1>10, <1>11, <1>13

-------------------------------------------------------------------------------
(* The state.  A thread works on an object from the call that names it until *)
(* it returns; it moves one between the two halves of a reallocation.        *)
Moving  == {"copy", "refree"}
Asking  == {"init", "publish", "scan", "carve", "relock"}
Working == Asking \cup Moving \cup {"fill"}

Item(o) == [ptr |-> o.ptr, size |-> o.size, align |-> o.align, written |-> o.written,
            busy |-> o.busy]

Entry(os, i) == IF i \in Ids THEN os[i] ELSE NoObj

(* The n bytes at p hold what object i's owner wrote. *)
Holds(h, p, n, i) == \A a \in Addr : p <= a /\ a < p + n => Word(h, a) = -i

ObjOK(h, o, i) ==
    /\ UsableSize(h, o.ptr) >= o.size
    /\ \E k \in 4 .. 30 : 2^k >= o.align /\ o.ptr % 2^k = 0
    /\ o.written \in Nat /\ o.written % 8 = 0 /\ o.written <= UsableSize(h, o.ptr)
    /\ Holds(h, o.ptr, o.written, i)

CallOK(h, l, c, o) ==
    /\ l \in Asking => c.size \in Nat /\ c.align \in Nat /\ InRange(c.size, c.align)
    /\ l \in {"relock", "fill"} \cup Moving => o # NoObj
    /\ l \in Working /\ o # NoObj => o.busy = TRUE
    /\ l \in Asking \cup Moving /\ o # NoObj =>
          c.size \in Nat /\ c.old = UsableSize(h, o.ptr) /\ c.old < c.size /\ c.align = ALIGN
    /\ l \in Moving => UsableSize(h, c.ptr) >= c.size
    /\ l = "refree" => Holds(h, c.ptr, c.old, c.id)

(* No two objects or reallocations have the same pointer. *)
Distinct ==
    /\ \A i, j \in Objects : objs[i].ptr = objs[j].ptr => i = j
    /\ \A t, u \in InFlight : call[t].ptr = call[u].ptr => t = u
    /\ \A i \in Objects, t \in InFlight : objs[i].ptr # call[t].ptr

Shape ==
    /\ mem \in Words /\ bins \in [Bins -> Int] /\ high \in 0 .. Res
    /\ init \in {"no", "done", "failed"} /\ gbase \in {Null, Base} /\ gres \in {0, Res}
    /\ objs = [i \in Ids |-> Item(objs[i])]

(* Before the pool is mapped nothing is held, and one thread maps it. *)
Begun ==
    /\ \A t \in Threads : pc[t] \in {"init", "poolinit"} => init = "no"
    /\ \A t \in Threads : pc[t] \in Working \ {"init"} => init = "done"
    /\ \A i \in Objects : init = "done"

Apart ==
    /\ \A t \in Threads : pc[t] \in Working => call[t].id \in Ids
    /\ \A t, u \in Threads : pc[t] \in Working /\ pc[u] \in Working /\ t # u =>
          call[t].id # call[u].id

Calls    == \A t \in Threads : CallOK(Heap, pc[t], call[t], Entry(objs, call[t].id))
Contents == \A i \in Objects : ObjOK(Heap, objs[i], i)

(* Only an object whose owner is still filling it is not written to the end. *)
Filled ==
    \A i \in Objects : objs[i].written = UsableSize(Heap, objs[i].ptr)
                       \/ \E t \in Threads : pc[t] = "fill" /\ call[t].id = i

(* The heap is sound and serves the pointers held, g_high covers what is     *)
(* allocated, and a block that was chosen stays free until it is carved.     *)
Serving(S, sz) ==
    /\ Sound(Heap, S, sz) /\ Serves(Heap, S, sz, HeldPtrs)
    /\ \A B \in AllocOf(Heap, S) : B - Base + sz[B] <= high
    /\ \A t \in Threads : pc[t] = "carve" =>
          call[t].block \in FreeOf(Heap, S) /\ Need(t) <= BSize(Heap, call[t].block)

Managed == init = "done" => \E S, sz : Serving(S, sz)

PoolInv == Shape /\ Begun /\ Apart /\ Distinct /\ Calls /\ Contents /\ Filled /\ Managed

(* A step keeps the pointers held, adds one or takes one away, and changes   *)
(* the size of no other.                                                     *)
SizesKept(P) == \A p \in P : UsableSize(Heap, p)' = UsableSize(Heap, p)
HeldStep ==
    \/ HeldPtrs' = HeldPtrs /\ SizesKept(HeldPtrs)
    \/ \E p : p \notin HeldPtrs /\ HeldPtrs' = HeldPtrs \cup {p} /\ SizesKept(HeldPtrs)
    \/ \E p \in HeldPtrs : HeldPtrs' = HeldPtrs \ {p} /\ SizesKept(HeldPtrs \ {p})

PoolStep == PoolInv' /\ HeldStep

-------------------------------------------------------------------------------
(* An object or a call whose pointers reach the same bytes as before. *)
LEMMA ObjKept ==
    ASSUME NEW h, NEW g, NEW Q, Same(h, g, Q), NEW o, NEW i, ObjOK(h, o, i), o.ptr \in Q,
           o.ptr \in Int, UsableSize(h, o.ptr) \in Int
    PROVE  ObjOK(g, o, i)
  <1>1. PICK p \in Q : p = o.ptr
    OBVIOUS
  <1>2. /\ UsableSize(g, p) = UsableSize(h, p) /\ \A a \in Bytes(h, p) : Word(g, a) = Word(h, a)
    BY DEF Same
  <1>3. Holds(g, p, o.written, i)
    <2>1. o.written \in Nat /\ o.written <= UsableSize(h, p) /\ Holds(h, p, o.written, i)
      BY <1>1 DEF ObjOK
    <2>2. ASSUME NEW a \in Addr, p <= a, a < p + o.written PROVE Word(g, a) = -i
      <3>1. a \in Bytes(h, p)
        BY <1>1, <2>1, <2>2 DEF Bytes, Addr
      <3> QED
        BY <1>2, <2>1, <2>2, <3>1 DEF Holds
    <2> QED
      BY <2>2 DEF Holds
  <1> QED
    BY <1>1, <1>2, <1>3 DEF ObjOK

(* A call whose pointers reach the same bytes as before. *)
LEMMA CallKept ==
    ASSUME NEW h, NEW g, NEW Q, Same(h, g, Q), NEW l, NEW c, NEW o, CallOK(h, l, c, o),
           l \in Asking \cup Moving /\ o # NoObj => o.ptr \in Q /\ UsableSize(h, o.ptr) \in Int,
           l \in Moving => c.ptr \in Q /\ c.ptr \in Int /\ UsableSize(h, c.ptr) \in Int
    PROVE  CallOK(g, l, c, o)
  <1>1. l \in Asking \cup Moving /\ o # NoObj => UsableSize(g, o.ptr) = UsableSize(h, o.ptr)
    BY DEF Same
  <1>2. l \in Moving => UsableSize(g, c.ptr) = UsableSize(h, c.ptr)
    BY DEF Same
  <1>3. l = "refree" => Holds(g, c.ptr, c.old, c.id)
    <2> SUFFICES ASSUME l = "refree" PROVE Holds(g, c.ptr, c.old, c.id)
      OBVIOUS
    <2>1. l \in Moving /\ l \in Asking \cup Moving
      BY DEF Moving
    <2>2. o # NoObj /\ c.size \in Nat /\ c.old = UsableSize(h, o.ptr) /\ c.old < c.size
          /\ UsableSize(h, c.ptr) >= c.size /\ Holds(h, c.ptr, c.old, c.id)
      BY <2>1 DEF CallOK
    <2>3. PICK n \in Int : n = c.old
      BY <2>1, <2>2
    <2>4. PICK p \in Int : p = c.ptr
      BY <2>1
    <2>5. p \in Q /\ UsableSize(h, p) \in Int /\ n <= UsableSize(h, p)
      BY <2>1, <2>2, <2>3, <2>4
    <2>6. ASSUME NEW a \in Addr, p <= a, a < p + n PROVE Word(g, a) = -c.id
      <3>1. a \in Bytes(h, p)
        BY <2>5, <2>6 DEF Bytes, Addr
      <3>2. Word(g, a) = Word(h, a)
        BY <2>5, <3>1 DEF Same
      <3> QED
        BY <2>2, <2>3, <2>4, <2>6, <3>2 DEF Holds
    <2> QED
      BY <2>3, <2>4, <2>6 DEF Holds
  <1> QED
    BY <1>1, <1>2, <1>3 DEF CallOK

(* A thread that works on no object asks nothing of its locals. *)
LEMMA NotWorking ==
    ASSUME NEW l, l \notin Working, NEW h, NEW c, NEW o
    PROVE  CallOK(h, l, c, o)
  BY DEF CallOK, Working, Asking, Moving

(* The pointers held are those of the objects and of the copies under way. *)
LEMMA HeldPtrsAre ==
    /\ \A i \in Objects : objs[i].ptr \in HeldPtrs
    /\ \A t \in Threads : pc[t] \in Moving => t \in InFlight /\ call[t].ptr \in HeldPtrs
    /\ \A p \in HeldPtrs : (\E i \in Objects : p = objs[i].ptr) \/ (\E t \in InFlight : p = call[t].ptr)
    /\ \A t \in InFlight : t \in Threads /\ pc[t] \in Moving
  BY DEF HeldPtrs, InFlight, Moving

(* A pointer is held only when the pool is mapped. *)
LEMMA HeldServed ==
    ASSUME PoolInv, NEW p \in HeldPtrs
    PROVE  init = "done" /\ \E S, sz : Serving(S, sz)
  <1>1. init = "done"
    <2>1. CASE \E i \in Objects : p = objs[i].ptr
      BY <2>1 DEF PoolInv, Begun
    <2>2. CASE \E t \in InFlight : p = call[t].ptr
      <3>1. PICK t \in Threads : pc[t] \in Moving
        BY <2>2, HeldPtrsAre
      <3>2. pc[t] \in Working \ {"init"}
        BY <3>1 DEF Working, Moving
      <3> QED
        BY <3>2 DEF PoolInv, Begun
    <2> QED
      BY <2>1, <2>2, HeldPtrsAre
  <1> QED
    BY <1>1 DEF PoolInv, Managed

(* What every pointer held reaches. *)
LEMMA Reached ==
    ASSUME PoolInv
    PROVE  \A p \in HeldPtrs : /\ p \in Addr /\ p \in Int /\ p % 16 = 0
                               /\ UsableSize(Heap, p) \in Int /\ UsableSize(Heap, p) >= 8
                               /\ UsableSize(Heap, p) % 8 = 0
  <1> SUFFICES ASSUME NEW p \in HeldPtrs
               PROVE  /\ p \in Addr /\ p \in Int /\ p % 16 = 0
                      /\ UsableSize(Heap, p) \in Int /\ UsableSize(Heap, p) >= 8
                      /\ UsableSize(Heap, p) % 8 = 0
    OBVIOUS
  <1>1. PICK S, sz : Serving(S, sz)
    BY HeldServed
  <1>2. PICK h : h = Heap
    OBVIOUS
  <1>3. PICK P : P = HeldPtrs
    OBVIOUS
  <1>4. Sound(h, S, sz) /\ Serves(h, S, sz, P) /\ p \in P
    BY <1>1, <1>2, <1>3 DEF Serving
  <1>5. PICK B : B = Header(h, p)
    OBVIOUS
  <1>6. /\ p \in Addr /\ Within(p, B, sz[B])
        /\ UsableSize(h, p) \in Int /\ UsableSize(h, p) >= 8 /\ UsableSize(h, p) % 8 = 0
    BY <1>4, <1>5, PointerFacts
  <1> QED
    BY <1>2, <1>6 DEF Within

(* The same of the pointer of an object. *)
LEMMA ReachedByName ==
    ASSUME PoolInv
    PROVE  /\ \A i \in Objects : /\ objs[i].ptr \in HeldPtrs /\ objs[i].ptr \in Addr
                                 /\ objs[i].ptr \in Int /\ UsableSize(Heap, objs[i].ptr) \in Int
           /\ \A t \in Threads : pc[t] \in Moving =>
                 /\ call[t].ptr \in HeldPtrs /\ call[t].ptr \in Addr
                 /\ call[t].ptr \in Int /\ UsableSize(Heap, call[t].ptr) \in Int
  BY HeldPtrsAre, Reached

(* A step that leaves the heap and every pointer alone. *)
LEMMA MoveStep ==
    ASSUME PoolInv, Types, NEW t \in Threads, NEW l \in Locations, NEW c,
           pc' = [pc EXCEPT ![t] = l], call' = [call EXCEPT ![t] = c],
           UNCHANGED <<mem, bins, high, init>>, gbase' \in {Null, Base}, gres' \in {0, Res},
           NEW i, objs' = [j \in Ids |-> Item(objs'[j])], \A j \in Ids \ {i} : objs'[j] = objs[j],
           i \in Ids => /\ objs'[i] = NoObj <=> objs[i] = NoObj
                        /\ objs'[i].ptr = objs[i].ptr /\ objs'[i].written = objs[i].written
                        /\ objs[i] # NoObj => ObjOK(Heap, objs'[i], i)
                        /\ \A u \in Threads \ {t} : pc[u] \in Working => call[u].id # i,
           pc[t] \notin Moving \cup {"fill"}, l \notin Moving \cup {"fill"},
           l \in {"init", "poolinit"} => init = "no", l \in Working \ {"init"} => init = "done",
           l \in Working => /\ c.id \in Ids
                            /\ \A u \in Threads \ {t} : pc[u] \in Working => call[u].id # c.id,
           CallOK(Heap, l, c, Entry(objs', c.id)),
           l = "carve" => \A S, sz : Sound(Heap, S, sz) =>
                             c.block \in FreeOf(Heap, S)
                             /\ NeedBSize(c.size, c.align) <= BSize(Heap, c.block)
    PROVE  PoolStep
  <1>1. pc \in [Threads -> Locations] /\ DOMAIN call = Threads
    BY DEF Types
  <1>2. /\ pc'[t] = l /\ call'[t] = c
        /\ \A u \in Threads \ {t} : pc'[u] = pc[u] /\ call'[u] = call[u]
    BY <1>1
  <1>3. PICK h : h = Heap /\ h = Heap'
    BY DEF Heap
  <1>4. \A j \in Ids : /\ objs'[j] = NoObj <=> objs[j] = NoObj
                       /\ objs'[j].ptr = objs[j].ptr /\ objs'[j].written = objs[j].written
    OBVIOUS
  <1>5. Objects' = Objects
    BY <1>4 DEF Objects
  <1>6. InFlight' = InFlight /\ \A u \in InFlight : call'[u] = call[u]
    BY <1>2 DEF InFlight, Moving
  <1>7. \A j \in Objects : j \in Ids /\ objs'[j].ptr = objs[j].ptr /\ objs'[j].written = objs[j].written
    BY <1>4 DEF Objects
  <1>8. HeldPtrs' = HeldPtrs
    BY <1>5, <1>6, <1>7 DEF HeldPtrs
  <1>9. Shape'
    BY DEF PoolInv, Shape
  <1>10. Begun'
    BY <1>2, <1>5 DEF PoolInv, Begun
  <1>11. Apart'
    BY <1>2 DEF PoolInv, Apart
  <1>12. Distinct'
    BY <1>5, <1>6, <1>7 DEF PoolInv, Distinct
  <1>13. Calls'
    <2>1. ASSUME NEW u \in Threads
          PROVE  CallOK(h, pc'[u], call'[u], Entry(objs', call'[u].id))
      <3>1. CASE u = t
        BY <1>2, <1>3, <3>1
      <3>2. CASE u # t /\ pc[u] \notin Working
        BY <1>2, <3>2, NotWorking
      <3>3. CASE u # t /\ pc[u] \in Working
        <4>1. call[u].id \in Ids
          BY <3>3 DEF PoolInv, Apart
        <4>2. call[u].id # i
          BY <3>3, <4>1
        <4>3. Entry(objs', call[u].id) = Entry(objs, call[u].id)
          BY <4>1, <4>2 DEF Entry
        <4>4. CallOK(h, pc[u], call[u], Entry(objs, call[u].id))
          BY <1>3 DEF PoolInv, Calls
        <4> QED
          BY <1>2, <3>3, <4>3, <4>4
      <3> QED
        BY <3>1, <3>2, <3>3
    <2> QED
      BY <1>3, <2>1 DEF Calls
  <1>14. Contents'
    <2>1. ASSUME NEW j \in Objects PROVE ObjOK(h, objs'[j], j)
      <3>1. j \in Ids /\ objs[j] # NoObj
        BY DEF Objects
      <3>2. CASE j = i
        BY <1>3, <3>1, <3>2
      <3>3. CASE j # i
        BY <1>3, <3>1, <3>3 DEF PoolInv, Contents
      <3> QED
        BY <3>2, <3>3
    <2> QED
      BY <1>3, <1>5, <2>1 DEF Contents
  <1>15. Filled'
    <2>1. ASSUME NEW j \in Objects
          PROVE  objs'[j].written = UsableSize(h, objs'[j].ptr)
                 \/ \E u \in Threads : pc'[u] = "fill" /\ call'[u].id = j
      <3>1. CASE objs[j].written = UsableSize(h, objs[j].ptr)
        BY <1>7, <3>1
      <3>2. CASE \E u \in Threads : pc[u] = "fill" /\ call[u].id = j
        BY <1>2, <3>2
      <3> QED
        BY <1>3, <3>1, <3>2 DEF PoolInv, Filled
    <2> QED
      BY <1>3, <1>5, <2>1 DEF Filled
  <1>16. Managed'
    <2> SUFFICES ASSUME init' = "done" PROVE \E S, sz : Serving(S, sz)'
      BY DEF Managed
    <2>1. PICK S, sz : Serving(S, sz)
      BY DEF PoolInv, Managed
    <2>2. ASSUME NEW u \in Threads, pc'[u] = "carve"
          PROVE  call'[u].block \in FreeOf(h, S) /\ Need(u)' <= BSize(h, call'[u].block)
      <3>1. CASE u = t
        <4>1. l = "carve" /\ Sound(h, S, sz)
          BY <1>2, <1>3, <2>1, <2>2, <3>1 DEF Serving
        <4> QED
          BY <1>2, <1>3, <3>1, <4>1 DEF Need
      <3>2. CASE u # t
        BY <1>2, <1>3, <2>1, <2>2, <3>2 DEF Serving, Need
      <3> QED
        BY <3>1, <3>2
    <2>3. Serving(S, sz)'
      BY <1>3, <1>8, <2>1, <2>2 DEF Serving
    <2> QED
      BY <2>3
  <1>17. HeldStep
    <2>1. \A p : UsableSize(h, p) = UsableSize(Heap, p) /\ UsableSize(h, p) = UsableSize(Heap, p)'
      BY <1>3
    <2> QED
      BY <1>8, <2>1 DEF HeldStep, SizesKept
  <1> QED
    BY <1>9, <1>10, <1>11, <1>12, <1>13, <1>14, <1>15, <1>16, <1>17 DEF PoolInv, PoolStep

(* A step that changes where one thread is, and no word of the heap. *)
LEMMA MoveOnly ==
    ASSUME PoolInv, Types, NEW t \in Threads, NEW l \in Locations, NEW c,
           pc' = [pc EXCEPT ![t] = l], call' = [call EXCEPT ![t] = c],
           UNCHANGED <<mem, bins, high, init, objs>>, gbase' \in {Null, Base}, gres' \in {0, Res},
           pc[t] \notin Moving \cup {"fill"}, l \notin Moving \cup {"fill"},
           l \in {"init", "poolinit"} => init = "no", l \in Working \ {"init"} => init = "done",
           l \in Working => /\ c.id \in Ids
                            /\ \A u \in Threads \ {t} : pc[u] \in Working => call[u].id # c.id,
           CallOK(Heap, l, c, Entry(objs, c.id)),
           l = "carve" => \A S, sz : Sound(Heap, S, sz) =>
                             c.block \in FreeOf(Heap, S)
                             /\ NeedBSize(c.size, c.align) <= BSize(Heap, c.block)
    PROVE  PoolStep
  <1>1. PICK i : i = 0
    OBVIOUS
  <1>2. i \notin Ids
    BY <1>1 DEF Ids
  <1>3. objs' = objs
    OBVIOUS
  <1>4. objs' = [j \in Ids |-> Item(objs'[j])]
    BY <1>3 DEF PoolInv, Shape
  <1>5. \A j \in Ids \ {i} : objs'[j] = objs[j]
    BY <1>3
  <1>6. CallOK(Heap, l, c, Entry(objs', c.id))
    BY <1>3
  <1> QED
    BY <1>2, <1>4, <1>5, <1>6, MoveStep

(* Returning without an object, and starting a query. *)
LEMMA IdleStep ==
    ASSUME PoolInv, Types, NEW t \in Threads, NEW l \in {"idle", "query"}, NEW c,
           Goto(t, l), call' = [call EXCEPT ![t] = c],
           UNCHANGED <<mem, bins, high, init, objs, gbase, gres>>,
           pc[t] \notin Moving \cup {"fill"}
    PROVE  PoolStep
  <1>1. l \in Locations /\ l \notin Working /\ l \notin Moving \cup {"fill"} /\ l \notin {"init", "poolinit", "carve"}
    BY DEF Locations, Inside, Working, Asking, Moving
  <1>2. CallOK(Heap, l, c, Entry(objs, c.id))
    BY <1>1, NotWorking
  <1>3. gbase' \in {Null, Base} /\ gres' \in {0, Res}
    BY DEF PoolInv, Shape
  <1>4. pc' = [pc EXCEPT ![t] = l]
    BY DEF Goto
  <1> QED
    BY <1>1, <1>2, <1>3, <1>4, MoveOnly

(* px_pool_alloc up to the scan. *)
LEMMA AllocPool ==
    ASSUME PoolInv, Types, RequestsInRange, NEW t \in Threads, NEW r \in Requests, Alloc(t, r[1], r[2])
    PROVE  PoolStep
  <1>1. PICK i \in FreshIds :
            AfterLock(t, [NoCall EXCEPT !.id = i, !.size = r[1], !.align = r[2]])
    BY DEF Alloc
  <1>2. PICK c : c = [NoCall EXCEPT !.id = i, !.size = r[1], !.align = r[2]] /\ AfterLock(t, c)
    BY <1>1
  <1>3. c.id = i /\ c.size = r[1] /\ c.align = r[2]
    BY <1>2 DEF NoCall
  <1>4. pc[t] = "idle" /\ UNCHANGED <<mem, bins, high, init, objs, gbase, gres>>
    BY DEF Alloc, heapVars, poolVars
  <1>5. i \in Ids /\ objs[i] = NoObj /\ \A u \in Threads : pc[u] # "idle" => call[u].id # i
    BY DEF FreshIds, ReservedIds
  <1>6. \A u \in Threads \ {t} : pc[u] \in Working => call[u].id # c.id
    BY <1>3, <1>5 DEF Working, Asking, Moving
  <1>7. c.size \in Nat /\ c.align \in Nat /\ InRange(c.size, c.align)
    <2>1. r[1] \in Nat /\ r[2] \in Nat
      BY ConstantsOK
    <2> QED
      BY <1>3, <2>1 DEF RequestsInRange
  <1>8. Entry(objs, c.id) = NoObj
    BY <1>3, <1>5 DEF Entry
  <1>9. \A l \in {"init", "scan"} : CallOK(Heap, l, c, NoObj)
    BY <1>7 DEF CallOK, Asking, Moving
  <1>10. CASE init = "failed" /\ Return(t)
    BY <1>4, <1>10, IdleStep DEF Return, Moving
  <1>11. ASSUME NEW l \in {"init", "scan"}, l = "init" => init = "no", l = "scan" => init = "done",
                Goto(t, l), call' = [call EXCEPT ![t] = c]
         PROVE  PoolStep
    <2>1. l \in Locations /\ l \in Working /\ l \notin Moving \cup {"fill"} /\ l # "carve"
      BY DEF Locations, Inside, Working, Asking, Moving
    <2>2. pc[t] \notin Moving \cup {"fill"}
      BY <1>4 DEF Moving
    <2>3. gbase' \in {Null, Base} /\ gres' \in {0, Res}
      BY <1>4 DEF PoolInv, Shape
    <2>4. pc' = [pc EXCEPT ![t] = l]
      BY <1>11 DEF Goto
    <2>5. CallOK(Heap, l, c, Entry(objs, c.id))
      BY <1>8, <1>9
    <2>6. l \in Working \ {"init"} => init = "done"
      BY <1>11
    <2>7. c.id \in Ids
      BY <1>3, <1>5
    <2> QED
      BY <1>4, <1>6, <1>11, <2>1, <2>2, <2>3, <2>4, <2>5, <2>6, <2>7, MoveOnly
  <1> QED
    BY <1>2, <1>10, <1>11 DEF AfterLock

(* px_pool_init starts, and returns. *)
LEMMA PoolInitPool ==
    ASSUME PoolInv, Types, NEW t \in Threads, PoolInit(t)
    PROVE  PoolStep
  <1>1. /\ pc[t] = "idle" /\ init = "no" /\ pc' = [pc EXCEPT ![t] = "poolinit"]
        /\ UNCHANGED <<mem, bins, high, init, call, objs, gbase, gres>>
    BY DEF PoolInit, Goto, heapVars, poolVars
  <1>2. PICK c : c = call[t]
    OBVIOUS
  <1>3. call' = [call EXCEPT ![t] = c]
    BY <1>1, <1>2 DEF Types
  <1>4. PICK l \in Locations : l = "poolinit"
    BY DEF Locations, Inside
  <1>5. l \notin Working /\ l \notin Moving \cup {"fill"} /\ l # "carve"
        /\ pc[t] \notin Moving \cup {"fill"}
    BY <1>1, <1>4 DEF Working, Asking, Moving
  <1>6. CallOK(Heap, l, c, Entry(objs, c.id))
    BY <1>5, NotWorking
  <1>7. gbase' \in {Null, Base} /\ gres' \in {0, Res}
    BY <1>1 DEF PoolInv, Shape
  <1>8. pc' = [pc EXCEPT ![t] = l] /\ UNCHANGED <<mem, bins, high, init, objs>>
    BY <1>1, <1>4
  <1> QED
    BY <1>1, <1>3, <1>5, <1>6, <1>7, <1>8, MoveOnly

(* px_pool_init returns once the base is stored. *)
LEMMA PoolPublishStep ==
    ASSUME PoolInv, Types, NEW t \in Threads, Publish(t), pc[t] = "poolpublish", Return(t)
    PROVE  PoolStep
  <1>1. /\ pc' = [pc EXCEPT ![t] = "idle"] /\ call' = [call EXCEPT ![t] = NoCall]
        /\ gbase' = Base /\ gres' = gres /\ UNCHANGED <<mem, bins, high, init, objs>>
    BY DEF Publish, PublishBase, Return, Goto, heapVars
  <1>2. PICK c : c = NoCall
    OBVIOUS
  <1>3. PICK l \in Locations : l = "idle"
    BY DEF Locations
  <1>4. l \notin Working /\ l \notin Moving \cup {"fill"} /\ l \notin {"init", "poolinit", "carve"}
        /\ pc[t] \notin Moving \cup {"fill"}
    BY <1>3 DEF Working, Asking, Moving
  <1>5. CallOK(Heap, l, c, Entry(objs, c.id))
    BY <1>4, NotWorking
  <1>6. gbase' \in {Null, Base} /\ gres' \in {0, Res}
    BY <1>1 DEF PoolInv, Shape
  <1>7. pc' = [pc EXCEPT ![t] = l] /\ call' = [call EXCEPT ![t] = c]
    BY <1>1, <1>2, <1>3
  <1> QED
    BY <1>1, <1>4, <1>5, <1>6, <1>7, MoveOnly

(* The store of g_base. *)
LEMMA PublishPool ==
    ASSUME PoolInv, Types, NEW t \in Threads, Publish(t)
    PROVE  PoolStep
  <1> SUFFICES ASSUME pc[t] = "publish", Goto(t, "scan"), UNCHANGED call PROVE PoolStep
    BY PoolPublishStep DEF Publish
  <1>1. /\ pc[t] = "publish" /\ pc' = [pc EXCEPT ![t] = "scan"] /\ gbase' = Base /\ gres' = gres
        /\ UNCHANGED <<mem, bins, high, init, call, objs>>
    BY DEF Publish, PublishBase, Goto, heapVars
  <1>2. PICK c : c = call[t]
    OBVIOUS
  <1>3. call' = [call EXCEPT ![t] = c]
    BY <1>1, <1>2 DEF Types
  <1>4. CallOK(Heap, "publish", c, Entry(objs, c.id))
    BY <1>1, <1>2 DEF PoolInv, Calls
  <1>5. CallOK(Heap, "scan", c, Entry(objs, c.id))
    BY <1>4 DEF CallOK, Working, Asking, Moving
  <1>6. init = "done" /\ c.id \in Ids
        /\ \A u \in Threads \ {t} : pc[u] \in Working => call[u].id # c.id
    BY <1>1, <1>2 DEF PoolInv, Begun, Apart, Working, Asking
  <1>7. gbase' \in {Null, Base} /\ gres' \in {0, Res}
    BY <1>1 DEF PoolInv, Shape
  <1>8. pc[t] \notin Moving \cup {"fill"} /\ "scan" \notin Moving \cup {"fill"}
        /\ "scan" \in Locations /\ "scan" \in Working
    BY <1>1 DEF Moving, Locations, Inside, Working, Asking
  <1> QED
    BY <1>1, <1>3, <1>5, <1>6, <1>7, <1>8, MoveOnly

(* The second locking of px_pool_realloc. *)
LEMMA RelockPool ==
    ASSUME PoolInv, Types, NEW t \in Threads, Relock(t)
    PROVE  PoolStep
  <1>1. /\ pc[t] = "relock" /\ pc' = [pc EXCEPT ![t] = "scan"]
        /\ UNCHANGED <<mem, bins, high, init, call, objs, gbase, gres>>
    BY DEF Relock, Goto, heapVars, poolVars
  <1>2. PICK c : c = call[t]
    OBVIOUS
  <1>3. call' = [call EXCEPT ![t] = c]
    BY <1>1, <1>2 DEF Types
  <1>4. CallOK(Heap, "relock", c, Entry(objs, c.id))
    BY <1>1, <1>2 DEF PoolInv, Calls
  <1>5. CallOK(Heap, "scan", c, Entry(objs, c.id))
    BY <1>4 DEF CallOK, Working, Asking, Moving
  <1>6. init = "done" /\ c.id \in Ids
        /\ \A u \in Threads \ {t} : pc[u] \in Working => call[u].id # c.id
    BY <1>1, <1>2 DEF PoolInv, Begun, Apart, Working, Asking
  <1>7. gbase' \in {Null, Base} /\ gres' \in {0, Res}
    BY <1>1 DEF PoolInv, Shape
  <1>8. pc[t] \notin Moving \cup {"fill"} /\ "scan" \notin Moving \cup {"fill"}
        /\ "scan" \in Locations /\ "scan" \in Working
    BY <1>1 DEF Moving, Locations, Inside, Working, Asking
  <1> QED
    BY <1>1, <1>3, <1>5, <1>6, <1>7, <1>8, MoveOnly

(* The lock-free readers. *)
LEMMA QueryPool ==
    ASSUME PoolInv, Types, NEW t \in Threads, QueryBase(t) \/ QueryRes(t)
    PROVE  PoolStep
  <1>1. CASE QueryBase(t)
    BY <1>1, IdleStep DEF QueryBase, heapVars, poolVars, Moving
  <1>2. CASE QueryRes(t)
    BY <1>2, IdleStep DEF QueryRes, Return, heapVars, poolVars, Moving
  <1> QED
    BY <1>1, <1>2

(* A thread at work has an object of its own, as it left it. *)
LEMMA WorkingFacts ==
    ASSUME PoolInv, NEW t \in Threads, pc[t] \in Working \ {"init"}
    PROVE  /\ init = "done" /\ call[t].id \in Ids /\ Entry(objs, call[t].id) = objs[call[t].id]
           /\ \A u \in Threads \ {t} : pc[u] \in Working => call[u].id # call[t].id
           /\ CallOK(Heap, pc[t], call[t], objs[call[t].id])
           /\ objs[call[t].id] # NoObj => call[t].id \in Objects
  <1>1. init = "done"
    BY DEF PoolInv, Begun
  <1>2. call[t].id \in Ids /\ \A u \in Threads \ {t} : pc[u] \in Working => call[u].id # call[t].id
    BY DEF PoolInv, Apart
  <1>3. Entry(objs, call[t].id) = objs[call[t].id]
    BY <1>2 DEF Entry
  <1>4. CallOK(Heap, pc[t], call[t], Entry(objs, call[t].id))
    BY DEF PoolInv, Calls
  <1> QED
    BY <1>1, <1>2, <1>3, <1>4 DEF Objects

(* An object a caller holds is one no thread is working on. *)
LEMMA HeldFacts ==
    ASSUME PoolInv, NEW i \in Ids, Held(i)
    PROVE  /\ i \in Objects /\ init = "done" /\ objs[i] # NoObj
           /\ \A u \in Threads : pc[u] \in Working => call[u].id # i
           /\ objs[i].written = UsableSize(Heap, objs[i].ptr)
  <1>1. i \in Objects /\ objs[i] # NoObj /\ ~objs[i].busy
    BY DEF Held, Objects
  <1>2. ASSUME NEW u \in Threads, pc[u] \in Working, call[u].id = i PROVE FALSE
    <2>1. Entry(objs, call[u].id) = objs[i]
      BY <1>2 DEF Entry
    <2>2. CallOK(Heap, pc[u], call[u], objs[i])
      BY <2>1 DEF PoolInv, Calls
    <2>3. objs[i].busy = TRUE
      BY <1>1, <1>2, <2>2 DEF CallOK
    <2> QED
      BY <1>1, <2>3
  <1>3. init = "done"
    BY <1>1 DEF PoolInv, Begun
  <1>4. objs[i].written = UsableSize(Heap, objs[i].ptr)
    <2>1. \A u \in Threads : pc[u] = "fill" => call[u].id # i
      BY <1>2 DEF Working
    <2> QED
      BY <1>1, <2>1 DEF PoolInv, Filled
  <1> QED
    BY <1>1, <1>2, <1>3, <1>4

(* The fields of an object. *)
LEMMA ItemFacts ==
    ASSUME PoolInv, NEW i \in Ids
    PROVE  objs[i] = Item(objs[i]) /\ DOMAIN objs = Ids
  BY DEF PoolInv, Shape

(* An object after some of its fields were set is an object. *)
LEMMA ItemTypes ==
    ASSUME PoolInv, NEW i \in Ids, NEW o, o = Item(o), objs' = [objs EXCEPT ![i] = o]
    PROVE  /\ objs' = [j \in Ids |-> Item(objs'[j])] /\ objs'[i] = o
           /\ \A j \in Ids \ {i} : objs'[j] = objs[j]
  <1>1. objs = [j \in Ids |-> Item(objs[j])]
    BY DEF PoolInv, Shape
  <1>2. objs'[i] = o /\ \A j \in Ids \ {i} : objs'[j] = objs[j]
    BY <1>1
  <1>3. DOMAIN objs' = Ids /\ objs' = [j \in Ids |-> objs'[j]]
    BY <1>1
  <1>4. \A j \in Ids : objs'[j] = Item(objs'[j])
    BY <1>1, <1>2
  <1> QED
    BY <1>2, <1>3, <1>4

(* The block size a scanning thread asks for. *)
LEMMA NeedOf ==
    ASSUME PoolInv, NEW t \in Threads, pc[t] \in {"scan", "carve"}
    PROVE  /\ call[t].size \in Nat /\ call[t].align \in Nat /\ InRange(call[t].size, call[t].align)
           /\ Need(t) = NeedBSize(call[t].size, call[t].align) /\ Need(t) \in Int
  <1>1. CallOK(Heap, pc[t], call[t], objs[call[t].id])
    BY WorkingFacts DEF Working, Asking
  <1>2. call[t].size \in Nat /\ call[t].align \in Nat /\ InRange(call[t].size, call[t].align)
    BY <1>1 DEF CallOK, Asking
  <1> QED
    BY <1>2, NeedFacts DEF Need

(* The scan of the free lists. *)
LEMMA ScanPool ==
    ASSUME PoolInv, Types, NEW t \in Threads, Scan(t)
    PROVE  PoolStep
  <1>1. pc[t] = "scan" /\ UNCHANGED <<mem, bins, high, init, gbase, gres>>
    BY DEF Scan, heapVars, poolVars
  <1>2. pc[t] \in Working \ {"init"} /\ pc[t] \notin Moving \cup {"fill"}
    BY <1>1 DEF Working, Asking, Moving
  <1>3. gbase' \in {Null, Base} /\ gres' \in {0, Res}
    BY <1>1 DEF PoolInv, Shape
  <1>4. PICK i \in Ids : i = call[t].id
    BY <1>2, WorkingFacts
  <1>5. \A u \in Threads \ {t} : pc[u] \in Working => call[u].id # i
    BY <1>2, <1>4, WorkingFacts
  <1>6. CASE Return(t) /\ objs' = [objs EXCEPT ![call[t].id].busy = FALSE]
    <2>1. PICK o : o = [objs[i] EXCEPT !.busy = FALSE]
      OBVIOUS
    <2>2. objs[i] = Item(objs[i])
      BY ItemFacts
    <2>3. o = [ptr |-> objs[i].ptr, size |-> objs[i].size, align |-> objs[i].align,
               written |-> objs[i].written, busy |-> FALSE]
      BY <2>1, <2>2 DEF Item
    <2>4. o = Item(o)
      BY <2>3 DEF Item
    <2>5. objs' = [objs EXCEPT ![i] = o]
      BY <1>4, <1>6, <2>1
    <2>6. /\ objs' = [j \in Ids |-> Item(objs'[j])] /\ objs'[i] = o
          /\ \A j \in Ids \ {i} : objs'[j] = objs[j]
      BY <2>4, <2>5, ItemTypes
    <2>7. o.ptr = objs[i].ptr /\ o.size = objs[i].size /\ o.align = objs[i].align
          /\ o.written = objs[i].written
      BY <2>3
    <2>8. objs[i] # NoObj => ObjOK(Heap, o, i) /\ o # NoObj
      <3> SUFFICES ASSUME objs[i] # NoObj PROVE ObjOK(Heap, o, i) /\ o # NoObj
        OBVIOUS
      <3>1. i \in Objects
        BY DEF Objects
      <3>2. ObjOK(Heap, objs[i], i)
        BY <3>1 DEF PoolInv, Contents
      <3>3. objs[i].ptr \in Addr
        BY <3>1, ReachedByName
      <3>4. objs[i].ptr # 0
        BY <3>3, Region DEF Addr
      <3>5. o # NoObj
        BY <2>7, <3>4 DEF NoObj
      <3>6. ObjOK(Heap, o, i)
        BY <2>7, <3>2 DEF ObjOK
      <3> QED
        BY <3>5, <3>6
    <2>9. objs[i] = NoObj => o = NoObj
      BY <2>3 DEF NoObj
    <2>10. "idle" \in Locations /\ "idle" \notin Working /\ "idle" \notin Moving \cup {"fill"}
      BY DEF Locations, Working, Asking, Moving
    <2>11. CallOK(Heap, "idle", NoCall, Entry(objs', NoCall.id))
      BY <2>10, NotWorking
    <2>12. pc' = [pc EXCEPT ![t] = "idle"] /\ call' = [call EXCEPT ![t] = NoCall]
      BY <1>6 DEF Return, Goto
    <2>13. /\ objs'[i] = NoObj <=> objs[i] = NoObj
           /\ objs'[i].ptr = objs[i].ptr /\ objs'[i].written = objs[i].written
           /\ objs[i] # NoObj => ObjOK(Heap, objs'[i], i)
      BY <2>6, <2>7, <2>8, <2>9
    <2> QED
      BY <1>1, <1>2, <1>3, <1>5, <2>6, <2>10, <2>11, <2>12, <2>13, MoveStep
  <1>7. CASE /\ Fits(Heap, Need(t)) # {} /\ Goto(t, "carve") /\ UNCHANGED objs
             /\ call' = [call EXCEPT ![t].block = FirstFit(Heap, Need(t))]
    <2>1. PICK c : c = [call[t] EXCEPT !.block = FirstFit(Heap, Need(t))]
      OBVIOUS
    <2>2. call[t] = Local(call[t])
      BY DEF Types
    <2>3. /\ c.id = i /\ c.size = call[t].size /\ c.align = call[t].align /\ c.old = call[t].old
          /\ c.ptr = call[t].ptr /\ c.block = FirstFit(Heap, Need(t))
      BY <1>4, <2>1, <2>2 DEF Local
    <2>4. call' = [call EXCEPT ![t] = c] /\ pc' = [pc EXCEPT ![t] = "carve"]
      BY <1>7, <2>1 DEF Goto
    <2>5. CallOK(Heap, "scan", call[t], objs[i])
      BY <1>1, <1>2, <1>4, WorkingFacts
    <2>6. CallOK(Heap, "carve", c, objs[i])
      BY <2>3, <2>5 DEF CallOK, Working, Asking, Moving
    <2>7. CallOK(Heap, "carve", c, Entry(objs, c.id))
      BY <2>3, <2>6 DEF Entry
    <2>8. Need(t) = NeedBSize(c.size, c.align) /\ Need(t) \in Int
      BY <1>1, <2>3, NeedOf
    <2>9. ASSUME NEW S, NEW sz, Sound(Heap, S, sz)
          PROVE  c.block \in FreeOf(Heap, S) /\ NeedBSize(c.size, c.align) <= BSize(Heap, c.block)
      <3>1. PICK h : h = Heap
        OBVIOUS
      <3>2. PICK need \in Int : need = Need(t)
        BY <2>8
      <3>3. FirstFit(h, need) \in FreeOf(h, S) /\ BSize(h, FirstFit(h, need)) >= need
        BY <1>7, <2>9, <3>1, <3>2, FirstFitFacts
      <3>4. FirstFit(h, need) \in S
        BY <3>3 DEF FreeOf
      <3>5. BSize(h, FirstFit(h, need)) \in Int
        BY <2>9, <3>1, <3>3, FreeStarts
      <3>6. need <= BSize(h, FirstFit(h, need))
        BY <3>3, <3>5
      <3> QED
        BY <2>3, <2>8, <3>1, <3>2, <3>3, <3>6
    <2>10. "carve" \in Locations /\ "carve" \notin Moving \cup {"fill"} /\ "carve" # "init"
      BY DEF Locations, Inside, Moving
    <2>11. init = "done"
      BY <1>2, WorkingFacts
    <2>12. c.id \in Ids /\ \A u \in Threads \ {t} : pc[u] \in Working => call[u].id # c.id
      BY <1>5, <2>3
    <2> QED
      BY <1>1, <1>2, <1>3, <1>7, <2>4, <2>7, <2>9, <2>10, <2>11, <2>12, MoveOnly
  <1> QED
    BY <1>6, <1>7 DEF Scan

(* The first half of px_pool_realloc. *)
LEMMA ReallocPool ==
    ASSUME PoolInv, Types, RequestsInRange, NEW t \in Threads, NEW i \in Ids,
           NEW n \in ReallocSizes, Realloc(t, i, n)
    PROVE  PoolStep
  <1>1. /\ pc[t] = "idle" /\ Held(i) /\ n > 0
        /\ UNCHANGED <<mem, bins, high, init, gbase, gres>>
    BY DEF Realloc, heapVars, poolVars
  <1>2. /\ i \in Objects /\ init = "done" /\ objs[i] # NoObj
        /\ \A u \in Threads : pc[u] \in Working => call[u].id # i
    BY <1>1, HeldFacts
  <1>3. n \in Nat /\ InRange(n, 16)
    BY ConstantsOK DEF RequestsInRange
  <1>4. gbase' \in {Null, Base} /\ gres' \in {0, Res}
    BY <1>1 DEF PoolInv, Shape
  <1>5. pc[t] \notin Moving \cup {"fill"} /\ pc[t] \notin Working
    BY <1>1 DEF Working, Asking, Moving
  <1>6. PICK old : old = UsableSize(Heap, objs[i].ptr)
    OBVIOUS
  <1>7. /\ objs[i] = Item(objs[i]) /\ objs[i].ptr \in Addr /\ objs[i].ptr \in HeldPtrs
        /\ objs[i].ptr \in Int /\ objs[i].ptr % 16 = 0 /\ old \in Int
    BY <1>2, <1>6, ItemFacts, ReachedByName, Reached
  <1>8. ObjOK(Heap, objs[i], i)
    BY <1>2 DEF PoolInv, Contents
  <1>9. objs[i].ptr # 0
    BY <1>7, Region DEF Addr
  <1>10. CASE n <= old /\ objs' = [objs EXCEPT ![i].size = n, ![i].align = ALIGN] /\ UNCHANGED <<pc, call>>
    <2>1. PICK o : o = [objs[i] EXCEPT !.size = n, !.align = 16]
      OBVIOUS
    <2>2. o = [ptr |-> objs[i].ptr, size |-> n, align |-> 16,
               written |-> objs[i].written, busy |-> objs[i].busy]
      BY <1>7, <2>1 DEF Item
    <2>3. o = Item(o)
      BY <2>2 DEF Item
    <2>4. objs' = [objs EXCEPT ![i] = o]
      BY <1>10, <2>1, ItemFacts
    <2>5. /\ objs' = [j \in Ids |-> Item(objs'[j])] /\ objs'[i] = o
          /\ \A j \in Ids \ {i} : objs'[j] = objs[j]
      BY <2>3, <2>4, ItemTypes
    <2>6. o.ptr = objs[i].ptr /\ o.size = n /\ o.align = 16 /\ o.written = objs[i].written
      BY <2>2
    <2>7. o # NoObj
      BY <1>9, <2>6 DEF NoObj
    <2>8. \E k \in 4 .. 30 : 2^k >= 16 /\ objs[i].ptr % 2^k = 0
      <3>1. 2^4 = 16
        BY SMT
      <3>2. 2^4 >= 16 /\ objs[i].ptr % 2^4 = 0
        BY <1>7, <3>1
      <3> QED
        BY <3>2
    <2>9. ObjOK(Heap, o, i)
      <3>1. UsableSize(Heap, o.ptr) >= o.size
        BY <1>3, <1>6, <1>7, <1>10, <2>6
      <3> QED
        BY <1>8, <2>6, <2>8, <3>1 DEF ObjOK
    <2>10. pc' = [pc EXCEPT ![t] = "idle"] /\ call' = [call EXCEPT ![t] = call[t]]
      BY <1>1, <1>10 DEF Types
    <2>11. "idle" \in Locations /\ "idle" \notin Working /\ "idle" \notin Moving \cup {"fill"}
      BY DEF Locations, Working, Asking, Moving
    <2>12. CallOK(Heap, "idle", call[t], Entry(objs', call[t].id))
      BY <2>11, NotWorking
    <2>13. /\ objs'[i] = NoObj <=> objs[i] = NoObj
           /\ objs'[i].ptr = objs[i].ptr /\ objs'[i].written = objs[i].written
           /\ objs[i] # NoObj => ObjOK(Heap, objs'[i], i)
           /\ \A u \in Threads \ {t} : pc[u] \in Working => call[u].id # i
      BY <1>2, <2>5, <2>6, <2>7, <2>9
    <2> QED
      BY <1>1, <1>4, <1>5, <2>5, <2>10, <2>11, <2>12, <2>13, MoveStep
  <1>11. CASE /\ n > old /\ objs' = [objs EXCEPT ![i].busy = TRUE] /\ Goto(t, "relock")
              /\ call' = [call EXCEPT ![t] = [NoCall EXCEPT !.id = i, !.size = n,
                                                            !.align = ALIGN, !.old = old]]
    <2>1. PICK o : o = [objs[i] EXCEPT !.busy = TRUE]
      OBVIOUS
    <2>2. o = [ptr |-> objs[i].ptr, size |-> objs[i].size, align |-> objs[i].align,
               written |-> objs[i].written, busy |-> TRUE]
      BY <1>7, <2>1 DEF Item
    <2>3. o = Item(o)
      BY <2>2 DEF Item
    <2>4. objs' = [objs EXCEPT ![i] = o]
      BY <1>11, <2>1, ItemFacts
    <2>5. /\ objs' = [j \in Ids |-> Item(objs'[j])] /\ objs'[i] = o
          /\ \A j \in Ids \ {i} : objs'[j] = objs[j]
      BY <2>3, <2>4, ItemTypes
    <2>6. /\ o.ptr = objs[i].ptr /\ o.size = objs[i].size /\ o.align = objs[i].align
          /\ o.written = objs[i].written /\ o.busy = TRUE
      BY <2>2
    <2>7. o # NoObj
      BY <1>9, <2>6 DEF NoObj
    <2>8. ObjOK(Heap, o, i)
      BY <1>8, <2>6 DEF ObjOK
    <2>9. PICK c : c = [NoCall EXCEPT !.id = i, !.size = n, !.align = 16, !.old = old]
      OBVIOUS
    <2>10. c.id = i /\ c.size = n /\ c.align = 16 /\ c.old = old
      BY <2>9 DEF NoCall
    <2>11. pc' = [pc EXCEPT ![t] = "relock"] /\ call' = [call EXCEPT ![t] = c]
      BY <1>11, <2>9 DEF Goto
    <2>12. CallOK(Heap, "relock", c, o)
      <3>1. old < n
        BY <1>3, <1>7, <1>11
      <3> QED
        BY <1>3, <1>6, <2>6, <2>7, <2>10, <3>1 DEF CallOK, Moving
    <2>13. CallOK(Heap, "relock", c, Entry(objs', c.id))
      BY <2>5, <2>10, <2>12 DEF Entry
    <2>14. /\ "relock" \in Locations /\ "relock" \notin Moving \cup {"fill"}
           /\ "relock" # "init" /\ "relock" # "carve"
      BY DEF Locations, Moving
    <2>15. /\ objs'[i] = NoObj <=> objs[i] = NoObj
           /\ objs'[i].ptr = objs[i].ptr /\ objs'[i].written = objs[i].written
           /\ objs[i] # NoObj => ObjOK(Heap, objs'[i], i)
           /\ \A u \in Threads \ {t} : pc[u] \in Working => call[u].id # i
      BY <1>2, <2>5, <2>6, <2>7, <2>8
    <2>16. c.id \in Ids /\ \A u \in Threads \ {t} : pc[u] \in Working => call[u].id # c.id
      BY <1>2, <2>10
    <2> QED
      BY <1>1, <1>2, <1>4, <1>5, <2>5, <2>11, <2>13, <2>14, <2>15, <2>16, MoveStep
  <1> QED
    BY <1>6, <1>10, <1>11 DEF Realloc

(* mmap, failed or not, while nothing is held and no other thread works. *)
LEMMA MapRegionPool ==
    ASSUME PoolInv, IInv, NEW t \in Threads, MapRegion(t)
    PROVE  PoolStep
  <1>1. pc[t] \in {"init", "poolinit"} /\ objs' = objs /\ high' = high /\ gbase' = gbase
    BY DEF MapRegion, PublishLength, heapVars
  <1>2. init = "no"
    BY <1>1 DEF PoolInv, Begun
  <1>3. Objects = {} /\ \A i \in Ids : objs[i] = NoObj
    BY <1>2 DEF PoolInv, Begun, Objects
  <1>4. \A u \in Threads \ {t} : pc[u] \notin Working
    <2> SUFFICES ASSUME NEW u \in Threads \ {t}, pc[u] \in Working PROVE FALSE
      OBVIOUS
    <2>1. pc[u] = "init"
      BY <1>2 DEF PoolInv, Begun
    <2> QED
      BY <1>1, <2>1 DEF IInv, LockFollowsPath
  <1>5. pc \in [Threads -> Locations] /\ DOMAIN call = Threads
    BY DEF IInv, Types
  <1>6. Objects' = {} /\ \A i \in Ids : objs'[i] = NoObj
    BY <1>1, <1>3 DEF Objects
  <1>7. ASSUME NEW l, pc'[t] = l, \A u \in Threads \ {t} : pc'[u] = pc[u], l \notin Moving
        PROVE  InFlight' = {} /\ HeldPtrs' = {}
    <2>1. InFlight' = {}
      BY <1>4, <1>7 DEF InFlight, Working, Moving
    <2> QED
      BY <1>6, <2>1 DEF HeldPtrs
  <1>8. HeldPtrs = {}
    <2>1. InFlight = {}
      BY <1>1, <1>4 DEF InFlight, Working, Moving
    <2> QED
      BY <1>3, <2>1 DEF HeldPtrs
  <1>9. \A u \in Threads \ {t} : pc[u] \notin {"init", "poolinit"}
    BY <1>1 DEF IInv, LockFollowsPath
  <1>10. CASE init' = "failed" /\ Return(t) /\ UNCHANGED <<heapVars, gbase, gres>>
    <2>1. /\ pc'[t] = "idle" /\ \A u \in Threads \ {t} : pc'[u] = pc[u]
          /\ UNCHANGED <<mem, bins, gbase, gres>>
      BY <1>5, <1>10 DEF Return, Goto, heapVars
    <2>2. \A u \in Threads : pc'[u] \notin Working
      BY <1>4, <2>1 DEF Working, Asking, Moving
    <2>3. InFlight' = {}
      BY <1>7, <2>1 DEF Moving
    <2>4. Shape'
      BY <1>1, <1>10, <2>1 DEF PoolInv, Shape
    <2>5. Begun' /\ Apart' /\ Distinct' /\ Contents' /\ Filled'
      <3>1. Begun'
        <4>1. \A u \in Threads : pc'[u] \notin {"init", "poolinit"}
          BY <1>9, <2>1
        <4> QED
          BY <1>6, <2>2, <4>1 DEF Begun
      <3> QED
        BY <1>6, <2>2, <2>3, <3>1 DEF Apart, Distinct, Contents, Filled
    <2>6. Calls'
      BY <2>2, NotWorking DEF Calls
    <2>7. Managed'
      BY <1>10 DEF Managed
    <2>8. HeldPtrs' = {}
      BY <1>7, <2>1 DEF Moving
    <2> QED
      BY <1>8, <2>4, <2>5, <2>6, <2>7, <2>8 DEF PoolInv, PoolStep, HeldStep, SizesKept
  <1>11. ASSUME NEW l \in {"publish", "poolpublish"}, l = "publish" => pc[t] = "init",
                init' = "done", gres' = Res, Goto(t, l), call' = call,
                Store(BinInsert(SetBlock([mem |-> mem, bins |-> [i \in 0 .. NBins - 1 |-> Null]],
                                          Base, Res, 0), Base))
         PROVE  PoolStep
    <2>1. pc'[t] = l /\ (\A u \in Threads \ {t} : pc'[u] = pc[u]) /\ l \notin Moving
      BY <1>5, <1>11 DEF Goto, Moving
    <2>2. InFlight' = {} /\ HeldPtrs' = {}
      BY <1>7, <2>1 DEF Moving
    <2>3. PICK h : h = [mem |-> mem, bins |-> [i \in Bins |-> Null]]
      OBVIOUS
    <2>4. PICK g : g = BinInsert(SetBlock(h, Base, Res, 0), Base)
      OBVIOUS
    <2>5. PICK m \in Words : m = mem
      BY DEF PoolInv, Shape
    <2>6. PICK S, sz : Sound(g, S, sz) /\ AllocOf(g, S) = {}
      <3>1. h = [mem |-> m, bins |-> [i \in Bins |-> Null]]
        BY <2>3, <2>5
      <3> QED
        BY <2>4, <3>1, MappedFacts
    <2>7. mem' = g.mem /\ bins' = g.bins
      BY <1>11, <2>3, <2>4 DEF Store, Bins
    <2>8. IsHeap(g)
      BY <2>6 DEF Sound
    <2>9. g = Heap'
      BY <2>7, <2>8 DEF IsHeap, Heap
    <2>10. Shape'
      <3>1. mem' \in Words /\ bins' \in [Bins -> Int]
        BY <2>7, <2>8 DEF IsHeap
      <3> QED
        BY <1>1, <1>11, <3>1 DEF PoolInv, Shape
    <2>11. \A u \in Threads \ {t} : pc'[u] \notin Working
      BY <1>4, <2>1
    <2>12. l \in Working => l = "publish" /\ pc[t] = "init" /\ call[t].id \in Ids
      BY <1>1, <1>11 DEF PoolInv, Apart, Working, Asking, Moving
    <2>13. Begun'
      <3>1. \A u \in Threads : pc'[u] \notin {"init", "poolinit"}
        BY <1>11, <1>9, <2>1
      <3> QED
        BY <1>11, <3>1 DEF Begun
    <2>14. Apart'
      BY <1>11, <2>1, <2>11, <2>12 DEF Apart
    <2>15. Distinct' /\ Contents' /\ Filled'
      BY <1>6, <2>2 DEF Distinct, Contents, Filled
    <2>16. Calls'
      <3>1. Entry(objs, call[t].id) = NoObj /\ Entry(objs', call'[t].id) = NoObj
        BY <1>3, <1>6, <1>11 DEF Entry
      <3>2. ASSUME l \in Working PROVE CallOK(g, l, call[t], NoObj)
        <4>1. CallOK(Heap, "init", call[t], NoObj)
          <5>1. pc[t] = "init" /\ CallOK(Heap, pc[t], call[t], Entry(objs, call[t].id))
            BY <2>12, <3>2 DEF PoolInv, Calls
          <5> QED
            BY <3>1, <5>1
        <4>2. CallOK(g, "publish", call[t], NoObj)
          BY <4>1 DEF CallOK, Asking, Moving
        <4> QED
          BY <2>12, <3>2, <4>2
      <3>3. CallOK(g, l, call[t], NoObj)
        BY <3>2, NotWorking
      <3>4. \A u \in Threads : CallOK(g, pc'[u], call'[u], Entry(objs', call'[u].id))
        BY <1>11, <2>1, <2>11, <3>1, <3>3, NotWorking
      <3> QED
        BY <2>9, <3>4 DEF Calls
    <2>17. Managed'
      <3>1. Serves(g, S, sz, {})
        BY <2>6 DEF Serves
      <3>2. \A u \in Threads : pc'[u] # "carve"
        BY <1>11, <2>1, <2>11 DEF Working, Asking
      <3>3. \A B \in AllocOf(g, S) : B - Base + sz[B] <= high'
        BY <2>6
      <3>4. Serving(S, sz)'
        BY <2>2, <2>6, <2>9, <3>1, <3>2, <3>3 DEF Serving
      <3> QED
        BY <3>4 DEF Managed
    <2> QED
      BY <1>8, <2>2, <2>10, <2>13, <2>14, <2>15, <2>16, <2>17 DEF PoolInv, PoolStep, HeldStep, SizesKept
  <1>12. PICK l : l = IF pc[t] = "init" THEN "publish" ELSE "poolpublish"
    OBVIOUS
  <1>13. l \in {"publish", "poolpublish"} /\ (l = "publish" => pc[t] = "init")
    BY <1>12
  <1> QED
    BY <1>10, <1>11, <1>12, <1>13 DEF MapRegion, PublishLength

(* The pointers that a step of t on object i does not give, move or take. *)
Others(t, i) == {objs[j].ptr : j \in Objects \ {i}} \cup {call[u].ptr : u \in InFlight \ {t}}

(* What those pointers are. *)
LEMMA OthersAre ==
    ASSUME NEW t, NEW i
    PROVE  /\ \A j \in Objects \ {i} : objs[j].ptr \in Others(t, i)
           /\ \A u \in InFlight \ {t} : call[u].ptr \in Others(t, i)
           /\ \A p \in Others(t, i) : (\E j \in Objects \ {i} : p = objs[j].ptr)
                                      \/ (\E u \in InFlight \ {t} : p = call[u].ptr)
           /\ \A p \in Others(t, i) : p \in HeldPtrs
  BY DEF Others, HeldPtrs

(* The blocks allocated lie below hi, and the blocks other threads than t     *)
(* have chosen are still free.                                               *)
Below(h, S, sz, hi) == \A B \in AllocOf(h, S) : B - Base + sz[B] <= hi
StillFree(t, h, S) ==
    \A u \in Threads \ {t} : pc[u] = "carve" =>
        call[u].block \in FreeOf(h, S) /\ Need(u) <= BSize(h, call[u].block)

(* P has the other pointers R, that of o, and that of a reallocation's copy. *)
Pointers(P, R, o, l, c) ==
    \A p : p \in P <=> p \in R \/ (o # NoObj /\ p = o.ptr) \/ (l \in Moving /\ p = c.ptr)

Becomes(i, o) == objs' = [objs EXCEPT ![i] = o]

(* The object o, which the step makes i's, and the copy it may have.         *)
Placed(g, o, i, l, c, R) ==
    /\ o = Item(o)
    /\ o # NoObj => /\ ObjOK(g, o, i) /\ o.ptr \notin R
                    /\ o.written = UsableSize(g, o.ptr) \/ l = "fill"
    /\ l \in Moving => c.ptr \notin R /\ o.ptr # c.ptr
    /\ CallOK(g, l, c, o)
    /\ l \in Working => c.id = i

(* A step that changes the heap, object i and its owner t, and leaves the    *)
(* bytes of every other pointer alone.                                       *)
LEMMA HeapStep ==
    ASSUME PoolInv, Types, NEW t \in Threads, NEW l \in Locations, l \notin {"init", "poolinit", "carve"}, NEW c,
           pc' = [pc EXCEPT ![t] = l], call' = [call EXCEPT ![t] = c],
           init = "done", UNCHANGED <<init, gbase, gres>>,
           mem' \in Words, bins' \in [Bins -> Int], high' \in 0 .. Res,
           NEW i \in Ids, NEW o, Becomes(i, o),
           \A u \in Threads \ {t} : pc[u] \in Working => call[u].id # i,
           pc[t] \in Working => call[t].id = i,
           NEW h, h = Heap, NEW g, g = Heap', NEW Q, Same(h, g, Q),
           NEW R, R = Others(t, i), R \subseteq Q,
           Placed(g, o, i, l, c, R), NEW P, Pointers(P, R, o, l, c),
           NEW S, NEW sz, Sound(g, S, sz), Serves(g, S, sz, P), Below(g, S, sz, high'),
           StillFree(t, g, S)
    PROVE  PoolInv' /\ HeldPtrs' = P
  <1>1. pc \in [Threads -> Locations] /\ DOMAIN call = Threads
    BY DEF Types
  <1>2. /\ pc'[t] = l /\ call'[t] = c
        /\ \A u \in Threads \ {t} : pc'[u] = pc[u] /\ call'[u] = call[u]
    BY <1>1
  <1>3. objs' = [j \in Ids |-> Item(objs'[j])] /\ objs'[i] = o /\ \A j \in Ids \ {i} : objs'[j] = objs[j]
    BY ItemTypes DEF Placed, Becomes
  <1>4. objs'[i] = o /\ \A j \in Ids \ {i} : objs'[j] = objs[j]
    BY <1>3
  <1>5. /\ objs'[i] # NoObj => /\ ObjOK(g, objs'[i], i) /\ objs'[i].ptr \notin R
                               /\ objs'[i].written = UsableSize(g, objs'[i].ptr) \/ l = "fill"
        /\ l \in Moving => c.ptr \notin R /\ objs'[i].ptr # c.ptr
        /\ CallOK(g, l, c, objs'[i])
        /\ l \in Working => c.id = i
    BY <1>4 DEF Placed
  <1>6. \A p : p \in P <=> \/ p \in R
                           \/ objs'[i] # NoObj /\ p = objs'[i].ptr
                           \/ l \in Moving /\ p = c.ptr
    BY <1>4 DEF Pointers
  <1>7. \A j \in Ids \ {i} : j \in Objects' <=> j \in Objects
    BY <1>4 DEF Objects
  <1>8. /\ Objects \subseteq Ids /\ Objects' \subseteq Ids
        /\ i \in Objects' <=> objs'[i] # NoObj
    BY DEF Objects
  <1>9. /\ \A u \in Threads \ {t} : u \in InFlight' <=> u \in InFlight
        /\ InFlight \subseteq Threads /\ InFlight' \subseteq Threads
        /\ t \in InFlight' <=> l \in Moving
    BY <1>2 DEF InFlight, Moving
  <1>10. /\ \A j \in Objects \ {i} : objs[j].ptr \in R
         /\ \A u \in InFlight \ {t} : call[u].ptr \in R
         /\ \A p \in R : (\E j \in Objects \ {i} : p = objs[j].ptr)
                         \/ (\E u \in InFlight \ {t} : p = call[u].ptr)
    BY OthersAre
  <1>11. HeldPtrs' = P
    <2>1. ASSUME NEW p \in P PROVE p \in HeldPtrs'
      <3>1. CASE \E j \in Objects \ {i} : p = objs[j].ptr
        BY <1>4, <1>7, <1>8, <3>1 DEF HeldPtrs
      <3>2. CASE \E u \in InFlight \ {t} : p = call[u].ptr
        BY <1>2, <1>9, <3>2 DEF HeldPtrs
      <3>3. CASE objs'[i] # NoObj /\ p = objs'[i].ptr
        BY <1>4, <1>8, <3>3 DEF HeldPtrs
      <3>4. CASE l \in Moving /\ p = c.ptr
        BY <1>2, <1>9, <3>4 DEF HeldPtrs
      <3> QED
        BY <1>6, <1>10, <3>1, <3>2, <3>3, <3>4
    <2>2. ASSUME NEW p \in HeldPtrs' PROVE p \in P
      <3>1. CASE \E j \in Objects' : p = objs'[j].ptr
        BY <1>4, <1>6, <1>7, <1>8, <1>10, <3>1
      <3>2. CASE \E u \in InFlight' : p = call'[u].ptr
        BY <1>2, <1>6, <1>9, <1>10, <3>2
      <3> QED
        BY <3>1, <3>2 DEF HeldPtrs
    <2> QED
      BY <2>1, <2>2
  <1>12. Shape'
    BY <1>3 DEF PoolInv, Shape
  <1>13. Begun'
    BY <1>2 DEF PoolInv, Begun
  <1>14. Apart'
    BY <1>2, <1>5 DEF PoolInv, Apart
  <1>15. Distinct'
    <2>1. \A j, k \in Objects : objs[j].ptr = objs[k].ptr => j = k
      BY DEF PoolInv, Distinct
    <2>2. \A u, v \in InFlight : call[u].ptr = call[v].ptr => u = v
      BY DEF PoolInv, Distinct
    <2>3. \A j \in Objects, u \in InFlight : objs[j].ptr # call[u].ptr
      BY DEF PoolInv, Distinct
    <2>4. \A j \in Objects' \ {i} : j \in Objects /\ objs'[j].ptr = objs[j].ptr /\ objs[j].ptr \in R
      BY <1>4, <1>7, <1>8, <1>10
    <2>5. \A u \in InFlight' \ {t} : u \in InFlight /\ call'[u].ptr = call[u].ptr /\ call[u].ptr \in R
      BY <1>2, <1>9, <1>10
    <2>6. i \in Objects' => objs'[i].ptr \notin R
      <3>1. i \in Objects' => objs'[i] # NoObj
        BY <1>8
      <3>2. o # NoObj => o.ptr \notin R
        BY DEF Placed
      <3> QED
        BY <1>4, <3>1, <3>2
    <2>7. t \in InFlight' => call'[t].ptr \notin R /\ objs'[i].ptr # call'[t].ptr
      BY <1>2, <1>5, <1>9
    <2>8. \A j, k \in Objects' : objs'[j].ptr = objs'[k].ptr => j = k
      BY <2>1, <2>4, <2>6
    <2>9. \A u, v \in InFlight' : call'[u].ptr = call'[v].ptr => u = v
      BY <2>2, <2>5, <2>7
    <2>10. \A j \in Objects', u \in InFlight' : objs'[j].ptr # call'[u].ptr
      BY <2>3, <2>4, <2>5, <2>6, <2>7
    <2> QED
      BY <2>8, <2>9, <2>10 DEF Distinct
  <1>16. Calls'
    <2>1. ASSUME NEW u \in Threads
          PROVE  CallOK(g, pc'[u], call'[u], Entry(objs', call'[u].id))
      <3>1. CASE u = t /\ l \in Working
        BY <1>2, <1>5, <3>1 DEF Entry
      <3>2. CASE u = t /\ l \notin Working
        BY <1>2, <3>2, NotWorking
      <3>3. CASE u # t /\ pc[u] \notin Working
        BY <1>2, <3>3, NotWorking
      <3>4. CASE u # t /\ pc[u] \in Working
        <4>1. call[u].id \in Ids /\ call[u].id # i
          BY <3>4 DEF PoolInv, Apart
        <4>2. PICK e : e = objs[call[u].id]
          OBVIOUS
        <4>3. Entry(objs', call[u].id) = e /\ Entry(objs, call[u].id) = e
          BY <1>4, <4>1, <4>2 DEF Entry
        <4>4. CallOK(h, pc[u], call[u], e)
          BY <4>3 DEF PoolInv, Calls
        <4>5. e # NoObj => e.ptr \in Q /\ UsableSize(h, e.ptr) \in Int
          <5> SUFFICES ASSUME e # NoObj PROVE e.ptr \in Q /\ UsableSize(h, e.ptr) \in Int
            OBVIOUS
          <5>1. call[u].id \in Objects \ {i}
            BY <4>1, <4>2 DEF Objects
          <5> QED
            BY <1>10, <4>2, <5>1, ReachedByName
        <4>6. pc[u] \in Moving => /\ call[u].ptr \in Q /\ call[u].ptr \in Int
                                  /\ UsableSize(h, call[u].ptr) \in Int
          <5> SUFFICES ASSUME pc[u] \in Moving
                       PROVE  /\ call[u].ptr \in Q /\ call[u].ptr \in Int
                              /\ UsableSize(h, call[u].ptr) \in Int
            OBVIOUS
          <5>1. u \in InFlight \ {t}
            BY <3>4, HeldPtrsAre
          <5> QED
            BY <1>10, <5>1, ReachedByName
        <4>7. PICK d, m : d = call[u] /\ m = pc[u]
          OBVIOUS
        <4>8. CallOK(g, m, d, e)
          BY <4>4, <4>5, <4>6, <4>7, CallKept
        <4> QED
          BY <1>2, <3>4, <4>3, <4>7, <4>8
      <3> QED
        BY <3>1, <3>2, <3>3, <3>4
    <2> QED
      BY <2>1 DEF Calls
  <1>17. \A j \in Objects' \ {i} : /\ j \in Objects /\ objs'[j] = objs[j] /\ objs[j].ptr \in Q
                                   /\ objs[j].ptr \in Int /\ UsableSize(h, objs[j].ptr) \in Int
    BY <1>4, <1>7, <1>8, <1>10, ReachedByName
  <1>18. Contents'
    <2>1. ASSUME NEW j \in Objects' PROVE ObjOK(g, objs'[j], j)
      <3>1. CASE j = i
        <4>1. objs'[i] # NoObj
          BY <1>8, <3>1
        <4>2. o # NoObj => ObjOK(g, o, i)
          BY DEF Placed
        <4> QED
          BY <1>4, <3>1, <4>1, <4>2
      <3>2. CASE j # i
        <4>1. PICK e : e = objs[j]
          OBVIOUS
        <4>2. ObjOK(h, e, j)
          BY <1>17, <3>2, <4>1 DEF PoolInv, Contents
        <4>3. ObjOK(g, e, j)
          BY <1>17, <3>2, <4>1, <4>2, ObjKept
        <4> QED
          BY <1>17, <3>2, <4>1, <4>3
      <3> QED
        BY <3>1, <3>2
    <2> QED
      BY <2>1 DEF Contents
  <1>19. Filled'
    <2>1. ASSUME NEW j \in Objects'
          PROVE  objs'[j].written = UsableSize(g, objs'[j].ptr)
                 \/ \E u \in Threads : pc'[u] = "fill" /\ call'[u].id = j
      <3>1. CASE j = i
        BY <1>2, <1>5, <1>8, <3>1 DEF Working
      <3>2. CASE j # i /\ objs[j].written = UsableSize(h, objs[j].ptr)
        BY <1>17, <3>2 DEF Same
      <3>3. CASE j # i /\ \E u \in Threads : pc[u] = "fill" /\ call[u].id = j
        BY <1>2, <3>3 DEF Working
      <3> QED
        BY <1>17, <3>1, <3>2, <3>3 DEF PoolInv, Filled
    <2> QED
      BY <2>1 DEF Filled
  <1>20. Managed'
    <2>1. \A u \in Threads : pc'[u] = "carve" =>
             call'[u].block \in FreeOf(g, S) /\ Need(u)' <= BSize(g, call'[u].block)
      BY <1>2 DEF Need, StillFree
    <2>2. Serving(S, sz)'
      BY <1>11, <2>1 DEF Serving, Below
    <2> QED
      BY <2>2 DEF Managed
  <1> QED
    BY <1>11, <1>12, <1>13, <1>14, <1>15, <1>16, <1>18, <1>19, <1>20 DEF PoolInv

(* From pointers that reach the same bytes to usable sizes that are kept. *)
LEMMA SizesFrom ==
    ASSUME NEW h, h = Heap, NEW g, g = Heap', NEW Q, Same(h, g, Q)
    PROVE  SizesKept(Q)
  <1>1. \A p \in Q : UsableSize(g, p) = UsableSize(h, p)
    BY DEF Same
  <1>2. \A p : UsableSize(g, p) = UsableSize(Heap, p)' /\ UsableSize(h, p) = UsableSize(Heap, p)
    OBVIOUS
  <1> QED
    BY <1>1, <1>2 DEF SizesKept

(* A heap that is stored is the heap of the next state. *)
LEMMA StoreFacts ==
    ASSUME NEW g, IsHeap(g), Store(g)
    PROVE  g = Heap' /\ mem' \in Words /\ bins' \in [Bins -> Int]
  BY DEF IsHeap, Store, Heap

(* While g_lock is free no thread has chosen a block it has yet to carve. *)
LEMMA NoneCarves ==
    ASSUME IInv, lock = NoThread
    PROVE  \A u \in Threads : pc[u] # "carve"
  BY ConstantsOK DEF IInv, LockFollowsPath

(* px_pool_free. *)
LEMMA FreePool ==
    ASSUME PoolInv, IInv, NEW t \in Threads, NEW i \in Ids, Free(t, i)
    PROVE  PoolStep
  <1>1. /\ pc[t] = "idle" /\ Held(i) /\ lock = NoThread
        /\ UNCHANGED <<high, init, gbase, gres, pc, call>>
    BY DEF Free, LockFree, poolVars
  <1>2. /\ i \in Objects /\ init = "done" /\ objs[i] # NoObj
        /\ \A u \in Threads : pc[u] \in Working => call[u].id # i
    BY <1>1, HeldFacts
  <1>3. PICK h : h = Heap
    OBVIOUS
  <1>4. PICK p : p = objs[i].ptr
    OBVIOUS
  <1>5. PICK g : g = BlockFree(h, Header(h, p))
    OBVIOUS
  <1>6. PICK H : H = HeldPtrs
    OBVIOUS
  <1>7. p \in H
    BY <1>2, <1>4, <1>6, HeldPtrsAre
  <1>8. PICK S, sz : Serving(S, sz)
    BY <1>2 DEF PoolInv, Managed
  <1>9. Sound(h, S, sz) /\ Serves(h, S, sz, H) /\ \A B \in AllocOf(h, S) : B - Base + sz[B] <= high
    BY <1>3, <1>6, <1>8 DEF Serving
  <1>10. PICK T, tz : /\ Sound(g, T, tz) /\ Serves(g, T, tz, H \ {p}) /\ Same(h, g, H \ {p})
                      /\ \A D \in AllocOf(g, T) : D \in AllocOf(h, S) /\ tz[D] = sz[D]
    BY <1>5, <1>7, <1>9, FreePointer
  <1>11. \A B \in AllocOf(g, T) : B - Base + tz[B] <= high'
    BY <1>1, <1>9, <1>10
  <1>12. Store(g)
    BY <1>3, <1>4, <1>5 DEF Free
  <1>13. g = Heap' /\ mem' \in Words /\ bins' \in [Bins -> Int]
    BY <1>10, <1>12, StoreFacts DEF Sound
  <1>14. PICK R : R = Others(t, i)
    OBVIOUS
  <1>15. PICK Q : Q = H \ {p}
    OBVIOUS
  <1>16. t \notin InFlight
    BY <1>1 DEF InFlight
  <1>17. \A q : q \in Q <=> q \in R
    <2>1. ASSUME NEW q \in Q PROVE q \in R
      <3>1. q \in HeldPtrs /\ q # objs[i].ptr
        BY <1>4, <1>6, <1>15
      <3>2. CASE \E j \in Objects : q = objs[j].ptr
        BY <1>14, <3>1, <3>2, OthersAre
      <3>3. CASE \E u \in InFlight : q = call[u].ptr
        BY <1>14, <1>16, <3>3, OthersAre
      <3> QED
        BY <3>1, <3>2, <3>3, HeldPtrsAre
    <2>2. ASSUME NEW q \in R PROVE q \in Q
      <3>1. q \in HeldPtrs
        BY <1>14, OthersAre
      <3>2. q # p
        BY <1>2, <1>4, <1>14, OthersAre DEF PoolInv, Distinct
      <3> QED
        BY <1>6, <1>15, <3>1, <3>2
    <2> QED
      BY <2>1, <2>2
  <1>18. Becomes(i, NoObj)
    BY DEF Free, Becomes
  <1>19. PICK c : c = call[t]
    OBVIOUS
  <1>20. PICK l \in Locations : l = "idle" /\ l \notin Working /\ l \notin Moving
    BY DEF Locations, Working, Asking, Moving
  <1>21. pc' = [pc EXCEPT ![t] = l] /\ call' = [call EXCEPT ![t] = c]
    BY <1>1, <1>19, <1>20 DEF IInv, Types
  <1>22. Placed(g, NoObj, i, l, c, R)
    <2>1. NoObj = Item(NoObj)
      BY DEF NoObj, Item
    <2>2. CallOK(g, l, c, NoObj)
      BY <1>20, NotWorking
    <2> QED
      BY <1>20, <2>1, <2>2 DEF Placed
  <1>23. Pointers(Q, R, NoObj, l, c)
    BY <1>17, <1>20 DEF Pointers
  <1>24. Below(g, T, tz, high') /\ StillFree(t, g, T)
    BY <1>1, <1>11, NoneCarves DEF Below, StillFree
  <1>25. high' \in 0 .. Res
    BY <1>1 DEF PoolInv, Shape
  <1>26. Same(h, g, Q) /\ Serves(g, T, tz, Q) /\ Sound(g, T, tz) /\ R \subseteq Q
    BY <1>10, <1>15, <1>17
  <1>27. UNCHANGED <<init, gbase, gres>> /\ Types /\ l \notin {"init", "poolinit", "carve"} /\ pc[t] \notin Working
    BY <1>1, <1>20 DEF IInv
  <1>28. PoolInv' /\ HeldPtrs' = Q
    BY <1>2, <1>3, <1>13, <1>14, <1>18, <1>20, <1>21, <1>22, <1>23, <1>24, <1>25, <1>26, <1>27, HeapStep
  <1>29. SizesKept(Q)
    BY <1>3, <1>13, <1>26, SizesFrom
  <1> QED
    BY <1>6, <1>7, <1>15, <1>28, <1>29 DEF PoolStep, HeldStep

(* Addresses and the indices of their words. *)
LEMMA RangeOfWords ==
    ASSUME NEW p \in Addr, NEW n \in Nat, n % 8 = 0, NEW first, first = (p - Base) \div 8
    PROVE  /\ first \in Nat /\ p = Base + 8 * first
           /\ \A a \in Addr : (a - Base) \div 8 \in first .. first + n \div 8 - 1
                              <=> (p <= a /\ a < p + n)
           /\ p + n <= End => \A w \in first .. first + n \div 8 - 1 :
                 /\ w \in 0 .. Res \div 8 - 1
                 /\ \E a \in Addr : p <= a /\ a < p + n /\ (a - Base) \div 8 = w
  <1>1. PICK q \in Int : q = p /\ q \in Addr
    BY DEF Addr
  <1>2. first \in 0 .. Res \div 8 - 1 /\ q = Base + 8 * first
    BY <1>1, WordIndex
  <1>3. PICK k \in Nat : n = 8 * k /\ n \div 8 = k
    <2>1. n = 8 * (n \div 8) /\ n \div 8 \in Nat
      OBVIOUS
    <2> QED
      BY <2>1
  <1>4. first \in Nat
    BY <1>2
  <1>5. ASSUME NEW a \in Addr
        PROVE  (a - Base) \div 8 \in first .. first + k - 1 <=> (q <= a /\ a < q + n)
    <2>1. PICK x \in Int : x = (a - Base) \div 8 /\ a = Base + 8 * x
      BY WordIndex
    <2>2. x \in first .. first + k - 1 <=> (q <= a /\ a < q + n)
      BY <1>2, <1>3, <1>4, <2>1, Region
    <2> QED
      BY <2>1, <2>2
  <1>6. ASSUME p + n <= End, NEW w \in first .. first + k - 1
        PROVE  /\ w \in 0 .. Res \div 8 - 1
               /\ \E a \in Addr : p <= a /\ a < p + n /\ (a - Base) \div 8 = w
    <2>1. PICK a \in Int : a = Base + 8 * w
      BY <1>4, Region
    <2>2. w \in Nat /\ w >= first /\ w < first + k
      BY <1>4
    <2>3. q <= a /\ a < q + n /\ a < End /\ Base <= a
      BY <1>1, <1>2, <1>3, <1>4, <1>6, <2>1, <2>2, Region
    <2>4. Base % 8 = 0
      BY Region
    <2>5. a % 8 = 0
      BY <2>1, <2>2, <2>4, Region
    <2>6. a \in Addr
      BY <2>3, <2>5 DEF Addr
    <2>7. (a - Base) \div 8 = w
      BY <2>1, <2>2, Region
    <2>8. w \in 0 .. Res \div 8 - 1
      BY <2>6, <2>7, WordIndex
    <2> QED
      BY <1>1, <2>3, <2>6, <2>7, <2>8
  <1> QED
    BY <1>1, <1>2, <1>3, <1>4, <1>5, <1>6

(* What a caller wrote, word by word. *)
LEMMA HoldsWords ==
    ASSUME NEW h, NEW p \in Addr, NEW n \in Nat, n % 8 = 0, p + n <= End, NEW i, Holds(h, p, n, i),
           NEW first, first = (p - Base) \div 8
    PROVE  \A w \in first .. first + n \div 8 - 1 : h.mem[w] = -i
  <1> SUFFICES ASSUME NEW w \in first .. first + n \div 8 - 1 PROVE h.mem[w] = -i
    OBVIOUS
  <1>1. PICK a \in Addr : p <= a /\ a < p + n /\ (a - Base) \div 8 = w
    BY RangeOfWords
  <1>2. Word(h, a) = -i
    BY <1>1 DEF Holds
  <1> QED
    BY <1>1, <1>2 DEF Word

(* The memory after the n bytes at p were written with the mark of i. *)
Written(m, p, n, v) ==
    [w \in DOMAIN m |-> IF w \in (p - Base) \div 8 .. (p - Base) \div 8 + n \div 8 - 1 THEN v ELSE m[w]]

(* Writing a range of words changes those words alone. *)
LEMMA WrittenFacts ==
    ASSUME NEW h, IsHeap(h), NEW p \in Addr, NEW n \in Nat, n % 8 = 0, NEW v \in Int,
           NEW m, m = Written(h.mem, p, n, v), NEW g, g = [mem |-> m, bins |-> h.bins]
    PROVE  /\ IsHeap(g) /\ g.bins = h.bins
           /\ \A a \in Addr : Word(g, a) = IF p <= a /\ a < p + n THEN v ELSE Word(h, a)
  <1>1. h.mem \in Words /\ h.bins \in [Bins -> Int] /\ DOMAIN h.mem = 0 .. Res \div 8 - 1
    BY DEF IsHeap, Words
  <1>2. PICK first : first = (p - Base) \div 8
    OBVIOUS
  <1>3. m = [w \in DOMAIN h.mem |-> IF w \in first .. first + n \div 8 - 1 THEN v ELSE h.mem[w]]
    BY <1>2 DEF Written
  <1>4. m \in Words
    BY <1>1, <1>3 DEF Words
  <1>5. g.mem = m /\ g.bins = h.bins
    OBVIOUS
  <1>6. IsHeap(g)
    BY <1>1, <1>4 DEF IsHeap
  <1>7. ASSUME NEW a \in Addr PROVE Word(g, a) = IF p <= a /\ a < p + n THEN v ELSE Word(h, a)
    <2>1. PICK w \in 0 .. Res \div 8 - 1 : w = (a - Base) \div 8
      BY WordIndex
    <2>2. w \in first .. first + n \div 8 - 1 <=> (p <= a /\ a < p + n)
      BY <1>2, <2>1, RangeOfWords
    <2>3. Word(g, a) = m[w] /\ Word(h, a) = h.mem[w]
      BY <1>5, <2>1 DEF Word
    <2>4. m[w] = IF w \in first .. first + n \div 8 - 1 THEN v ELSE h.mem[w]
      BY <1>1, <1>3
    <2> QED
      BY <2>2, <2>3, <2>4
  <1> QED
    BY <1>5, <1>6, <1>7

(* What a pointer reaches ends within the reservation. *)
LEMMA Extent ==
    ASSUME PoolInv, NEW p \in HeldPtrs
    PROVE  p + UsableSize(Heap, p) <= End
  <1>1. PICK S, sz : Serving(S, sz)
    BY HeldServed
  <1>2. PICK h : h = Heap
    OBVIOUS
  <1>3. PICK P : P = HeldPtrs
    OBVIOUS
  <1>4. Sound(h, S, sz) /\ Serves(h, S, sz, P) /\ p \in P
    BY <1>1, <1>2, <1>3 DEF Serving
  <1>5. PICK B : B = Header(h, p)
    OBVIOUS
  <1>6. B \in S /\ Within(p, B, sz[B]) /\ UsableSize(h, p) = Foot(B, sz[B]) - p
    BY <1>4, <1>5, PointerFacts
  <1>7. B \in Int /\ sz[B] \in Int /\ B + sz[B] <= End
    BY <1>4, <1>6, TileParts DEF Sound
  <1> QED
    BY <1>2, <1>6, <1>7, Region DEF Foot, Within

(* The pointers held, seen from a step of t on object i. *)
LEMMA HeldSplit ==
    ASSUME PoolInv, NEW t \in Threads, NEW i \in Objects
    PROVE  /\ \A q : q \in Others(t, i) => q \in HeldPtrs /\ q # objs[i].ptr
           /\ \A q : q \in HeldPtrs <=> \/ q \in Others(t, i)
                                        \/ q = objs[i].ptr
                                        \/ pc[t] \in Moving /\ q = call[t].ptr
           /\ pc[t] \in Moving => /\ call[t].ptr \notin Others(t, i) /\ objs[i].ptr # call[t].ptr
  <1>1. /\ \A j, k \in Objects : objs[j].ptr = objs[k].ptr => j = k
        /\ \A u, v \in InFlight : call[u].ptr = call[v].ptr => u = v
        /\ \A j \in Objects, u \in InFlight : objs[j].ptr # call[u].ptr
    BY DEF PoolInv, Distinct
  <1>2. pc[t] \in Moving <=> t \in InFlight
    BY HeldPtrsAre
  <1>3. /\ \A j \in Objects \ {i} : objs[j].ptr \in Others(t, i)
        /\ \A u \in InFlight \ {t} : call[u].ptr \in Others(t, i)
        /\ \A p \in Others(t, i) : (\E j \in Objects \ {i} : p = objs[j].ptr)
                                   \/ (\E u \in InFlight \ {t} : p = call[u].ptr)
        /\ \A p \in Others(t, i) : p \in HeldPtrs
    BY OthersAre
  <1>4. \A q : q \in Others(t, i) => q \in HeldPtrs /\ q # objs[i].ptr
    BY <1>1, <1>3
  <1>5. pc[t] \in Moving => call[t].ptr \notin Others(t, i) /\ objs[i].ptr # call[t].ptr
    BY <1>1, <1>2, <1>3
  <1>6. ASSUME NEW q \in HeldPtrs
        PROVE  q \in Others(t, i) \/ q = objs[i].ptr \/ (pc[t] \in Moving /\ q = call[t].ptr)
    <2>1. CASE \E j \in Objects : q = objs[j].ptr
      BY <1>3, <2>1
    <2>2. CASE \E u \in InFlight : q = call[u].ptr
      BY <1>2, <1>3, <2>2
    <2> QED
      BY <2>1, <2>2, HeldPtrsAre
  <1>7. objs[i].ptr \in HeldPtrs /\ (pc[t] \in Moving => call[t].ptr \in HeldPtrs)
    BY HeldPtrsAre
  <1> QED
    BY <1>3, <1>4, <1>5, <1>6, <1>7

(* A thread that fills, or moves, an object that is there. *)
LEMMA OwnerFacts ==
    ASSUME PoolInv, NEW t \in Threads, pc[t] \in {"fill"} \cup Moving, NEW i, i = call[t].id
    PROVE  /\ init = "done" /\ i \in Ids /\ i \in Objects /\ objs[i] # NoObj /\ objs[i] = Item(objs[i])
           /\ \A u \in Threads \ {t} : pc[u] \in Working => call[u].id # i
           /\ CallOK(Heap, pc[t], call[t], objs[i]) /\ ObjOK(Heap, objs[i], i)
           /\ pc[t] \in Moving => objs[i].written = UsableSize(Heap, objs[i].ptr)
  <1>1. pc[t] \in Working \ {"init"}
    BY DEF Working, Moving
  <1>2. /\ init = "done" /\ i \in Ids /\ CallOK(Heap, pc[t], call[t], objs[i])
        /\ \A u \in Threads \ {t} : pc[u] \in Working => call[u].id # i
    BY <1>1, WorkingFacts
  <1>3. objs[i] # NoObj
    BY <1>2 DEF CallOK
  <1>4. i \in Objects
    BY <1>2, <1>3 DEF Objects
  <1>5. ObjOK(Heap, objs[i], i)
    BY <1>4 DEF PoolInv, Contents
  <1>6. pc[t] \in Moving => objs[i].written = UsableSize(Heap, objs[i].ptr)
    <2> SUFFICES ASSUME pc[t] \in Moving PROVE objs[i].written = UsableSize(Heap, objs[i].ptr)
      OBVIOUS
    <2>1. \A u \in Threads : ~(pc[u] = "fill" /\ call[u].id = i)
      BY <1>2 DEF Working, Moving
    <2> QED
      BY <1>4, <2>1 DEF PoolInv, Filled
  <1>7. objs[i] = Item(objs[i])
    BY <1>2, ItemFacts
  <1> QED
    BY <1>2, <1>3, <1>4, <1>5, <1>6, <1>7

(* The caller writes its data. *)
LEMMA FillPool ==
    ASSUME PoolInv, Types, NEW t \in Threads, Fill(t)
    PROVE  PoolStep
  <1>1. /\ pc[t] = "fill" /\ UNCHANGED <<bins, high, init, gbase, gres>>
        /\ pc' = [pc EXCEPT ![t] = "idle"] /\ call' = [call EXCEPT ![t] = NoCall]
    BY DEF Fill, Return, Goto, poolVars
  <1>2. PICK i : i = call[t].id
    OBVIOUS
  <1>3. /\ init = "done" /\ i \in Ids /\ i \in Objects /\ objs[i] # NoObj /\ objs[i] = Item(objs[i])
        /\ \A u \in Threads \ {t} : pc[u] \in Working => call[u].id # i
        /\ ObjOK(Heap, objs[i], i)
    BY <1>1, <1>2, OwnerFacts
  <1>4. PICK h : h = Heap
    OBVIOUS
  <1>5. PICK p : p = objs[i].ptr
    OBVIOUS
  <1>6. PICK n : n = UsableSize(h, p)
    OBVIOUS
  <1>7. PICK H : H = HeldPtrs
    OBVIOUS
  <1>8. p \in H /\ p \in Addr /\ n \in Nat /\ n % 8 = 0
    BY <1>3, <1>4, <1>5, <1>6, <1>7, HeldPtrsAre, Reached
  <1>9. PICK v \in Int : v = -i
    BY <1>3 DEF Ids
  <1>10. PICK m : m = Written(h.mem, p, n, v)
    OBVIOUS
  <1>11. PICK g : g = [mem |-> m, bins |-> h.bins]
    OBVIOUS
  <1>12. PICK S, sz : Serving(S, sz)
    BY <1>3 DEF PoolInv, Managed
  <1>13. Sound(h, S, sz) /\ Serves(h, S, sz, H) /\ \A B \in AllocOf(h, S) : B - Base + sz[B] <= high
    BY <1>4, <1>7, <1>12 DEF Serving
  <1>14. IsHeap(h)
    BY <1>13 DEF Sound
  <1>15. /\ IsHeap(g) /\ g.bins = h.bins
         /\ \A a \in Addr : Word(g, a) = IF p <= a /\ a < p + n THEN v ELSE Word(h, a)
    BY <1>8, <1>10, <1>11, <1>14, WrittenFacts
  <1>16. \A a \in Addr : a \notin Bytes(h, p) => Word(g, a) = Word(h, a)
    BY <1>6, <1>15 DEF Bytes
  <1>17. /\ Sound(g, S, sz) /\ Serves(g, S, sz, H) /\ Same(h, g, H \ {p})
         /\ FreeOf(g, S) = FreeOf(h, S) /\ AllocOf(g, S) = AllocOf(h, S)
         /\ UsableSize(g, p) = UsableSize(h, p)
    BY <1>8, <1>13, <1>15, <1>16, WritePointer
  <1>18. mem' = m /\ bins' = h.bins
    <2>1. h.mem = mem /\ h.bins = bins
      BY <1>4 DEF Heap
    <2>2. mem' = Written(mem, p, n, v)
      BY <1>2, <1>4, <1>5, <1>6, <1>9 DEF Fill, Written
    <2> QED
      BY <1>1, <1>10, <2>1, <2>2
  <1>19. g = Heap' /\ mem' \in Words /\ bins' \in [Bins -> Int]
    BY <1>11, <1>15, <1>18 DEF Heap, IsHeap
  <1>20. PICK o : o = [objs[i] EXCEPT !.written = n, !.busy = FALSE]
    OBVIOUS
  <1>21. o = [ptr |-> objs[i].ptr, size |-> objs[i].size, align |-> objs[i].align,
              written |-> n, busy |-> FALSE]
    BY <1>3, <1>20 DEF Item
  <1>22. o = Item(o)
    BY <1>21 DEF Item
  <1>23. Becomes(i, o)
    <2>1. objs' = [objs EXCEPT ![i].written = n, ![i].busy = FALSE]
      BY <1>2, <1>4, <1>5, <1>6 DEF Fill
    <2>2. DOMAIN objs = Ids
      BY <1>3, ItemFacts
    <2> QED
      BY <1>3, <1>20, <2>1, <2>2 DEF Becomes
  <1>24. o.ptr = p /\ o.size = objs[i].size /\ o.align = objs[i].align /\ o.written = n
    BY <1>5, <1>21
  <1>25. o # NoObj
    BY <1>8, <1>24, Region DEF NoObj, Addr
  <1>26. ObjOK(g, o, i)
    <2>1. /\ UsableSize(h, p) >= o.size /\ \E k \in 4 .. 30 : 2^k >= o.align /\ p % 2^k = 0
      BY <1>3, <1>4, <1>5, <1>24 DEF ObjOK
    <2>2. Holds(g, p, n, i)
      BY <1>9, <1>15 DEF Holds
    <2>3. n <= UsableSize(g, p)
      BY <1>6, <1>8, <1>17
    <2> QED
      BY <1>8, <1>17, <1>24, <2>1, <2>2, <2>3 DEF ObjOK
  <1>27. PICK R : R = Others(t, i)
    OBVIOUS
  <1>28. PICK Q : Q = H \ {p}
    OBVIOUS
  <1>29. PICK l \in Locations : l = "idle" /\ l \notin Moving /\ l \notin Working /\ pc[t] \notin Moving
    BY <1>1 DEF Moving, Working, Asking, Locations
  <1>30. /\ R \subseteq Q /\ p \notin R
         /\ \A q : q \in H <=> q \in R \/ q = p
    BY <1>1, <1>3, <1>5, <1>7, <1>27, <1>28, <1>29, HeldSplit
  <1>31. PICK c : c = NoCall
    OBVIOUS
  <1>32. Placed(g, o, i, l, c, R)
    <2>1. CallOK(g, l, c, o)
      BY <1>29, NotWorking
    <2>2. o.ptr \notin R /\ o.written = UsableSize(g, o.ptr)
      BY <1>6, <1>17, <1>24, <1>30
    <2> QED
      BY <1>22, <1>26, <1>29, <2>1, <2>2 DEF Placed
  <1>33. StillFree(t, g, S)
    <2> SUFFICES ASSUME NEW u \in Threads, pc[u] = "carve"
                 PROVE  call[u].block \in FreeOf(g, S) /\ Need(u) <= BSize(g, call[u].block)
      BY DEF StillFree
    <2>1. PICK B : B = call[u].block
      OBVIOUS
    <2>2. B \in FreeOf(h, S) /\ Need(u) <= BSize(h, B)
      BY <1>4, <1>12, <2>1 DEF Serving
    <2>3. BSize(g, B) = BSize(h, B)
      BY <1>13, <1>17, <2>2 DEF Sound, Tagged, FreeOf
    <2> QED
      BY <1>17, <2>1, <2>2, <2>3
  <1>34. high' \in 0 .. Res
    BY <1>1 DEF PoolInv, Shape
  <1>35. Below(g, S, sz, high')
    BY <1>1, <1>13, <1>17 DEF Below
  <1>36. Sound(g, S, sz) /\ Serves(g, S, sz, H) /\ R \subseteq Q /\ Same(h, g, Q)
    BY <1>17, <1>28, <1>30
  <1>37. Pointers(H, R, o, l, c)
    BY <1>24, <1>25, <1>29, <1>30 DEF Pointers
  <1>38. UNCHANGED <<init, gbase, gres>> /\ pc' = [pc EXCEPT ![t] = l] /\ call' = [call EXCEPT ![t] = c]
    BY <1>1, <1>29, <1>31
  <1>39. init = "done" /\ i \in Ids /\ \A u \in Threads \ {t} : pc[u] \in Working => call[u].id # i
    BY <1>3
  <1>40. /\ l \notin {"init", "poolinit", "carve"}
         /\ pc[t] \in Working => call[t].id = i
    BY <1>2, <1>29
  <1>41. PoolInv' /\ HeldPtrs' = H
    BY <1>4, <1>19, <1>23, <1>27, <1>29, <1>32, <1>33, <1>34, <1>35, <1>36, <1>37, <1>38, <1>39,
       <1>40, HeapStep
  <1>42. SizesKept(H)
    <2>1. \A x \in H : UsableSize(g, x) = UsableSize(h, x)
      BY <1>17, <1>28, <1>36 DEF Same
    <2>2. \A x : UsableSize(g, x) = UsableSize(Heap, x)' /\ UsableSize(h, x) = UsableSize(Heap, x)
      BY <1>4, <1>19
    <2> QED
      BY <2>1, <2>2 DEF SizesKept
  <1> QED
    BY <1>7, <1>41, <1>42 DEF PoolStep, HeldStep

(* Blocks chosen by other threads, when a heap has the same free blocks. *)
LEMMA StillFreeKept ==
    ASSUME NEW t, NEW h, h = Heap, NEW S, NEW sz, Serving(S, sz), NEW g, Sound(g, S, sz),
           FreeOf(g, S) = FreeOf(h, S)
    PROVE  StillFree(t, g, S)
  <1> SUFFICES ASSUME NEW u \in Threads, pc[u] = "carve"
               PROVE  call[u].block \in FreeOf(g, S) /\ Need(u) <= BSize(g, call[u].block)
    BY DEF StillFree
  <1>1. PICK B : B = call[u].block
    OBVIOUS
  <1>2. B \in FreeOf(h, S) /\ Need(u) <= BSize(h, B)
    BY <1>1 DEF Serving
  <1>3. Sound(h, S, sz)
    BY DEF Serving
  <1>4. BSize(g, B) = BSize(h, B)
    BY <1>2, <1>3 DEF Sound, Tagged, FreeOf
  <1> QED
    BY <1>1, <1>2, <1>4

(* The memcpy of px_pool_realloc. *)
LEMMA CopyPool ==
    ASSUME PoolInv, Types, NEW t \in Threads, Copy(t)
    PROVE  PoolStep
  <1>1. /\ pc[t] = "copy" /\ UNCHANGED <<bins, high, init, gbase, gres, call, objs>>
        /\ pc' = [pc EXCEPT ![t] = "refree"]
    BY DEF Copy, Goto, poolVars
  <1>2. PICK c : c = call[t]
    OBVIOUS
  <1>3. PICK i : i = c.id
    OBVIOUS
  <1>4. PICK o : o = objs[i]
    OBVIOUS
  <1>5. PICK h : h = Heap
    OBVIOUS
  <1>6. PICK p : p = o.ptr
    OBVIOUS
  <1>7. PICK q : q = c.ptr
    OBVIOUS
  <1>8. PICK n : n = c.old
    OBVIOUS
  <1>9. PICK H : H = HeldPtrs
    OBVIOUS
  <1>10. pc[t] \in Moving
    BY <1>1 DEF Moving
  <1>11. /\ init = "done" /\ i \in Ids /\ i \in Objects /\ o # NoObj /\ o = Item(o)
         /\ \A u \in Threads \ {t} : pc[u] \in Working => call[u].id # i
         /\ CallOK(h, "copy", c, o) /\ ObjOK(h, o, i) /\ o.written = UsableSize(h, p)
    BY <1>1, <1>2, <1>3, <1>4, <1>5, <1>6, <1>10, OwnerFacts
  <1>12. c.size \in Nat /\ n = UsableSize(h, p) /\ n < c.size /\ UsableSize(h, q) >= c.size
    BY <1>6, <1>7, <1>8, <1>11 DEF CallOK, Moving
  <1>13. /\ p \in H /\ p \in Addr /\ p \in Int /\ UsableSize(h, p) \in Nat /\ UsableSize(h, p) % 8 = 0
         /\ q \in H /\ q \in Addr /\ q \in Int /\ UsableSize(h, q) \in Nat
         /\ p + UsableSize(h, p) <= End
    BY <1>2, <1>4, <1>5, <1>6, <1>7, <1>9, <1>10, <1>11, HeldPtrsAre, Reached, Extent
  <1>14. n \in Nat /\ n % 8 = 0 /\ p + n <= End /\ n <= UsableSize(h, q)
    BY <1>12, <1>13
  <1>15. Holds(h, p, n, i)
    BY <1>6, <1>11, <1>12 DEF ObjOK
  <1>16. PICK v \in Int : v = -i
    BY <1>11 DEF Ids
  <1>17. PICK m : m = Written(h.mem, q, n, v)
    OBVIOUS
  <1>18. PICK g : g = [mem |-> m, bins |-> h.bins]
    OBVIOUS
  <1>19. PICK S, sz : Serving(S, sz)
    BY <1>11 DEF PoolInv, Managed
  <1>20. Sound(h, S, sz) /\ Serves(h, S, sz, H) /\ Below(h, S, sz, high)
    BY <1>5, <1>9, <1>19 DEF Serving, Below
  <1>21. IsHeap(h)
    BY <1>20 DEF Sound
  <1>22. /\ IsHeap(g) /\ g.bins = h.bins
         /\ \A a \in Addr : Word(g, a) = IF q <= a /\ a < q + n THEN v ELSE Word(h, a)
    BY <1>13, <1>14, <1>17, <1>18, <1>21, WrittenFacts
  <1>23. \A a \in Addr : a \notin Bytes(h, q) => Word(g, a) = Word(h, a)
    <2>1. \A a \in Addr : q <= a /\ a < q + n => a \in Bytes(h, q)
      BY <1>13, <1>14 DEF Bytes, Addr
    <2> QED
      BY <1>22, <2>1
  <1>24. /\ Sound(g, S, sz) /\ Serves(g, S, sz, H) /\ Same(h, g, H \ {q})
         /\ FreeOf(g, S) = FreeOf(h, S) /\ AllocOf(g, S) = AllocOf(h, S)
         /\ UsableSize(g, q) = UsableSize(h, q)
    <2>1. q \in H /\ IsHeap(g) /\ g.bins = h.bins /\ Sound(h, S, sz) /\ Serves(h, S, sz, H)
      BY <1>13, <1>20, <1>22
    <2> QED
      BY <1>23, <2>1, WritePointer
  <1>25. mem' = m /\ bins' = h.bins
    <2>1. h.mem = mem /\ h.bins = bins
      BY <1>5 DEF Heap
    <2>2. PICK from : from = (p - Base) \div 8
      OBVIOUS
    <2>3. PICK to : to = (q - Base) \div 8
      OBVIOUS
    <2>4. from \in Nat /\ to \in Nat
      BY <1>13, <1>14, <2>2, <2>3, RangeOfWords
    <2>5. \A w \in from .. from + n \div 8 - 1 : mem[w] = v
      <3>1. p \in Addr /\ n \in Nat /\ n % 8 = 0 /\ p + n <= End
        BY <1>13, <1>14
      <3>2. \A w \in from .. from + n \div 8 - 1 : h.mem[w] = -i
        BY <1>15, <2>2, <3>1, HoldsWords
      <3> QED
        BY <1>16, <2>1, <3>2
    <2>6. ASSUME NEW w \in to .. to + n \div 8 - 1 PROVE mem[from + w - to] = v
      <3>1. from + w - to \in from .. from + n \div 8 - 1
        BY <1>14, <2>4
      <3> QED
        BY <2>5, <3>1
    <2>7. mem' = [w \in DOMAIN mem |->
                    IF w \in to .. to + n \div 8 - 1 THEN mem[from + w - to] ELSE mem[w]]
      BY <1>2, <1>3, <1>4, <1>6, <1>7, <1>8, <2>2, <2>3 DEF Copy
    <2>8. mem' = [w \in DOMAIN mem |-> IF w \in to .. to + n \div 8 - 1 THEN v ELSE mem[w]]
      BY <2>6, <2>7
    <2>9. mem' = Written(mem, q, n, v)
      BY <2>3, <2>8 DEF Written
    <2> QED
      BY <1>1, <1>17, <2>1, <2>9
  <1>26. g = Heap' /\ mem' \in Words /\ bins' \in [Bins -> Int]
    BY <1>18, <1>22, <1>25 DEF Heap, IsHeap
  <1>27. PICK R : R = Others(t, i)
    OBVIOUS
  <1>28. PICK Q : Q = H \ {q}
    OBVIOUS
  <1>29. /\ \A x : x \in R => x \in H /\ x # p
         /\ \A x : x \in H <=> x \in R \/ x = p \/ x = q
         /\ q \notin R /\ p # q
    BY <1>2, <1>4, <1>6, <1>7, <1>9, <1>10, <1>11, <1>27, HeldSplit
  <1>30. R \subseteq Q /\ p \in Q /\ Same(h, g, Q)
    BY <1>13, <1>24, <1>28, <1>29
  <1>31. PICK l \in Locations : l = "refree" /\ l \in Moving /\ l \in Working
    BY DEF Moving, Working, Locations
  <1>32. Becomes(i, o)
    <2>1. objs = [j \in Ids |-> objs[j]]
      BY DEF PoolInv, Shape
    <2> QED
      BY <1>1, <1>4, <2>1 DEF Becomes
  <1>33. UsableSize(g, p) = UsableSize(h, p)
    BY <1>30 DEF Same
  <1>34. Placed(g, o, i, l, c, R)
    <2>1. ObjOK(g, o, i)
      BY <1>6, <1>11, <1>13, <1>30, ObjKept
    <2>2. Holds(g, q, n, i)
      BY <1>16, <1>22 DEF Holds
    <2>3. CallOK(g, l, c, o)
      BY <1>3, <1>6, <1>7, <1>8, <1>11, <1>12, <1>24, <1>31, <1>33, <2>2 DEF CallOK, Working, Asking, Moving
    <2>4. o.ptr \notin R /\ c.ptr \notin R /\ o.ptr # c.ptr
      BY <1>6, <1>7, <1>29
    <2>5. o.written = UsableSize(g, o.ptr)
      BY <1>6, <1>11, <1>33
    <2> QED
      BY <1>3, <1>11, <2>1, <2>3, <2>4, <2>5 DEF Placed
  <1>35. Pointers(H, R, o, l, c)
    BY <1>6, <1>7, <1>11, <1>29, <1>31 DEF Pointers
  <1>36. StillFree(t, g, S)
    BY <1>5, <1>19, <1>24, StillFreeKept
  <1>37. Below(g, S, sz, high') /\ high' \in 0 .. Res
    BY <1>1, <1>20, <1>24 DEF Below, PoolInv, Shape
  <1>38. /\ UNCHANGED <<init, gbase, gres>>
         /\ pc' = [pc EXCEPT ![t] = l] /\ call' = [call EXCEPT ![t] = c]
    BY <1>1, <1>2, <1>31 DEF Types
  <1>39. init = "done" /\ i \in Ids /\ \A u \in Threads \ {t} : pc[u] \in Working => call[u].id # i
    BY <1>11
  <1>40. /\ l \notin {"init", "poolinit", "carve"}
         /\ pc[t] \in Working => call[t].id = i
    BY <1>2, <1>3, <1>31
  <1>41. Sound(g, S, sz) /\ Serves(g, S, sz, H)
    BY <1>24
  <1>42. PoolInv' /\ HeldPtrs' = H
    BY <1>5, <1>26, <1>27, <1>30, <1>31, <1>32, <1>34, <1>35, <1>36, <1>37, <1>38, <1>39, <1>40,
       <1>41, HeapStep
  <1>43. SizesKept(H)
    <2>1. \A x \in H : UsableSize(g, x) = UsableSize(h, x)
      BY <1>24, <1>28, <1>30 DEF Same
    <2>2. \A x : UsableSize(g, x) = UsableSize(Heap, x)' /\ UsableSize(h, x) = UsableSize(Heap, x)
      BY <1>5, <1>26
    <2> QED
      BY <2>1, <2>2 DEF SizesKept
  <1> QED
    BY <1>9, <1>42, <1>43 DEF PoolStep, HeldStep

(* The nested px_pool_free of px_pool_realloc. *)
LEMMA FreeOldPool ==
    ASSUME PoolInv, IInv, NEW t \in Threads, FreeOld(t)
    PROVE  PoolStep
  <1>1. /\ pc[t] = "refree" /\ lock = NoThread /\ UNCHANGED <<high, init, gbase, gres, call>>
        /\ pc' = [pc EXCEPT ![t] = "fill"]
    BY DEF FreeOld, LockFree, Goto, poolVars
  <1>2. PICK c : c = call[t]
    OBVIOUS
  <1>3. PICK i : i = c.id
    OBVIOUS
  <1>4. PICK o : o = objs[i]
    OBVIOUS
  <1>5. PICK h : h = Heap
    OBVIOUS
  <1>6. PICK p : p = o.ptr
    OBVIOUS
  <1>7. PICK q : q = c.ptr
    OBVIOUS
  <1>8. PICK n : n = c.old
    OBVIOUS
  <1>9. PICK H : H = HeldPtrs
    OBVIOUS
  <1>10. pc[t] \in Moving
    BY <1>1 DEF Moving
  <1>11. /\ init = "done" /\ i \in Ids /\ i \in Objects /\ o # NoObj /\ o = Item(o)
         /\ \A u \in Threads \ {t} : pc[u] \in Working => call[u].id # i
         /\ CallOK(h, "refree", c, o)
    BY <1>1, <1>2, <1>3, <1>4, <1>5, <1>10, OwnerFacts
  <1>12. /\ c.size \in Nat /\ n = UsableSize(h, p) /\ n < c.size /\ UsableSize(h, q) >= c.size
         /\ Holds(h, q, n, i) /\ o.busy = TRUE
    BY <1>3, <1>6, <1>7, <1>8, <1>11 DEF CallOK, Moving, Working
  <1>13. /\ p \in H /\ UsableSize(h, p) \in Nat /\ UsableSize(h, p) % 8 = 0
         /\ q \in H /\ q \in Addr /\ q \in Int /\ q % 16 = 0 /\ UsableSize(h, q) \in Nat
    BY <1>2, <1>4, <1>5, <1>6, <1>7, <1>9, <1>10, <1>11, HeldPtrsAre, Reached
  <1>14. n \in Nat /\ n % 8 = 0 /\ n <= UsableSize(h, q)
    BY <1>12, <1>13
  <1>15. PICK g : g = BlockFree(h, Header(h, p))
    OBVIOUS
  <1>16. PICK S, sz : Serving(S, sz)
    BY <1>11 DEF PoolInv, Managed
  <1>17. Sound(h, S, sz) /\ Serves(h, S, sz, H) /\ Below(h, S, sz, high)
    BY <1>5, <1>9, <1>16 DEF Serving, Below
  <1>18. PICK T, tz : /\ Sound(g, T, tz) /\ Serves(g, T, tz, H \ {p}) /\ Same(h, g, H \ {p})
                      /\ \A D \in AllocOf(g, T) : D \in AllocOf(h, S) /\ tz[D] = sz[D]
    <2>1. p \in H
      BY <1>13
    <2> QED
      BY <1>15, <1>17, <2>1, FreePointer
  <1>19. Below(g, T, tz, high') /\ StillFree(t, g, T)
    BY <1>1, <1>17, <1>18, NoneCarves DEF Below, StillFree
  <1>20. Store(g)
    BY <1>2, <1>3, <1>4, <1>5, <1>6, <1>15 DEF FreeOld
  <1>21. g = Heap' /\ mem' \in Words /\ bins' \in [Bins -> Int]
    BY <1>18, <1>20, StoreFacts DEF Sound
  <1>22. PICK R : R = Others(t, i)
    OBVIOUS
  <1>23. PICK Q : Q = H \ {p}
    OBVIOUS
  <1>24. /\ \A x : x \in R => x \in H /\ x # p
         /\ \A x : x \in H <=> x \in R \/ x = p \/ x = q
         /\ q \notin R /\ p # q
    BY <1>2, <1>4, <1>6, <1>7, <1>9, <1>10, <1>11, <1>22, HeldSplit
  <1>25. R \subseteq Q /\ q \in Q /\ Same(h, g, Q) /\ \A x : x \in Q <=> x \in R \/ x = q
    BY <1>13, <1>18, <1>23, <1>24
  <1>26. PICK w : w = [o EXCEPT !.ptr = q, !.size = c.size, !.align = 16, !.written = n]
    OBVIOUS
  <1>27. w = [ptr |-> q, size |-> c.size, align |-> 16, written |-> n, busy |-> o.busy]
    BY <1>11, <1>26 DEF Item
  <1>28. w = Item(w)
    BY <1>27 DEF Item
  <1>29. w.ptr = q /\ w.size = c.size /\ w.align = 16 /\ w.written = n /\ w.busy = TRUE
    BY <1>12, <1>27
  <1>30. w # NoObj
    BY <1>13, <1>29, Region DEF NoObj, Addr
  <1>31. Becomes(i, w)
    BY <1>2, <1>3, <1>4, <1>7, <1>8, <1>11, <1>26, ItemFacts DEF FreeOld, Becomes
  <1>32. ObjOK(h, w, i)
    <2>1. \E k \in 4 .. 30 : 2^k >= 16 /\ q % 2^k = 0
      <3>1. 2^4 = 16
        BY SMT
      <3>2. 2^4 >= 16 /\ q % 2^4 = 0
        BY <1>13, <3>1
      <3> QED
        BY <3>2
    <2> QED
      BY <1>12, <1>14, <1>29, <2>1 DEF ObjOK
  <1>33. ObjOK(g, w, i)
    BY <1>13, <1>25, <1>29, <1>32, ObjKept
  <1>34. PICK l \in Locations : l = "fill" /\ l \notin Moving /\ l \in Working
    BY DEF Moving, Working, Locations
  <1>35. Placed(g, w, i, l, c, R)
    <2>1. CallOK(g, l, c, w)
      BY <1>29, <1>30, <1>34 DEF CallOK, Moving, Asking
    <2>2. w.ptr \notin R
      BY <1>24, <1>29
    <2> QED
      BY <1>3, <1>28, <1>33, <1>34, <2>1, <2>2 DEF Placed
  <1>36. Pointers(Q, R, w, l, c)
    BY <1>25, <1>29, <1>30, <1>34 DEF Pointers
  <1>37. high' \in 0 .. Res
    BY <1>1 DEF PoolInv, Shape
  <1>38. /\ UNCHANGED <<init, gbase, gres>> /\ Types
         /\ pc' = [pc EXCEPT ![t] = l] /\ call' = [call EXCEPT ![t] = c]
    BY <1>1, <1>2, <1>34 DEF IInv, Types
  <1>39. init = "done" /\ i \in Ids /\ \A u \in Threads \ {t} : pc[u] \in Working => call[u].id # i
    BY <1>11
  <1>40. /\ l \notin {"init", "poolinit", "carve"}
         /\ pc[t] \in Working => call[t].id = i
    BY <1>2, <1>3, <1>34
  <1>41. Sound(g, T, tz) /\ Serves(g, T, tz, Q) /\ R \subseteq Q /\ Same(h, g, Q)
    BY <1>18, <1>23, <1>25
  <1>42. PoolInv' /\ HeldPtrs' = Q
    BY <1>5, <1>19, <1>21, <1>22, <1>31, <1>34, <1>35, <1>36, <1>37, <1>38, <1>39, <1>40,
       <1>41, HeapStep
  <1>43. SizesKept(Q)
    BY <1>5, <1>21, <1>25, SizesFrom
  <1> QED
    BY <1>9, <1>13, <1>23, <1>42, <1>43 DEF PoolStep, HeldStep

(* The second half of block_alloc. *)
LEMMA CarvePool ==
    ASSUME PoolInv, IInv, NEW t \in Threads, CarveBlock(t)
    PROVE  PoolStep
  <1>1. pc[t] = "carve" /\ UNCHANGED <<init, gbase, gres>>
    BY DEF CarveBlock, poolVars
  <1>2. PICK c : c = call[t]
    OBVIOUS
  <1>3. PICK i : i = c.id
    OBVIOUS
  <1>4. PICK o : o = objs[i]
    OBVIOUS
  <1>5. PICK h : h = Heap
    OBVIOUS
  <1>6. PICK B : B = c.block
    OBVIOUS
  <1>7. PICK size : size = c.size
    OBVIOUS
  <1>8. PICK align : align = c.align
    OBVIOUS
  <1>9. PICK n : n = NeedBSize(size, align)
    OBVIOUS
  <1>10. PICK H : H = HeldPtrs
    OBVIOUS
  <1>11. pc[t] \in Working \ {"init"} /\ pc[t] \notin Moving /\ pc[t] # "fill"
    BY <1>1 DEF Working, Asking, Moving
  <1>12. /\ init = "done" /\ i \in Ids /\ CallOK(h, "carve", c, o) /\ o = Item(o)
         /\ \A u \in Threads \ {t} : pc[u] \in Working => call[u].id # i
         /\ o # NoObj <=> i \in Objects
    BY <1>1, <1>2, <1>3, <1>4, <1>5, <1>11, WorkingFacts, ItemFacts DEF Objects
  <1>13. size \in Nat /\ align \in Nat /\ InRange(size, align) /\ Need(t) = n /\ n \in Int
    BY <1>1, <1>2, <1>7, <1>8, <1>9, NeedOf
  <1>14. PICK S, sz : Serving(S, sz)
    BY <1>12 DEF PoolInv, Managed
  <1>15. /\ Sound(h, S, sz) /\ Serves(h, S, sz, H) /\ Below(h, S, sz, high)
         /\ B \in FreeOf(h, S) /\ n <= BSize(h, B)
    BY <1>1, <1>2, <1>5, <1>6, <1>10, <1>13, <1>14 DEF Serving, Below
  <1>16. PICK k : k = Carve(h, B, n)
    OBVIOUS
  <1>17. PICK p : p = Payload(B, align)
    OBVIOUS
  <1>18. PICK g : g = Put(k, p - 8, B)
    OBVIOUS
  <1>19. PICK P : P = H \cup {p}
    OBVIOUS
  <1>20. PICK T, tz :
            /\ Sound(g, T, tz) /\ Serves(g, T, tz, P) /\ Same(h, g, H) /\ p \notin H
            /\ \A D \in AllocOf(g, T) : (D \in AllocOf(h, S) /\ tz[D] = sz[D])
                                        \/ (D = B /\ tz[D] = BSize(k, B))
            /\ Header(g, p) = B /\ UsableSize(g, p) >= size
            /\ \E j \in 4 .. 30 : 2^j >= align /\ p % 2^j = 0
    <2>1. size \in Nat /\ align \in Nat /\ InRange(size, align)
      BY <1>13
    <2>2. Sound(h, S, sz) /\ Serves(h, S, sz, H) /\ B \in FreeOf(h, S) /\ n <= BSize(h, B)
      BY <1>15
    <2> QED
      BY <1>9, <1>16, <1>17, <1>18, <1>19, <2>1, <2>2, CarvePointer
  <1>21. /\ B \in AllocOf(g, T) /\ B \in T /\ p \in Addr
         /\ UsableSize(g, p) \in Int /\ UsableSize(g, p) >= 8
    <2>1. p \in P /\ Serves(g, T, tz, P) /\ B = Header(g, p) /\ Sound(g, T, tz)
      BY <1>20, <1>19
    <2> QED
      BY <2>1, PointerFacts
  <1>22. PICK end : end = B - Base + BSize(k, B)
    OBVIOUS
  <1>23. tz[B] = BSize(k, B)
    BY <1>15, <1>20, <1>21 DEF FreeOf, AllocOf
  <1>24. end \in Int /\ 0 <= end /\ end <= Res
    <2>1. Tile(T, tz)
      BY <1>20 DEF Sound
    <2>2. B \in Int /\ tz[B] \in Int /\ Base <= B /\ tz[B] >= 0 /\ B + tz[B] <= End
      BY <1>21, <2>1, TileParts
    <2> QED
      BY <1>22, <1>23, <2>2, Region DEF End
  <1>25. high \in 0 .. Res
    BY DEF PoolInv, Shape
  <1>26. high' = IF end > high THEN end ELSE high
    BY <1>2, <1>5, <1>6, <1>13, <1>16, <1>22 DEF CarveBlock, HighAfter
  <1>27. high' \in 0 .. Res /\ high <= high' /\ end <= high'
    BY <1>24, <1>25, <1>26
  <1>28. Below(g, T, tz, high')
    <2> SUFFICES ASSUME NEW D \in AllocOf(g, T) PROVE D - Base + tz[D] <= high'
      BY DEF Below
    <2>1. CASE D = B
      BY <1>22, <1>23, <1>27, <2>1
    <2>2. CASE D \in AllocOf(h, S) /\ tz[D] = sz[D]
      <3>1. D - Base + sz[D] <= high
        BY <1>15, <2>2 DEF Below
      <3>2. D \in Int /\ sz[D] \in Int
        BY <1>15, <2>2, TileParts DEF Sound, AllocOf
      <3> QED
        BY <1>25, <1>27, <2>2, <3>1, <3>2, Region
    <2> QED
      BY <1>20, <2>1, <2>2
  <1>29. StillFree(t, g, T)
    BY <1>1 DEF IInv, LockFollowsPath, StillFree
  <1>30. Store(g)
    BY <1>2, <1>5, <1>6, <1>8, <1>13, <1>16, <1>17, <1>18 DEF CarveBlock
  <1>31. g = Heap' /\ mem' \in Words /\ bins' \in [Bins -> Int]
    BY <1>20, <1>30, StoreFacts DEF Sound
  <1>32. PICK R : R = Others(t, i)
    OBVIOUS
  <1>33. PICK d : d = [c EXCEPT !.ptr = p]
    OBVIOUS
  <1>34. c = Local(c)
    BY <1>2 DEF IInv, Types
  <1>35. d.id = i /\ d.size = size /\ d.align = align /\ d.old = c.old /\ d.ptr = p
    BY <1>3, <1>7, <1>8, <1>33, <1>34 DEF Local
  <1>36. call' = [call EXCEPT ![t] = d]
    <2>1. call' = [call EXCEPT ![t].ptr = p]
      BY <1>2, <1>6, <1>8, <1>17 DEF CarveBlock
    <2> QED
      BY <1>2, <1>33, <2>1
  <1>37. /\ UNCHANGED <<init, gbase, gres>> /\ Types /\ init = "done"
         /\ \A u \in Threads \ {t} : pc[u] \in Working => call[u].id # i
    BY <1>1, <1>12 DEF IInv
  <1>38. pc[t] \in Working => call[t].id = i
    BY <1>2, <1>3
  <1>39. /\ Sound(g, T, tz) /\ Serves(g, T, tz, P) /\ Same(h, g, H)
         /\ \A x : x \in P <=> x \in H \/ x = p
    BY <1>20, <1>19
  <1>40. SizesKept(H)
    BY <1>5, <1>31, <1>39, SizesFrom
  <1>41. HeldPtrs' = P => HeldStep
    BY <1>10, <1>20, <1>19, <1>40 DEF HeldStep
  <1>42. R \subseteq H
    BY <1>10, <1>32, OthersAre
  <1>43. p \notin R
    BY <1>20, <1>42
  <1>44. CASE /\ o = NoObj /\ Goto(t, "fill")
              /\ objs' = [objs EXCEPT ![c.id] =
                    [NoObj EXCEPT !.ptr = p, !.size = c.size, !.align = c.align, !.busy = TRUE]]
    <2>1. PICK w : w = [NoObj EXCEPT !.ptr = p, !.size = size, !.align = align, !.busy = TRUE]
      OBVIOUS
    <2>2. w = [ptr |-> p, size |-> size, align |-> align, written |-> 0, busy |-> TRUE]
      BY <2>1 DEF NoObj
    <2>3. w = Item(w)
      BY <2>2 DEF Item
    <2>4. w.ptr = p /\ w.size = size /\ w.align = align /\ w.written = 0 /\ w.busy = TRUE
      BY <2>2
    <2>5. w # NoObj
      BY <1>21, <2>4, Region DEF NoObj, Addr
    <2>6. Becomes(i, w)
      BY <1>3, <1>7, <1>8, <1>44, <2>1 DEF Becomes
    <2>7. PICK l \in Locations : l = "fill" /\ l \notin Moving /\ l \in Working
      BY DEF Moving, Working, Locations
    <2>8. ObjOK(g, w, i)
      <3>1. 0 \in Nat /\ 0 % 8 = 0 /\ 0 <= UsableSize(g, p)
        BY <1>21
      <3>2. Holds(g, p, 0, i)
        BY <1>21 DEF Holds, Addr
      <3> QED
        BY <1>20, <2>4, <3>1, <3>2 DEF ObjOK
    <2>9. Placed(g, w, i, l, d, R)
      <3>1. CallOK(g, l, d, w)
        BY <2>4, <2>5, <2>7 DEF CallOK, Moving, Asking
      <3>2. w.ptr \notin R
        BY <1>43, <2>4
      <3> QED
        BY <1>35, <2>3, <2>7, <2>8, <3>1, <3>2 DEF Placed
    <2>10. \A x : x \in H <=> x \in R
      <3>1. t \notin InFlight /\ i \notin Objects
        BY <1>11, <1>12, <1>44, HeldPtrsAre
      <3>2. \A x \in H : x \in R
        BY <1>10, <1>32, <3>1, HeldPtrsAre, OthersAre
      <3> QED
        BY <1>42, <3>2
    <2>11. Pointers(P, R, w, l, d)
      BY <1>39, <2>4, <2>5, <2>7, <2>10 DEF Pointers
    <2>12. pc' = [pc EXCEPT ![t] = l] /\ l \notin {"init", "poolinit", "carve"}
      BY <1>44, <2>7 DEF Goto
    <2>13. PoolInv' /\ HeldPtrs' = P
      BY <1>5, <1>12, <1>27, <1>28, <1>29, <1>31, <1>32, <1>36, <1>37, <1>38, <1>39, <1>42, <2>6,
         <2>7, <2>9, <2>11, <2>12, HeapStep
    <2> QED
      BY <1>41, <2>13 DEF PoolStep
  <1>45. CASE o # NoObj /\ Goto(t, "copy") /\ UNCHANGED objs
    <2>1. PICK q : q = o.ptr
      OBVIOUS
    <2>2. i \in Objects
      BY <1>12, <1>45
    <2>3. q \in H /\ q \in Int /\ UsableSize(h, q) \in Int
      BY <1>4, <1>5, <1>10, <2>1, <2>2, ReachedByName
    <2>4. o.written = UsableSize(h, q) /\ ObjOK(h, o, i)
      <3>1. \A u \in Threads : ~(pc[u] = "fill" /\ call[u].id = i)
        BY <1>11, <1>12 DEF Working
      <3> QED
        BY <1>4, <1>5, <2>1, <2>2, <3>1 DEF PoolInv, Filled, Contents
    <2>5. ObjOK(g, o, i)
      BY <1>39, <2>1, <2>3, <2>4, ObjKept
    <2>6. UsableSize(g, q) = UsableSize(h, q)
      BY <1>39, <2>3 DEF Same
    <2>7. Becomes(i, o)
      <3>1. objs = [j \in Ids |-> objs[j]]
        BY DEF PoolInv, Shape
      <3> QED
        BY <1>4, <1>45, <3>1 DEF Becomes
    <2>8. PICK l \in Locations : l = "copy" /\ l \in Moving /\ l \in Working
      BY DEF Moving, Working, Locations
    <2>9. /\ \A x : x \in R => x \in H /\ x # q
          /\ \A x : x \in H <=> x \in R \/ x = q
      BY <1>4, <1>10, <1>11, <1>32, <2>1, <2>2, HeldSplit
    <2>10. Placed(g, o, i, l, d, R)
      <3>1. /\ c.size \in Nat /\ c.old = UsableSize(h, q) /\ c.old < c.size /\ c.align = 16
            /\ o.busy = TRUE
        BY <1>12, <1>45, <2>1 DEF CallOK, Asking, Working
      <3>2. CallOK(g, l, d, o)
        BY <1>7, <1>8, <1>20, <1>35, <1>45, <2>1, <2>6, <2>8, <3>1 DEF CallOK, Moving, Asking, Working
      <3>3. o.ptr \notin R /\ d.ptr \notin R /\ o.ptr # d.ptr
        BY <1>20, <1>35, <1>43, <2>1, <2>3, <2>9
      <3>4. o.written = UsableSize(g, o.ptr)
        BY <2>1, <2>4, <2>6
      <3> QED
        BY <1>12, <1>35, <2>5, <3>2, <3>3, <3>4 DEF Placed
    <2>11. Pointers(P, R, o, l, d)
      BY <1>35, <1>39, <1>45, <2>1, <2>8, <2>9 DEF Pointers
    <2>12. pc' = [pc EXCEPT ![t] = l] /\ l \notin {"init", "poolinit", "carve"}
      BY <1>45, <2>8 DEF Goto
    <2>13. PoolInv' /\ HeldPtrs' = P
      BY <1>5, <1>12, <1>27, <1>28, <1>29, <1>31, <1>32, <1>36, <1>37, <1>38, <1>39, <1>42, <2>7,
         <2>8, <2>10, <2>11, <2>12, HeapStep
    <2> QED
      BY <1>41, <2>13 DEF PoolStep
  <1> QED
    <2>1. \/ /\ o = NoObj /\ Goto(t, "fill")
             /\ objs' = [objs EXCEPT ![c.id] =
                   [NoObj EXCEPT !.ptr = p, !.size = c.size, !.align = c.align, !.busy = TRUE]]
          \/ o # NoObj /\ Goto(t, "copy") /\ UNCHANGED objs
      BY <1>2, <1>3, <1>4, <1>6, <1>8, <1>17 DEF CarveBlock
    <2> QED
      BY <1>44, <1>45, <2>1

(* Before the first call there is no pool and nothing is held. *)
LEMMA InitPool == Init => PoolInv
  <1> SUFFICES ASSUME Init PROVE PoolInv
    OBVIOUS
  <1>1. /\ \A i \in Ids : objs[i] = NoObj
        /\ \A t \in Threads : pc[t] = "idle"
    BY DEF Init
  <1>2. Objects = {} /\ InFlight = {}
    BY <1>1 DEF Objects, InFlight
  <1>3. \A t \in Threads : pc[t] \notin Working
    BY <1>1 DEF Working, Asking, Moving
  <1>4. Shape
    <2>1. mem \in Words
      BY Region DEF Init, Words
    <2>2. bins \in [Bins -> Int] /\ high \in 0 .. Res
      BY Region DEF Init, Bins
    <2>3. init \in {"no", "done", "failed"} /\ gbase \in {Null, Base} /\ gres \in {0, Res}
      BY DEF Init
    <2>4. NoObj = Item(NoObj)
      BY DEF NoObj, Item
    <2>5. objs = [i \in Ids |-> Item(objs[i])]
      BY <2>4 DEF Init
    <2> QED
      BY <2>1, <2>2, <2>3, <2>5 DEF Shape
  <1>5. Begun /\ Apart
    BY <1>1, <1>2, <1>3 DEF Begun, Apart
  <1>6. Distinct /\ Contents /\ Filled
    BY <1>2 DEF Distinct, Contents, Filled
  <1>7. Calls
    BY <1>3, NotWorking DEF Calls
  <1>8. Managed
    BY DEF Init, Managed
  <1> QED
    BY <1>4, <1>5, <1>6, <1>7, <1>8 DEF PoolInv

(* A step that changes nothing. *)
LEMMA StutterPool == PoolInv /\ UNCHANGED vars => PoolStep
  <1> SUFFICES ASSUME PoolInv, UNCHANGED vars PROVE PoolStep
    OBVIOUS
  <1>1. UNCHANGED <<mem, bins, high, init, gbase, gres, pc, call, objs>>
    BY DEF vars
  <1>2. PICK h : h = Heap /\ h = Heap'
    BY <1>1 DEF Heap
  <1>3. Objects' = Objects /\ InFlight' = InFlight /\ HeldPtrs' = HeldPtrs
    BY <1>1 DEF Objects, InFlight, HeldPtrs
  <1>4. Shape'
    BY <1>1 DEF PoolInv, Shape
  <1>5. Begun' /\ Apart' /\ Distinct'
    BY <1>1, <1>3 DEF PoolInv, Begun, Apart, Distinct
  <1>6. Calls' /\ Contents' /\ Filled'
    BY <1>1, <1>2, <1>3 DEF PoolInv, Calls, Contents, Filled
  <1>7. Managed'
    <2> SUFFICES ASSUME init' = "done" PROVE \E S, sz : Serving(S, sz)'
      BY DEF Managed
    <2>1. PICK S, sz : Serving(S, sz)
      BY <1>1 DEF PoolInv, Managed
    <2>2. \A t \in Threads : Need(t)' = Need(t)
      BY <1>1 DEF Need
    <2>3. Serving(S, sz)'
      BY <1>1, <1>2, <1>3, <2>1, <2>2 DEF Serving
    <2> QED
      BY <2>3
  <1>8. HeldStep
    <2>1. \A p : UsableSize(h, p) = UsableSize(Heap, p) /\ UsableSize(h, p) = UsableSize(Heap, p)'
      BY <1>2
    <2> QED
      BY <1>3, <2>1 DEF HeldStep, SizesKept
  <1> QED
    BY <1>4, <1>5, <1>6, <1>7, <1>8 DEF PoolInv, PoolStep

(* The inductive step, action by action. *)
LEMMA NextPool == IInv /\ PoolInv /\ [Next]_vars => PoolStep
  <1> SUFFICES ASSUME IInv, PoolInv, [Next]_vars PROVE PoolStep
    OBVIOUS
  <1>1. Types /\ RequestsInRange
    BY RequestsAssumption DEF IInv
  <1>2. CASE UNCHANGED vars
    BY <1>2, StutterPool
  <1>3. ASSUME NEW t \in Threads, NEW r \in Requests, Alloc(t, r[1], r[2]) PROVE PoolStep
    BY <1>1, <1>3, AllocPool
  <1>4. ASSUME NEW t \in Threads, NEW i \in Ids, Free(t, i) PROVE PoolStep
    BY <1>4, FreePool
  <1>5. ASSUME NEW t \in Threads, NEW i \in Ids, NEW n \in ReallocSizes, Realloc(t, i, n)
        PROVE  PoolStep
    BY <1>1, <1>5, ReallocPool
  <1>6. ASSUME NEW t \in Threads, Locked(t) PROVE PoolStep
    BY <1>1, <1>6, MapRegionPool, PublishPool, ScanPool, CarvePool DEF Locked
  <1>7. ASSUME NEW t \in Threads, Fill(t) PROVE PoolStep
    BY <1>1, <1>7, FillPool
  <1>8. ASSUME NEW t \in Threads, Relock(t) PROVE PoolStep
    BY <1>1, <1>8, RelockPool
  <1>9. ASSUME NEW t \in Threads, Copy(t) PROVE PoolStep
    BY <1>1, <1>9, CopyPool
  <1>10. ASSUME NEW t \in Threads, FreeOld(t) PROVE PoolStep
    BY <1>10, FreeOldPool
  <1>11. ASSUME NEW t \in Threads, QueryBase(t) \/ QueryRes(t) PROVE PoolStep
    BY <1>1, <1>11, QueryPool
  <1>12. ASSUME NEW t \in Threads, PoolInit(t) PROVE PoolStep
    BY <1>1, <1>12, PoolInitPool
  <1> QED
    BY <1>2, <1>3, <1>4, <1>5, <1>6, <1>7, <1>8, <1>9, <1>10, <1>11, <1>12 DEF Next

(* The inductive invariant holds throughout. *)
LEMMA PoolHolds == Spec => [](IInv /\ PoolInv)
  <1>1. Init => IInv /\ PoolInv
    BY InitInv, InitPool
  <1>2. (IInv /\ PoolInv) /\ [Next]_vars => (IInv /\ PoolInv)'
    BY NextInv, NextPool DEF PoolStep
  <1> QED
    BY <1>1, <1>2, PTL DEF Spec

(* Two threads never hold overlapping bytes. *)
LEMMA RangesApart ==
    ASSUME PoolInv, NEW p \in HeldPtrs, NEW q \in HeldPtrs, p # q
    PROVE  p + UsableSize(Heap, p) <= q \/ q + UsableSize(Heap, q) <= p
  <1>1. PICK S, sz : Serving(S, sz)
    BY HeldServed
  <1>2. PICK h : h = Heap
    OBVIOUS
  <1>3. PICK P : P = HeldPtrs
    OBVIOUS
  <1>4. Sound(h, S, sz) /\ Serves(h, S, sz, P) /\ p \in P /\ q \in P
    BY <1>1, <1>2, <1>3 DEF Serving
  <1>5. PICK B : B = Header(h, p)
    OBVIOUS
  <1>6. PICK C : C = Header(h, q)
    OBVIOUS
  <1>7. B \in S /\ Within(p, B, sz[B]) /\ UsableSize(h, p) = Foot(B, sz[B]) - p
    BY <1>4, <1>5, PointerFacts
  <1>8. C \in S /\ Within(q, C, sz[C]) /\ UsableSize(h, q) = Foot(C, sz[C]) - q
    BY <1>4, <1>6, PointerFacts
  <1>9. B # C
    BY <1>4, <1>5, <1>6 DEF Serves
  <1>10. /\ B \in Int /\ C \in Int /\ sz[B] \in Int /\ sz[C] \in Int
         /\ B < C => B + sz[B] <= C
         /\ C < B => C + sz[C] <= B
    BY <1>4, <1>7, <1>8, TileParts DEF Sound
  <1>11. p \in Int /\ q \in Int /\ B + 16 <= p /\ C + 16 <= q
    BY <1>7, <1>8 DEF Within
  <1>12. p + UsableSize(h, p) = B + sz[B] - 8 /\ q + UsableSize(h, q) = C + sz[C] - 8
    BY <1>7, <1>8, <1>10, <1>11 DEF Foot
  <1>13. p + UsableSize(h, p) <= q \/ q + UsableSize(h, q) <= p
    <2>1. CASE B < C
      <3>1. B + sz[B] - 8 <= q
        BY <1>10, <1>11, <2>1
      <3> QED
        BY <1>12, <3>1
    <2>2. CASE C < B
      <3>1. C + sz[C] - 8 <= p
        BY <1>10, <1>11, <2>2
      <3> QED
        BY <1>12, <3>1
    <2> QED
      BY <1>9, <1>10, <2>1, <2>2
  <1> QED
    BY <1>2, <1>13

(* The ranges of words that are granted. *)
LEMMA RangeFacts ==
    ASSUME PoolInv
    PROVE  /\ \A p \in HeldPtrs : LET r == PtrRange(p)
                                  IN  /\ r.lo \in Int /\ r.hi \in Int /\ 0 <= r.lo /\ r.lo < r.hi
                                      /\ r.hi <= Res \div 8
           /\ \A p, q \in HeldPtrs : p # q =>
                 PtrRange(p).hi <= PtrRange(q).lo \/ PtrRange(q).hi <= PtrRange(p).lo
  <1>1. ASSUME NEW p \in HeldPtrs
        PROVE  /\ \E a, n \in Nat : /\ p = Base + 8 * a /\ UsableSize(Heap, p) = 8 * n /\ n >= 1
                                    /\ 8 * a + 8 * n <= Res
                                    /\ PtrRange(p) = [lo |-> a, hi |-> a + n]
    <2>1. /\ p \in Addr /\ p \in Int /\ UsableSize(Heap, p) \in Int /\ UsableSize(Heap, p) >= 8
          /\ UsableSize(Heap, p) % 8 = 0 /\ p + UsableSize(Heap, p) <= End
      BY Reached, Extent
    <2>2. PICK u \in Int : u = UsableSize(Heap, p)
      BY <2>1
    <2>3. PICK a \in Nat : a = (p - Base) \div 8 /\ p = Base + 8 * a
      BY <2>1, WordIndex
    <2>4. PICK n \in Nat : u = 8 * n /\ n >= 1
      <3>1. u = 8 * (u \div 8) /\ u \div 8 \in Nat /\ u \div 8 >= 1
        BY <2>1, <2>2
      <3> QED
        BY <3>1
    <2>5. 8 * a + 8 * n <= Res
      BY <2>1, <2>2, <2>3, <2>4, Region DEF End
    <2>6. (p - Base + u) \div 8 = a + n
      BY <2>3, <2>4, Region
    <2>7. PtrRange(p) = [lo |-> a, hi |-> a + n]
      BY <2>2, <2>3, <2>6 DEF PtrRange
    <2> QED
      BY <2>2, <2>3, <2>4, <2>5, <2>7
  <1>2. ASSUME NEW p \in HeldPtrs
        PROVE  /\ PtrRange(p).lo \in Int /\ PtrRange(p).hi \in Int /\ 0 <= PtrRange(p).lo
               /\ PtrRange(p).lo < PtrRange(p).hi /\ PtrRange(p).hi <= Res \div 8
    <2>1. PICK a \in Nat, n \in Nat : n >= 1 /\ 8 * a + 8 * n <= Res /\ PtrRange(p) = [lo |-> a, hi |-> a + n]
      BY <1>1
    <2>2. PtrRange(p).lo = a /\ PtrRange(p).hi = a + n
      BY <2>1
    <2>3. a + n <= Res \div 8
      BY <2>1, Region
    <2> QED
      BY <2>1, <2>2, <2>3
  <1>3. ASSUME NEW p \in HeldPtrs, NEW q \in HeldPtrs, p # q
        PROVE  PtrRange(p).hi <= PtrRange(q).lo \/ PtrRange(q).hi <= PtrRange(p).lo
    <2>1. PICK a \in Nat, n \in Nat : /\ p = Base + 8 * a /\ UsableSize(Heap, p) = 8 * n
                                      /\ PtrRange(p) = [lo |-> a, hi |-> a + n]
      BY <1>1
    <2>2. PICK b \in Nat, m \in Nat : /\ q = Base + 8 * b /\ UsableSize(Heap, q) = 8 * m
                                      /\ PtrRange(q) = [lo |-> b, hi |-> b + m]
      BY <1>1
    <2>3. p + UsableSize(Heap, p) <= q \/ q + UsableSize(Heap, q) <= p
      BY <1>3, RangesApart
    <2>4. PtrRange(p).lo = a /\ PtrRange(p).hi = a + n /\ PtrRange(q).lo = b /\ PtrRange(q).hi = b + m
      BY <2>1, <2>2
    <2>5. a + n <= b \/ b + m <= a
      BY <2>1, <2>2, <2>3, Region
    <2> QED
      BY <2>4, <2>5
  <1> QED
    BY <1>2, <1>3

(* Every variable keeps its type: in particular g_high never passes the end  *)
(* of the reservation, and no word index leaves it (heap_pool.cpp:131-250).  *)
THEOREM WellTyped == Spec => []TypeOK
  <1>1. IInv /\ PoolInv => TypeOK
    BY DEF IInv, Types, PoolInv, Shape, TypeOK, Words, Bins, Locations, Inside
  <1> QED
    BY <1>1, PoolHolds, PTL

(* The allocated blocks and the pointers held correspond. *)
LEMMA HeldBlocks ==
    ASSUME PoolInv, NEW S, NEW sz, Serving(S, sz)
    PROVE  /\ AllocatedBlocks(Heap) = AllocOf(Heap, S)
           /\ \A p \in HeldPtrs : Header(Heap, p) \in AllocOf(Heap, S)
           /\ \A p, q \in HeldPtrs : Header(Heap, p) = Header(Heap, q) => p = q
           /\ \A B \in AllocOf(Heap, S) : \E p \in HeldPtrs : Header(Heap, p) = B
           /\ \A B \in AllocOf(Heap, S) : BSize(Heap, B) = sz[B] /\ B - Base + sz[B] <= high
  <1>1. PICK h : h = Heap
    OBVIOUS
  <1>2. PICK P : P = HeldPtrs
    OBVIOUS
  <1>3. Sound(h, S, sz) /\ Serves(h, S, sz, P)
    BY <1>1, <1>2 DEF Serving
  <1>4. AllocatedBlocks(h) = AllocOf(h, S)
    BY <1>3, BlocksFacts
  <1>5. \A B \in AllocOf(h, S) : BSize(h, B) = sz[B]
    BY <1>3 DEF AllocOf, Sound, Tagged
  <1>6. \A B \in AllocOf(h, S) : B - Base + sz[B] <= high
    BY <1>1 DEF Serving
  <1>7. \A p \in P : Header(h, p) \in AllocOf(h, S)
    BY <1>3 DEF Serves
  <1>8. \A p, q \in P : Header(h, p) = Header(h, q) => p = q
    BY <1>3 DEF Serves
  <1>9. \A B \in AllocOf(h, S) : \E p \in P : Header(h, p) = B
    BY <1>3 DEF Serves
  <1> QED
    BY <1>1, <1>2, <1>4, <1>5, <1>6, <1>7, <1>8, <1>9

(* After any calls of any threads the boundary tags tile the reservation,    *)
(* no two free blocks are neighbours, the free lists hold exactly the free   *)
(* blocks, and g_high covers what is allocated: px_pool_check never fails.   *)
THEOREM Consistent == Spec => []PoolConsistent
  <1>1. PoolInv => PoolConsistent
    <2> SUFFICES ASSUME PoolInv, init = "done" PROVE Tiled /\ Coalesced /\ BinsExact /\ HighWater
      BY DEF PoolConsistent
    <2>1. PICK S, sz : Serving(S, sz)
      BY DEF PoolInv, Managed
    <2>2. Tiled /\ Coalesced /\ BinsExact
      <3>1. PICK h : h = Heap
        OBVIOUS
      <3>2. Sound(h, S, sz)
        BY <2>1, <3>1 DEF Serving
      <3> QED
        BY <3>1, <3>2, SoundChecks
    <2>3. HighWater
      BY <2>1, HeldBlocks DEF HighWater
    <2> QED
      BY <2>2, <2>3
  <1> QED
    BY <1>1, PoolHolds, PTL

(* The allocated blocks are exactly those of the pointers callers hold, each *)
(* aligned and large enough for its request: no block is given out twice,    *)
(* and none leaks.                                                           *)
THEOREM BlocksMatch == Spec => []BlocksMatchObjects
  <1>1. PoolInv => BlocksMatchObjects
    <2> SUFFICES ASSUME PoolInv PROVE BlocksMatchObjects
      OBVIOUS
    <2>1. init = "done" => AllocatedBlocks(Heap) = {Header(Heap, p) : p \in HeldPtrs}
      <3> SUFFICES ASSUME init = "done" PROVE AllocatedBlocks(Heap) = {Header(Heap, p) : p \in HeldPtrs}
        OBVIOUS
      <3>1. PICK S, sz : Serving(S, sz)
        BY DEF PoolInv, Managed
      <3> QED
        BY <3>1, HeldBlocks
    <2>2. ASSUME NEW i \in Objects, NEW j \in Objects,
                 Header(Heap, objs[i].ptr) = Header(Heap, objs[j].ptr)
          PROVE  i = j
      <3>1. objs[i].ptr \in HeldPtrs /\ objs[j].ptr \in HeldPtrs
        BY HeldPtrsAre
      <3>2. PICK S, sz : Serving(S, sz)
        BY <3>1, HeldServed
      <3>3. objs[i].ptr = objs[j].ptr
        BY <2>2, <3>1, <3>2, HeldBlocks
      <3> QED
        BY <3>3 DEF PoolInv, Distinct
    <2>3. \A i \in Objects : /\ UsableSize(Heap, objs[i].ptr) >= objs[i].size
                             /\ \E k \in 4 .. 30 : 2^k >= objs[i].align /\ objs[i].ptr % 2^k = 0
      BY DEF PoolInv, Contents, ObjOK
    <2>4. ObjectsSound
      BY <2>2, <2>3 DEF ObjectsSound
    <2>5. UsableCoversRequest
      BY <2>3 DEF UsableCoversRequest
    <2> QED
      BY <2>1, <2>4, <2>5 DEF BlocksMatchObjects
  <1> QED
    BY <1>1, PoolHolds, PTL

(* What a caller wrote is there until it frees the object, and moves with it *)
(* when the object is reallocated.                                           *)
THEOREM DataKept == Spec => []DataIntact
  <1>1. PoolInv => DataIntact
    <2> SUFFICES ASSUME PoolInv, NEW i \in Objects,
                        NEW first, first = (objs[i].ptr - Base) \div 8,
                        NEW w \in first .. first + objs[i].written \div 8 - 1
                 PROVE  mem[w] = -i
      BY DEF DataIntact
    <2>1. PICK h : h = Heap
      OBVIOUS
    <2>2. PICK p : p = objs[i].ptr
      OBVIOUS
    <2>3. PICK n : n = objs[i].written
      OBVIOUS
    <2>4. n \in Nat /\ n % 8 = 0 /\ n <= UsableSize(h, p) /\ Holds(h, p, n, i)
      BY <2>1, <2>2, <2>3 DEF PoolInv, Contents, ObjOK
    <2>5. p \in Addr /\ p \in Int /\ UsableSize(h, p) \in Int /\ p + UsableSize(h, p) <= End
      BY <2>1, <2>2, ReachedByName, Extent
    <2>6. p + n <= End /\ p \in Addr
      BY <2>4, <2>5, Region
    <2>7. first = (p - Base) \div 8
      BY <2>2
    <2>8. \A x \in first .. first + n \div 8 - 1 : h.mem[x] = -i
      BY <2>4, <2>6, <2>7, HoldsWords
    <2>9. h.mem[w] = -i
      BY <2>3, <2>8
    <2> QED
      BY <2>1, <2>9 DEF Heap
  <1> QED
    BY <1>1, PoolHolds, PTL

(* Only the scan takes a thread from it to nothing. *)
LEMMA OnlyScanReturns ==
    ASSUME Types, [Next]_vars, NEW t \in Threads, pc[t] = "scan", pc'[t] = "idle"
    PROVE  Scan(t) /\ Fits(Heap, Need(t)) = {}
  <1>1. pc \in [Threads -> Locations]
    BY DEF Types
  <1>2. pc' # pc
    OBVIOUS
  <1>3. ASSUME NEW u \in Threads, NEW l, Goto(u, l) PROVE u = t
    BY <1>1, <1>3 DEF Goto
  <1>4. ASSUME NEW u \in Threads, NEW r \in Requests, Alloc(u, r[1], r[2]) PROVE FALSE
    <2>1. pc[u] = "idle" /\ \E l : Goto(u, l)
      BY <1>4 DEF Alloc, AfterLock, Return
    <2> QED
      BY <1>3, <2>1
  <1>5. ASSUME NEW u \in Threads, NEW i \in Ids, Free(u, i) PROVE FALSE
    BY <1>2, <1>5 DEF Free
  <1>6. ASSUME NEW u \in Threads, NEW i \in Ids, NEW n \in ReallocSizes, Realloc(u, i, n) PROVE FALSE
    BY <1>2, <1>3, <1>6 DEF Realloc
  <1>7. ASSUME NEW u \in Threads,
               PoolInit(u) \/ MapRegion(u) \/ Publish(u) \/ CarveBlock(u) \/ Fill(u)
        PROVE  FALSE
    <2>1. pc[u] # "scan" /\ \E l : Goto(u, l)
      BY <1>7 DEF PoolInit, MapRegion, Publish, CarveBlock, Fill, Return
    <2> QED
      BY <1>3, <2>1
  <1>8. ASSUME NEW u \in Threads,
               Relock(u) \/ Copy(u) \/ FreeOld(u) \/ QueryBase(u) \/ QueryRes(u)
        PROVE  FALSE
    <2>1. pc[u] # "scan" /\ \E l : Goto(u, l)
      BY <1>8 DEF Relock, Copy, FreeOld, QueryBase, QueryRes, Return
    <2> QED
      BY <1>3, <2>1
  <1>9. ASSUME NEW u \in Threads, Scan(u)
        PROVE  Scan(t) /\ Fits(Heap, Need(t)) = {}
    <2>1. \E l : Goto(u, l)
      BY <1>9 DEF Scan, Return
    <2>2. u = t
      BY <1>3, <2>1
    <2>3. ~Goto(t, "carve")
      BY <1>1 DEF Goto
    <2> QED
      BY <1>9, <2>2, <2>3 DEF Scan
  <1>10. PICK u \in Threads :
            \/ PoolInit(u)
            \/ \E r \in Requests : Alloc(u, r[1], r[2])
            \/ \E i \in Ids : Free(u, i)
            \/ \E i \in Ids, n \in ReallocSizes : Realloc(u, i, n)
            \/ Locked(u)
            \/ Fill(u)
            \/ Relock(u) \/ Copy(u) \/ FreeOld(u)
            \/ QueryBase(u) \/ QueryRes(u)
    <2>1. Next
      BY <1>2 DEF vars
    <2> QED
      BY <2>1 DEF Next
  <1> QED
    BY <1>4, <1>5, <1>6, <1>7, <1>8, <1>9, <1>10 DEF Locked

(* px_pool_alloc returns nullptr only when no free block is large enough.    *)
THEOREM NullWhenFull == Spec => NullOnlyWhenFull
  <1>1. /\ IInv /\ PoolInv /\ [Next]_vars
        => [\A t \in Threads : pc[t] = "scan" /\ pc'[t] = "idle" =>
               \A B \in FreeBlocks(Heap) : BSize(Heap, B) < Need(t)]_vars
    <2> SUFFICES ASSUME IInv, PoolInv, [Next]_vars, NEW t \in Threads, pc[t] = "scan", pc'[t] = "idle"
                 PROVE  \A B \in FreeBlocks(Heap) : BSize(Heap, B) < Need(t)
      OBVIOUS
    <2>1. Fits(Heap, Need(t)) = {}
      BY OnlyScanReturns DEF IInv
    <2>2. Need(t) \in Int
      BY NeedOf
    <2>3. PICK need \in Int : need = Need(t)
      BY <2>2
    <2>4. PICK h : h = Heap
      OBVIOUS
    <2>5. PICK S, sz : Serving(S, sz)
      BY DEF PoolInv, Begun, Managed, Working, Asking
    <2>6. Sound(h, S, sz)
      BY <2>4, <2>5 DEF Serving
    <2>7. FreeBlocks(h) = FreeOf(h, S)
      BY <2>6, BlocksFacts
    <2>8. \A B \in FreeOf(h, S) : BSize(h, B) < need
      BY <2>1, <2>3, <2>4, <2>6, NothingFits
    <2> QED
      BY <2>3, <2>4, <2>7, <2>8
  <1> QED
    BY <1>1, PoolHolds, PTL DEF Spec, NullOnlyWhenFull

RangeSound(r) == r.lo \in Int /\ r.hi \in Int /\ 0 <= r.lo /\ r.lo < r.hi /\ r.hi <= Res \div 8

RangesSound ==
    /\ \A p \in HeldPtrs : RangeSound(PtrRange(p))
    /\ \A p, q \in HeldPtrs : p # q =>
          PtrRange(p).hi <= PtrRange(q).lo \/ PtrRange(q).hi <= PtrRange(p).lo

(* The inductive invariant makes the granted ranges sound. *)
LEMMA SoundRanges == PoolInv => RangesSound
  BY RangeFacts DEF RangesSound, RangeSound

(* A step that keeps the pointers, adds one or takes one back is a step of   *)
(* the allocator of one region, or none.                                     *)
LEMMA HeldImplements ==
    ASSUME RangesSound, RangesSound', HeldStep
    PROVE  Abstract!Next \/ Granted' = Granted
  <1>1. ASSUME NEW q, UsableSize(Heap, q)' = UsableSize(Heap, q)
        PROVE  PtrRange(q)' = PtrRange(q)
    BY <1>1 DEF PtrRange
  <1>2. CASE HeldPtrs' = HeldPtrs /\ SizesKept(HeldPtrs)
    <2>1. \A q \in HeldPtrs : PtrRange(q)' = PtrRange(q)
      BY <1>1, <1>2 DEF SizesKept
    <2> QED
      BY <1>2, <2>1 DEF Granted
  <1>3. ASSUME NEW p, p \notin HeldPtrs, HeldPtrs' = HeldPtrs \cup {p}, SizesKept(HeldPtrs)
        PROVE  Abstract!Next
    <2>1. \A q \in HeldPtrs : PtrRange(q)' = PtrRange(q)
      BY <1>1, <1>3 DEF SizesKept
    <2>2. PICK r : r = PtrRange(p)'
      OBVIOUS
    <2>3. Granted' = Granted \cup {r}
      BY <1>3, <2>1, <2>2 DEF Granted
    <2>4. RangeSound(r)
      BY <1>3, <2>2 DEF RangesSound, RangeSound
    <2>5. ASSUME NEW s \in Granted PROVE RangeSound(s) /\ (r.hi <= s.lo \/ s.hi <= r.lo)
      <3>1. PICK q \in HeldPtrs : s = PtrRange(q)
        BY DEF Granted
      <3>2. q # p /\ q \in HeldPtrs' /\ p \in HeldPtrs' /\ s = PtrRange(q)'
        BY <1>3, <2>1, <3>1
      <3>3. RangeSound(s)
        BY <3>1 DEF RangesSound
      <3>4. r.hi <= s.lo \/ s.hi <= r.lo
        BY <2>2, <3>2 DEF RangesSound
      <3> QED
        BY <3>3, <3>4
    <2>6. \A s \in Granted : ~(r.lo < s.hi /\ s.lo < r.hi)
      BY <2>4, <2>5 DEF RangeSound
    <2>7. r \notin Granted
      BY <2>4, <2>6 DEF RangeSound
    <2>8. Abstract!Grant(r)
      BY <2>3, <2>4, <2>6 DEF RangeSound, Abstract!Grant, Abstract!Overlap
    <2> QED
      BY <2>3, <2>7, <2>8 DEF Abstract!Next
  <1>4. ASSUME NEW p \in HeldPtrs, HeldPtrs' = HeldPtrs \ {p}, SizesKept(HeldPtrs \ {p})
        PROVE  Abstract!Next
    <2>1. \A q \in HeldPtrs \ {p} : PtrRange(q)' = PtrRange(q)
      BY <1>1, <1>4 DEF SizesKept
    <2>2. PICK r : r = PtrRange(p)
      OBVIOUS
    <2>3. ASSUME NEW q \in HeldPtrs, q # p PROVE PtrRange(q) # r
      <3>1. RangeSound(r) /\ (r.hi <= PtrRange(q).lo \/ PtrRange(q).hi <= r.lo)
        BY <2>2, <2>3 DEF RangesSound
      <3> QED
        BY <3>1 DEF RangeSound
    <2>4. r \in Granted /\ Granted' = Granted \ {r}
      BY <1>4, <2>1, <2>2, <2>3 DEF Granted
    <2>5. Abstract!Release(r)
      BY <2>4 DEF Abstract!Release
    <2> QED
      BY <2>4, <2>5 DEF Abstract!Next
  <1> QED
    BY <1>2, <1>3, <1>4 DEF HeldStep

(* The heap pool implements the allocator of one region: px_pool_alloc and   *)
(* px_pool_realloc grant ranges that overlap nothing still out, and only     *)
(* what was granted is taken back, whatever the threads interleave.          *)
THEOREM Refinement == Spec => Implements
  <1>1. Init => Abstract!Init
    <2> SUFFICES ASSUME Init PROVE Granted = {}
      BY DEF Abstract!Init
    <2>1. Objects = {} /\ InFlight = {}
      BY DEF Init, Objects, InFlight
    <2> QED
      BY <2>1 DEF Granted, HeldPtrs
  <1>2. PoolInv => RangesSound
    BY SoundRanges
  <1>3. PoolInv' => RangesSound'
    BY <1>2, PTL
  <1>4. IInv /\ PoolInv /\ [Next]_vars => [Abstract!Next]_Granted
    BY <1>2, <1>3, NextPool, HeldImplements DEF PoolStep
  <1> QED
    BY <1>1, <1>4, PoolHolds, PTL DEF Spec, Implements, Abstract!Spec
===============================================================================
