------------------------ MODULE ProcessMemoryProofs ------------------------
(***************************************************************************)
(* The routing of pointers between pool, glibc and mapped memory, and the  *)
(* contents of the program's blocks, for any numbers of addresses and any  *)
(* history of calls, failures and destruction at exit.                     *)
(* Then the objects of the runtime: the calls in progress, the flags that  *)
(* say so, and the Vulkan objects that each state leaves in existence.     *)
(***************************************************************************)
EXTENDS ProcessMemory, TLAPS

Block == [via : {"malloc", "umalloc"}, contents : Values \cup {Unknown}]

Types ==
    /\ out \in SUBSET Address
    /\ mem \in [Address -> Values]
    /\ held \in [Address -> {Nothing} \cup Block]
    /\ exit \in Nat

(* What is in use is what the program holds and what it gave back in vain.   *)
UseSound ==
    /\ out = {a \in Address : held[a] # Nothing} \cup stranded
    /\ \A a \in stranded : held[a] = Nothing
    /\ stranded \in SUBSET (Pool \cup Libc)

(* The address of a block tells its allocator: pool addresses are handed out *)
(* only by a live pool, mapped ones only to parallax_umalloc by a manager    *)
(* that knows them and is there as long as the program runs.                 *)
OwnerSound ==
    /\ pool # "live" => out \cap Pool = {}
    /\ \A a \in Mapped : held[a] # Nothing =>
          /\ held[a].via = "umalloc" /\ a \in buffers
          /\ exit = 0 => "manager" \in objects

Routing == Types /\ UseSound /\ OwnerSound /\ ~corrupt

LEMMA BlockFacts ==
    ASSUME NEW b \in {Nothing} \cup Block
    PROVE  /\ b.via # "nobody" <=> b # Nothing
           /\ b # Nothing => b \in Block
  BY DEF Block, Nothing

LEMMA InitRouting == Init => Routing
  BY MemoryAssumption
  DEF Init, RuntimeInit, Routing, Types, UseSound, OwnerSound, Nothing, Address

(* The runtime's own steps leave memory alone, and the manager in place      *)
(* until the process exits.                                                  *)
LEMMA RuntimeKeeps ==
    ASSUME RuntimeStep, exit \in Nat
    PROVE  /\ UNCHANGED pool /\ exit' \in Nat
           /\ exit' = 0 => exit = 0 /\ ("manager" \in objects => "manager" \in objects')
  <1>1. CASE EnsureInitialized
    BY <1>1 DEF EnsureInitialized
  <1>2. CASE InitStage
    BY <1>2 DEF InitStage
  <1>3. CASE InitManager
    BY <1>3 DEF InitManager
  <1>4. CASE GetArena \/ ArenaBegin
    BY <1>4 DEF GetArena, ArenaBegin
  <1>5. CASE ArenaPart
    BY <1>5 DEF ArenaPart
  <1>6. CASE GetLauncher \/ GotBackend \/ LauncherBegin \/ LauncherBuild
    BY <1>6 DEF GetLauncher, GotBackend, LauncherBegin, LauncherBuild
  <1>7. CASE Destroy
    BY <1>7 DEF Destroy
  <1> QED
    BY <1>1, <1>2, <1>3, <1>4, <1>5, <1>6, <1>7 DEF RuntimeStep

LEMMA PoolFacts ==
    ASSUME Types, OwnerSound, NEW state \in PoolAfter
    PROVE  /\ state # "live" => pool # "live"
           /\ FromPool(state) \subseteq Pool \ out
           /\ PoolOrLibc(state) \subseteq (Pool \cup Libc) \ out
           /\ state # "live" => PoolOrLibc(state) \cap Pool = {}
  BY MemoryAssumption DEF PoolAfter, FromPool, PoolOrLibc

(* Giving a free block to the program keeps the books. *)
LEMMA GiveRouting ==
    ASSUME Routing, NEW a \in Address \ out, NEW via \in {"malloc", "umalloc"},
           NEW contents \in Values \cup {Unknown}, Give(a, via, contents),
           UNCHANGED <<stranded, corrupt, exit, objects>>,
           mem' \in [Address -> Values], buffers \subseteq buffers',
           pool' # "live" => pool # "live" /\ a \notin Pool,
           a \in Mapped => via = "umalloc" /\ a \in buffers' /\ "manager" \in objects
    PROVE  Routing'
  <1> DEFINE b == [via |-> via, contents |-> contents]
  <1>1. b \in Block /\ b # Nothing /\ b.via = via
    BY DEF Block, Nothing
  <1>2. /\ held' = [held EXCEPT ![a] = b] /\ out' = out \cup {a}
        /\ held \in [Address -> {Nothing} \cup Block]
    BY DEF Give, Routing, Types
  <1> HIDE DEF b
  <1>3. Types'
    BY <1>1, <1>2 DEF Routing, Types
  <1>4. held'[a] = b /\ \A c \in Address : c # a => held'[c] = held[c]
    BY <1>2
  <1>5. UseSound'
    BY <1>1, <1>2, <1>4 DEF Routing, UseSound
  <1>6. OwnerSound'
    BY <1>1, <1>2, <1>4 DEF Routing, OwnerSound, Address
  <1> QED
    BY <1>3, <1>5, <1>6 DEF Routing

(* A block that goes back to its allocator, or is lost. *)
LEMMA TakeRouting ==
    ASSUME Routing, NEW a \in Address, held[a] # Nothing,
           held' = [held EXCEPT ![a] = Nothing],
           ~corrupt', UNCHANGED <<exit, objects, pool, mem>>,
           \A c \in Address : c # a => (c \in buffers => c \in buffers'),
           \/ out' = out \ {a} /\ UNCHANGED stranded
           \/ UNCHANGED out /\ stranded' = stranded \cup {a} /\ a \notin Mapped
    PROVE  Routing'
  <1>1. held \in [Address -> {Nothing} \cup Block]
    BY DEF Routing, Types
  <1>2. held'[a] = Nothing /\ \A c \in Address : c # a => held'[c] = held[c]
    BY <1>1
  <1>3. Types'
    BY <1>1 DEF Routing, Types
  <1>4. UseSound'
    BY <1>2 DEF Routing, UseSound, Address
  <1>5. OwnerSound'
    BY <1>2 DEF Routing, OwnerSound, Address
  <1> QED
    BY <1>3, <1>4, <1>5 DEF Routing

(* The owner of a block the program got from malloc, or that the manager     *)
(* does not know, is told by whether it lies in a live pool.                 *)
LEMMA RouteFreeFacts ==
    ASSUME Routing, NEW a \in Address, held[a] # Nothing, a \notin Mapped, RouteFree(a)
    PROVE  ~corrupt' /\ out' = out \ {a}
  <1>1. a \in out /\ a \in Pool \cup Libc
    BY DEF Routing, UseSound, Address
  <1>2. a \in (IF InPool(a) THEN Pool ELSE Libc)
    BY <1>1 DEF InPool, Routing, OwnerSound
  <1> QED
    BY <1>1, <1>2 DEF RouteFree, Release, Routing

LEMMA MallocedFacts ==
    ASSUME Routing, NEW a \in Blocks("malloc")
    PROVE  a \in Address /\ held[a] # Nothing /\ a \notin Mapped
  BY DEF Blocks, Routing, OwnerSound, Nothing

LEMMA UmallocedFacts ==
    ASSUME Routing, NEW a \in Blocks("umalloc"), exit = 0
    PROVE  /\ a \in Address /\ held[a] # Nothing
           /\ a \in Mapped => a \in buffers /\ "manager" \in objects
  BY DEF Blocks, Routing, OwnerSound, Nothing

LEMMA MallocRouting ==
    ASSUME Routing, NEW a \in Address, NEW falls \in BOOLEAN, Malloc(a, falls)
    PROVE  Routing'
  <1>1. /\ pool' \in PoolAfter /\ a \in PoolOrLibc(pool') \cup FromPool(pool')
        /\ pool' # "live" => a \in PoolOrLibc(pool') 
    BY DEF Malloc, FromPool
  <1>2. a \in (Pool \cup Libc) \ out /\ (pool' # "live" => pool # "live" /\ a \notin Pool)
    BY <1>1, PoolFacts DEF Routing
  <1>3. a \notin Mapped
    BY <1>2, MemoryAssumption
  <1>4. /\ Give(a, "malloc", Unknown)
        /\ UNCHANGED <<stranded, corrupt, exit, objects, mem, buffers>>
    BY DEF Malloc
  <1> QED
    BY <1>2, <1>3, <1>4, GiveRouting DEF Routing, Types

LEMMA CallocRouting ==
    ASSUME Routing, NEW a \in Address, Calloc(a)
    PROVE  Routing'
  <1>1. pool' \in PoolAfter /\ a \in PoolOrLibc(pool')
    BY DEF Calloc
  <1>2. a \in (Pool \cup Libc) \ out /\ (pool' # "live" => pool # "live" /\ a \notin Pool)
    BY <1>1, PoolFacts DEF Routing
  <1>3. a \notin Mapped /\ mem' \in [Address -> Values] /\ 0 \in Values
    BY <1>2, MemoryAssumption DEF Calloc, Cleared, Routing, Types
  <1>4. /\ Give(a, "malloc", 0)
        /\ UNCHANGED <<stranded, corrupt, exit, objects, buffers>>
    BY DEF Calloc
  <1> QED
    BY <1>2, <1>3, <1>4, GiveRouting

LEMMA ForeignRouting ==
    ASSUME Routing, NEW a \in Address, ForeignAlloc(a)
    PROVE  Routing'
  <1>1. /\ a \in Libc \ out /\ Give(a, "malloc", Unknown)
        /\ UNCHANGED <<stranded, corrupt, exit, objects, mem, buffers, pool>>
    BY DEF ForeignAlloc, runtimeVars
  <1>2. a \notin Mapped /\ a \notin Pool
    BY <1>1, MemoryAssumption
  <1> QED
    BY <1>1, <1>2, GiveRouting DEF Routing, Types

LEMMA WriteRouting ==
    ASSUME Routing, NEW a \in Address, NEW x \in Values, Write(a, x)
    PROVE  Routing'
  <1>1. /\ held' = [held EXCEPT ![a].contents = x] /\ mem' = [mem EXCEPT ![a] = x]
        /\ UNCHANGED <<out, exit, objects, pool, buffers, stranded, corrupt>>
    BY DEF Write, runtimeVars
  <1>2. held \in [Address -> {Nothing} \cup Block] /\ held[a] \in Block
    BY BlockFacts DEF Write, Routing, Types
  <1>3. DEFINE b == [held[a] EXCEPT !.contents = x]
  <1>4. b \in Block /\ b # Nothing /\ b.via = held[a].via /\ held[a] # Nothing
    BY <1>2 DEF Block, Nothing
  <1>5. held' = [held EXCEPT ![a] = b]
    BY <1>1
  <1> HIDE DEF b
  <1>6. held'[a] = b /\ \A c \in Address : c # a => held'[c] = held[c]
    BY <1>2, <1>5
  <1>7. Types'
    BY <1>1, <1>2, <1>4, <1>5 DEF Routing, Types
  <1>8. UseSound' /\ OwnerSound'
    BY <1>1, <1>4, <1>6 DEF Routing, UseSound, OwnerSound, Address
  <1> QED
    BY <1>1, <1>7, <1>8 DEF Routing

LEMMA FreeRouting ==
    ASSUME Routing, NEW a \in Address, Free(a)
    PROVE  Routing'
  <1>1. /\ held[a] # Nothing /\ a \notin Mapped /\ RouteFree(a)
        /\ held' = [held EXCEPT ![a] = Nothing]
        /\ UNCHANGED <<exit, objects, pool, mem, buffers, stranded>>
    BY MallocedFacts DEF Free, runtimeVars
  <1> QED
    BY <1>1, RouteFreeFacts, TakeRouting

(* The block moves to a free address of the allocator it came from. *)
LEMMA ReallocRouting ==
    ASSUME Routing, NEW a \in Address, NEW b \in Address, Realloc(a, b)
    PROVE  Routing'
  <1>1. /\ held[a] # Nothing /\ a \notin Mapped /\ a \in Blocks("malloc")
        /\ held' = [held EXCEPT ![a] = Nothing, ![b] = held[a]]
        /\ out' = (out \ {a}) \cup {b} /\ mem' = [mem EXCEPT ![b] = mem[a]]
        /\ corrupt' = (corrupt \/ a \notin out \/ InPool(a) # (a \in Pool))
        /\ UNCHANGED <<exit, objects, pool, buffers, stranded>>
    BY MallocedFacts DEF Realloc, runtimeVars
  <1>2. held \in [Address -> {Nothing} \cup Block] /\ held[a] \in Block /\ a \in out
    BY <1>1, BlockFacts DEF Routing, Types, UseSound
  <1>3. b \notin out /\ b \notin Mapped /\ (pool # "live" => b \notin Pool)
    BY MemoryAssumption DEF Realloc, FromPool, InPool
  <1>4. InPool(a) = (a \in Pool)
    BY <1>2 DEF InPool, Routing, OwnerSound
  <1>5. ~corrupt'
    BY <1>1, <1>2, <1>4 DEF Routing
  <1>6. /\ a # b /\ held'[a] = Nothing /\ held'[b] = held[a]
        /\ \A c \in Address : c # a /\ c # b => held'[c] = held[c]
    BY <1>1, <1>2, <1>3
  <1>7. Types'
    BY <1>1, <1>2 DEF Routing, Types
  <1>8. UseSound'
    BY <1>1, <1>3, <1>6 DEF Routing, UseSound, Address
  <1>9. OwnerSound'
    BY <1>1, <1>3, <1>6 DEF Routing, OwnerSound, Address
  <1> QED
    BY <1>5, <1>7, <1>8, <1>9 DEF Routing

LEMMA UmallocRouting ==
    ASSUME Routing, Umalloc
    PROVE  Routing'
  <1>1. UNCHANGED <<exit, objects, mem, stranded, corrupt>>
    BY DEF Umalloc, flags
  <1>2. CASE UNCHANGED <<live, pool, out, held, buffers>>
    BY <1>1, <1>2 DEF Routing, Types, UseSound, OwnerSound
  <1>3. ASSUME NEW a \in Mapped, UmallocManaged(a), "manager" \in objects PROVE Routing'
    <2>1. /\ a \in Address \ out /\ Give(a, "umalloc", Unknown) /\ buffers' = buffers \cup {a}
          /\ UNCHANGED pool
      BY <1>3 DEF UmallocManaged, CreateBuffer, Address
    <2>2. a \notin Pool
      BY MemoryAssumption
    <2>3. mem' \in [Address -> Values]
      BY <1>1 DEF Routing, Types
    <2> QED
      BY <1>1, <1>3, <2>1, <2>2, <2>3, GiveRouting
  <1>4. ASSUME NEW a \in Pool \cup Libc, UmallocFallback(a) PROVE Routing'
    <2>1. /\ pool' \in PoolAfter /\ a \in PoolOrLibc(pool') /\ Give(a, "umalloc", Unknown)
          /\ UNCHANGED buffers
      BY <1>4 DEF UmallocFallback
    <2>2. a \notin out /\ (pool' # "live" => pool # "live" /\ a \notin Pool)
      BY <2>1, PoolFacts DEF Routing
    <2>3. a \in Address /\ a \notin Mapped /\ mem' \in [Address -> Values]
      BY <1>1, MemoryAssumption DEF Address, Routing, Types
    <2> QED
      BY <1>1, <2>1, <2>2, <2>3, GiveRouting
  <1> QED
    BY <1>2, <1>3, <1>4 DEF Umalloc

LEMMA UfreeRouting ==
    ASSUME Routing, NEW a \in Address, Ufree(a)
    PROVE  Routing'
  <1>1. /\ held[a] # Nothing /\ held' = [held EXCEPT ![a] = Nothing]
        /\ a \in Mapped => a \in buffers /\ "manager" \in objects
        /\ UNCHANGED <<exit, objects, pool, mem>>
    BY UmallocedFacts DEF Ufree, Running, flags
  <1>2. a \in out
    BY <1>1 DEF Routing, UseSound
  <1>3. CASE "manager" \in objects
    <2>1. CASE a \in buffers \cap Mapped /\ DestroyBuffer(a) /\ Release(a, Mapped) /\ UNCHANGED stranded
      <3>1. ~corrupt' /\ out' = out \ {a} /\ buffers' = buffers \ {a}
        BY <1>2, <2>1 DEF Release, DestroyBuffer, Routing
      <3> QED
        BY <1>1, <2>1, <3>1, TakeRouting
    <2>2. CASE /\ stranded' = stranded \cup {a} /\ UNCHANGED <<out, corrupt>> /\ a \notin Mapped
               /\ buffers' = buffers \/ buffers' = buffers \ {a}
      BY <1>1, <2>2, TakeRouting DEF Routing
    <2> QED
      BY <1>1, <1>3, <2>1, <2>2 DEF Ufree, Deallocate, DestroyBuffer
  <1>4. CASE "manager" \notin objects
    BY <1>1, <1>4, RouteFreeFacts, TakeRouting DEF Ufree
  <1> QED
    BY <1>3, <1>4

LEMMA NextRouting == Routing /\ [Next]_vars => Routing'
  <1> SUFFICES ASSUME Routing, [Next]_vars PROVE Routing'
    OBVIOUS
  <1>1. CASE RuntimeStep /\ UNCHANGED memoryVars
    BY <1>1, RuntimeKeeps DEF memoryVars, Routing, Types, UseSound, OwnerSound
  <1>2. ASSUME NEW a \in Address, NEW falls \in BOOLEAN, Malloc(a, falls) PROVE Routing'
    BY <1>2, MallocRouting
  <1>3. ASSUME NEW a \in Address,
               Calloc(a) \/ ForeignAlloc(a) \/ Free(a) \/ Ufree(a)
        PROVE  Routing'
    BY <1>3, CallocRouting, ForeignRouting, FreeRouting, UfreeRouting
  <1>4. ASSUME NEW a \in Address, Register(a) PROVE Routing'
    BY <1>4 DEF Register, CreateBuffer, flags, Routing, Types, UseSound, OwnerSound
  <1>5. ASSUME NEW a \in Address, NEW x \in Values, Write(a, x) PROVE Routing'
    BY <1>5, WriteRouting
  <1>6. ASSUME NEW a \in Address, NEW b \in Address, Realloc(a, b) PROVE Routing'
    BY <1>6, ReallocRouting
  <1>7. CASE CallUmalloc \/ UNCHANGED vars
    BY <1>7 DEF CallUmalloc, vars, runtimeVars, memoryVars, flags, Routing, Types, UseSound, OwnerSound
  <1>8. CASE Umalloc
    BY <1>8, UmallocRouting
  <1> QED
    BY <1>1, <1>2, <1>3, <1>4, <1>5, <1>6, <1>7, <1>8 DEF Next, Ended

LEMMA RoutingHolds == Spec => []Routing
  <1> QED
    BY InitRouting, NextRouting, PTL DEF Spec

(* No allocator ever gets an address it did not hand out, no block in the    *)
(* program's hands is given to a second owner, and nothing given back stays  *)
(* in use but the blocks of parallax_umalloc's fallback that meet a manager  *)
(* (heap_capture.cpp:39-43, unified_allocator.cpp:121-127).                  *)
THEOREM PointersRouted == Spec => []RoutedToOwner
  <1>1. Routing => RoutedToOwner
    BY MemoryAssumption DEF Routing, UseSound, RoutedToOwner
  <1> QED
    BY <1>1, RoutingHolds, PTL

-------------------------------------------------------------------------------
(* Contents *)

(* A block the program gets has no defined contents, or those it has. *)
LEMMA GiveData ==
    ASSUME Routing, DataKept, NEW a \in Address, NEW via \in {"malloc", "umalloc"},
           NEW contents, contents = Unknown \/ contents = mem'[a],
           Give(a, via, contents),
           \A c \in Address : c # a => mem'[c] = mem[c]
    PROVE  DataKept'
  <1> DEFINE b == [via |-> via, contents |-> contents]
  <1>1. b.contents = contents
    OBVIOUS
  <1>2. held' = [held EXCEPT ![a] = b] /\ held \in [Address -> {Nothing} \cup Block]
    BY DEF Give, Routing, Types
  <1> HIDE DEF b
  <1>3. held'[a] = b /\ \A c \in Address : c # a => held'[c] = held[c]
    BY <1>2
  <1> QED
    BY <1>1, <1>3 DEF DataKept

(* A block the program gives up takes nothing with it. *)
LEMMA TakeData ==
    ASSUME Routing, DataKept, NEW a \in Address, UNCHANGED mem,
           held' = [held EXCEPT ![a] = Nothing]
    PROVE  DataKept'
  BY DEF DataKept, Routing, Types

LEMMA WriteData ==
    ASSUME Routing, DataKept, NEW a \in Address, NEW x \in Values, Write(a, x)
    PROVE  DataKept'
  <1>1. /\ held' = [held EXCEPT ![a].contents = x] /\ mem' = [mem EXCEPT ![a] = x]
        /\ held \in [Address -> {Nothing} \cup Block] /\ mem \in [Address -> Values]
        /\ held[a] \in Block
    BY BlockFacts DEF Write, Routing, Types
  <1>2. DEFINE b == [held[a] EXCEPT !.contents = x]
  <1>3. b.contents = x /\ held' = [held EXCEPT ![a] = b]
    BY <1>1 DEF Block
  <1> HIDE DEF b
  <1>4. /\ held'[a] = b /\ mem'[a] = x
        /\ \A c \in Address : c # a => held'[c] = held[c] /\ mem'[c] = mem[c]
    BY <1>1, <1>3
  <1> QED
    BY <1>3, <1>4 DEF DataKept

LEMMA ReallocData ==
    ASSUME Routing, DataKept, NEW a \in Address, NEW b \in Address, Realloc(a, b)
    PROVE  DataKept'
  <1>1. /\ held' = [held EXCEPT ![a] = Nothing, ![b] = held[a]]
        /\ mem' = [mem EXCEPT ![b] = mem[a]] /\ held[a] # Nothing
        /\ held \in [Address -> {Nothing} \cup Block] /\ mem \in [Address -> Values]
    BY MallocedFacts DEF Realloc, Routing, Types
  <1>2. a \in out /\ b \notin out
    BY <1>1 DEF Realloc, FromPool, Routing, UseSound
  <1>3. /\ held'[a] = Nothing /\ held'[b] = held[a] /\ mem'[b] = mem[a]
        /\ \A c \in Address : c # a /\ c # b => held'[c] = held[c] /\ mem'[c] = mem[c]
    BY <1>1, <1>2
  <1> QED
    BY <1>1, <1>3 DEF DataKept

LEMMA UmallocData ==
    ASSUME Routing, DataKept, Umalloc
    PROVE  DataKept'
  <1>1. UNCHANGED mem
    BY DEF Umalloc
  <1>2. CASE UNCHANGED held
    BY <1>1, <1>2 DEF DataKept
  <1>3. ASSUME NEW a \in Address, UmallocManaged(a) \/ UmallocFallback(a) PROVE DataKept'
    BY <1>1, <1>3, GiveData DEF UmallocManaged, UmallocFallback
  <1> QED
    BY <1>2, <1>3 DEF Umalloc, Address

LEMMA NextData == Routing /\ DataKept /\ [Next]_vars => DataKept'
  <1> SUFFICES ASSUME Routing, DataKept, [Next]_vars PROVE DataKept'
    OBVIOUS
  <1>1. CASE (RuntimeStep /\ UNCHANGED memoryVars) \/ CallUmalloc \/ UNCHANGED vars
    BY <1>1 DEF CallUmalloc, vars, memoryVars, DataKept
  <1>2. ASSUME NEW a \in Address, NEW falls \in BOOLEAN,
               Malloc(a, falls) \/ ForeignAlloc(a)
        PROVE  DataKept'
    <2>1. Give(a, "malloc", Unknown) /\ UNCHANGED mem
      BY <1>2 DEF Malloc, ForeignAlloc
    <2> QED
      BY <2>1, GiveData
  <1>3. ASSUME NEW a \in Address, Calloc(a) PROVE DataKept'
    <2>1. /\ Give(a, "malloc", 0) /\ mem' = [mem EXCEPT ![a] = 0]
          /\ mem \in [Address -> Values]
      BY <1>3 DEF Calloc, Cleared, Routing, Types
    <2>2. 0 = mem'[a] /\ \A c \in Address : c # a => mem'[c] = mem[c]
      BY <2>1
    <2> QED
      BY <2>1, <2>2, GiveData
  <1>4. ASSUME NEW a \in Address, Free(a) \/ Ufree(a) PROVE DataKept'
    BY <1>4, TakeData DEF Free, Ufree
  <1>5. ASSUME NEW a \in Address, Register(a) PROVE DataKept'
    BY <1>5 DEF Register, DataKept
  <1>6. ASSUME NEW a \in Address, NEW x \in Values, Write(a, x) PROVE DataKept'
    BY <1>6, WriteData
  <1>7. ASSUME NEW a \in Address, NEW b \in Address, Realloc(a, b) PROVE DataKept'
    BY <1>7, ReallocData
  <1>8. CASE Umalloc
    BY <1>8, UmallocData
  <1> QED
    BY <1>1, <1>2, <1>3, <1>4, <1>5, <1>6, <1>7, <1>8 DEF Next, Ended

(* A block keeps what the program stored in it through every other block's   *)
(* life, through realloc and through the building of the runtime's objects,  *)
(* and calloc's blocks start as zeros (heap_capture.cpp:90-106).              *)
THEOREM ContentsKept == Spec => []DataKept
  <1>1. Init => DataKept
    BY DEF Init, DataKept
  <1> QED
    BY <1>1, NextData, RoutingHolds, PTL DEF Spec

-------------------------------------------------------------------------------
(* The calls in progress and the objects of the runtime *)

(* The invariant Objects ties the stack of calls to the flags and to what    *)
(* exists: which call may lie under which (Nested), what each flag says of   *)
(* the stack (Flagged), and which Vulkan objects each leaves in existence    *)
(* (LiveSound, ArenaSound, OwnersSound).                                     *)

Arenas == {"import", "uma", "staged"}

Locals ==
    [op : {"init"}, at : {"stage", "manager"}, step : 1 .. 4, ok : BOOLEAN, got : BOOLEAN]
    \cup [op : {"arena"}, at : {"ensure", "ensured"} \cup Arenas, step : Nat \ {0},
          ok : BOOLEAN, got : BOOLEAN]
    \cup [op : {"backend", "umalloc"}, at : {"ensure", "ensured"}, step : Nat,
          ok : BOOLEAN, got : BOOLEAN]
    \cup [op : {"launcher"}, at : {"ensure", "ensured", "build"}, step : Nat,
          ok : BOOLEAN, got : BOOLEAN]

(* Whose call g may interrupt, or be made by. *)
Interrupts(f, g) ==
    \/ f.op = "init" /\ g.op \in {"arena", "backend", "umalloc", "launcher"} /\ g.at = "ensure"
    \/ f.op = "arena" /\ g.op = "init"
    \/ f.op = "arena" /\ g.op = "launcher" /\ g.at = "build"
    \/ f.op = "backend" /\ g.op = "launcher" /\ g.at = "ensure"

Nested(s) ==
    /\ Len(s) \in Nat /\ s = [i \in 1 .. Len(s) |-> s[i]]
    /\ \A i \in 1 .. Len(s) : s[i] \in Locals
    /\ \A i \in 1 .. Len(s) - 1 : Interrupts(s[i], s[i + 1])
    /\ Len(s) > 0 => s[Len(s)].op \in {"arena", "umalloc", "launcher"}

Initing(s) == {i \in 1 .. Len(s) : s[i].op = "init"}
Making(s)  == {i \in 1 .. Len(s) : s[i].at \in Arenas}

(* Who may be at work, given what is there. *)
Flagged ==
    /\ initializing \in BOOLEAN /\ arenaInitializing \in BOOLEAN /\ initialized \in BOOLEAN
    /\ initializing <=> Initing(stack) # {}
    /\ \A i, j \in Initing(stack) : i = j
    /\ arenaInitializing <=> Making(stack) # {}
    /\ ~(initialized /\ initializing)
    /\ \A i \in 1 .. Len(stack) :
          /\ stack[i].at = "ensured" /\ stack[i].ok => initialized
          /\ stack[i].at \in Arenas \cup {"build"} => initialized
          /\ stack[i].op = "arena" => "arena" \notin objects
    /\ exit > 0 => stack = << >>

(* What exists, and on what. *)
Device == <<"backend", "device">>

LiveSound ==
    /\ exit \in 0 .. 4
    /\ exit = 0 => /\ initialized <=> "manager" \in objects
                   /\ initialized \/ initializing <=> "backend" \in objects
    /\ \A x \in live : x[1] \in {"backend", "launcher", "manager"} \cup Arenas
    /\ live # OwnedBy("backend") => initialized
    /\ ~initialized /\ ~initializing => live = {}
    /\ initialized /\ exit < 4 => Device \in live
    /\ \A i \in Initing(stack) : stack[i].at = "manager" => Device \in live
    /\ exit >= 1 => OwnedBy("launcher") = {}
    /\ exit >= 2 => ArenaObjects = {}
    /\ exit >= 3 => OwnedBy("manager") = {}
    /\ exit = 4 => OwnedBy("backend") = {}

Made(own, steps) == {<<own, Parts[own][i]>> : i \in 1 .. steps}

ArenaSound ==
    exit = 0 =>
      /\ "arena" \in objects => kind \in Arenas /\ ArenaObjects = Made(kind, Len(Parts[kind]))
      /\ \A i \in Making(stack) : /\ stack[i].step \in 1 .. Len(Parts[stack[i].at])
                           /\ ArenaObjects = Made(stack[i].at, stack[i].step - 1)
      /\ "arena" \notin objects /\ Making(stack) = {} => ArenaObjects = {}

OwnersSound ==
    /\ exit = 0 => {a \in Address : <<"manager", a>> \in live} = buffers
    /\ (OwnedBy("launcher") # {}) = ("launcher" \in objects)
    /\ exit = 0 /\ "launcher" \in objects => initialized

Objects == Nested(stack) /\ Flagged /\ LiveSound /\ ArenaSound /\ OwnersSound

LEMMA SequenceFacts ==
    ASSUME NEW s, NEW n \in Nat, s = [i \in 1 .. n |-> s[i]], NEW f
    PROVE  /\ Len(s) = n
           /\ n = 0 <=> s = << >>
           /\ n > 0 => Head(s) = s[1]
           /\ \A t : t = <<f>> \o s =>
                 /\ Len(t) = n + 1 /\ t = [i \in 1 .. n + 1 |-> t[i]]
                 /\ t[1] = f /\ \A i \in 1 .. n : t[i + 1] = s[i]
           /\ n > 0 => \A t : t = Tail(s) =>
                 /\ Len(t) = n - 1 /\ t = [i \in 1 .. n - 1 |-> t[i]]
                 /\ \A i \in 1 .. n - 1 : t[i] = s[i + 1]
           /\ n > 0 => \A t : t = <<f>> \o Tail(s) =>
                 /\ Len(t) = n /\ t = [i \in 1 .. n |-> t[i]]
                 /\ t[1] = f /\ \A i \in 2 .. n : t[i] = s[i]
           /\ n > 1 => \A t : t = <<f>> \o SubSeq(s, 3, n) =>
                 /\ Len(t) = n - 1 /\ t = [i \in 1 .. n - 1 |-> t[i]]
                 /\ t[1] = f /\ \A i \in 2 .. n - 1 : t[i] = s[i + 1]
  <1> DEFINE V == {s[i] : i \in 1 .. n} \cup {f}
  <1>1. s \in Seq(V) /\ Len(s) = n
    <2>1. \A i \in 1 .. n : s[i] \in V
      OBVIOUS
    <2> HIDE DEF V
    <2>2. s \in [1 .. n -> V]
      BY <2>1
    <2>3. s \in Seq(V)
      BY <2>2
    <2> QED
      BY <2>3
  <1>2. f \in V
    OBVIOUS
  <1> HIDE DEF V
  <1>3. <<f>> \in Seq(V) /\ Len(<<f>>) = 1 /\ <<f>>[1] = f
    BY <1>2
  <1>4. ASSUME NEW r \in Seq(V), NEW t, t = <<f>> \o r
        PROVE  /\ Len(t) = Len(r) + 1 /\ t = [i \in 1 .. Len(r) + 1 |-> t[i]]
               /\ t[1] = f /\ \A i \in 1 .. Len(r) : t[i + 1] = r[i]
    <2>1. t \in Seq(V) /\ Len(t) = Len(r) + 1
      BY <1>3, <1>4
    <2>2. t = [i \in 1 .. Len(r) + 1 |-> t[i]]
      BY <2>1
    <2>3. t[1] = f /\ \A i \in 1 .. Len(r) : t[i + 1] = r[i]
      BY <1>3, <1>4
    <2> QED
      BY <2>1, <2>2, <2>3
  <1>5. n = 0 <=> s = << >>
    BY <1>1
  <1>6. n > 0 => Head(s) = s[1]
    BY <1>1
  <1>7. ASSUME n > 0
        PROVE  /\ Tail(s) \in Seq(V) /\ Len(Tail(s)) = n - 1
               /\ Tail(s) = [i \in 1 .. n - 1 |-> Tail(s)[i]]
               /\ \A i \in 1 .. n - 1 : Tail(s)[i] = s[i + 1]
    <2>1. s # << >>
      BY <1>5, <1>7
    <2>2. Tail(s) \in Seq(V) /\ Len(Tail(s)) = n - 1
      BY <1>1, <2>1
    <2>3. Tail(s) = [i \in 1 .. n - 1 |-> Tail(s)[i]]
      BY <2>2
    <2>4. \A i \in 1 .. n - 1 : Tail(s)[i] = s[i + 1]
      BY <1>1, <2>1
    <2> QED
      BY <2>2, <2>3, <2>4
  <1>8. ASSUME n > 1
        PROVE  /\ SubSeq(s, 3, n) \in Seq(V) /\ Len(SubSeq(s, 3, n)) = n - 2
               /\ \A i \in 1 .. n - 2 : SubSeq(s, 3, n)[i] = s[i + 2]
    <2>1. SubSeq(s, 3, n) = [i \in 1 .. n - 2 |-> s[i + 2]]
      BY <1>1, <1>8
    <2>2. \A i \in 1 .. n - 2 : s[i + 2] \in V
      BY <1>1, <1>8
    <2>3. PICK k \in Nat : k = n - 2
      BY <1>8
    <2>4. PICK q : q = [i \in 1 .. k |-> s[i + 2]]
      OBVIOUS
    <2>5. q \in [1 .. k -> V]
      BY <2>2, <2>3, <2>4
    <2>6. q \in Seq(V) /\ Len(q) = k
      BY <2>3, <2>5
    <2>7. \A i \in 1 .. k : q[i] = s[i + 2]
      BY <2>4
    <2> QED
      BY <2>1, <2>3, <2>4, <2>6, <2>7
  <1>9. ASSUME n > 0, NEW t, t = <<f>> \o Tail(s)
        PROVE  /\ Len(t) = n /\ t = [i \in 1 .. n |-> t[i]]
               /\ t[1] = f /\ \A i \in 2 .. n : t[i] = s[i]
    <2>1. (n - 1) + 1 = n
      OBVIOUS
    <2>2. /\ Len(t) = n /\ t = [i \in 1 .. n |-> t[i]]
          /\ t[1] = f /\ \A i \in 1 .. n - 1 : t[i + 1] = Tail(s)[i]
      BY <1>4, <1>7, <1>9, <2>1
    <2>3. ASSUME NEW i \in 2 .. n PROVE t[i] = s[i]
      <3>1. i - 1 \in 1 .. n - 1 /\ (i - 1) + 1 = i
        OBVIOUS
      <3> QED
        BY <1>7, <1>9, <2>2, <3>1
    <2> QED
      BY <2>2, <2>3
  <1>10. ASSUME n > 1, NEW t, t = <<f>> \o SubSeq(s, 3, n)
         PROVE  /\ Len(t) = n - 1 /\ t = [i \in 1 .. n - 1 |-> t[i]]
                /\ t[1] = f /\ \A i \in 2 .. n - 1 : t[i] = s[i + 1]
    <2>1. (n - 2) + 1 = n - 1
      OBVIOUS
    <2>2. /\ Len(t) = n - 1 /\ t = [i \in 1 .. n - 1 |-> t[i]]
          /\ t[1] = f /\ \A i \in 1 .. n - 2 : t[i + 1] = SubSeq(s, 3, n)[i]
      BY <1>4, <1>8, <1>10, <2>1
    <2>3. ASSUME NEW i \in 2 .. n - 1 PROVE t[i] = s[i + 1]
      <3>1. i - 1 \in 1 .. n - 2 /\ (i - 1) + 1 = i /\ (i - 1) + 2 = i + 1
        OBVIOUS
      <3> QED
        BY <1>8, <1>10, <2>2, <3>1
    <2> QED
      BY <2>2, <2>3
  <1>11. \A t : t = <<f>> \o s =>
            /\ Len(t) = n + 1 /\ t = [i \in 1 .. n + 1 |-> t[i]]
            /\ t[1] = f /\ \A i \in 1 .. n : t[i + 1] = s[i]
    BY <1>1, <1>4
  <1> QED
    BY <1>1, <1>5, <1>6, <1>7, <1>9, <1>10, <1>11

LEMMA StackFacts ==
    ASSUME NEW s, Nested(s)
    PROVE  /\ s # << >> <=> Len(s) > 0
           /\ Len(s) > 0 => Head(s) = s[1] /\ s[1] \in Locals
           /\ \A i \in 2 .. Len(s) :
                 /\ s[i].op = "arena" => s[i].at = "ensure"
                 /\ s[i].at \in {"ensure", "stage", "manager", "build"}
           /\ Making(s) = IF Len(s) > 0 /\ s[1].at \in Arenas THEN {1} ELSE {}
           /\ \A i \in 1 .. Len(s) :
                 /\ s[i].op \in {"umalloc", "launcher"} => i = Len(s)
                 /\ s[i].op = "backend" =>
                       /\ Len(s) = i + 1 /\ s[i + 1].op = "launcher"
                       /\ s[i + 1].at = "ensure"
                 /\ s[i].op = "init" =>
                       i < Len(s) /\ s[i + 1].at = "ensure" /\ s[i + 1].op # "init"
  <1>1. /\ s # << >> <=> Len(s) > 0
        /\ Len(s) > 0 => Head(s) = s[1] /\ s[1] \in Locals
    BY SequenceFacts DEF Nested
  <1>2. ASSUME NEW i \in 2 .. Len(s)
        PROVE  /\ s[i].op = "arena" => s[i].at = "ensure"
               /\ s[i].at \in {"ensure", "stage", "manager", "build"}
    <2>1. i - 1 \in 1 .. Len(s) - 1 /\ (i - 1) + 1 = i /\ i \in 1 .. Len(s)
      BY DEF Nested
    <2>2. Interrupts(s[i - 1], s[i])
      BY <2>1 DEF Nested
    <2>3. s[i].op = "init" => s[i].at \in {"stage", "manager"}
      BY <2>1 DEF Nested, Locals
    <2> QED
      BY <2>2, <2>3 DEF Interrupts
  <1>3. Making(s) = IF Len(s) > 0 /\ s[1].at \in Arenas THEN {1} ELSE {}
    BY <1>2 DEF Making, Arenas, Nested
  <1>4. ASSUME NEW i \in 1 .. Len(s), i < Len(s)
        PROVE  /\ Interrupts(s[i], s[i + 1]) /\ i + 1 \in 1 .. Len(s)
               /\ s[i].op \notin {"umalloc", "launcher"}
    BY <1>4 DEF Nested, Interrupts
  <1>5. ASSUME NEW i \in 1 .. Len(s), s[i].op \in {"backend", "init"}
        PROVE  i < Len(s)
    BY <1>5 DEF Nested
  <1>6. ASSUME NEW i \in 1 .. Len(s), s[i].op = "backend"
        PROVE  /\ Len(s) = i + 1 /\ s[i + 1].op = "launcher"
               /\ s[i + 1].at = "ensure"
    <2>1. i < Len(s) /\ s[i + 1].op = "launcher" /\ s[i + 1].at = "ensure"
      BY <1>4, <1>5, <1>6 DEF Interrupts
    <2>2. ~(i + 1 < Len(s))
      BY <1>4, <2>1
    <2> QED
      BY <2>1, <2>2 DEF Nested
  <1>7. ASSUME NEW i \in 1 .. Len(s), s[i].op = "init"
        PROVE  i < Len(s) /\ s[i + 1].at = "ensure" /\ s[i + 1].op # "init"
    BY <1>4, <1>5, <1>7 DEF Interrupts
  <1>8. ASSUME NEW i \in 1 .. Len(s), s[i].op \in {"umalloc", "launcher"}
        PROVE  i = Len(s)
    BY <1>4, <1>8 DEF Nested
  <1> QED
    BY <1>1, <1>2, <1>3, <1>6, <1>7, <1>8

LEMMA PushChain ==
    ASSUME Nested(stack), NEW f \in Locals, stack' = <<f>> \o stack,
           \/ Len(stack) = 0 /\ f.op \in {"arena", "umalloc", "launcher"}
           \/ Len(stack) > 0 /\ Interrupts(f, stack[1])
    PROVE  /\ Nested(stack') /\ Len(stack') = Len(stack) + 1 /\ stack'[1] = f
           /\ \A i \in 1 .. Len(stack) : stack'[i + 1] = stack[i]
  <1>1. PICK n \in Nat : n = Len(stack)
    BY DEF Nested
  <1>2. stack = [i \in 1 .. n |-> stack[i]]
    BY <1>1 DEF Nested
  <1>3. /\ Len(stack') = n + 1 /\ stack' = [i \in 1 .. n + 1 |-> stack'[i]]
        /\ stack'[1] = f /\ \A i \in 1 .. n : stack'[i + 1] = stack[i]
    BY <1>1, <1>2, SequenceFacts
  <1>4. \A i \in 2 .. n + 1 : i - 1 \in 1 .. n /\ stack'[i] = stack[i - 1]
    <2> SUFFICES ASSUME NEW i \in 2 .. n + 1 PROVE i - 1 \in 1 .. n /\ stack'[i] = stack[i - 1]
      OBVIOUS
    <2>1. i - 1 \in 1 .. n /\ (i - 1) + 1 = i
      BY <1>1
    <2> QED
      BY <1>3, <2>1
  <1>5. \A i \in 1 .. n + 1 : stack'[i] \in Locals
    BY <1>1, <1>3, <1>4 DEF Nested
  <1>6. ASSUME NEW i \in 1 .. n PROVE Interrupts(stack'[i], stack'[i + 1])
    <2>1. CASE i = 1
      BY <1>1, <1>3, <2>1
    <2>2. CASE i # 1
      <3>1. i - 1 \in 1 .. n - 1 /\ (i - 1) + 1 = i /\ i \in 2 .. n + 1
        BY <1>1, <2>2
      <3>2. Interrupts(stack[i - 1], stack[i])
        BY <1>1, <3>1 DEF Nested
      <3> QED
        BY <1>3, <1>4, <3>1, <3>2
    <2> QED
      BY <2>1, <2>2
  <1>7. stack'[n + 1].op \in {"arena", "umalloc", "launcher"}
    <2>1. CASE n = 0
      BY <1>1, <1>3, <2>1
    <2>2. CASE n # 0
      <3>1. n \in 1 .. n /\ n > 0
        BY <1>1, <2>2
      <3> QED
        BY <1>1, <1>3, <3>1 DEF Nested
    <2> QED
      BY <2>1, <2>2
  <1>8. n + 1 \in Nat /\ (n + 1) - 1 = n
    BY <1>1
  <1> QED
    BY <1>1, <1>3, <1>5, <1>6, <1>7, <1>8 DEF Nested

LEMMA TopChain ==
    ASSUME Nested(stack), Len(stack) > 0, NEW f \in Locals, f.op = stack[1].op,
           stack' = <<f>> \o Tail(stack)
    PROVE  /\ Nested(stack') /\ Len(stack') = Len(stack) /\ stack'[1] = f
           /\ \A i \in 2 .. Len(stack) : stack'[i] = stack[i]
  <1>1. PICK n \in Nat : n = Len(stack)
    BY DEF Nested
  <1>2. stack = [i \in 1 .. n |-> stack[i]]
    BY <1>1 DEF Nested
  <1>3. /\ Len(stack') = n /\ stack' = [i \in 1 .. n |-> stack'[i]]
        /\ stack'[1] = f /\ \A i \in 2 .. n : stack'[i] = stack[i]
    BY <1>1, <1>2, SequenceFacts
  <1>4. \A i \in 1 .. n : stack'[i] \in Locals /\ stack'[i].op = stack[i].op
    BY <1>1, <1>3 DEF Nested
  <1>5. \A i \in 1 .. n - 1 : Interrupts(stack'[i], stack'[i + 1])
    <2> SUFFICES ASSUME NEW i \in 1 .. n - 1 PROVE Interrupts(stack'[i], stack'[i + 1])
      OBVIOUS
    <2>1. Interrupts(stack[i], stack[i + 1]) /\ i \in 1 .. n /\ i + 1 \in 2 .. n
      BY <1>1 DEF Nested
    <2>2. stack'[i].op = stack[i].op /\ stack'[i + 1] = stack[i + 1]
      BY <1>3, <1>4, <2>1
    <2> QED
      BY <2>1, <2>2 DEF Interrupts
  <1>6. n \in 1 .. n
    BY <1>1
  <1>7. stack'[n].op \in {"arena", "umalloc", "launcher"}
    BY <1>1, <1>4, <1>6 DEF Nested
  <1> QED
    BY <1>1, <1>3, <1>4, <1>5, <1>7 DEF Nested

LEMMA PopChain ==
    ASSUME Nested(stack), Len(stack) > 0, stack' = Tail(stack)
    PROVE  /\ Nested(stack') /\ Len(stack') = Len(stack) - 1
           /\ \A i \in 1 .. Len(stack) - 1 : stack'[i] = stack[i + 1]
  <1>1. PICK n \in Nat : n = Len(stack)
    BY DEF Nested
  <1>2. stack = [i \in 1 .. n |-> stack[i]] /\ n > 0 /\ n - 1 \in Nat
    BY <1>1 DEF Nested
  <1>3. /\ Len(stack') = n - 1 /\ stack' = [i \in 1 .. n - 1 |-> stack'[i]]
        /\ \A i \in 1 .. n - 1 : stack'[i] = stack[i + 1]
    BY <1>1, <1>2, SequenceFacts
  <1>4. \A i \in 1 .. n - 1 : stack'[i] \in Locals
    BY <1>1, <1>3 DEF Nested
  <1>5. \A i \in 1 .. (n - 1) - 1 : Interrupts(stack'[i], stack'[i + 1])
    <2> SUFFICES ASSUME NEW i \in 1 .. (n - 1) - 1 PROVE Interrupts(stack'[i], stack'[i + 1])
      OBVIOUS
    <2>1. i + 1 \in 1 .. n - 1 /\ i \in 1 .. n - 1
      BY <1>1
    <2>2. Interrupts(stack[i + 1], stack[(i + 1) + 1])
      BY <1>1, <2>1 DEF Nested
    <2> QED
      BY <1>3, <2>1, <2>2
  <1>6. n - 1 > 0 => stack'[n - 1].op \in {"arena", "umalloc", "launcher"}
    <2> SUFFICES ASSUME n - 1 > 0 PROVE stack'[n - 1].op \in {"arena", "umalloc", "launcher"}
      OBVIOUS
    <2>1. n - 1 \in 1 .. n - 1 /\ (n - 1) + 1 = n
      BY <1>1
    <2> QED
      BY <1>1, <1>3, <2>1 DEF Nested
  <1>7. PICK m \in Nat : m = n - 1
    BY <1>2
  <1>8. /\ Len(stack') = m /\ stack' = [i \in 1 .. m |-> stack'[i]]
        /\ \A i \in 1 .. m : stack'[i] \in Locals
        /\ \A i \in 1 .. m - 1 : Interrupts(stack'[i], stack'[i + 1])
        /\ m > 0 => stack'[m].op \in {"arena", "umalloc", "launcher"}
    BY <1>3, <1>4, <1>5, <1>6, <1>7
  <1>9. Nested(stack')
    BY <1>7, <1>8 DEF Nested
  <1> QED
    BY <1>1, <1>3, <1>7, <1>9

LEMMA ReturnChain ==
    ASSUME Nested(stack), Len(stack) > 1, NEW f \in Locals, f.op = stack[2].op,
           stack' = <<f>> \o SubSeq(stack, 3, Len(stack))
    PROVE  /\ Nested(stack') /\ Len(stack') = Len(stack) - 1 /\ stack'[1] = f
           /\ \A i \in 2 .. Len(stack) - 1 : stack'[i] = stack[i + 1]
  <1>1. PICK n \in Nat : n = Len(stack)
    BY DEF Nested
  <1>2. stack = [i \in 1 .. n |-> stack[i]] /\ n > 1 /\ n - 1 \in Nat
    BY <1>1 DEF Nested
  <1>3. /\ Len(stack') = n - 1 /\ stack' = [i \in 1 .. n - 1 |-> stack'[i]]
        /\ stack'[1] = f /\ \A i \in 2 .. n - 1 : stack'[i] = stack[i + 1]
    BY <1>1, <1>2, SequenceFacts
  <1>4. \A i \in 1 .. n - 1 : stack'[i] \in Locals /\ stack'[i].op = stack[i + 1].op
    <2> SUFFICES ASSUME NEW i \in 1 .. n - 1
                 PROVE  stack'[i] \in Locals /\ stack'[i].op = stack[i + 1].op
      OBVIOUS
    <2>1. CASE i = 1
      BY <1>3, <2>1
    <2>2. CASE i # 1
      <3>1. i \in 2 .. n - 1 /\ i + 1 \in 1 .. n
        BY <1>1, <2>2
      <3> QED
        BY <1>1, <1>3, <3>1 DEF Nested
    <2> QED
      BY <2>1, <2>2
  <1>5. \A i \in 1 .. (n - 1) - 1 : Interrupts(stack'[i], stack'[i + 1])
    <2> SUFFICES ASSUME NEW i \in 1 .. (n - 1) - 1 PROVE Interrupts(stack'[i], stack'[i + 1])
      OBVIOUS
    <2>1. i + 1 \in 2 .. n - 1 /\ i \in 1 .. n - 1 /\ i + 1 \in 1 .. n - 1
      BY <1>1
    <2>2. Interrupts(stack[i + 1], stack[(i + 1) + 1])
      BY <1>1, <2>1 DEF Nested
    <2>3. stack'[i].op = stack[i + 1].op /\ stack'[i + 1] = stack[(i + 1) + 1]
      BY <1>3, <1>4, <2>1
    <2> QED
      BY <2>2, <2>3 DEF Interrupts
  <1>6. stack'[n - 1].op \in {"arena", "umalloc", "launcher"}
    <2>1. n - 1 \in 1 .. n - 1 /\ (n - 1) + 1 = n /\ n > 0
      BY <1>2
    <2> QED
      BY <1>1, <1>4, <2>1 DEF Nested
  <1>7. PICK m \in Nat : m = n - 1
    BY <1>2
  <1>8. /\ Len(stack') = m /\ stack' = [i \in 1 .. m |-> stack'[i]]
        /\ \A i \in 1 .. m : stack'[i] \in Locals
        /\ \A i \in 1 .. m - 1 : Interrupts(stack'[i], stack'[i + 1])
        /\ m > 0 => stack'[m].op \in {"arena", "umalloc", "launcher"}
    BY <1>3, <1>4, <1>5, <1>6, <1>7
  <1>9. Nested(stack')
    BY <1>7, <1>8 DEF Nested
  <1> QED
    BY <1>1, <1>3, <1>7, <1>9

LEMMA PartsFacts ==
    /\ DOMAIN Parts = Arenas
    /\ \A own \in Arenas :
          Len(Parts[own]) \in Nat \ {0} /\ DOMAIN Parts[own] = 1 .. Len(Parts[own])
  BY DEF Parts, Arenas

LEMMA LocalFacts ==
    ASSUME NEW f \in Locals
    PROVE  /\ f.at = "ensure" => f.op # "init"
           /\ f.at \in {"stage", "manager"} => f.op = "init"
           /\ f.at \in Arenas => f.op = "arena"
           /\ f.at = "build" => f.op = "launcher"
           /\ f.op = "init" => f.at \notin Arenas /\ f.at \in {"stage", "manager"}
  BY DEF Locals, Arenas

(* Steps that only move the calls in progress on, given who is at work then. *)
LEMMA MoveKeeps ==
    ASSUME Objects, Nested(stack'), exit = 0, Flagged',
           UNCHANGED <<initialized, kind, live, exit, buffers>>,
           objects' = objects \/ objects' = objects \cup {"backend"},
           Making(stack) = {}, "arena" \notin objects \/ Making(stack') = {},
           \A i \in Making(stack') : stack'[i].step = 1,
           \A i \in Initing(stack') : stack'[i].at = "manager" => Device \in live,
           initializing' \/ ~initializing,
           initialized \/ initializing' <=> "backend" \in objects'
    PROVE  Objects'
  <1>1. LiveSound'
    BY DEF Objects, LiveSound, OwnedBy, ArenaObjects
  <1>2. ArenaSound'
    <2>1. ArenaObjects' = ArenaObjects /\ ("arena" \in objects' <=> "arena" \in objects)
      BY DEF ArenaObjects
    <2>2. ASSUME NEW i \in Making(stack')
          PROVE  /\ stack'[i].step \in 1 .. Len(Parts[stack'[i].at])
                 /\ ArenaObjects = Made(stack'[i].at, stack'[i].step - 1)
      <3>1. stack'[i].step = 1 /\ stack'[i].at \in Arenas
        BY DEF Making
      <3>2. ArenaObjects = {}
        BY DEF Objects, ArenaSound
      <3>3. Made(stack'[i].at, 0) = {}
        BY DEF Made
      <3> QED
        BY <3>1, <3>2, <3>3, PartsFacts
    <2> QED
      BY <2>1, <2>2 DEF Objects, ArenaSound, Made
  <1>3. OwnersSound'
    BY DEF Objects, OwnersSound, OwnedBy
  <1> QED
    BY <1>1, <1>2, <1>3 DEF Objects

(* Where the innermost call goes on with something else. *)
LEMMA TopKeeps ==
    ASSUME Objects, exit = 0, Len(stack) > 0, NEW f \in Locals, f.op = stack[1].op, f.op # "init",
           stack' = <<f>> \o Tail(stack), stack[1].at \notin Arenas,
           f.at \in Arenas \cup {"build"} \/ (f.at = "ensured" /\ f.ok) => initialized,
           f.at \in Arenas => f.step = 1,
           arenaInitializing' \in BOOLEAN, arenaInitializing' <=> f.at \in Arenas,
           UNCHANGED <<objects, initialized, initializing, kind, live, exit, buffers>>
    PROVE  Objects'
  <1>1. /\ Nested(stack) /\ Nested(stack') /\ Len(stack') = Len(stack) /\ stack'[1] = f
        /\ \A i \in 2 .. Len(stack) : stack'[i] = stack[i]
    BY TopChain DEF Objects
  <1>2. Initing(stack') = Initing(stack) /\ Initing(stack) \subseteq 2 .. Len(stack)
    BY <1>1 DEF Initing, Nested
  <1>3. /\ Making(stack) = {} /\ Making(stack') \subseteq {1}
        /\ Making(stack') # {} <=> f.at \in Arenas
    BY <1>1, StackFacts
  <1>4. Flagged'
    <2>1. \A i \in 1 .. Len(stack) : i = 1 \/ i \in 2 .. Len(stack)
      OBVIOUS
    <2> QED
      BY <1>1, <1>2, <1>3, <2>1 DEF Objects, Flagged
  <1>5. "arena" \notin objects \/ Making(stack') = {}
    <2>1. f.at \in Arenas => f.op = "arena" /\ 1 \in 1 .. Len(stack)
      BY <1>1, LocalFacts DEF Nested
    <2> QED
      BY <1>3, <2>1 DEF Objects, Flagged
  <1>6. /\ \A i \in Making(stack') : stack'[i].step = 1
        /\ \A i \in Initing(stack') : stack'[i].at = "manager" => Device \in live
    BY <1>1, <1>2, <1>3 DEF Objects, LiveSound
  <1> QED
    BY <1>1, <1>3, <1>4, <1>5, <1>6, MoveKeeps DEF Objects, LiveSound

(* Where a call begins, or is interrupted by another. *)
LEMMA PushKeeps ==
    ASSUME Objects, exit = 0, NEW f \in Locals, f.op # "init", f.at = "ensure",
           \/ Len(stack) = 0 /\ f.op \in {"arena", "umalloc", "launcher"}
           \/ Len(stack) > 0 /\ Interrupts(f, stack[1]),
           f.op = "arena" => "arena" \notin objects,
           stack' = <<f>> \o stack, Making(stack) = {},
           UNCHANGED <<objects, initialized, initializing, arenaInitializing, kind, live, exit, buffers>>
    PROVE  Objects'
  <1>1. /\ Nested(stack) /\ Nested(stack') /\ Len(stack') = Len(stack) + 1 /\ stack'[1] = f
        /\ \A i \in 1 .. Len(stack) : stack'[i + 1] = stack[i]
    BY PushChain DEF Objects
  <1>2. \A i \in 1 .. Len(stack') : i = 1 \/ (i - 1 \in 1 .. Len(stack) /\ stack'[i] = stack[i - 1])
    <2> SUFFICES ASSUME NEW i \in 1 .. Len(stack'), i # 1
                 PROVE  i - 1 \in 1 .. Len(stack) /\ stack'[i] = stack[i - 1]
      OBVIOUS
    <2>1. i - 1 \in 1 .. Len(stack) /\ (i - 1) + 1 = i
      BY <1>1 DEF Nested
    <2> QED
      BY <1>1, <2>1
  <1>3. Making(stack') = {}
    BY <1>1, StackFacts DEF Arenas
  <1>4. /\ \A i \in Initing(stack') : i - 1 \in Initing(stack) /\ stack'[i] = stack[i - 1]
        /\ \A i \in Initing(stack) : i + 1 \in Initing(stack')
    BY <1>1, <1>2 DEF Initing, Nested
  <1>5. Flagged'
    <2>1. Initing(stack') # {} <=> Initing(stack) # {}
      BY <1>4
    <2>2. \A i, j \in Initing(stack') : i = j
      <3> SUFFICES ASSUME NEW i \in Initing(stack'), NEW j \in Initing(stack') PROVE i = j
        OBVIOUS
      <3>1. i - 1 = j - 1 /\ i \in Int /\ j \in Int
        BY <1>4 DEF Objects, Flagged, Initing
      <3> QED
        BY <3>1
    <2>3. \A i \in 1 .. Len(stack') :
             /\ stack'[i].at = "ensured" /\ stack'[i].ok => initialized
             /\ stack'[i].at \in Arenas \cup {"build"} => initialized
             /\ stack'[i].op = "arena" => "arena" \notin objects
      BY <1>1, <1>2 DEF Objects, Flagged, Arenas
    <2> QED
      BY <1>3, <2>1, <2>2, <2>3 DEF Objects, Flagged
  <1>6. \A i \in Initing(stack') : stack'[i].at = "manager" => Device \in live
    BY <1>4 DEF Objects, LiveSound
  <1> QED
    BY <1>1, <1>3, <1>5, <1>6, MoveKeeps DEF Objects, LiveSound

(* Where a call returns without a result. *)
LEMMA PopKeeps ==
    ASSUME Objects, exit = 0, Len(stack) > 0, stack[1].op # "init",
           stack' = Tail(stack), stack[1].at \notin Arenas,
           UNCHANGED <<objects, initialized, initializing, arenaInitializing, kind, live, exit, buffers>>
    PROVE  Objects'
  <1>1. /\ Nested(stack) /\ Nested(stack') /\ Len(stack') = Len(stack) - 1
        /\ \A i \in 1 .. Len(stack) - 1 : stack'[i] = stack[i + 1]
    BY PopChain DEF Objects
  <1>2. \A i \in 1 .. Len(stack') : i + 1 \in 2 .. Len(stack) /\ stack'[i] = stack[i + 1]
    BY <1>1 DEF Nested
  <1>3. Making(stack) = {} /\ Making(stack') = {}
    <2>1. Making(stack) = {}
      BY <1>1, StackFacts
    <2>2. Making(stack') = {}
      BY <1>2, <2>1 DEF Making
    <2> QED
      BY <2>1, <2>2
  <1>4. /\ \A i \in Initing(stack') : i + 1 \in Initing(stack) /\ stack'[i] = stack[i + 1]
        /\ \A i \in Initing(stack) : i - 1 \in Initing(stack')
    <2>1. \A i \in Initing(stack') : i + 1 \in Initing(stack) /\ stack'[i] = stack[i + 1]
      BY <1>2 DEF Initing
    <2>2. ASSUME NEW i \in Initing(stack) PROVE i - 1 \in Initing(stack')
      <3>1. i - 1 \in 1 .. Len(stack') /\ (i - 1) + 1 = i
        BY <1>1 DEF Initing, Nested
      <3> QED
        BY <1>2, <3>1 DEF Initing
    <2> QED
      BY <2>1, <2>2
  <1>5. Flagged'
    <2>1. Initing(stack') # {} <=> Initing(stack) # {}
      BY <1>4
    <2>2. \A i, j \in Initing(stack') : i = j
      <3> SUFFICES ASSUME NEW i \in Initing(stack'), NEW j \in Initing(stack') PROVE i = j
        OBVIOUS
      <3>1. i + 1 = j + 1 /\ i \in Int /\ j \in Int
        BY <1>4 DEF Objects, Flagged, Initing
      <3> QED
        BY <3>1
    <2>3. \A i \in 1 .. Len(stack') :
             /\ stack'[i].at = "ensured" /\ stack'[i].ok => initialized
             /\ stack'[i].at \in Arenas \cup {"build"} => initialized
             /\ stack'[i].op = "arena" => "arena" \notin objects
      BY <1>1, <1>2 DEF Objects, Flagged
    <2> QED
      BY <1>3, <2>1, <2>2, <2>3 DEF Objects, Flagged
  <1>6. \A i \in Initing(stack') : stack'[i].at = "manager" => Device \in live
    BY <1>4 DEF Objects, LiveSound
  <1> QED
    BY <1>1, <1>3, <1>5, <1>6, MoveKeeps DEF Objects, LiveSound

LEMMA AtFacts ==
    ASSUME Objects, stack # << >>
    PROVE  /\ exit = 0 /\ Len(stack) > 0 /\ Head(stack) = stack[1] /\ stack[1] \in Locals
           /\ Nested(stack) /\ Len(stack) \in Nat
           /\ \A f : stack' = <<f>> \o Tail(stack) => stack' # << >>
           /\ stack[1].at \notin Arenas => Making(stack) = {}
  <1>1. Nested(stack) /\ exit = 0 /\ Len(stack) > 0
    BY StackFacts DEF Objects, Flagged, LiveSound
  <1>2. Head(stack) = stack[1] /\ stack[1] \in Locals /\ Len(stack) \in Nat
    BY <1>1, StackFacts DEF Nested
  <1>3. ASSUME NEW f, stack' = <<f>> \o Tail(stack) PROVE stack' # << >>
    <2>1. Len(stack') = Len(stack)
      BY <1>1, <1>2, <1>3, SequenceFacts DEF Nested
    <2>2. Len(<< >>) = 0
      OBVIOUS
    <2> QED
      BY <1>1, <2>1, <2>2
  <1>4. stack[1].at \notin Arenas => Making(stack) = {}
    BY <1>1, StackFacts
  <1> QED
    BY <1>1, <1>2, <1>3, <1>4

LEMMA EnsureKeeps ==
    ASSUME Objects, EnsureInitialized, UNCHANGED memoryVars
    PROVE  Objects'
  <1>1. /\ Len(stack) > 0 /\ Head(stack) = stack[1] /\ stack[1] \in Locals /\ exit = 0
        /\ stack[1].at = "ensure" /\ stack[1].at \notin Arenas /\ Making(stack) = {}
        /\ stack[1].op # "init" /\ Nested(stack)
        /\ UNCHANGED <<initialized, arenaInitializing, kind, live, pool, exit, buffers>>
        /\ initializing \in BOOLEAN
    BY AtFacts, LocalFacts DEF EnsureInitialized, memoryVars, Arenas, Objects, Flagged
  <1>2. CASE /\ stack' = <<[Head(stack) EXCEPT !.ok = initialized, !.at = "ensured"]>> \o Tail(stack)
             /\ UNCHANGED <<initializing, objects>>
    <2> DEFINE f == [stack[1] EXCEPT !.ok = initialized, !.at = "ensured"]
    <2>1. f \in Locals /\ f.op = stack[1].op /\ f.at = "ensured" /\ f.ok = initialized
      BY <1>1 DEF Locals, Objects, Flagged
    <2>2. stack' = <<f>> \o Tail(stack)
      BY <1>1, <1>2
    <2> HIDE DEF f
    <2>3. "ensured" \notin Arenas
      BY DEF Arenas
    <2>4. arenaInitializing' = FALSE
      BY <1>1 DEF Objects, Flagged
    <2>5. /\ f.at \notin Arenas \cup {"build"} /\ (f.at = "ensured" /\ f.ok => initialized)
          /\ f.op # "init"
      BY <1>1, <2>1 DEF Arenas
    <2> QED
      BY <1>1, <1>2, <2>1, <2>2, <2>4, <2>5, TopKeeps
  <1>3. CASE /\ ~initialized /\ ~initializing /\ initializing' = TRUE
             /\ objects' = objects \cup {"backend"}
             /\ stack' = <<Frame("init", "stage")>> \o stack
    <2> DEFINE f == Frame("init", "stage")
    <2>1. f \in Locals /\ f.op = "init" /\ f.at = "stage"
      BY DEF Locals, Frame
    <2>2. Interrupts(f, stack[1])
      BY <1>1, <2>1 DEF Interrupts, Locals
    <2> HIDE DEF f
    <2>3. /\ Nested(stack') /\ Len(stack') = Len(stack) + 1 /\ stack'[1] = f
          /\ \A i \in 1 .. Len(stack) : stack'[i + 1] = stack[i]
      BY <1>1, <1>3, <2>1, <2>2, PushChain DEF f
    <2>4. \A i \in 1 .. Len(stack') : i = 1 \/ (i - 1 \in 1 .. Len(stack) /\ stack'[i] = stack[i - 1])
      <3> SUFFICES ASSUME NEW i \in 1 .. Len(stack'), i # 1
                   PROVE  i - 1 \in 1 .. Len(stack) /\ stack'[i] = stack[i - 1]
        OBVIOUS
      <3>1. i - 1 \in 1 .. Len(stack) /\ (i - 1) + 1 = i
        BY <1>1, <2>3 DEF Nested
      <3> QED
        BY <2>3, <3>1
    <2>5. Initing(stack) = {} /\ Initing(stack') = {1}
      <3>1. Initing(stack) = {}
        BY <1>3 DEF Objects, Flagged
      <3>2. 1 \in 1 .. Len(stack')
        BY <1>1, <2>3 DEF Nested
      <3> QED
        BY <2>1, <2>3, <2>4, <3>1, <3>2 DEF Initing
    <2>6. Making(stack') = {}
      BY <2>1, <2>3, StackFacts DEF Arenas
    <2>7. Flagged'
      <3>1. \A i \in 1 .. Len(stack') :
               /\ stack'[i].at = "ensured" /\ stack'[i].ok => initialized
               /\ stack'[i].at \in Arenas \cup {"build"} => initialized
               /\ stack'[i].op = "arena" => "arena" \notin objects'
        BY <1>3, <2>1, <2>3, <2>4 DEF Objects, Flagged, Arenas
      <3>2. ~initialized' /\ initializing' = TRUE /\ ~arenaInitializing' /\ ~(exit' > 0)
        BY <1>1, <1>3 DEF Objects, Flagged
      <3>3. initialized' \in BOOLEAN /\ arenaInitializing' \in BOOLEAN
        BY <1>1 DEF Objects, Flagged
      <3>4. \A i, j \in Initing(stack') : i = j
        BY <2>5
      <3>5. Initing(stack') # {}
        BY <2>5
      <3> QED
        BY <1>1, <2>6, <3>1, <3>2, <3>3, <3>4, <3>5 DEF Flagged
    <2>8. \A i \in Initing(stack') : stack'[i].at = "manager" => Device \in live
      BY <2>1, <2>3, <2>5
    <2> QED
      BY <1>1, <1>3, <2>3, <2>6, <2>7, <2>8, MoveKeeps
  <1> QED
    BY <1>2, <1>3 DEF EnsureInitialized

LEMMA GetArenaKeeps ==
    ASSUME Objects, GetArena, UNCHANGED memoryVars
    PROVE  Objects'
  <1> DEFINE f == Frame("arena", "ensure")
  <1>1. f \in Locals /\ f.op = "arena" /\ f.at = "ensure"
    BY DEF Locals, Frame
  <1>2. /\ exit = 0 /\ "arena" \notin objects /\ stack' = <<f>> \o stack
        /\ UNCHANGED <<objects, initialized, initializing, arenaInitializing, kind, live, exit, buffers>>
        /\ Nested(stack) /\ Making(stack) = {}
    BY DEF GetArena, flags, memoryVars, Objects, Flagged
  <1> HIDE DEF f
  <1>3. \/ Len(stack) = 0
        \/ Len(stack) > 0 /\ Interrupts(f, stack[1])
    <2>1. CASE stack = << >>
      <3>1. Len(<< >>) = 0
        OBVIOUS
      <3> QED
        BY <2>1, <3>1
    <2>2. CASE stack # << >>
      <3>1. Len(stack) > 0 /\ stack[1] \in Locals /\ Head(stack) = stack[1]
        BY <2>2, AtFacts
      <3>2. stack[1].at \in {"stage", "manager", "build"}
        BY <1>2, <2>2, <3>1, StackFacts DEF GetArena, Arenas
      <3> QED
        BY <1>1, <3>1, <3>2, LocalFacts DEF Interrupts
    <2> QED
      BY <2>1, <2>2
  <1> QED
    BY <1>1, <1>2, <1>3, PushKeeps

LEMMA ArenaBeginKeeps ==
    ASSUME Objects, ArenaBegin, UNCHANGED memoryVars
    PROVE  Objects'
  <1>1. /\ stack # << >> /\ Len(stack) > 0 /\ Head(stack) = stack[1] /\ stack[1] \in Locals /\ exit = 0
        /\ stack[1].op = "arena" /\ stack[1].at = "ensured" /\ stack[1].at \notin Arenas
        /\ Nested(stack) /\ Making(stack) = {}
        /\ UNCHANGED <<objects, initialized, initializing, kind, live, pool, exit, buffers>>
    BY AtFacts DEF ArenaBegin, At, memoryVars, Arenas
  <1>2. ASSUME NEW own \in Arenas, GoOn(own), stack[1].ok, arenaInitializing' = TRUE
        PROVE  Objects'
    <2>1. PICK f : f = [stack[1] EXCEPT !.at = own, !.step = 1]
      OBVIOUS
    <2>2. f \in Locals /\ f.op = stack[1].op /\ f.at = own /\ f.step = 1
      <3>1. /\ f = [op |-> stack[1].op, at |-> own, step |-> 1,
                    ok |-> stack[1].ok, got |-> stack[1].got]
            /\ stack[1].ok \in BOOLEAN /\ stack[1].got \in BOOLEAN
        BY <1>1, <2>1 DEF Locals
      <3> QED
        BY <1>1, <1>2, <3>1 DEF Locals
    <2>4. stack' = <<f>> \o Tail(stack)
      BY <1>1, <1>2, <2>1 DEF GoOn
    <2>3. initialized
      <3>1. 1 \in 1 .. Len(stack)
        BY <1>1 DEF Nested
      <3> QED
        BY <1>1, <1>2, <3>1 DEF Objects, Flagged
    <2> QED
      BY <1>1, <1>2, <2>2, <2>3, <2>4, TopKeeps
  <1>3. CASE ArenaDone /\ UNCHANGED arenaInitializing
    BY <1>1, <1>3, PopKeeps DEF ArenaDone
  <1> QED
    BY <1>1, <1>2, <1>3 DEF ArenaBegin, Arenas

(* Return: the result goes to the call below, if there is one. *)
LEMMA ReturnEffect ==
    ASSUME Objects, Len(stack) > 0, stack[1].op = "init", NEW r \in BOOLEAN, Return(r)
    PROVE  /\ Nested(stack') /\ Len(stack') = Len(stack) - 1 /\ Len(stack') > 0
           /\ stack'[1] = [stack[2] EXCEPT !.ok = r, !.at = "ensured"]
           /\ stack'[1].op = stack[2].op /\ stack'[1].at = "ensured" /\ stack'[1].ok = r
           /\ stack[2].op # "init" /\ 2 \in 1 .. Len(stack)
           /\ \A i \in 2 .. Len(stack') : stack'[i] = stack[i + 1] /\ i + 1 \in 3 .. Len(stack)
           /\ Making(stack) = {} /\ Making(stack') = {}
           /\ Initing(stack) = {1} /\ Initing(stack') = {}
  <1>1. Nested(stack) /\ Len(stack) \in Nat /\ 1 \in 1 .. Len(stack)
    BY DEF Objects, Nested
  <1>2. Len(stack) > 1 /\ stack[2].at = "ensure" /\ stack[2].op # "init" /\ stack[2] \in Locals
        /\ 2 \in 1 .. Len(stack)
    <2>1. 1 < Len(stack) /\ stack[1 + 1].at = "ensure" /\ stack[1 + 1].op # "init"
      BY <1>1, StackFacts
    <2> QED
      BY <1>1, <2>1 DEF Nested
  <1> DEFINE f == [stack[2] EXCEPT !.ok = r, !.at = "ensured"]
  <1>3. f \in Locals /\ f.op = stack[2].op /\ f.at = "ensured" /\ f.ok = r
    BY <1>2 DEF Locals
  <1>4. stack' = <<f>> \o SubSeq(stack, 3, Len(stack))
    BY <1>2 DEF Return
  <1> HIDE DEF f
  <1>5. /\ Nested(stack') /\ Len(stack') = Len(stack) - 1 /\ stack'[1] = f
        /\ \A i \in 2 .. Len(stack) - 1 : stack'[i] = stack[i + 1]
    BY <1>1, <1>2, <1>3, <1>4, ReturnChain
  <1>6. /\ Len(stack') > 0
        /\ \A i \in 2 .. Len(stack') : stack'[i] = stack[i + 1] /\ i + 1 \in 3 .. Len(stack)
    BY <1>1, <1>2, <1>5
  <1>7. Making(stack) = {} /\ Making(stack') = {}
    <2>1. stack[1].at \notin Arenas /\ f.at \notin Arenas
      BY <1>1, <1>3, LocalFacts DEF Nested, Arenas
    <2> QED
      BY <1>1, <1>5, <2>1, StackFacts
  <1>8. Initing(stack) = {1}
    <2>1. 1 \in Initing(stack)
      BY <1>1 DEF Initing
    <2> QED
      BY <2>1 DEF Objects, Flagged
  <1>9. Initing(stack') = {}
    <2> SUFFICES ASSUME NEW i \in Initing(stack') PROVE FALSE
      OBVIOUS
    <2>1. i \in 1 .. Len(stack') /\ stack'[i].op = "init"
      BY DEF Initing
    <2>2. i # 1
      BY <1>2, <1>3, <1>5, <2>1
    <2>3. i + 1 \in Initing(stack)
      <3>1. i \in 2 .. Len(stack')
        BY <1>5, <2>1, <2>2 DEF Nested
      <3>2. i + 1 \in 1 .. Len(stack) /\ stack[i + 1].op = "init"
        BY <1>6, <2>1, <3>1
      <3> QED
        BY <3>2 DEF Initing
    <2> QED
      BY <1>8, <2>1, <2>2, <2>3
  <1> QED
    BY <1>2, <1>3, <1>5, <1>6, <1>7, <1>8, <1>9 DEF f

LEMMA InitStageKeeps ==
    ASSUME Objects, InitStage, UNCHANGED memoryVars
    PROVE  Objects'
  <1>1. /\ stack # << >> /\ Len(stack) > 0 /\ Head(stack) = stack[1] /\ stack[1] \in Locals /\ exit = 0
        /\ stack[1].op = "init" /\ stack[1].at = "stage" /\ Nested(stack) /\ Making(stack) = {}
        /\ UNCHANGED <<kind, exit, buffers>> /\ 1 \in 1 .. Len(stack) /\ Len(stack) \in Nat
    BY AtFacts, LocalFacts DEF InitStage, At, memoryVars, Nested
  <1>2. /\ Initing(stack) = {1} /\ initializing /\ ~initialized /\ ~arenaInitializing
        /\ stack[1].step \in 1 .. 4
    <2>1. 1 \in Initing(stack)
      BY <1>1 DEF Initing
    <2>2. stack[1].step \in 1 .. 4
      BY <1>1 DEF Locals
    <2> QED
      BY <1>1, <2>1, <2>2 DEF Objects, Flagged
  <1>3. live = OwnedBy("backend") /\ "backend" \in objects /\ "manager" \notin objects
    BY <1>1, <1>2 DEF Objects, LiveSound
  <1> DEFINE stage == Stages[stack[1].step]
  <1>4. stage \in {"instance", "messenger", "physical", "device"} /\ (stage = "device" => stack[1].step = 4)
        /\ (stage # "device" => stack[1].step + 1 \in 1 .. 4)
    BY <1>2 DEF Stages
  <1> HIDE DEF stage
  <1>5. ASSUME NEW f \in Locals, f.op = "init", f.at = "manager" => Device \in live',
               stack' = <<f>> \o Tail(stack), UNCHANGED <<flags, objects>>,
               live \subseteq live', \A x \in live' : x \in live \/ x[1] = "backend"
        PROVE  Objects'
    <2>1. /\ Nested(stack') /\ Len(stack') = Len(stack) /\ stack'[1] = f
          /\ \A i \in 2 .. Len(stack) : stack'[i] = stack[i]
      BY <1>1, <1>5, TopChain
    <2>2. Initing(stack') = {1}
      <3>1. \A i \in 1 .. Len(stack) : i = 1 \/ i \in 2 .. Len(stack)
        OBVIOUS
      <3> QED
        BY <1>1, <1>2, <1>5, <2>1, <3>1 DEF Initing
    <2>3. Making(stack') = {} /\ f.at \notin Arenas \cup {"build", "ensured"}
      BY <1>5, <2>1, StackFacts, LocalFacts DEF Arenas
    <2>4. Flagged'
      <3>1. \A i \in 1 .. Len(stack') : i = 1 \/ (i \in 2 .. Len(stack) /\ stack'[i] = stack[i])
        BY <2>1
      <3>2. \A i \in 1 .. Len(stack') :
               /\ stack'[i].at = "ensured" /\ stack'[i].ok => initialized
               /\ stack'[i].at \in Arenas \cup {"build"} => initialized
               /\ stack'[i].op = "arena" => "arena" \notin objects
        BY <1>5, <2>1, <2>3, <3>1 DEF Objects, Flagged
      <3> QED
        BY <1>1, <1>2, <1>5, <2>2, <2>3, <3>2 DEF flags, Objects, Flagged
    <2>5. LiveSound'
      <3>1. \A x \in live' : x[1] = "backend"
        BY <1>3, <1>5 DEF OwnedBy
      <3>2. live' = OwnedBy("backend")'
        BY <3>1 DEF OwnedBy
      <3> QED
        BY <1>1, <1>2, <1>3, <1>5, <2>1, <2>2, <3>1, <3>2 DEF flags, Objects, LiveSound
    <2>6. ArenaObjects' = ArenaObjects /\ OwnedBy("launcher")' = OwnedBy("launcher")
          /\ \A a : <<"manager", a>> \in live' <=> <<"manager", a>> \in live
      BY <1>5, PartsFacts DEF ArenaObjects, OwnedBy, Arenas
    <2>7. ArenaSound'
      BY <1>1, <1>5, <2>3, <2>6 DEF Objects, ArenaSound
    <2>8. OwnersSound'
      BY <1>1, <1>5, <2>6 DEF flags, Objects, OwnersSound
    <2> QED
      BY <2>1, <2>4, <2>5, <2>7, <2>8 DEF Objects
  <1>6. ASSUME NEW f, f = [stack[1] EXCEPT !.step = @ + 1], stage # "device"
        PROVE  f \in Locals /\ f.op = "init" /\ f.at = "stage"
    BY <1>1, <1>2, <1>4, <1>6 DEF Locals
  <1>7. ASSUME NEW f, f = [stack[1] EXCEPT !.at = "manager", !.step = 1]
        PROVE  f \in Locals /\ f.op = "init" /\ f.at = "manager"
    <2>1. /\ f = [op |-> stack[1].op, at |-> "manager", step |-> 1,
                  ok |-> stack[1].ok, got |-> stack[1].got]
          /\ stack[1].ok \in BOOLEAN /\ stack[1].got \in BOOLEAN
      BY <1>1, <1>7 DEF Locals
    <2> QED
      BY <1>1, <2>1 DEF Locals
  <1>8. CASE /\ live' = IF stage = "physical" THEN live ELSE live \cup {<<"backend", stage>>}
             /\ IF stage = "device" THEN GoOn("manager") ELSE NextStep
             /\ UNCHANGED <<flags, objects>>
    <2>1. live \subseteq live' /\ \A x \in live' : x \in live \/ x[1] = "backend"
      BY <1>8
    <2>2. CASE stage = "device"
      <3>1. Device \in live'
        BY <1>8, <2>2 DEF Device
      <3>2. PICK f : f = [stack[1] EXCEPT !.at = "manager", !.step = 1] /\ stack' = <<f>> \o Tail(stack)
        BY <1>1, <1>8, <2>2 DEF GoOn
      <3> QED
        BY <1>5, <1>7, <1>8, <2>1, <3>1, <3>2
    <2>3. CASE stage # "device"
      <3>1. PICK f : f = [stack[1] EXCEPT !.step = @ + 1] /\ stack' = <<f>> \o Tail(stack)
        BY <1>1, <1>8, <2>3 DEF NextStep
      <3> QED
        BY <1>5, <1>6, <1>8, <2>1, <2>3, <3>1
    <2> QED
      BY <2>2, <2>3
  <1>9. CASE stage = "messenger" /\ NextStep /\ UNCHANGED <<flags, objects, live>>
    <2>1. PICK f : f = [stack[1] EXCEPT !.step = @ + 1] /\ stack' = <<f>> \o Tail(stack)
      BY <1>1, <1>9 DEF NextStep
    <2> QED
      BY <1>5, <1>6, <1>9, <2>1
  <1>10. CASE /\ live' = live \ OwnedBy("backend") /\ objects' = objects \ {"backend"}
              /\ ClearInitializing /\ Return(FALSE) /\ UNCHANGED <<initialized, arenaInitializing>>
    <2>1. live' = {} /\ ~initializing' /\ initializing' \in BOOLEAN
      BY <1>3, <1>10 DEF ClearInitializing
    <2>2. /\ Nested(stack') /\ Making(stack') = {} /\ Initing(stack') = {}
          /\ stack'[1].at = "ensured" /\ ~stack'[1].ok /\ stack'[1].op = stack[2].op
          /\ 2 \in 1 .. Len(stack)
          /\ \A i \in 2 .. Len(stack') : stack'[i] = stack[i + 1] /\ i + 1 \in 3 .. Len(stack)
      BY <1>1, <1>10, ReturnEffect
    <2>3. Flagged'
      <3>1. \A i \in 1 .. Len(stack') : i = 1 \/ i \in 2 .. Len(stack')
        OBVIOUS
      <3>2. \A i \in 1 .. Len(stack') :
               /\ stack'[i].at = "ensured" /\ stack'[i].ok => initialized
               /\ stack'[i].at \in Arenas \cup {"build"} => initialized
               /\ stack'[i].op = "arena" => "arena" \notin objects'
        BY <1>10, <2>2, <3>1 DEF Objects, Flagged, Arenas
      <3> QED
        BY <1>1, <1>2, <1>10, <2>1, <2>2, <3>2 DEF Objects, Flagged
    <2>4. LiveSound'
      BY <1>1, <1>2, <1>3, <1>10, <2>1, <2>2 DEF Objects, LiveSound, OwnedBy, ArenaObjects
    <2>5. ArenaObjects = {} /\ ArenaObjects' = {} /\ OwnedBy("launcher") = {} /\ OwnedBy("launcher")' = {}
          /\ \A a : <<"manager", a>> \notin live' /\ <<"manager", a>> \notin live
      BY <1>3, <2>1, PartsFacts DEF ArenaObjects, OwnedBy, Arenas
    <2>6. ArenaSound'
      BY <1>1, <1>10, <2>2, <2>5 DEF Objects, ArenaSound
    <2>7. OwnersSound'
      BY <1>1, <1>2, <1>10, <2>5 DEF Objects, OwnersSound
    <2> QED
      BY <2>2, <2>3, <2>4, <2>6, <2>7 DEF Objects
  <1> QED
    BY <1>1, <1>8, <1>9, <1>10 DEF InitStage, stage

LEMMA InitManagerKeeps ==
    ASSUME Objects, InitManager, UNCHANGED memoryVars
    PROVE  Objects'
  <1>1. /\ Len(stack) > 0 /\ stack[1].op = "init" /\ stack[1].at = "manager" /\ exit = 0
        /\ UNCHANGED <<arenaInitializing, kind, live, exit, buffers>>
        /\ objects' = objects \cup {"manager"} /\ initialized' = TRUE /\ initializing' = FALSE
        /\ Return(TRUE)
    BY AtFacts DEF InitManager, At, memoryVars
  <1>2. /\ Nested(stack') /\ Making(stack) = {} /\ Making(stack') = {}
        /\ Initing(stack) = {1} /\ Initing(stack') = {}
        /\ stack'[1].at = "ensured" /\ stack'[1].op = stack[2].op /\ 2 \in 1 .. Len(stack)
        /\ \A i \in 2 .. Len(stack') : stack'[i] = stack[i + 1] /\ i + 1 \in 3 .. Len(stack)
    BY <1>1, ReturnEffect
  <1>3. initializing /\ ~initialized /\ ~arenaInitializing /\ Device \in live
    BY <1>1, <1>2 DEF Objects, Flagged, LiveSound
  <1>4. live = OwnedBy("backend") /\ "backend" \in objects
    BY <1>1, <1>3 DEF Objects, LiveSound
  <1>5. Flagged'
    <2>1. \A i \in 1 .. Len(stack') : i = 1 \/ i \in 2 .. Len(stack')
      OBVIOUS
    <2>2. \A i \in 1 .. Len(stack') : stack'[i].op = "arena" => "arena" \notin objects'
      BY <1>1, <1>2, <2>1 DEF Objects, Flagged
    <2>3. initializing' \in BOOLEAN /\ initialized' \in BOOLEAN /\ arenaInitializing' \in BOOLEAN
      BY <1>1 DEF Objects, Flagged
    <2> QED
      BY <1>1, <1>2, <1>3, <2>2, <2>3 DEF Flagged
  <1>6. LiveSound'
    BY <1>1, <1>2, <1>3, <1>4 DEF Objects, LiveSound, OwnedBy, ArenaObjects
  <1>7. ArenaSound'
    BY <1>1, <1>2 DEF Objects, ArenaSound, ArenaObjects
  <1>8. OwnersSound'
    BY <1>1 DEF Objects, OwnersSound, OwnedBy
  <1> QED
    BY <1>2, <1>5, <1>6, <1>7, <1>8 DEF Objects

(* While the arena is being made, the calls in progress and who is at work. *)
LEMMA MakingFacts ==
    ASSUME Objects, stack # << >>, stack[1].at \in Arenas
    PROVE  /\ exit = 0 /\ Nested(stack) /\ Len(stack) \in Nat /\ 1 \in 1 .. Len(stack)
           /\ Head(stack) = stack[1] /\ stack[1] \in Locals /\ stack[1].op = "arena"
           /\ Making(stack) = {1} /\ Initing(stack) = {}
           /\ initialized /\ ~initializing /\ arenaInitializing /\ "arena" \notin objects
           /\ stack[1].step \in 1 .. Len(Parts[stack[1].at])
           /\ ArenaObjects = Made(stack[1].at, stack[1].step - 1)
           /\ \A i \in 2 .. Len(stack) : stack[i].op = "launcher" /\ stack[i].at = "build"
  <1>1. /\ exit = 0 /\ Nested(stack) /\ Len(stack) \in Nat /\ 1 \in 1 .. Len(stack)
        /\ Head(stack) = stack[1] /\ stack[1] \in Locals /\ stack[1].op = "arena"
    BY AtFacts, LocalFacts
  <1>2. Making(stack) = {1}
    BY <1>1, StackFacts
  <1>3. initialized /\ ~initializing /\ arenaInitializing /\ "arena" \notin objects
    BY <1>1, <1>2 DEF Objects, Flagged
  <1>4. Initing(stack) = {}
    BY <1>3 DEF Objects, Flagged
  <1>5. /\ stack[1].step \in 1 .. Len(Parts[stack[1].at])
        /\ ArenaObjects = Made(stack[1].at, stack[1].step - 1)
    BY <1>1, <1>2 DEF Objects, ArenaSound
  <1>6. ASSUME NEW i \in 2 .. Len(stack)
        PROVE  stack[i].op = "launcher" /\ stack[i].at = "build"
    <2>0. i \in Int /\ 2 <= i /\ i <= Len(stack)
      BY <1>6
    <2>1. 2 \in 1 .. Len(stack) /\ Interrupts(stack[1], stack[1 + 1])
      <3>1. 2 \in 1 .. Len(stack) /\ 1 \in 1 .. Len(stack) - 1
        BY <1>1, <2>0
      <3> QED
        BY <3>1 DEF Nested, Objects
    <2>2. stack[2].op # "init"
      BY <1>4, <2>1 DEF Initing
    <2>3. stack[2].op = "launcher" /\ stack[2].at = "build"
      BY <1>1, <2>1, <2>2 DEF Interrupts
    <2>4. 2 = Len(stack)
      BY <1>1, <2>1, <2>3, StackFacts
    <2>5. i = 2
      <3>1. i \in Int /\ 2 <= i /\ i <= 2
        BY <2>0, <2>4
      <3> QED
        BY <3>1
    <2> QED
      BY <2>3, <2>5
  <1> QED
    BY <1>1, <1>2, <1>3, <1>4, <1>5, <1>6

LEMMA MakingGoesOn ==
    ASSUME Objects, stack # << >>, stack[1].at \in Arenas,
           NEW f \in Locals, f.op = "arena", f.at \in Arenas, stack' = <<f>> \o Tail(stack),
           UNCHANGED <<objects, initialized, initializing, arenaInitializing, exit>>
    PROVE  Nested(stack') /\ Flagged' /\ Making(stack') = {1} /\ stack'[1] = f
  <1>1. /\ exit = 0 /\ Nested(stack) /\ Len(stack) \in Nat /\ Len(stack) > 0 /\ 1 \in 1 .. Len(stack)
        /\ stack[1].op = "arena" /\ Making(stack) = {1} /\ Initing(stack) = {}
        /\ initialized /\ ~initializing /\ arenaInitializing /\ "arena" \notin objects
    BY MakingFacts
  <1>2. /\ Nested(stack') /\ Len(stack') = Len(stack) /\ stack'[1] = f
        /\ \A i \in 2 .. Len(stack) : stack'[i] = stack[i]
    BY <1>1, TopChain
  <1>3. \A i \in 1 .. Len(stack) : i = 1 \/ i \in 2 .. Len(stack)
    OBVIOUS
  <1>4. Initing(stack') = {}
    BY <1>1, <1>2, <1>3 DEF Initing
  <1>5. Making(stack') = {1}
    BY <1>1, <1>2, StackFacts
  <1>6. Flagged'
    BY <1>1, <1>4, <1>5 DEF Objects, Flagged
  <1> QED
    BY <1>2, <1>5, <1>6

LEMMA MakingEnds ==
    ASSUME Objects, stack # << >>, stack[1].at \in Arenas, stack' = Tail(stack),
           arenaInitializing' = FALSE, UNCHANGED <<initialized, initializing, exit>>
    PROVE  Nested(stack') /\ Flagged' /\ Making(stack') = {}
  <1>1. /\ exit = 0 /\ Nested(stack) /\ Len(stack) \in Nat /\ Len(stack) > 0
        /\ initialized /\ ~initializing
        /\ \A i \in 2 .. Len(stack) : stack[i].op = "launcher" /\ stack[i].at = "build"
    BY MakingFacts
  <1>2. /\ Nested(stack') /\ Len(stack') = Len(stack) - 1
        /\ \A i \in 1 .. Len(stack) - 1 : stack'[i] = stack[i + 1]
    BY <1>1, PopChain
  <1>3. \A i \in 1 .. Len(stack') : stack'[i].op = "launcher" /\ stack'[i].at = "build"
    <2> SUFFICES ASSUME NEW i \in 1 .. Len(stack')
                 PROVE  stack'[i].op = "launcher" /\ stack'[i].at = "build"
      OBVIOUS
    <2>1. i \in 1 .. Len(stack) - 1 /\ i + 1 \in 2 .. Len(stack)
      BY <1>1, <1>2
    <2> QED
      BY <1>1, <1>2, <2>1
  <1>4. Initing(stack') = {} /\ Making(stack') = {}
    BY <1>3 DEF Initing, Making, Arenas
  <1>5. Flagged'
    BY <1>1, <1>3, <1>4 DEF Objects, Flagged
  <1> QED
    BY <1>2, <1>4, <1>5

(* What the arena's making and failing leaves alone. *)
LEMMA MakingLive ==
    ASSUME Objects, exit = 0, initialized, Flagged',
           UNCHANGED <<initialized, initializing, exit, buffers>>,
           \A o \in {"backend", "manager", "launcher"} : o \in objects' <=> o \in objects,
           \A x \in live' : x \in live \/ x[1] \in Arenas,
           \A x \in live : x[1] \notin Arenas => x \in live'
    PROVE  LiveSound' /\ OwnersSound'
  <1>1. Device \in live' /\ initialized'
    BY DEF Objects, LiveSound, Device, Arenas
  <1>2. Initing(stack') = {}
    BY <1>1 DEF Flagged
  <1>3. LiveSound'
    BY <1>1, <1>2 DEF Objects, LiveSound
  <1>4. OwnedBy("launcher")' = OwnedBy("launcher")
    BY DEF OwnedBy, Arenas
  <1>5. \A a : <<"manager", a>> \in live' <=> <<"manager", a>> \in live
    BY DEF Arenas
  <1>6. OwnersSound'
    BY <1>1, <1>4, <1>5 DEF Objects, OwnersSound
  <1> QED
    BY <1>3, <1>6

LEMMA MadeOneMore ==
    ASSUME NEW own \in Arenas, NEW step \in 1 .. Len(Parts[own])
    PROVE  Made(own, step) = Made(own, step - 1) \cup {<<own, Parts[own][step]>>}
  <1>1. step \in Nat \ {0}
    BY PartsFacts
  <1>2. \A i : i \in 1 .. step <=> i \in 1 .. step - 1 \/ i = step
    BY <1>1
  <1> QED
    BY <1>2 DEF Made

LEMMA ArenaPartKeeps ==
    ASSUME Objects, ArenaPart, UNCHANGED memoryVars
    PROVE  Objects'
  <1>1. PICK own \in Arenas : own = stack[1].at
    BY AtFacts, PartsFacts DEF ArenaPart
  <1>2. /\ stack # << >> /\ stack[1].at \in Arenas /\ Head(stack) = stack[1]
        /\ Nested(stack) /\ stack[1] \in Locals /\ stack[1].op = "arena"
        /\ initialized /\ ~initializing /\ arenaInitializing /\ "arena" \notin objects
        /\ UNCHANGED <<initialized, initializing, exit, buffers>> /\ exit = 0
    BY <1>1, MakingFacts DEF ArenaPart, memoryVars
  <1>3. PICK step \in 1 .. Len(Parts[own]) :
           step = stack[1].step /\ ArenaObjects = Made(own, step - 1)
    BY <1>1, <1>2, MakingFacts
  <1>4. Len(Parts[own]) \in Nat /\ step \in Nat \ {0}
    BY <1>3, PartsFacts
  <1>5. \A x : x \in Made(own, step - 1) => x[1] \in Arenas
    BY DEF Made
  <1>6. CASE /\ live' = live \cup {<<own, Parts[own][step]>>}
             /\ step < Len(Parts[own]) /\ NextStep /\ UNCHANGED <<objects, arenaInitializing, kind>>
    <2>1. PICK f : f = [stack[1] EXCEPT !.step = @ + 1] /\ stack' = <<f>> \o Tail(stack)
      BY <1>2, <1>6 DEF NextStep
    <2>2. f = [stack[1] EXCEPT !.step = stack[1].step + 1]
      BY <2>1
    <2>3. stack[1] = [op |-> "arena", at |-> own, step |-> step,
                      ok |-> stack[1].ok, got |-> stack[1].got]
          /\ stack[1].ok \in BOOLEAN /\ stack[1].got \in BOOLEAN
      BY <1>1, <1>2, <1>3 DEF Locals
    <2>4. f = [op |-> "arena", at |-> own, step |-> step + 1,
               ok |-> stack[1].ok, got |-> stack[1].got]
      BY <1>3, <2>2, <2>3
    <2>5. f \in Locals /\ f.op = "arena" /\ f.at = own /\ f.step = step + 1
      BY <1>1, <1>2, <1>4, <2>3, <2>4 DEF Locals
    <2>6. Nested(stack') /\ Flagged' /\ Making(stack') = {1} /\ stack'[1] = f
      BY <1>1, <1>2, <1>6, <2>1, <2>5, MakingGoesOn
    <2>7. LiveSound' /\ OwnersSound'
      BY <1>1, <1>2, <1>6, <2>6, MakingLive
    <2>8. ArenaObjects' = Made(own, step)
      <3>1. ArenaObjects' = ArenaObjects \cup {<<own, Parts[own][step]>>}
        BY <1>1, <1>6, PartsFacts DEF ArenaObjects
      <3> QED
        BY <1>1, <1>3, <3>1, MadeOneMore
    <2>9. ArenaSound'
      <3>1. step + 1 \in 1 .. Len(Parts[own]) /\ (step + 1) - 1 = step
        BY <1>4, <1>6
      <3> QED
        BY <1>2, <1>6, <2>5, <2>6, <2>8, <3>1 DEF ArenaSound
    <2> QED
      BY <2>6, <2>7, <2>9 DEF Objects
  <1>7. CASE /\ live' = live \cup {<<own, Parts[own][step]>>}
             /\ step = Len(Parts[own])
             /\ objects' = objects \cup {"arena"} /\ kind' = own
             /\ arenaInitializing' = FALSE
             /\ ArenaDone
    <2>1. Nested(stack') /\ Flagged' /\ Making(stack') = {}
      BY <1>1, <1>2, <1>7, MakingEnds DEF ArenaDone
    <2>2. LiveSound' /\ OwnersSound'
      BY <1>1, <1>2, <1>7, <2>1, MakingLive
    <2>3. ArenaObjects' = Made(own, step)
      <3>1. ArenaObjects' = ArenaObjects \cup {<<own, Parts[own][step]>>}
        BY <1>1, <1>7, PartsFacts DEF ArenaObjects
      <3> QED
        BY <1>1, <1>3, <3>1, MadeOneMore
    <2>4. ArenaSound'
      BY <1>1, <1>7, <2>1, <2>3 DEF ArenaSound
    <2> QED
      BY <2>1, <2>2, <2>4 DEF Objects
  <1>8. ASSUME live' = Destroyed
        PROVE  /\ \A x \in live' : x \in live \/ x[1] \in Arenas
               /\ \A x \in live : x[1] \notin Arenas => x \in live'
               /\ ArenaObjects' = {}
    BY <1>8, PartsFacts DEF Destroyed, ArenaObjects
  <1>9. CASE /\ live' = Destroyed /\ UNCHANGED <<objects, kind, arenaInitializing>>
             /\ \E next \in {"uma", "staged"} : GoOn(next)
    <2>1. PICK next \in Arenas : GoOn(next)
      BY <1>9 DEF Arenas
    <2>2. PICK f : f = [stack[1] EXCEPT !.at = next, !.step = 1] /\ stack' = <<f>> \o Tail(stack)
      BY <1>2, <2>1 DEF GoOn
    <2>3. /\ f = [op |-> stack[1].op, at |-> next, step |-> 1,
                  ok |-> stack[1].ok, got |-> stack[1].got]
          /\ stack[1].ok \in BOOLEAN /\ stack[1].got \in BOOLEAN
      BY <1>2, <2>2 DEF Locals
    <2>4. f \in Locals /\ f.op = "arena" /\ f.at = next /\ f.step = 1
      BY <1>2, <2>1, <2>3 DEF Locals
    <2>5. Nested(stack') /\ Flagged' /\ Making(stack') = {1} /\ stack'[1] = f
      BY <1>2, <1>9, <2>1, <2>2, <2>4, MakingGoesOn
    <2>6. LiveSound' /\ OwnersSound' /\ ArenaObjects' = {}
      BY <1>2, <1>8, <1>9, <2>5, MakingLive
    <2>7. Made(next, 1 - 1) = {}
      BY DEF Made
    <2>8. ArenaSound'
      BY <1>2, <1>9, <2>1, <2>4, <2>5, <2>6, <2>7, PartsFacts DEF ArenaSound
    <2> QED
      BY <2>5, <2>6, <2>8 DEF Objects
  <1>10. CASE /\ live' = Destroyed /\ UNCHANGED <<objects, kind>>
              /\ arenaInitializing' = FALSE /\ ArenaDone
    <2>1. Nested(stack') /\ Flagged' /\ Making(stack') = {}
      BY <1>1, <1>2, <1>10, MakingEnds DEF ArenaDone
    <2>2. LiveSound' /\ OwnersSound' /\ ArenaObjects' = {}
      BY <1>2, <1>8, <1>10, <2>1, MakingLive
    <2>3. ArenaSound'
      BY <1>2, <1>10, <2>1, <2>2 DEF ArenaSound
    <2> QED
      BY <2>1, <2>2, <2>3 DEF Objects
  <1> QED
    BY <1>1, <1>2, <1>3, <1>6, <1>7, <1>9, <1>10 DEF ArenaPart

LEMMA IdleKeeps ==
    ASSUME Objects, UNCHANGED <<stack, objects, flags, kind, live, exit, buffers>>
    PROVE  Objects'
  BY DEF Objects, Flagged, LiveSound, ArenaSound, OwnersSound, flags, OwnedBy, ArenaObjects

(* No call in progress, and none but the program's own. *)
LEMMA NoCalls ==
    /\ Len(<< >>) = 0 /\ Nested(<< >>) /\ Initing(<< >>) = {} /\ Making(<< >>) = {}
  <1>1. Len(<< >>) = 0 /\ << >> = [i \in 1 .. 0 |-> << >>[i]]
    OBVIOUS
  <1>2. 1 .. 0 = {} /\ 1 .. 0 - 1 = {}
    OBVIOUS
  <1>3. Nested(<< >>)
    <2>1. PICK e : e = << >>
      OBVIOUS
    <2>2. Len(e) = 0 /\ e = [i \in 1 .. 0 |-> e[i]]
      BY <1>1, <2>1
    <2>3. Nested(e)
      BY <2>2 DEF Nested
    <2> QED
      BY <2>1, <2>3
  <1> QED
    BY <1>1, <1>2, <1>3 DEF Initing, Making

LEMMA LastCall ==
    ASSUME Objects, stack # << >>, stack[1].op \in {"umalloc", "launcher"}
    PROVE  /\ Len(stack) = 1 /\ Tail(stack) = << >> /\ Initing(stack) = {} /\ Making(stack) = {}
           /\ exit = 0 /\ Nested(stack) /\ 1 \in 1 .. Len(stack) /\ Head(stack) = stack[1]
           /\ stack[1] \in Locals /\ ~initializing /\ ~arenaInitializing
  <1>1. /\ exit = 0 /\ Nested(stack) /\ Len(stack) \in Nat /\ Len(stack) > 0
        /\ Head(stack) = stack[1] /\ stack[1] \in Locals /\ 1 \in 1 .. Len(stack)
    BY AtFacts
  <1>2. Len(stack) = 1
    BY <1>1, StackFacts
  <1>3. Tail(stack) = << >>
    <2>1. PICK t : t = Tail(stack)
      OBVIOUS
    <2>2. Len(t) = 0 /\ t = [i \in 1 .. 0 |-> t[i]]
      BY <1>1, <1>2, <2>1, SequenceFacts DEF Nested
    <2>3. t = << >>
      BY <2>2, SequenceFacts
    <2> QED
      BY <2>1, <2>3
  <1>4. stack[1].at \notin Arenas
    BY <1>1, LocalFacts
  <1>5. Making(stack) = {}
    BY <1>1, <1>4, StackFacts
  <1>6. Initing(stack) = {}
    <2>1. \A i \in 1 .. Len(stack) : i = 1
      BY <1>2
    <2> QED
      BY <2>1 DEF Initing
  <1> QED
    BY <1>1, <1>2, <1>3, <1>5, <1>6 DEF Objects, Flagged

LEMMA OnlyCall ==
    ASSUME NEW f \in Locals, f.op \in {"umalloc", "launcher"}
    PROVE  /\ Nested(<<f>>) /\ Len(<<f>>) = 1 /\ <<f>>[1] = f
           /\ Initing(<<f>>) = {} /\ Making(<<f>>) = {}
  <1>1. PICK e : e = <<f>>
    OBVIOUS
  <1>2. Len(e) = 1 /\ e = [i \in 1 .. 1 |-> e[i]] /\ e[1] = f
    BY <1>1
  <1>3. 1 .. 1 = {1} /\ 1 .. 1 - 1 = {} /\ 1 \in Nat
    OBVIOUS
  <1>4. Nested(e)
    BY <1>2, <1>3 DEF Nested
  <1>5. f.at \notin Arenas
    BY LocalFacts
  <1>6. Initing(e) = {} /\ Making(e) = {}
    BY <1>2, <1>3, <1>5 DEF Initing, Making
  <1> QED
    BY <1>1, <1>2, <1>4, <1>6

LEMMA GetLauncherKeeps ==
    ASSUME Objects, GetLauncher, UNCHANGED memoryVars
    PROVE  Objects'
  <1>1. /\ stack = << >> /\ exit = 0
        /\ UNCHANGED <<objects, initialized, initializing, arenaInitializing, kind, live, exit, buffers>>
    BY DEF GetLauncher, flags, memoryVars
  <1>2. Initing(stack) = {} /\ Making(stack) = {}
    BY <1>1, NoCalls
  <1>3. PICK f \in Locals, g \in Locals :
           /\ f.op = "backend" /\ f.at = "ensure" /\ g.op = "launcher" /\ g.at = "ensure"
           /\ stack' = <<f, g>>
    <2>1. Frame("backend", "ensure") \in Locals /\ Frame("launcher", "ensure") \in Locals
      BY DEF Frame, Locals
    <2> QED
      BY <2>1 DEF GetLauncher, Frame
  <1>4. Len(stack') = 2 /\ stack' = [i \in 1 .. 2 |-> stack'[i]] /\ stack'[1] = f /\ stack'[2] = g
    BY <1>3
  <1>5. 1 .. 2 = {1, 2} /\ 1 .. 2 - 1 = {1} /\ 2 \in Nat /\ 1 + 1 = 2
    OBVIOUS
  <1>6. Nested(stack')
    <2>1. Interrupts(f, g)
      BY <1>3 DEF Interrupts
    <2> QED
      BY <1>3, <1>4, <1>5, <2>1 DEF Nested
  <1>7. Initing(stack') = {} /\ Making(stack') = {}
    BY <1>3, <1>4, <1>5 DEF Initing, Making, Arenas
  <1>8. Flagged'
    <2>1. \A i \in 1 .. Len(stack') : stack'[i].at = "ensure" /\ stack'[i].op # "arena"
      BY <1>3, <1>4, <1>5
    <2> QED
      BY <1>1, <1>2, <1>7, <2>1 DEF Objects, Flagged, Arenas
  <1> QED
    BY <1>1, <1>2, <1>6, <1>7, <1>8, MoveKeeps DEF Objects, LiveSound

LEMMA GotBackendKeeps ==
    ASSUME Objects, GotBackend, UNCHANGED memoryVars
    PROVE  Objects'
  <1>1. /\ stack # << >> /\ Len(stack) > 0 /\ Nested(stack) /\ exit = 0
        /\ stack[1].op = "backend" /\ stack[1].at = "ensured" /\ stack[1].at \notin Arenas
        /\ Making(stack) = {} /\ 1 \in 1 .. Len(stack)
        /\ UNCHANGED <<objects, initialized, initializing, arenaInitializing, kind, live, exit, buffers>>
    BY AtFacts DEF GotBackend, At, flags, memoryVars, Arenas
  <1>2. Len(stack) = 2 /\ stack[2].op = "launcher" /\ stack[2].at = "ensure" /\ stack[2] \in Locals
    <2>1. Len(stack) = 1 + 1 /\ stack[1 + 1].op = "launcher" /\ stack[1 + 1].at = "ensure"
      BY <1>1, StackFacts
    <2> QED
      BY <1>1, <2>1 DEF Nested
  <1>3. PICK f : f = [stack[2] EXCEPT !.got = "backend" \in objects]
    OBVIOUS
  <1>4. f \in Locals /\ f.op = "launcher" /\ f.at = "ensure"
    <2>1. ("backend" \in objects) \in BOOLEAN
      OBVIOUS
    <2> QED
      BY <1>2, <1>3, <2>1 DEF Locals
  <1>5. stack' = <<f>>
    BY <1>3 DEF GotBackend
  <1>6. /\ Nested(stack') /\ Len(stack') = 1 /\ stack'[1] = f
        /\ Initing(stack') = {} /\ Making(stack') = {}
    BY <1>4, <1>5, OnlyCall
  <1>7. Initing(stack) = {}
    <2>1. \A i \in 1 .. Len(stack) : i = 1 \/ i = 2
      BY <1>2
    <2> QED
      BY <1>1, <1>2, <2>1 DEF Initing
  <1>8. Flagged'
    <2>1. \A i \in 1 .. Len(stack') : stack'[i].at = "ensure" /\ stack'[i].op # "arena"
      BY <1>4, <1>6
    <2> QED
      BY <1>1, <1>6, <1>7, <2>1 DEF Objects, Flagged, Arenas
  <1> QED
    BY <1>1, <1>6, <1>7, <1>8, MoveKeeps DEF Objects, LiveSound

LEMMA LauncherBeginKeeps ==
    ASSUME Objects, LauncherBegin, UNCHANGED memoryVars
    PROVE  Objects'
  <1>1. /\ stack # << >> /\ Len(stack) = 1 /\ Tail(stack) = << >> /\ exit = 0
        /\ stack[1].op = "launcher" /\ stack[1].at = "ensured" /\ stack[1].at \notin Arenas
        /\ Making(stack) = {} /\ Head(stack) = stack[1] /\ stack[1] \in Locals
        /\ ~arenaInitializing
        /\ UNCHANGED <<objects, initialized, initializing, arenaInitializing, kind, live, exit, buffers>>
    <2>1. /\ stack # << >> /\ Head(stack).op = "launcher" /\ Head(stack).at = "ensured"
          /\ Head(stack) = stack[1]
      BY AtFacts DEF LauncherBegin, At
    <2> QED
      BY <2>1, LastCall DEF LauncherBegin, flags, memoryVars, Arenas
  <1>2. CASE Head(stack).got /\ "manager" \in objects
    <2>1. PICK f : f = [stack[1] EXCEPT !.at = "build", !.step = 1] /\ stack' = <<f>> \o Tail(stack)
      BY <1>1, <1>2 DEF LauncherBegin, GoOn
    <2>2. f \in Locals /\ f.op = "launcher" /\ f.at = "build"
      BY <1>1, <2>1 DEF Locals
    <2>3. initialized
      BY <1>1, <1>2 DEF Objects, LiveSound
    <2>4. f.at \notin Arenas /\ arenaInitializing' = FALSE
      BY <1>1, <2>2 DEF Arenas, Objects, Flagged
    <2>5. f.op = stack[1].op /\ f.op # "init" /\ Len(stack) > 0
      BY <1>1, <2>2
    <2> QED
      BY <1>1, <2>1, <2>2, <2>3, <2>4, <2>5, TopKeeps
  <1>3. CASE ~(Head(stack).got /\ "manager" \in objects)
    <2>1. stack' = Tail(stack)
      BY <1>1, <1>3 DEF LauncherBegin
    <2> QED
      BY <1>1, <2>1, PopKeeps
  <1> QED
    BY <1>2, <1>3

(* Where the innermost call was the only one, and is over. *)
LEMMA CallsOver ==
    ASSUME Objects, exit = 0, stack' = << >>, Initing(stack) = {}, Making(stack) = {},
           UNCHANGED <<initialized, initializing, arenaInitializing, exit>>
    PROVE  /\ Nested(stack') /\ Flagged' /\ Initing(stack') = {} /\ Making(stack') = {}
  <1>1. Nested(stack') /\ Len(stack') = 0 /\ Initing(stack') = {} /\ Making(stack') = {}
    BY NoCalls
  <1>2. \A i \in 1 .. Len(stack') : FALSE
    BY <1>1
  <1>3. Flagged'
    BY <1>1, <1>2 DEF Objects, Flagged
  <1> QED
    BY <1>1, <1>3

LEMMA LauncherBuildKeeps ==
    ASSUME Objects, LauncherBuild, UNCHANGED memoryVars
    PROVE  Objects'
  <1>1. /\ stack # << >> /\ Head(stack).op = "launcher" /\ Head(stack).at = "build"
        /\ Head(stack) = stack[1]
    BY AtFacts DEF LauncherBuild, At
  <1>2. /\ exit = 0 /\ 1 \in 1 .. Len(stack) /\ Initing(stack) = {} /\ Making(stack) = {}
    BY <1>1, LastCall
  <1>3. initialized
    BY <1>1, <1>2 DEF Objects, Flagged
  <1>4. /\ live' = live \cup {<<"launcher", "pools">>}
        /\ objects' = objects \cup {"launcher"} /\ stack' = << >>
        /\ UNCHANGED <<initialized, initializing, arenaInitializing, kind, exit, buffers>>
    BY DEF LauncherBuild, flags, memoryVars
  <1>5. Nested(stack') /\ Flagged' /\ Initing(stack') = {} /\ Making(stack') = {}
    BY <1>2, <1>4, CallsOver
  <1>6. LiveSound'
    BY <1>2, <1>3, <1>4, <1>5 DEF Objects, LiveSound
  <1>7. ArenaObjects' = ArenaObjects /\ \A a : <<"manager", a>> \in live' <=> <<"manager", a>> \in live
    BY <1>4, PartsFacts DEF ArenaObjects, Arenas
  <1>8. ArenaSound'
    BY <1>2, <1>4, <1>5, <1>7 DEF Objects, ArenaSound
  <1>9. OwnersSound'
    <2>1. <<"launcher", "pools">> \in OwnedBy("launcher")'
      BY <1>4 DEF OwnedBy
    <2>2. "launcher" \in objects' /\ OwnedBy("launcher")' # {}
      BY <1>4, <2>1
    <2> QED
      BY <1>2, <1>3, <1>4, <1>7, <2>2 DEF Objects, OwnersSound
  <1> QED
    BY <1>5, <1>6, <1>8, <1>9 DEF Objects

LEMMA DestroyKeeps ==
    ASSUME Objects, Destroy, UNCHANGED memoryVars
    PROVE  Objects'
  <1>1. /\ stack = << >> /\ stack' = stack /\ exit \in 0 .. 3 /\ exit' = exit + 1 /\ exit' \in 1 .. 4
        /\ UNCHANGED <<initialized, initializing, arenaInitializing, kind, buffers>>
        /\ Nested(stack) /\ Initing(stack) = {} /\ Making(stack) = {} /\ Len(stack) = 0
    BY NoCalls DEF Destroy, flags, memoryVars, Objects, LiveSound
  <1>2. PICK o : o = ExitOrder[exit + 1]
    OBVIOUS
  <1>3. /\ objects' = objects \ {o}
        /\ live' = live \ (IF o = "arena" THEN ArenaObjects ELSE OwnedBy(o))
    BY <1>2 DEF Destroy
  <1>4. /\ exit = 0 <=> o = "launcher"
        /\ exit = 1 <=> o = "arena"
        /\ exit = 2 <=> o = "manager"
        /\ exit = 3 <=> o = "backend"
        /\ o \in {"launcher", "arena", "manager", "backend"}
    BY <1>1, <1>2 DEF ExitOrder
  <1>5. ~initializing
    BY <1>1 DEF Objects, Flagged
  <1>6. Flagged'
    <2>1. \A i \in 1 .. Len(stack) : FALSE
      BY <1>1
    <2> QED
      BY <1>1, <2>1 DEF Objects, Flagged
  <1>7. /\ \A x : x \in live' => x \in live
        /\ \A x \in live : x \in live' <=> IF o = "arena" THEN x[1] \notin Arenas ELSE x[1] # o
    BY <1>3, PartsFacts DEF OwnedBy, ArenaObjects
  <1>8. LiveSound'
    <2>1. live' # OwnedBy("backend")' => initialized'
      BY <1>1, <1>7 DEF Objects, LiveSound, OwnedBy
    <2>2. ~initialized' /\ ~initializing' => live' = {}
      BY <1>1, <1>7 DEF Objects, LiveSound
    <2>3. initialized' /\ exit' < 4 => Device \in live'
      <3> SUFFICES ASSUME initialized', exit' < 4 PROVE Device \in live'
        OBVIOUS
      <3>1. Device \in live /\ o # "backend"
        BY <1>1, <1>4 DEF Objects, LiveSound
      <3> QED
        BY <1>7, <3>1 DEF Device, Arenas
    <2>4. exit' >= 1 => OwnedBy("launcher")' = {}
      BY <1>1, <1>4, <1>7 DEF Objects, LiveSound, OwnedBy
    <2>5. exit' >= 2 => ArenaObjects' = {}
      BY <1>1, <1>4, <1>7, PartsFacts DEF Objects, LiveSound, ArenaObjects
    <2>6. exit' >= 3 => OwnedBy("manager")' = {}
      BY <1>1, <1>4, <1>7 DEF Objects, LiveSound, OwnedBy
    <2>7. exit' = 4 => OwnedBy("backend")' = {}
      BY <1>1, <1>4, <1>7 DEF Objects, LiveSound, OwnedBy
    <2>8. \A x \in live' : x[1] \in {"backend", "launcher", "manager"} \cup Arenas
      BY <1>7 DEF Objects, LiveSound
    <2>9. exit' \in 0 .. 4 /\ exit' # 0
      BY <1>1
    <2> QED
      BY <1>1, <2>1, <2>2, <2>3, <2>4, <2>5, <2>6, <2>7, <2>8, <2>9 DEF LiveSound
  <1>9. ArenaSound' /\ exit' # 0
    BY <1>1 DEF ArenaSound
  <1>10. OwnersSound'
    <2>1. (OwnedBy("launcher")' # {}) = ("launcher" \in objects')
      <3>1. CASE exit = 0
        BY <1>3, <1>4, <1>7, <3>1 DEF OwnedBy
      <3>2. CASE exit # 0
        <4>1. OwnedBy("launcher") = {} /\ o # "launcher"
          BY <1>1, <1>4, <3>2 DEF Objects, LiveSound
        <4>2. OwnedBy("launcher")' = {}
          BY <1>7, <4>1 DEF OwnedBy
        <4>3. "launcher" \notin objects
          BY <4>1 DEF Objects, OwnersSound
        <4> QED
          BY <1>3, <4>2, <4>3
      <3> QED
        BY <3>1, <3>2
    <2> QED
      BY <1>9, <2>1 DEF OwnersSound
  <1> QED
    BY <1>1, <1>6, <1>8, <1>9, <1>10 DEF Objects

LEMMA CallUmallocKeeps ==
    ASSUME Objects, CallUmalloc
    PROVE  Objects'
  <1>1. PICK f : f = Frame("umalloc", "ensure")
    OBVIOUS
  <1>2. f \in Locals /\ f.op = "umalloc" /\ f.at = "ensure"
    BY <1>1 DEF Frame, Locals
  <1>3. /\ stack = << >> /\ exit = 0 /\ stack' = <<f>>
        /\ UNCHANGED <<objects, initialized, initializing, arenaInitializing, kind, live, exit, buffers>>
    BY <1>1 DEF CallUmalloc, Running, flags, memoryVars
  <1>4. Initing(stack) = {} /\ Making(stack) = {}
    BY <1>3, NoCalls
  <1>5. /\ Nested(stack') /\ Len(stack') = 1 /\ stack'[1] = f
        /\ Initing(stack') = {} /\ Making(stack') = {}
    BY <1>2, <1>3, OnlyCall
  <1>6. Flagged'
    <2>1. \A i \in 1 .. Len(stack') : stack'[i].at = "ensure" /\ stack'[i].op # "arena"
      BY <1>2, <1>5
    <2> QED
      BY <1>3, <1>4, <1>5, <2>1 DEF Objects, Flagged, Arenas
  <1> QED
    BY <1>3, <1>4, <1>5, <1>6, MoveKeeps DEF Objects, LiveSound

(* A buffer of the manager comes or goes. *)
LEMMA BufferKeeps ==
    ASSUME Objects, exit = 0, initialized, stack' = << >>,
           Initing(stack) = {}, Making(stack) = {},
           UNCHANGED <<objects, initialized, initializing, arenaInitializing, kind, exit>>,
           \A x \in live' : x \in live \/ x[1] = "manager",
           \A x \in live : x[1] # "manager" => x \in live',
           \A a \in Address : <<"manager", a>> \in live' <=> a \in buffers',
           buffers' \subseteq Address
    PROVE  Objects'
  <1>1. Nested(stack') /\ Flagged' /\ Initing(stack') = {} /\ Making(stack') = {}
    BY CallsOver
  <1>2. LiveSound'
    BY <1>1 DEF Objects, LiveSound, Device
  <1>3. ArenaObjects' = ArenaObjects /\ OwnedBy("launcher")' = OwnedBy("launcher")
    BY PartsFacts DEF ArenaObjects, OwnedBy, Arenas
  <1>4. ArenaSound'
    BY <1>1, <1>3 DEF Objects, ArenaSound
  <1>5. OwnersSound'
    BY <1>3 DEF Objects, OwnersSound
  <1> QED
    BY <1>1, <1>2, <1>4, <1>5 DEF Objects

LEMMA BufferSets ==
    ASSUME Objects, exit = 0
    PROVE  /\ buffers \subseteq Address
           /\ \A a \in Address : <<"manager", a>> \in live <=> a \in buffers
  BY DEF Objects, OwnersSound

LEMMA CreateBufferSets ==
    ASSUME Objects, exit = 0, NEW a \in Address, CreateBuffer(a)
    PROVE  /\ \A x \in live' : x \in live \/ x[1] = "manager"
           /\ \A x \in live : x[1] # "manager" => x \in live'
           /\ \A b \in Address : <<"manager", b>> \in live' <=> b \in buffers'
           /\ buffers' \subseteq Address
  BY BufferSets DEF CreateBuffer

LEMMA DestroyBufferSets ==
    ASSUME Objects, exit = 0, NEW a \in Address, DestroyBuffer(a)
    PROVE  /\ \A x \in live' : x \in live \/ x[1] = "manager"
           /\ \A x \in live : x[1] # "manager" => x \in live'
           /\ \A b \in Address : <<"manager", b>> \in live' <=> b \in buffers'
           /\ buffers' \subseteq Address
  BY BufferSets DEF DestroyBuffer

LEMMA UmallocKeeps ==
    ASSUME Objects, Umalloc
    PROVE  Objects'
  <1>1. /\ stack # << >> /\ Head(stack).op = "umalloc" /\ Head(stack).at = "ensured"
        /\ Head(stack) = stack[1]
    BY AtFacts DEF Umalloc, At
  <1>2. /\ exit = 0 /\ Initing(stack) = {} /\ Making(stack) = {} /\ Len(stack) = 1
        /\ Tail(stack) = << >> /\ stack[1].at \notin Arenas
    BY <1>1, LastCall DEF Arenas
  <1>3. /\ stack' = << >>
        /\ UNCHANGED <<objects, initialized, initializing, arenaInitializing, kind, exit>>
    BY DEF Umalloc, flags
  <1>4. CASE UNCHANGED <<live, buffers>>
    BY <1>1, <1>2, <1>3, <1>4, PopKeeps
  <1>5. ASSUME NEW a \in Mapped, UmallocManaged(a), "manager" \in objects
        PROVE  Objects'
    <2>1. CreateBuffer(a) /\ a \in Address
      BY <1>5 DEF UmallocManaged, Address
    <2>2. initialized
      BY <1>2, <1>5 DEF Objects, LiveSound
    <2> QED
      BY <1>2, <1>3, <2>1, <2>2, CreateBufferSets, BufferKeeps
  <1> QED
    BY <1>4, <1>5 DEF Umalloc, UmallocFallback

LEMMA UfreeKeeps ==
    ASSUME Objects, NEW a \in Address, Ufree(a)
    PROVE  Objects'
  <1>1. /\ exit = 0 /\ stack = << >> /\ stack' = << >> /\ Initing(stack) = {} /\ Making(stack) = {}
        /\ UNCHANGED <<stack, objects, flags, kind, exit>>
        /\ UNCHANGED <<objects, initialized, initializing, arenaInitializing, kind, exit>>
    BY NoCalls DEF Ufree, Running, flags
  <1>2. CASE UNCHANGED <<live, buffers>>
    BY <1>1, <1>2, IdleKeeps
  <1>3. CASE "manager" \in objects /\ DestroyBuffer(a)
    <2>1. initialized
      BY <1>1, <1>3 DEF Objects, LiveSound
    <2> QED
      BY <1>1, <1>3, <2>1, DestroyBufferSets, BufferKeeps
  <1> QED
    BY <1>2, <1>3 DEF Ufree, Deallocate

LEMMA RegisterKeeps ==
    ASSUME Objects, NEW a \in Address, Register(a)
    PROVE  Objects'
  <1>1. /\ exit = 0 /\ stack = << >> /\ stack' = << >> /\ Initing(stack) = {} /\ Making(stack) = {}
        /\ UNCHANGED <<objects, initialized, initializing, arenaInitializing, kind, exit>>
        /\ "manager" \in objects /\ CreateBuffer(a)
    BY NoCalls DEF Register, Running, flags
  <1>2. initialized
    BY <1>1 DEF Objects, LiveSound
  <1> QED
    BY <1>1, <1>2, CreateBufferSets, BufferKeeps

LEMMA RuntimeObjects ==
    ASSUME Objects, RuntimeStep, UNCHANGED memoryVars
    PROVE  Objects'
  BY EnsureKeeps, InitStageKeeps, InitManagerKeeps, GetArenaKeeps, ArenaBeginKeeps, ArenaPartKeeps,
     GetLauncherKeeps, GotBackendKeeps, LauncherBeginKeeps, LauncherBuildKeeps, DestroyKeeps
  DEF RuntimeStep

LEMMA InitObjects == Init => Objects
  <1> SUFFICES ASSUME Init PROVE Objects
    OBVIOUS
  <1>1. /\ stack = << >> /\ objects = {} /\ live = {} /\ kind = "none" /\ exit = 0 /\ buffers = {}
        /\ initialized = FALSE /\ initializing = FALSE /\ arenaInitializing = FALSE
    BY DEF Init, RuntimeInit
  <1>2. Nested(stack) /\ Len(stack) = 0 /\ Initing(stack) = {} /\ Making(stack) = {}
    BY <1>1, NoCalls
  <1>3. Flagged
    <2>1. \A i \in 1 .. Len(stack) : FALSE
      BY <1>2
    <2> QED
      BY <1>1, <1>2, <2>1 DEF Flagged
  <1>4. LiveSound
    BY <1>1, <1>2 DEF LiveSound, OwnedBy, ArenaObjects
  <1>5. ArenaSound
    BY <1>1, <1>2 DEF ArenaSound, ArenaObjects
  <1>6. OwnersSound
    BY <1>1, <1>2 DEF OwnersSound, OwnedBy
  <1> QED
    BY <1>2, <1>3, <1>4, <1>5, <1>6 DEF Objects

LEMMA NextObjects == Objects /\ [Next]_vars => Objects'
  <1> SUFFICES ASSUME Objects, [Next]_vars PROVE Objects'
    OBVIOUS
  <1>1. CASE UNCHANGED vars
    BY <1>1, IdleKeeps DEF vars, runtimeVars, memoryVars
  <1>2. CASE RuntimeStep /\ UNCHANGED memoryVars
    BY <1>2, RuntimeObjects
  <1>3. ASSUME NEW a \in Address, NEW falls \in BOOLEAN, Malloc(a, falls) PROVE Objects'
    BY <1>3, IdleKeeps DEF Malloc
  <1>4. ASSUME NEW a \in Address, Calloc(a) PROVE Objects'
    BY <1>4, IdleKeeps DEF Calloc
  <1>5. ASSUME NEW a \in Address, ForeignAlloc(a) PROVE Objects'
    BY <1>5, IdleKeeps DEF ForeignAlloc, runtimeVars
  <1>6. ASSUME NEW a \in Address, NEW x \in Values, Write(a, x) PROVE Objects'
    BY <1>6, IdleKeeps DEF Write, runtimeVars
  <1>7. ASSUME NEW a \in Address, Free(a) PROVE Objects'
    BY <1>7, IdleKeeps DEF Free, runtimeVars
  <1>8. ASSUME NEW a \in Address, NEW b \in Address, Realloc(a, b) PROVE Objects'
    BY <1>8, IdleKeeps DEF Realloc, runtimeVars
  <1>9. ASSUME NEW a \in Address, Ufree(a) \/ Register(a) PROVE Objects'
    BY <1>9, UfreeKeeps, RegisterKeeps
  <1>10. CASE CallUmalloc \/ Umalloc
    BY <1>10, CallUmallocKeeps, UmallocKeeps
  <1> QED
    BY <1>1, <1>2, <1>3, <1>4, <1>5, <1>6, <1>7, <1>8, <1>9, <1>10 DEF Next, Ended

LEMMA ObjectsHold == Spec => []Objects
  BY InitObjects, NextObjects, PTL DEF Spec

(* Nothing of Vulkan is created without a device, or outlives it: not while  *)
(* the backend is half built, not after VulkanBackend::initialize() failed   *)
(* and g_backend was reset (unified_allocator.cpp:40-44), and not while the  *)
(* exiting process destroys its globals one by one.                          *)
THEOREM BuiltOnDevice == Spec => []BuiltBeforeUsed
  <1>1. ASSUME Objects PROVE BuiltBeforeUsed
    <2>1. CASE exit = 4
      <3>1. \A x \in live : x[1] = "backend"
        BY <1>1, <2>1 DEF Objects, LiveSound, OwnedBy, ArenaObjects, Parts, Arenas
      <3>2. live = OwnedBy("backend")
        BY <3>1 DEF OwnedBy
      <3> QED
        BY <3>2 DEF BuiltBeforeUsed
    <2>2. CASE exit # 4
      BY <1>1, <2>2 DEF Objects, LiveSound, BuiltBeforeUsed, Device
    <2> QED
      BY <2>1, <2>2
  <1> QED
    BY <1>1, ObjectsHold, PTL

(* However the calls nest, one initialisation of the runtime and one of the  *)
(* arena are in progress at most, and g_initializing and                     *)
(* g_arena_initializing say exactly whether there is one                     *)
(* (unified_allocator.cpp:24-27 and 57-59).                                  *)
THEOREM InitialisedOnce == Spec => []OneAtATime
  <1>1. ASSUME Objects PROVE OneAtATime
    <2>1. Nested(stack) /\ DOMAIN stack = 1 .. Len(stack)
      <3>1. Nested(stack)
        BY <1>1 DEF Objects
      <3>2. PICK n \in Nat : n = Len(stack)
        BY <3>1 DEF Nested
      <3>3. stack = [i \in 1 .. n |-> stack[i]]
        BY <3>1, <3>2 DEF Nested
      <3> QED
        BY <3>1, <3>2, <3>3
    <2>2. \A i \in 1 .. Len(stack) : stack[i] \in Locals
      BY <2>1 DEF Nested
    <2>3. Building("init", {"stage", "manager"}) = Initing(stack)
      BY <2>1, <2>2, LocalFacts DEF Building, Initing
    <2>4. Building("arena", DOMAIN Parts) = Making(stack)
      BY <2>1, <2>2, LocalFacts, PartsFacts DEF Building, Making
    <2>5. \A i, j \in Making(stack) : i = j
      BY <2>1, StackFacts
    <2> QED
      BY <1>1, <2>3, <2>4, <2>5 DEF Objects, Flagged, OneAtATime
  <1> QED
    BY <1>1, ObjectsHold, PTL

(* Between two calls of the program the Vulkan objects are exactly those of  *)
(* the globals that are set: an import of the pool, a staged arena or an     *)
(* initialisation that failed after any number of its steps has released     *)
(* what it made (unified_allocator.cpp:40-44; UnifiedArena::destroy()), and  *)
(* the manager has one buffer for each pointer it knows.                     *)
THEOREM NothingLeft == Spec => []NothingLeftBehind
  <1>1. ASSUME Objects, Running PROVE NothingLeftBehind
    <2>1. Initing(stack) = {} /\ Making(stack) = {} /\ exit = 0
      BY <1>1, NoCalls DEF Running
    <2>2. ~initializing /\ initialized \in BOOLEAN
      BY <1>1, <2>1 DEF Objects, Flagged
    <2>3. /\ initialized = ("backend" \in objects) /\ initialized = ("manager" \in objects)
          /\ ~initialized => live = {}
      BY <1>1, <2>1, <2>2 DEF Objects, LiveSound
    <2>4. ArenaObjects = IF "arena" \in objects
                         THEN {<<kind, Parts[kind][i]>> : i \in DOMAIN Parts[kind]} ELSE {}
      BY <1>1, <2>1, PartsFacts DEF Objects, ArenaSound, Made
    <2>5. /\ {a \in Address : <<"manager", a>> \in live} = buffers
          /\ (OwnedBy("launcher") # {}) = ("launcher" \in objects)
      BY <1>1, <2>1 DEF Objects, OwnersSound
    <2> QED
      BY <2>3, <2>4, <2>5 DEF NothingLeftBehind
  <1>2. ASSUME Objects PROVE NothingLeftBehind
    BY <1>1, <1>2 DEF NothingLeftBehind
  <1> QED
    BY <1>2, ObjectsHold, PTL
===============================================================================
