---------------------------- MODULE ProcessMemory ----------------------------
(***************************************************************************)
(* The memory of a program that links parallax-heap: malloc, new, realloc  *)
(* and free of heap_capture.cpp over the heap pool with glibc behind it,   *)
(* parallax_umalloc and parallax_ufree of unified_allocator.cpp, and the   *)
(* MemoryManager of unified_buffer.cpp, which gives out mapped Vulkan      *)
(* memory and makes Vulkan copies of memory it does not own.               *)
(*                                                                         *)
(* A block is its address.  The pool is the abstract allocator HeapPool is *)
(* shown to implement: it grants an address that is not granted, or        *)
(* refuses when it is exhausted.                                           *)
(***************************************************************************)
EXTENDS Runtime

CONSTANTS
    Pool, Libc, Mapped,     \* addresses of the pool, of glibc's heap, of mapped memory
    Values                  \* what the program stores in a block

Address == Pool \cup Libc \cup Mapped
Nothing == [via |-> "nobody"]       \* no block
Unknown == 0 - 1                    \* contents the program has not defined

ASSUME MemoryAssumption ==
    /\ Pool \cap Libc = {} /\ Pool \cap Mapped = {} /\ Libc \cap Mapped = {}
    /\ 0 \in Values /\ Values \subseteq Nat

VARIABLES
    out,            \* the addresses the pool, glibc and Vulkan consider in use
    mem,            \* what is stored at each address
    buffers,        \* the keys of MemoryManager::buffers_
    held,           \* ghost: the program's blocks, how obtained, with what contents
    stranded,       \* ghost: blocks the program gave back that are still in use
    corrupt         \* ghost: an allocator was given an address it did not hand out

memoryVars == <<out, mem, buffers, held, stranded, corrupt>>
vars == <<runtimeVars, memoryVars>>

Init ==
    /\ RuntimeInit
    /\ out = {} /\ mem = [a \in Address |-> 0] /\ buffers = {}
    /\ held = [a \in Address |-> Nothing] /\ stranded = {} /\ corrupt = FALSE

(* The program's own code runs: no call of the runtime is in progress. *)
Running == exit = 0 /\ stack = << >>

Blocks(via) == {a \in Address : held[a].via = via}

-------------------------------------------------------------------------------
(* The three allocators. *)

(* ensure_init_locked(): the first request reserves the pool, once and for all. *)
PoolAfter == IF pool = "unused" THEN {"live", "failed"} ELSE {pool}

(* px_pool_alloc grants a free block unless there is none, and glibc then     *)
(* serves what falls back on it.                                             *)
FromPool(state)      == IF state = "live" THEN Pool \ out ELSE {}
PoolOrLibc(state)    == IF FromPool(state) # {} THEN FromPool(state) ELSE Libc \ out

Give(a, via, contents) ==
    /\ out' = out \cup {a}
    /\ held' = [held EXCEPT ![a] = [via |-> via, contents |-> contents]]

(* What reaches px_pool_free, __libc_free or vkFreeMemory for an address.    *)
Release(a, owner) ==
    /\ corrupt' = (corrupt \/ a \notin out \cap owner)
    /\ out' = out \ {a}

AsPoolIsLive(a) == pool = "live"
InPool(a)       == pool = "live" /\ a \in Pool

(* px_pool_contains, and route_free. *)
RouteFree(a) == Release(a, IF InPool(a) THEN Pool ELSE Libc)

-------------------------------------------------------------------------------
(* malloc, operator new and realloc(nullptr, n) fall back on glibc;          *)
(* aligned_alloc, memalign, valloc and posix_memalign do not.                *)
Malloc(a, falls) ==
    /\ Running
    /\ pool' \in PoolAfter
    /\ a \in (IF falls THEN PoolOrLibc(pool') ELSE FromPool(pool'))
    /\ Give(a, "malloc", Unknown)
    /\ UNCHANGED <<stack, objects, flags, kind, live, exit, mem, buffers, stranded, corrupt>>

NotCleared(a) == mem
Cleared(a)    == [mem EXCEPT ![a] = 0]

Calloc(a) ==
    /\ Running
    /\ pool' \in PoolAfter
    /\ a \in PoolOrLibc(pool')
    /\ mem' = Cleared(a)
    /\ Give(a, "malloc", 0)
    /\ UNCHANGED <<stack, objects, flags, kind, live, exit, buffers, stranded, corrupt>>

(* A block that prebuilt code got from glibc, which the program will free.   *)
ForeignAlloc(a) ==
    /\ Running
    /\ a \in Libc \ out
    /\ Give(a, "malloc", Unknown)
    /\ UNCHANGED <<runtimeVars, mem, buffers, stranded, corrupt>>

Write(a, x) ==
    /\ Running
    /\ held[a].via # "nobody"
    /\ mem' = [mem EXCEPT ![a] = x]
    /\ held' = [held EXCEPT ![a].contents = x]
    /\ UNCHANGED <<runtimeVars, out, buffers, stranded, corrupt>>

Free(a) ==
    /\ Running
    /\ a \in Blocks("malloc")
    /\ RouteFree(a)
    /\ held' = [held EXCEPT ![a] = Nothing]
    /\ UNCHANGED <<runtimeVars, mem, buffers, stranded>>

(* realloc to a size that does not fit: the block moves within its own       *)
(* allocator, contents and all; when there is no room it stays as it was.    *)
Realloc(a, b) ==
    /\ Running
    /\ a \in Blocks("malloc")
    /\ b \in (IF InPool(a) THEN FromPool(pool) ELSE Libc \ out)
    /\ mem' = [mem EXCEPT ![b] = mem[a]]
    /\ out' = (out \ {a}) \cup {b}
    /\ corrupt' = (corrupt \/ a \notin out \/ InPool(a) # (a \in Pool))
    /\ held' = [held EXCEPT ![a] = Nothing, ![b] = held[a]]
    /\ UNCHANGED <<runtimeVars, buffers, stranded>>

-------------------------------------------------------------------------------
(* parallax_umalloc and parallax_ufree, and MemoryManager *)

CallUmalloc ==
    /\ Running
    /\ stack' = <<Frame("umalloc", "ensure")>>
    /\ UNCHANGED <<objects, flags, kind, live, pool, exit, memoryVars>>

(* create_buffer: a Vulkan buffer with its memory, or nothing. *)
CreateBuffer(a) ==
    /\ live' = live \cup {<<"manager", a>>}
    /\ buffers' = buffers \cup {a}

DestroyBuffer(a) ==
    /\ live' = live \ {<<"manager", a>>}
    /\ buffers' = buffers \ {a}

UmallocManaged(a) ==
    /\ a \in Mapped \ out
    /\ CreateBuffer(a)
    /\ Give(a, "umalloc", Unknown)
    /\ UNCHANGED pool

UmallocFallback(a) ==
    /\ pool' \in PoolAfter
    /\ a \in PoolOrLibc(pool')
    /\ Give(a, "umalloc", Unknown)
    /\ UNCHANGED <<live, buffers>>

Umalloc ==
    /\ At("umalloc", "ensured")
    /\ IF Head(stack).ok /\ "manager" \in objects
       THEN \/ \E a \in Mapped : UmallocManaged(a)
            \/ UNCHANGED <<live, pool, out, held, buffers>>
       ELSE \/ \E a \in Pool \cup Libc : UmallocFallback(a)
            \/ UNCHANGED <<live, pool, out, held, buffers>>
    /\ stack' = << >>
    /\ UNCHANGED <<objects, flags, kind, exit, mem, stranded, corrupt>>

(* MemoryManager::deallocate() of a key of buffers_ destroys its Vulkan      *)
(* buffer, and with it the memory only where that is the buffer's own.       *)
Deallocate(a) ==
    \/ /\ a \in buffers \cap Mapped
       /\ DestroyBuffer(a) /\ Release(a, Mapped)
       /\ UNCHANGED stranded
    \/ /\ a \in buffers \ Mapped
       /\ DestroyBuffer(a)
       /\ stranded' = stranded \cup {a}
       /\ UNCHANGED <<out, corrupt>>
    \/ /\ a \notin buffers
       /\ stranded' = stranded \cup {a}
       /\ UNCHANGED <<live, buffers, out, corrupt>>

Ufree(a) ==
    /\ Running
    /\ a \in Blocks("umalloc")
    /\ IF "manager" \in objects THEN Deallocate(a)
       ELSE RouteFree(a) /\ UNCHANGED <<live, buffers, stranded>>
    /\ held' = [held EXCEPT ![a] = Nothing]
    /\ UNCHANGED <<stack, objects, flags, kind, pool, exit, mem>>

(* register_external_buffer(), from parallax_register_buffer or a launch: a  *)
(* pointer that is known already stays as it is.                             *)
Register(a) ==
    /\ Running
    /\ "manager" \in objects
    /\ held[a].via # "nobody" /\ a \notin buffers
    /\ CreateBuffer(a)
    /\ UNCHANGED <<stack, objects, flags, kind, pool, exit, out, mem, held, stranded, corrupt>>

Ended == exit = 4 /\ UNCHANGED vars

Next ==
    \/ RuntimeStep /\ UNCHANGED memoryVars
    \/ \E a \in Address :
          \/ \E falls \in BOOLEAN : Malloc(a, falls)
          \/ Calloc(a) \/ ForeignAlloc(a) \/ Free(a) \/ Ufree(a) \/ Register(a)
          \/ \E x \in Values : Write(a, x)
          \/ \E b \in Address : Realloc(a, b)
    \/ CallUmalloc \/ Umalloc
    \/ Ended

Spec == Init /\ [][Next]_vars

-------------------------------------------------------------------------------
(* Every pointer that is given back reaches the allocator that made it       *)
(* (heap_capture.cpp:37 "still freeable: contains() is false"): none is ever *)
(* given one it did not hand out, no block goes to a second owner while the  *)
(* program has it, and what was given back is free again.  The exception is  *)
(* a block from parallax_umalloc's fallback, given back when the manager had *)
(* come to exist: it is lost.                                                *)
RoutedToOwner ==
    /\ ~corrupt
    /\ out = {a \in Address : held[a] # Nothing} \cup stranded
    /\ stranded \cap Mapped = {}

(* A block keeps what the program stored in it, through realloc, through the *)
(* building of the runtime's objects and through every other block's life,   *)
(* and calloc's blocks start as zeros although their memory was used before. *)
DataKept ==
    \A a \in Address :
        held[a] # Nothing => held[a].contents \in {Unknown, mem[a]}

(* When no call is in progress the Vulkan objects that exist are those of    *)
(* the globals that are set: an initialisation or an import of the pool that *)
(* failed half-way, however often it was tried again, has left none behind,  *)
(* and the manager has one buffer for each pointer it knows.                 *)
NothingLeftBehind ==
    Running =>
        /\ initialized = ("backend" \in objects) /\ initialized = ("manager" \in objects)
        /\ ~initialized => live = {}
        /\ ArenaObjects = IF "arena" \in objects
                          THEN {<<kind, Parts[kind][i]>> : i \in DOMAIN Parts[kind]} ELSE {}
        /\ {a \in Address : <<"manager", a>> \in live} = buffers
        /\ (OwnedBy("launcher") # {}) = ("launcher" \in objects)
==============================================================================
