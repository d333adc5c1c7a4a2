------------------------------- MODULE Runtime -------------------------------
(***************************************************************************)
(* The process-wide objects of the runtime and how they come and go:       *)
(* g_backend, g_memory_manager and g_arena of unified_allocator.cpp and    *)
(* g_kernel_launcher of cache.cpp, built on first use, on a Vulkan device  *)
(* any of whose calls may fail, and destroyed when the process exits.      *)
(*                                                                         *)
(* Building an object allocates, and an interposed allocation asks for the *)
(* arena again (parallax_arena_alloc): the calls in progress form a stack. *)
(***************************************************************************)
EXTENDS Integers, SequencesExt

VARIABLES
    stack,          \* the calls in progress, the innermost first
    objects,        \* which of the four global pointers are set
    initialized, initializing, arenaInitializing,   \* the flags g_...
    kind,           \* how the arena got its memory
    live,           \* the Vulkan objects that exist, each with its owner
    pool,           \* the heap pool: "unused", "live" or "failed" to reserve
    exit            \* how many globals the exiting process has destroyed

flags == <<initialized, initializing, arenaInitializing>>
runtimeVars == <<stack, objects, flags, kind, live, pool, exit>>

(* What VulkanBackend::initialize() does in turn, and the Vulkan objects an  *)
(* arena is made of, in the order of their creation.                         *)
Stages == <<"instance", "messenger", "physical", "device">>

Parts == [import |-> <<"buffer", "memory">>,
          uma    |-> <<"buffer", "memory", "mapping">>,
          staged |-> <<"buffer", "memory", "staging", "staging memory", "mapping", "xfer">>]

OwnedBy(o)   == {x \in live : x[1] = o}
ArenaObjects == {x \in live : x[1] \in DOMAIN Parts}

Frame(op, at) == [op |-> op, at |-> at, step |-> 1, ok |-> FALSE, got |-> FALSE]

RuntimeInit ==
    /\ stack = << >> /\ objects = {}
    /\ initialized = FALSE /\ initializing = FALSE /\ arenaInitializing = FALSE
    /\ kind = "none" /\ live = {} /\ pool = "unused" /\ exit = 0

At(op, at) == stack # << >> /\ Head(stack).op = op /\ Head(stack).at = at
GoOn(at)   == stack' = <<[Head(stack) EXCEPT !.at = at, !.step = 1]>> \o Tail(stack)
NextStep   == stack' = <<[Head(stack) EXCEPT !.step = @ + 1]>> \o Tail(stack)

(* The innermost call returns; its result is left in the frame of the caller. *)
Return(ok) ==
    stack' = IF Len(stack) = 1 THEN << >>
             ELSE <<[stack[2] EXCEPT !.ok = ok, !.at = "ensured"]>> \o SubSeq(stack, 3, Len(stack))

-------------------------------------------------------------------------------
(* ensure_initialized() *)

EnsureInitialized ==
    /\ stack # << >> /\ Head(stack).at = "ensure"
    /\ \/ /\ initialized \/ initializing
          /\ stack' = <<[Head(stack) EXCEPT !.ok = initialized, !.at = "ensured"]>> \o Tail(stack)
          /\ UNCHANGED <<initializing, objects>>
       \/ /\ ~initialized /\ ~initializing
          /\ initializing' = TRUE
          /\ objects' = objects \cup {"backend"}
          /\ stack' = <<Frame("init", "stage")>> \o stack
    /\ UNCHANGED <<initialized, arenaInitializing, kind, live, pool, exit>>

KeepInitializing  == UNCHANGED initializing
ClearInitializing == initializing' = FALSE

(* One call of VulkanBackend::initialize(): it succeeds, or g_backend.reset() *)
(* destroys what was created.  A physical device is not an object of ours,    *)
(* and the messenger exists only where the validation layer is installed.     *)
InitStage ==
    /\ At("init", "stage")
    /\ LET stage == Stages[Head(stack).step]
       IN  \/ /\ live' = IF stage = "physical" THEN live ELSE live \cup {<<"backend", stage>>}
              /\ IF stage = "device" THEN GoOn("manager") ELSE NextStep
              /\ UNCHANGED <<flags, objects>>
           \/ /\ stage = "messenger" /\ NextStep
              /\ UNCHANGED <<flags, objects, live>>
           \/ /\ live' = live \ OwnedBy("backend")
              /\ objects' = objects \ {"backend"}
              /\ ClearInitializing
              /\ Return(FALSE)
              /\ UNCHANGED <<initialized, arenaInitializing>>
    /\ UNCHANGED <<kind, pool, exit>>

(* The manager is made whether its command pool, which nothing uses, can be  *)
(* made or not.                                                              *)
InitManager ==
    /\ At("init", "manager")
    /\ objects' = objects \cup {"manager"}
    /\ initialized' = TRUE /\ initializing' = FALSE
    /\ Return(TRUE)
    /\ UNCHANGED <<arenaInitializing, kind, live, pool, exit>>

-------------------------------------------------------------------------------
(* get_global_arena() *)

(* It is called by the program and, under interposition, by an allocation of *)
(* a call that is building something; with an arena, or one in the making,   *)
(* it returns at once.                                                       *)
GetArena ==
    /\ exit = 0
    /\ stack # << >> => Head(stack).at \in {"stage", "manager", "import", "uma", "staged", "build"}
    /\ "arena" \notin objects /\ ~arenaInitializing
    /\ stack' = <<Frame("arena", "ensure")>> \o stack
    /\ UNCHANGED <<objects, flags, kind, live, pool, exit>>

(* A nested call has no result that the call it interrupted looks at. *)
ArenaDone == stack' = Tail(stack)

ArenaBegin ==
    /\ At("arena", "ensured")
    /\ \/ /\ Head(stack).ok
          /\ arenaInitializing' = TRUE
          /\ \/ pool = "live" /\ GoOn("import")
             \/ \E own \in {"uma", "staged"} : GoOn(own)
       \/ ~Head(stack).ok /\ ArenaDone /\ UNCHANGED arenaInitializing
    /\ UNCHANGED <<objects, initialized, initializing, kind, live, pool, exit>>

ImportKept == IF At("arena", "import") THEN live ELSE live \ ArenaObjects
Destroyed  == live \ ArenaObjects

(* One Vulkan call of initialize_from_pool() or initialize().  The command   *)
(* pool and fence for migrations are not checked.  When it fails, destroy()  *)
(* releases what there is; a failed import is followed by initialize().      *)
ArenaPart ==
    /\ stack # << >> /\ Head(stack).op = "arena" /\ Head(stack).at \in DOMAIN Parts
    /\ LET own  == Head(stack).at
           step == Head(stack).step
       IN  \/ /\ live' = live \cup {<<own, Parts[own][step]>>}
              /\ \/ step < Len(Parts[own]) /\ NextStep /\ UNCHANGED <<objects, arenaInitializing, kind>>
                 \/ /\ step = Len(Parts[own])
                    /\ objects' = objects \cup {"arena"} /\ kind' = own
                    /\ arenaInitializing' = FALSE
                    /\ ArenaDone
           \/ /\ Parts[own][step] # "xfer"
              /\ live' = Destroyed
              /\ UNCHANGED <<objects, kind>>
              /\ \/ /\ own = "import"
                    /\ \E next \in {"uma", "staged"} : GoOn(next)
                    /\ UNCHANGED arenaInitializing
                 \/ /\ own # "import"
                    /\ arenaInitializing' = FALSE
                    /\ ArenaDone
    /\ UNCHANGED <<initialized, initializing, pool, exit>>

-------------------------------------------------------------------------------
(* ensure_kernel_launcher_initialized() *)

GetLauncher ==
    /\ exit = 0 /\ stack = << >> /\ "launcher" \notin objects
    /\ stack' = <<Frame("backend", "ensure"), Frame("launcher", "ensure")>>
    /\ UNCHANGED <<objects, flags, kind, live, pool, exit>>

(* get_global_backend() is followed by get_global_memory_manager(), which    *)
(* tries again when the first attempt to initialise failed.                  *)
GotBackend ==
    /\ At("backend", "ensured")
    /\ stack' = <<[stack[2] EXCEPT !.got = "backend" \in objects]>>
    /\ UNCHANGED <<objects, flags, kind, live, pool, exit>>

LauncherBegin ==
    /\ At("launcher", "ensured")
    /\ IF Head(stack).got /\ "manager" \in objects THEN GoOn("build") ELSE stack' = << >>
    /\ UNCHANGED <<objects, flags, kind, live, pool, exit>>

LauncherBuild ==
    /\ At("launcher", "build")
    /\ live' = live \cup {<<"launcher", "pools">>}
    /\ objects' = objects \cup {"launcher"}
    /\ stack' = << >>
    /\ UNCHANGED <<flags, kind, pool, exit>>

-------------------------------------------------------------------------------
(* Static destruction: cache.cpp is initialised after unified_allocator.cpp  *)
(* (CMakeLists.txt:18-23), so its launcher goes first; then the globals of   *)
(* unified_allocator.cpp in the reverse order of their definition.           *)
LinkedFirst == <<"arena", "manager", "backend", "launcher">>
ExitOrder   == <<"launcher", "arena", "manager", "backend">>

Destroy ==
    /\ stack = << >> /\ exit < 4
    /\ LET o == ExitOrder[exit + 1]
       IN  /\ objects' = objects \ {o}
           /\ live' = live \ (IF o = "arena" THEN ArenaObjects ELSE OwnedBy(o))
    /\ exit' = exit + 1
    /\ UNCHANGED <<stack, flags, kind, pool>>

RuntimeStep ==
    \/ EnsureInitialized \/ InitStage \/ InitManager
    \/ GetArena \/ ArenaBegin \/ ArenaPart
    \/ GetLauncher \/ GotBackend \/ LauncherBegin \/ LauncherBuild
    \/ Destroy

-------------------------------------------------------------------------------
(* Nothing is created on, and no owner of Vulkan objects outlives, a device  *)
(* that is not there: a half-built backend, a backend that was reset, the    *)
(* device of an exiting process.                                             *)
BuiltBeforeUsed ==
    live # OwnedBy("backend") => <<"backend", "device">> \in live

(* The initialisation that is running is the only one of its kind, and its   *)
(* flag is up exactly while it runs, so that a failed one can be tried again *)
(* (unified_allocator.cpp:24-27 and 57-59).                                  *)
Building(op, ats) == {i \in DOMAIN stack : stack[i].op = op /\ stack[i].at \in ats}

OneAtATime ==
    LET inits  == Building("init", {"stage", "manager"})
        arenas == Building("arena", DOMAIN Parts)
    IN  /\ \A i, j \in inits : i = j
        /\ \A i, j \in arenas : i = j
        /\ initializing = (inits # {})
        /\ arenaInitializing = (arenas # {})
==============================================================================
