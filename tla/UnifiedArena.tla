---------------------------- MODULE UnifiedArena ----------------------------
(***************************************************************************)
(* The sub-allocator of src/memory/arena.cpp over its own device buffer    *)
(* (the arena that is not backed by the heap pool): first-fit reuse of a   *)
(* list of freed blocks, then a bump pointer into the unused tail.  The    *)
(* mutex makes each call one step.  A pointer is named by its offset from  *)
(* host_base_.                                                             *)
(***************************************************************************)
EXTENDS Integers, Sequences, SequencesExt

CONSTANTS
    Capacity,       \* capacity_, a multiple of DefaultAlign
    DefaultAlign,   \* kDefaultAlignment
    SizeMod,        \* VkDeviceSize arithmetic is modulo SizeMod
    Sizes,          \* the sizes callers ask for
    Aligns          \* the alignments callers ask for

ASSUME ArenaAssumption ==
    /\ DefaultAlign \in Nat \ {0}
    /\ Capacity \in Nat
    /\ SizeMod \in Nat \ {0}
    /\ Sizes \subseteq 0 .. SizeMod - 1
    /\ Aligns \subseteq Nat

(* No request is so large that rounding it, or adding it to an offset, wraps *)
(* VkDeviceSize: what the code needs of its callers and does not test.       *)
RequestsInRange ==
    \A size \in Sizes, align \in Aligns :
        Capacity + size + 2 * (align + DefaultAlign) <= SizeMod

(* Alignments are those arena.hpp speaks of, multiples of the default once   *)
(* they exceed it (powers of two).                                           *)
AlignsCompatible ==
    \A align \in Aligns : align > DefaultAlign => align % DefaultAlign = 0

VARIABLES
    valid,          \* host_base_ is set
    bump,           \* bump_
    high,           \* high_water_
    free,           \* free_list_, in order
    live            \* live_; "asked" is a ghost, the size of the request

vars == <<valid, bump, high, free, live>>

EffAlignAsAsked(align) == align
EffAlign(align) == IF align > DefaultAlign THEN align ELSE DefaultAlign
Wrap(x)         == x % SizeMod
AlignDown(v, a) == (Wrap(v) \div a) * a
AlignUp(v, a)   == (Wrap(v + a - 1) \div a) * a

-------------------------------------------------------------------------------
Init ==
    /\ valid = FALSE
    /\ bump = 0
    /\ high = 0
    /\ free = <<>>
    /\ live = {}

(* The fields destroy() resets. *)
Clear ==
    /\ valid' = FALSE
    /\ bump' = 0 /\ high' = 0
    /\ free' = <<>> /\ live' = {}

(* initialize() on a fresh or destroyed arena; a Vulkan failure destroys it. *)
Initialize ==
    /\ ~valid
    /\ \/ /\ valid' = TRUE
          /\ bump' = 0 /\ high' = 0
          /\ UNCHANGED <<free, live>>
       \/ Clear

Destroy == valid /\ Clear

(* live_[p] = {off, need}, replacing what was recorded under p. *)
Record(off, need, size) ==
    live' = {b \in live : b.off # off} \cup {[off |-> off, size |-> need, asked |-> size]}

Pad(i, a)        == AlignUp(free[i].off, a) - free[i].off
Rest(i, a, need) == Wrap(free[i].size - Pad(i, a) - need)

FitsNoPad(i, a, need) == free[i].size >= need
Fits(i, a, need)      == free[i].size >= Wrap(Pad(i, a) + need)

(* Take an aligned piece of free block i: what is left behind it stays in    *)
(* the list in place, the padding before it is dropped.                      *)
ReuseRestAtStart(i, a, need, size) ==
    /\ Record(AlignUp(free[i].off, a), need, size)
    /\ free' = IF Rest(i, a, need) > 0 THEN [free EXCEPT ![i].size = Rest(i, a, need)]
               ELSE RemoveAt(free, i)
    /\ UNCHANGED <<valid, bump, high>>

Reuse(i, a, need, size) ==
    /\ Record(AlignUp(free[i].off, a), need, size)
    /\ \/ /\ Rest(i, a, need) > 0
          /\ free' = [free EXCEPT ![i] = [off  |-> AlignUp(free[i].off, a) + need,
                                          size |-> Rest(i, a, need)]]
       \/ /\ Rest(i, a, need) = 0
          /\ free' = RemoveAt(free, i)
    /\ UNCHANGED <<valid, bump, high>>

HighStays(top) == high
HighAfter(top) == IF top > high THEN top ELSE high

BumpStartInside(a, need, size) ==
    LET off == AlignUp(bump, a)
    IN  \/ off > Capacity /\ UNCHANGED vars
        \/ /\ off <= Capacity
           /\ Record(off, need, size)
           /\ bump' = off + need
           /\ high' = HighAfter(off + need)
           /\ UNCHANGED <<valid, free>>

(* Take from the tail, or return nullptr. *)
Bump(a, need, size) ==
    LET off == AlignUp(bump, a)
        top == Wrap(off + need)
    IN  \/ /\ top > Capacity
           /\ UNCHANGED vars
        \/ /\ top <= Capacity
           /\ Record(off, need, size)
           /\ bump' = top
           /\ high' = HighAfter(top)
           /\ UNCHANGED <<valid, free>>

(* allocate(): nullptr for size 0, the first free block that fits, the tail. *)
Allocate(size, align) ==
    LET a    == EffAlign(align)
        need == AlignUp(size, a)
    IN  /\ valid /\ size > 0
        /\ \/ \E i \in DOMAIN free :
                /\ Fits(i, a, need)
                /\ \A j \in 1 .. i - 1 : ~Fits(j, a, need)
                /\ Reuse(i, a, need, size)
           \/ /\ \A i \in DOMAIN free : ~Fits(i, a, need)
              /\ Bump(a, need, size)

(* deallocate() of any pointer of the arena: one that is not live (a second  *)
(* free, an interior pointer) is ignored.                                    *)
DeallocateKeepsRecord(off) ==
    /\ \E b \in live : b.off = off /\ free' = Append(free, [off |-> b.off, size |-> b.size])
    /\ UNCHANGED <<valid, bump, high, live>>

Deallocate(off) ==
    /\ \/ \E b \in live :
            /\ b.off = off
            /\ free' = Append(free, [off |-> b.off, size |-> b.size])
            /\ live' = live \ {b}
       \/ /\ \A b \in live : b.off # off
          /\ UNCHANGED <<free, live>>
    /\ UNCHANGED <<valid, bump, high>>

Next ==
    \/ Initialize
    \/ Destroy
    \/ \E size \in Sizes, align \in Aligns : Allocate(size, align)
    \/ \E off \in 0 .. Capacity : Deallocate(off)

Spec == Init /\ [][Next]_vars

-------------------------------------------------------------------------------
Block  == [off : Nat, size : Nat]
Grant  == [off : Nat, size : Nat, asked : Nat]

TypeOK ==
    /\ valid \in BOOLEAN
    /\ bump \in 0 .. Capacity /\ high \in 0 .. Capacity
    /\ free \in Seq(Block)
    /\ live \subseteq Grant

Apart(b, c) == b.off + b.size <= c.off \/ c.off + c.size <= b.off

(* No byte is handed out twice: live blocks are disjoint from each other,    *)
(* from every block of the free list, and the free list holds no byte twice, *)
(* so nothing that is freed can be given to two later callers.               *)
LiveApart     == \A b, c \in live : b = c \/ Apart(b, c)
FreeApart     == \A i, j \in DOMAIN free : i = j \/ Apart(free[i], free[j])
LiveFreeApart == \A b \in live : \A i \in DOMAIN free : Apart(b, free[i])
NoOverlap     == LiveApart /\ FreeApart /\ LiveFreeApart

(* Every live and free block lies in the bytes below high_water_, the only   *)
(* ones flush_to_device and invalidate_from_device copy, and those lie in    *)
(* the device buffer.                                                        *)
CopiedRangeCoversBlocks ==
    /\ high <= Capacity
    /\ \A b \in live : b.off + b.size <= high
    /\ \A i \in DOMAIN free : free[i].off + free[i].size <= high

(* A pointer the arena returns has room for what was asked (arena.hpp:53-54: *)
(* "Sub-allocate `size` bytes ... nullptr when the arena is exhausted").     *)
RoomForRequest == \A b \in live : b.size >= b.asked

(* Offsets are usable as descriptor offsets, also after a free block has     *)
(* been split: multiples of the default alignment.                           *)
OffsetsAligned == \A b \in live : b.off % DefaultAlign = 0

(* allocate() places a block wholly in the tail that bump_ has not reached,  *)
(* or wholly inside one block of the free list, and the tail never grows     *)
(* back over bytes that were handed out, until destroy().                    *)
WithinBlock(off, size, b) == b.off <= off /\ off + size <= b.off + b.size

FreshGrants ==
    /\ bump' >= bump
    /\ \A g \in live' \ live :
          \/ g.off >= bump
          \/ \E i \in DOMAIN free : WithinBlock(g.off, g.size, free[i])

GrantsFromFreeBytes == [][valid /\ valid' => FreshGrants]_vars

(* The arena is an allocator of one region, until destroy() gives it up.     *)
Abstract == INSTANCE RegionAllocator
                WITH Region <- Capacity,
                     granted <- {[lo |-> b.off, hi |-> b.off + b.size] : b \in live}
Implements == Abstract!Spec
==============================================================================
