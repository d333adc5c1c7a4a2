------------------------- MODULE UnifiedArenaProofs -------------------------
(***************************************************************************)
(* The safety of UnifiedArena for every capacity, alignment and set of     *)
(* requests that stays clear of the top of the integer range.              *)
(***************************************************************************)
EXTENDS UnifiedArena, SequenceTheorems, TLAPS

ASSUME InRange   == RequestsInRange
ASSUME Compatible == AlignsCompatible

-------------------------------------------------------------------------------
(* Arithmetic: rounding down to a multiple, and a modulus that has no effect. *)

LEMMA RoundDown ==
    ASSUME NEW x \in Nat, NEW a \in Nat \ {0}
    PROVE  /\ (x \div a) * a \in Nat
           /\ (x \div a) * a <= x
           /\ x < (x \div a) * a + a
  OBVIOUS

LEMMA WrapSmall ==
    ASSUME NEW x \in Nat, x < SizeMod
    PROVE  Wrap(x) = x
  BY ArenaAssumption DEF Wrap

(* align_up returns the next multiple, when the sum does not wrap. *)
LEMMA AlignUpFacts ==
    ASSUME NEW v \in Nat, NEW a \in Nat \ {0}, v + a <= SizeMod
    PROVE  /\ AlignUp(v, a) \in Nat
           /\ v <= AlignUp(v, a)
           /\ AlignUp(v, a) < v + a
  <1>1. /\ v + a - 1 \in Nat
        /\ Wrap(v + a - 1) = v + a - 1
    BY WrapSmall, ArenaAssumption
  <1>2. AlignUp(v, a) = ((v + a - 1) \div a) * a
    BY <1>1 DEF AlignUp
  <1> QED
    BY <1>1, <1>2, RoundDown

LEMMA Multiple ==
    ASSUME NEW m \in Nat, NEW d \in Nat \ {0}
    PROVE  (m * d) % d = 0
  OBVIOUS

LEMMA MultipleOfMultiple ==
    ASSUME NEW q \in Nat, NEW a \in Nat \ {0}, NEW d \in Nat \ {0}, a % d = 0
    PROVE  (q * a) % d = 0
  <1>1. PICK k \in Nat : a = k * d
    OBVIOUS
  <1>2. q * a = (q * k) * d
    BY <1>1
  <1>3. q * k \in Nat
    BY <1>1
  <1>4. ((q * k) * d) % d = 0
    BY <1>3, Multiple
  <1> QED
    BY <1>2, <1>4

LEMMA RemoveAtFacts ==
    ASSUME NEW S, NEW s \in Seq(S), NEW i \in DOMAIN s
    PROVE  /\ RemoveAt(s, i) \in Seq(S)
           /\ DOMAIN RemoveAt(s, i) = 1 .. Len(s) - 1
           /\ \A j \in 1 .. Len(s) - 1 :
                 RemoveAt(s, i)[j] = s[IF j < i THEN j ELSE j + 1]
  <1> DEFINE front == SubSeq(s, 1, i - 1)
             back  == SubSeq(s, i + 1, Len(s))
  <1>1. i \in 1 .. Len(s) /\ Len(s) \in Nat /\ \A j \in 1 .. Len(s) : s[j] \in S
    OBVIOUS
  <1>2. /\ front \in Seq(S) /\ Len(front) = i - 1
        /\ \A j \in 1 .. i - 1 : front[j] = s[j]
    BY <1>1, SubSeqProperties
  <1>3. /\ back \in Seq(S) /\ Len(back) = Len(s) - i
        /\ \A j \in 1 .. Len(s) - i : back[j] = s[i + j]
    BY <1>1, SubSeqProperties
  <1>4. /\ front \o back \in Seq(S)
        /\ Len(front \o back) = Len(s) - 1
        /\ \A j \in 1 .. Len(s) - 1 : (front \o back)[j] =
                IF j <= i - 1 THEN front[j] ELSE back[j - (i - 1)]
    <2> HIDE DEF front, back
    <2>1. /\ front \o back \in Seq(S)
          /\ Len(front \o back) = Len(front) + Len(back)
          /\ \A j \in 1 .. Len(front) + Len(back) : (front \o back)[j] =
                IF j <= Len(front) THEN front[j] ELSE back[j - Len(front)]
      BY <1>2, <1>3, ConcatProperties
    <2>2. Len(front) = i - 1 /\ Len(front) + Len(back) = Len(s) - 1
      BY <1>1, <1>2, <1>3
    <2> QED
      BY <2>1, <2>2
  <1>5. RemoveAt(s, i) = front \o back
    BY DEF RemoveAt
  <1> HIDE DEF front, back
  <1>6. ASSUME NEW j \in 1 .. Len(s) - 1
        PROVE  (front \o back)[j] = s[IF j < i THEN j ELSE j + 1]
    <2>1. CASE j < i
      BY <1>1, <1>2, <1>4, <2>1
    <2>2. CASE ~(j < i)
      <3>1. (front \o back)[j] = back[j - (i - 1)]
        BY <1>1, <1>4, <2>2
      <3>2. j - (i - 1) \in 1 .. Len(s) - i /\ i + (j - (i - 1)) = j + 1
        BY <1>1, <2>2
      <3> QED
        BY <1>1, <1>3, <2>2, <3>1, <3>2
    <2> QED
      BY <2>1, <2>2
  <1> QED
    BY <1>1, <1>4, <1>5, <1>6

-------------------------------------------------------------------------------
(* The inductive invariant.  The safety properties alone are not preserved:  *)
(* a block taken from the tail is apart from the others only because they    *)
(* all end below bump_, and initialize() may zero bump_ only because a       *)
(* destroyed arena has neither live nor free blocks.                         *)

WhenInvalid == ~valid => bump = 0 /\ free = <<>> /\ live = {}

TailSound == high = bump /\ bump <= Capacity

LiveSound(b) ==
    /\ b.size > 0 /\ b.size >= b.asked
    /\ b.off + b.size <= bump
    /\ b.off % DefaultAlign = 0

FreeSound(b) == b.size > 0 /\ b.off + b.size <= bump

Inductive ==
    /\ TypeOK
    /\ WhenInvalid
    /\ TailSound
    /\ \A b \in live : LiveSound(b)
    /\ \A i \in DOMAIN free : FreeSound(free[i])
    /\ NoOverlap

(* What allocate() computes from a request: the effective alignment and the  *)
(* rounded size.                                                             *)
LEMMA RequestFacts ==
    ASSUME NEW size \in Sizes, NEW align \in Aligns, size > 0,
           NEW a, a = EffAlign(align), NEW need, need = AlignUp(size, a)
    PROVE  /\ a \in Nat \ {0} /\ a % DefaultAlign = 0
           /\ need \in Nat /\ size \in Nat
           /\ size <= need /\ 0 < need
           /\ Capacity + a + need < SizeMod
  <1>1. size \in Nat /\ align \in Nat /\ DefaultAlign \in Nat \ {0}
        /\ Capacity \in Nat /\ SizeMod \in Nat
    BY ArenaAssumption
  <1>2. a \in Nat \ {0} /\ a <= align + DefaultAlign
    BY <1>1 DEF EffAlign
  <1>3. a % DefaultAlign = 0
    BY <1>1, Compatible DEF EffAlign, AlignsCompatible
  <1>4. Capacity + size + 2 * (align + DefaultAlign) <= SizeMod
    BY InRange DEF RequestsInRange
  <1>5. size + a <= SizeMod
    BY <1>1, <1>2, <1>4
  <1>6. need \in Nat /\ size <= need /\ need < size + a
    BY <1>1, <1>2, <1>5, AlignUpFacts
  <1> QED
    BY <1>1, <1>2, <1>3, <1>4, <1>6

(* Where allocate() places the block above an offset of the arena. *)
LEMMA PlaceFacts ==
    ASSUME NEW v \in 0 .. Capacity, NEW a \in Nat \ {0}, a % DefaultAlign = 0,
           NEW need \in Nat, Capacity + a + need < SizeMod
    PROVE  /\ AlignUp(v, a) \in Nat
           /\ v <= AlignUp(v, a)
           /\ AlignUp(v, a) % DefaultAlign = 0
           /\ AlignUp(v, a) + need < SizeMod
           /\ Wrap(AlignUp(v, a) + need) = AlignUp(v, a) + need
  <1>1. Capacity \in Nat /\ SizeMod \in Nat \ {0} /\ DefaultAlign \in Nat \ {0}
        /\ v \in Nat /\ v <= Capacity
    BY ArenaAssumption
  <1>2. v + a <= SizeMod
    BY <1>1
  <1>3. AlignUp(v, a) \in Nat /\ v <= AlignUp(v, a) /\ AlignUp(v, a) < v + a
    BY <1>1, <1>2, AlignUpFacts
  <1>4. (Wrap(v + a - 1) \div a) \in Nat
    BY <1>1 DEF Wrap
  <1>5. AlignUp(v, a) % DefaultAlign = 0
    BY <1>1, <1>4, MultipleOfMultiple DEF AlignUp
  <1>6. AlignUp(v, a) + need \in Nat /\ AlignUp(v, a) + need < SizeMod
    BY <1>1, <1>3
  <1> QED
    BY <1>3, <1>5, <1>6, WrapSmall

(* A free block that passes the test of the first-fit loop really holds the  *)
(* aligned piece, and what is left behind it is computed without wrapping.   *)
LEMMA PieceFacts ==
    ASSUME Inductive, NEW i \in DOMAIN free,
           NEW a \in Nat \ {0}, a % DefaultAlign = 0,
           NEW need \in Nat, Capacity + a + need < SizeMod, Fits(i, a, need)
    PROVE  LET off == AlignUp(free[i].off, a) IN
           /\ free[i] \in Block
           /\ off \in Nat /\ off % DefaultAlign = 0
           /\ free[i].off <= off
           /\ off + need <= free[i].off + free[i].size
           /\ Rest(i, a, need) = free[i].off + free[i].size - (off + need)
  <1> DEFINE f   == free[i]
             off == AlignUp(f.off, a)
  <1>1. f \in Block /\ f.off \in Nat /\ f.size \in Nat
    <2>1. free \in Seq(Block)
      BY DEF Inductive, TypeOK
    <2>2. f \in Block
      BY <2>1
    <2> QED
      BY <2>2 DEF Block
  <1>2. f.off + f.size <= Capacity /\ Capacity \in Nat /\ SizeMod \in Nat
    <2>1. f.off + f.size <= bump /\ bump <= Capacity /\ bump \in Nat
      BY DEF Inductive, FreeSound, TailSound, TypeOK
    <2> QED
      BY <1>1, <2>1, ArenaAssumption
  <1>3. f.off \in 0 .. Capacity
    BY <1>1, <1>2
  <1> HIDE DEF f
  <1>4. /\ off \in Nat /\ f.off <= off /\ off % DefaultAlign = 0
        /\ off + need < SizeMod
    BY <1>3, PlaceFacts
  <1> HIDE DEF off
  <1>5. off - f.off + need \in Nat /\ off - f.off + need < SizeMod
    BY <1>1, <1>2, <1>4
  <1>6. f.size >= off - f.off + need
    <2>1. Wrap(off - f.off + need) = off - f.off + need
      BY <1>5, WrapSmall
    <2> QED
      BY <2>1 DEF Fits, Pad, f, off
  <1>7. f.size - (off - f.off) - need \in Nat
        /\ f.size - (off - f.off) - need < SizeMod
    BY <1>1, <1>2, <1>4, <1>5, <1>6
  <1>8. Rest(i, a, need) = f.size - (off - f.off) - need
    BY <1>7, WrapSmall DEF Rest, Pad, f, off
  <1>9. off + need <= f.off + f.size
        /\ Rest(i, a, need) = f.off + f.size - (off + need)
    BY <1>1, <1>2, <1>4, <1>6, <1>8
  <1> QED
    BY <1>1, <1>4, <1>9 DEF f, off

(* A block recorded where no live block is apart from: live_ gains it and    *)
(* loses nothing.                                                            *)
LEMMA RecordFacts ==
    ASSUME Inductive, NEW off \in Nat, NEW need \in Nat, NEW size \in Nat,
           need > 0, Record(off, need, size),
           \A b \in live : b.off + b.size <= off \/ off + need <= b.off
    PROVE  live' = live \cup {[off |-> off, size |-> need, asked |-> size]}
  <1>1. \A b \in live : b.off \in Nat /\ b.size \in Nat /\ b.size > 0
    BY DEF Inductive, TypeOK, Grant, LiveSound
  <1>2. \A b \in live : b.off # off
    BY <1>1
  <1> QED
    BY <1>2 DEF Record

(* What a successful allocate() does to the set of live blocks. *)
Handed(off, need, size) ==
    /\ live' = live \cup {[off |-> off, size |-> need, asked |-> size]}
    /\ off + need <= Capacity
    /\ \A b \in live : b.off + b.size <= off \/ off + need <= b.off
    /\ \/ off >= bump
       \/ \E i \in DOMAIN free : WithinBlock(off, need, free[i])

(* Reuse of a free block. *)
LEMMA ReuseStep ==
    ASSUME Inductive, valid, NEW i \in DOMAIN free,
           NEW a \in Nat \ {0}, a % DefaultAlign = 0,
           NEW need \in Nat, NEW size \in Nat, size <= need, 0 < need,
           Capacity + a + need < SizeMod,
           Fits(i, a, need), Reuse(i, a, need, size)
    PROVE  /\ Inductive'
           /\ \E off \in Nat : Handed(off, need, size)
           /\ bump' = bump
  <1> DEFINE f   == free[i]
             off == AlignUp(free[i].off, a)
             n   == [off |-> off, size |-> need, asked |-> size]
             end == f.off + f.size
  <1>1. /\ f \in Block /\ f.off \in Nat /\ f.size \in Nat
        /\ off \in Nat /\ off % DefaultAlign = 0
        /\ f.off <= off
        /\ off + need <= end
        /\ Rest(i, a, need) = end - (off + need)
    BY PieceFacts DEF Block
  <1>2. /\ Record(off, need, size)
        /\ valid' = valid /\ bump' = bump /\ high' = high
        /\ \/ /\ Rest(i, a, need) > 0
              /\ free' = [free EXCEPT ![i] = [off |-> off + need, size |-> Rest(i, a, need)]]
           \/ /\ Rest(i, a, need) = 0
              /\ free' = RemoveAt(free, i)
    BY DEF Reuse
  <1>3. /\ free \in Seq(Block) /\ bump \in Nat
        /\ live \subseteq Grant
        /\ end <= bump /\ bump <= Capacity
        /\ \A b \in live : b.off \in Nat /\ b.size \in Nat /\ b.size > 0
        /\ \A j \in DOMAIN free : free[j] \in Block
    BY DEF Inductive, TypeOK, Grant, FreeSound, TailSound, LiveSound
  <1>4. \A b \in live : b.off + b.size <= f.off \/ end <= b.off
    BY DEF Inductive, NoOverlap, LiveFreeApart, Apart
  <1>5. \A j \in DOMAIN free \ {i} :
           free[j].off + free[j].size <= f.off \/ end <= free[j].off
    BY DEF Inductive, NoOverlap, FreeApart, Apart
  <1> HIDE DEF off, f, end
  <1>6. \A b \in live : b.off + b.size <= off \/ off + need <= b.off
    <2>1. f.off \in Nat /\ end \in Nat /\ f.off <= off /\ off + need <= end
      BY <1>1 DEF end
    <2> HIDE DEF end
    <2> QED
      BY <1>1, <1>3, <1>4, <2>1
  <1>7. live' = live \cup {n}
    BY <1>1, <1>2, <1>6, RecordFacts
  <1>8. n \in Grant /\ LiveSound(n)
    BY <1>1, <1>3 DEF Grant, LiveSound, end
  (* The new free list: each block is an old one, or the rest of block i. *)
  <1>9. /\ free' \in Seq(Block)
        /\ \A j \in DOMAIN free' :
              /\ free'[j].size > 0 /\ free'[j].off + free'[j].size <= bump
              /\ free'[j].off \in Nat /\ free'[j].size \in Nat
              /\ \A b \in live \cup {n} : Apart(b, free'[j])
        /\ \A j, k \in DOMAIN free' : j = k \/ Apart(free'[j], free'[k])
    <2> DEFINE r == [off |-> off + need, size |-> Rest(i, a, need)]
               Sound(b) == /\ b \in Block /\ b.off \in Nat /\ b.size \in Nat
                           /\ b.size > 0 /\ b.off + b.size <= bump
                           /\ \A c \in live \cup {n} : Apart(c, b)
    <2>1. ASSUME NEW j \in DOMAIN free \ {i}
          PROVE  Sound(free[j])
      <3>1. free[j] \in Block /\ free[j].size > 0 /\ free[j].off + free[j].size <= bump
        BY <1>3 DEF Inductive, FreeSound
      <3>2. free[j].off \in Nat /\ free[j].size \in Nat
        BY <3>1 DEF Block
      <3>3. \A c \in live : Apart(c, free[j])
        BY DEF Inductive, NoOverlap, LiveFreeApart
      <3>4. Apart(n, free[j])
        BY <1>1, <1>5, <3>2 DEF Apart, end
      <3> QED
        BY <3>1, <3>2, <3>3, <3>4
    <2>2. CASE /\ Rest(i, a, need) > 0
               /\ free' = [free EXCEPT ![i] = r]
      <3>1. r \in Block /\ r.off = off + need /\ r.off + r.size = end
        BY <1>1, <2>2 DEF Block, end
      <3>2. Sound(r)
        <4>1. \A c \in live : Apart(c, r)
          BY <1>1, <1>3, <1>4, <3>1 DEF Apart, end
        <4>2. Apart(n, r)
          BY <1>1, <3>1 DEF Apart
        <4>3. r.off \in Nat /\ r.size \in Nat /\ r.size > 0 /\ r.off + r.size <= bump
          BY <1>1, <1>3, <2>2, <3>1 DEF end
        <4> QED
          BY <3>1, <4>1, <4>2, <4>3
      <3>3. \A j \in DOMAIN free \ {i} : Apart(r, free[j]) /\ Apart(free[j], r)
        <4> TAKE j \in DOMAIN free \ {i}
        <4>1. free[j].off \in Nat /\ free[j].size \in Nat
          BY <2>1
        <4> QED
          BY <1>1, <1>5, <3>1, <4>1 DEF Apart, end
      <3>4. free' \in Seq(Block) /\ DOMAIN free' = DOMAIN free
        BY <1>3, <2>2, <3>1
      <3>5. /\ free'[i] = r
            /\ \A j \in DOMAIN free \ {i} : free'[j] = free[j]
        BY <1>3, <2>2
      <3> HIDE DEF r, n, Sound
      <3>6. \A j \in DOMAIN free' : Sound(free'[j])
        BY <2>1, <3>2, <3>4, <3>5
      <3>7. \A j, k \in DOMAIN free' : j = k \/ Apart(free'[j], free'[k])
        BY <3>3, <3>4, <3>5 DEF Inductive, NoOverlap, FreeApart
      <3> QED
        BY <3>4, <3>6, <3>7 DEF Sound
    <2>3. CASE free' = RemoveAt(free, i)
      <3> DEFINE from(j) == IF j < i THEN j ELSE j + 1
      <3>1. /\ free' \in Seq(Block)
            /\ DOMAIN free' = 1 .. Len(free) - 1
            /\ \A j \in DOMAIN free' : free'[j] = free[from(j)]
        <4> HIDE DEF n, Sound, r, from
        <4>0. free \in Seq(Block)
          BY <1>3
        <4>1. /\ RemoveAt(free, i) \in Seq(Block)
              /\ DOMAIN RemoveAt(free, i) = 1 .. Len(free) - 1
              /\ \A j \in 1 .. Len(free) - 1 :
                    RemoveAt(free, i)[j] = free[IF j < i THEN j ELSE j + 1]
          BY <4>0, RemoveAtFacts
        <4> QED
          BY <2>3, <4>1 DEF from
      <3>2. /\ \A j \in DOMAIN free' : from(j) \in DOMAIN free \ {i}
            /\ \A j, k \in DOMAIN free' : j = k \/ from(j) # from(k)
        <4>1. i \in 1 .. Len(free) /\ Len(free) \in Nat /\ DOMAIN free = 1 .. Len(free)
          BY <1>3
        <4> QED
          BY <3>1, <4>1
      <3> HIDE DEF from, n, Sound
      <3>3. \A j \in DOMAIN free' : Sound(free'[j])
        BY <2>1, <3>1, <3>2
      <3>4. \A j, k \in DOMAIN free' : j = k \/ Apart(free'[j], free'[k])
        BY <3>1, <3>2 DEF Inductive, NoOverlap, FreeApart
      <3> QED
        BY <3>1, <3>3, <3>4 DEF Sound
    <2> QED
      BY <1>2, <2>2, <2>3
  <1>10. TypeOK'
    BY <1>2, <1>3, <1>7, <1>8, <1>9 DEF Inductive, TypeOK
  <1>11. \A b \in live' : LiveSound(b)'
    BY <1>2, <1>7, <1>8 DEF Inductive, LiveSound
  <1>12. LiveApart'
    BY <1>1, <1>3, <1>6, <1>7 DEF Inductive, NoOverlap, LiveApart, Apart
  <1>13. FreeApart' /\ LiveFreeApart'
    BY <1>7, <1>9 DEF FreeApart, LiveFreeApart
  <1>14. (\A j \in DOMAIN free : FreeSound(free[j]))'
    BY <1>2, <1>9 DEF FreeSound
  <1>15. WhenInvalid' /\ TailSound'
    BY <1>2 DEF Inductive, WhenInvalid, TailSound
  <1>16. Handed(off, need, size)
    <2>1. off + need <= Capacity
      BY <1>1, <1>3, ArenaAssumption DEF end
    <2>2. WithinBlock(off, need, free[i])
      BY <1>1 DEF WithinBlock, end, f
    <2> QED
      BY <1>6, <1>7, <2>1, <2>2 DEF Handed
  <1> QED
    BY <1>1, <1>2, <1>10, <1>11, <1>12, <1>13, <1>14, <1>15, <1>16 DEF Inductive, NoOverlap

(* Allocation from the tail. *)
LEMMA BumpStep ==
    ASSUME Inductive, valid,
           NEW a \in Nat \ {0}, a % DefaultAlign = 0,
           NEW need \in Nat, NEW size \in Nat, size <= need, 0 < need,
           Capacity + a + need < SizeMod,
           Bump(a, need, size)
    PROVE  /\ Inductive'
           /\ \/ UNCHANGED vars
              \/ \E off \in Nat : Handed(off, need, size)
           /\ bump' >= bump
  <1> DEFINE off == AlignUp(bump, a)
             n   == [off |-> off, size |-> need, asked |-> size]
  <1>1. /\ bump \in Nat /\ bump <= Capacity /\ high = bump
        /\ free \in Seq(Block) /\ live \subseteq Grant
        /\ Capacity \in Nat
        /\ bump \in 0 .. Capacity
    BY ArenaAssumption DEF Inductive, TypeOK, TailSound
  <1>2. /\ off \in Nat /\ bump <= off /\ off % DefaultAlign = 0
        /\ Wrap(off + need) = off + need
    BY <1>1, PlaceFacts
  <1> HIDE DEF off
  <1>3. CASE UNCHANGED vars
    BY <1>1, <1>3 DEF vars, Inductive, TypeOK, WhenInvalid, TailSound, LiveSound, FreeSound,
                 NoOverlap, LiveApart, FreeApart, LiveFreeApart, Apart
  <1>4. CASE /\ off + need <= Capacity
             /\ Record(off, need, size)
             /\ bump' = off + need
             /\ high' = HighAfter(off + need)
             /\ UNCHANGED <<valid, free>>
    <2>1. bump' \in Nat /\ high' = bump' /\ bump' <= Capacity /\ bump <= bump'
          /\ valid' = valid /\ free' = free
      BY <1>1, <1>2, <1>4 DEF HighAfter
    <2>2. \A b \in live : /\ b.off \in Nat /\ b.size \in Nat
                          /\ b.off + b.size <= off
      BY <1>1, <1>2 DEF Inductive, Grant, LiveSound
    <2>3. live' = live \cup {n}
      BY <1>2, <1>4, <2>2, RecordFacts
    <2>4. \A j \in DOMAIN free : /\ free[j].off \in Nat /\ free[j].size \in Nat
                                 /\ free[j].off + free[j].size <= off
      <3> TAKE j \in DOMAIN free
      <3>1. free[j] \in Block /\ free[j].off + free[j].size <= bump
        BY <1>1 DEF Inductive, FreeSound
      <3> QED
        BY <1>1, <1>2, <3>1 DEF Block
    <2>5. n \in Grant /\ n.off + n.size = bump' /\ n.size > 0 /\ n.size >= n.asked
          /\ n.off = off
      BY <1>2, <1>4 DEF Grant
    <2> HIDE DEF n
    <2>6. TypeOK' /\ WhenInvalid' /\ TailSound'
      BY <1>1, <2>1, <2>3, <2>5 DEF Inductive, TypeOK, WhenInvalid, TailSound
    <2>7. \A b \in live' : LiveSound(b)'
      <3> TAKE b \in live'
      <3>1. CASE b \in live
        BY <1>1, <2>1, <2>2, <3>1 DEF Inductive, LiveSound
      <3>2. CASE b = n
        BY <1>2, <2>1, <2>5, <3>2 DEF LiveSound
      <3> QED
        BY <2>3, <3>1, <3>2
    <2>8. (\A j \in DOMAIN free : FreeSound(free[j]))'
      BY <1>1, <2>1, <2>4 DEF Inductive, FreeSound
    <2>9. NoOverlap'
      BY <1>2, <2>1, <2>2, <2>3, <2>4, <2>5
         DEF Inductive, NoOverlap, LiveApart, FreeApart, LiveFreeApart, Apart
    <2>10. Handed(off, need, size)
      BY <1>2, <1>4, <2>2, <2>3 DEF Handed, n
    <2> QED
      BY <1>2, <2>1, <2>6, <2>7, <2>8, <2>9, <2>10 DEF Inductive
  <1> QED
    BY <1>2, <1>3, <1>4 DEF Bump, off

(* deallocate(): the block moves from live_ to the end of the free list. *)
LEMMA DeallocateStep ==
    ASSUME Inductive, NEW off \in 0 .. Capacity, Deallocate(off)
    PROVE  /\ Inductive'
           /\ live' = live \/ \E b \in live : live' = live \ {b}
           /\ bump' = bump
  <1>1. valid' = valid /\ bump' = bump /\ high' = high
    BY DEF Deallocate
  <1>2. CASE free' = free /\ live' = live
    BY <1>1, <1>2 DEF Inductive, TypeOK, WhenInvalid, TailSound, LiveSound, FreeSound,
                 NoOverlap, LiveApart, FreeApart, LiveFreeApart, Apart
  <1>3. ASSUME NEW b \in live,
               free' = Append(free, [off |-> b.off, size |-> b.size]),
               live' = live \ {b}
        PROVE  Inductive'
    <2> DEFINE r == [off |-> b.off, size |-> b.size]
    <2>1. b \in Grant /\ LiveSound(b) /\ free \in Seq(Block) /\ live \subseteq Grant
      BY DEF Inductive, TypeOK
    <2>2. r \in Block /\ FreeSound(r) /\ r.off = b.off /\ r.size = b.size
      BY <2>1 DEF Grant, Block, LiveSound, FreeSound
    <2>3. \A j \in DOMAIN free : Apart(b, free[j])
      BY DEF Inductive, NoOverlap, LiveFreeApart
    <2>4. \A c \in live \ {b} : Apart(c, b) /\ Apart(b, c)
      BY DEF Inductive, NoOverlap, LiveApart
    <2> HIDE DEF r
    <2>5. /\ free' \in Seq(Block)
          /\ DOMAIN free' = 1 .. Len(free) + 1 /\ DOMAIN free = 1 .. Len(free)
          /\ Len(free) \in Nat
          /\ \A j \in DOMAIN free : free'[j] = free[j]
          /\ free'[Len(free) + 1] = r
      BY <1>3, <2>1, <2>2, AppendProperties DEF r
    <2>6. \A j \in DOMAIN free' : j \in DOMAIN free \/ free'[j] = r
      BY <2>5
    <2>7. TypeOK' /\ TailSound'
      BY <1>1, <1>3, <2>1, <2>5 DEF Inductive, TypeOK, TailSound
    <2>8. WhenInvalid'
      BY <1>1 DEF Inductive, WhenInvalid
    <2>9. (\A c \in live : LiveSound(c))'
      BY <1>1, <1>3 DEF Inductive, LiveSound
    <2>10. (\A j \in DOMAIN free : FreeSound(free[j]))'
      BY <1>1, <2>2, <2>5, <2>6 DEF Inductive, FreeSound
    <2>11. LiveApart'
      BY <1>3 DEF Inductive, NoOverlap, LiveApart, Apart
    <2>12. FreeApart'
      <3> SUFFICES ASSUME NEW j \in DOMAIN free', NEW k \in DOMAIN free', j # k
                   PROVE  Apart(free'[j], free'[k])
        BY DEF FreeApart, Apart
      <3>1. CASE j \in DOMAIN free /\ k \in DOMAIN free
        BY <2>5, <3>1 DEF Inductive, NoOverlap, FreeApart
      <3>2. CASE j \in DOMAIN free /\ k \notin DOMAIN free
        BY <2>2, <2>3, <2>5, <2>6, <3>2 DEF Apart
      <3>3. CASE j \notin DOMAIN free /\ k \in DOMAIN free
        BY <2>2, <2>3, <2>5, <2>6, <3>3 DEF Apart
      <3>4. j \in DOMAIN free \/ k \in DOMAIN free
        BY <2>5
      <3> QED
        BY <3>1, <3>2, <3>3, <3>4
    <2>13. LiveFreeApart'
      <3> SUFFICES ASSUME NEW c \in live', NEW j \in DOMAIN free'
                   PROVE  Apart(c, free'[j])
        BY DEF LiveFreeApart, Apart
      <3>1. CASE j \in DOMAIN free
        BY <1>3, <2>5, <3>1 DEF Inductive, NoOverlap, LiveFreeApart
      <3>2. CASE free'[j] = r
        BY <1>3, <2>2, <2>4, <3>2 DEF Apart
      <3> QED
        BY <2>6, <3>1, <3>2
    <2> QED
      BY <2>7, <2>8, <2>9, <2>10, <2>11, <2>12, <2>13 DEF Inductive, NoOverlap
  <1> QED
    BY <1>1, <1>2, <1>3 DEF Deallocate

-------------------------------------------------------------------------------
(* The theorems.                                                             *)

LEMMA InitInductive == Init => Inductive
  <1> SUFFICES ASSUME Init PROVE Inductive
    OBVIOUS
  <1>1. Capacity \in Nat /\ free = <<>> /\ live = {} /\ bump = 0 /\ high = 0 /\ valid = FALSE
    BY ArenaAssumption DEF Init
  <1>2. free \in Seq(Block) /\ DOMAIN free = {}
    BY <1>1
  <1>3. TypeOK
    <2>1. 0 \in 0 .. Capacity
      BY <1>1
    <2> QED
      BY <1>1, <1>2, <2>1 DEF TypeOK
  <1>4. WhenInvalid
    BY <1>1 DEF WhenInvalid
  <1>5. TailSound
    BY <1>1 DEF TailSound
  <1>6. NoOverlap
    BY <1>1, <1>2 DEF NoOverlap, LiveApart, FreeApart, LiveFreeApart
  <1> QED
    BY <1>1, <1>2, <1>3, <1>4, <1>5, <1>6 DEF Inductive

LEMMA ClearStep ==
    ASSUME Clear
    PROVE  Inductive'
  <1>1. Capacity \in Nat /\ free' = <<>> /\ live' = {} /\ bump' = 0 /\ high' = 0 /\ valid' = FALSE
    BY ArenaAssumption DEF Clear
  <1>2. free' \in Seq(Block) /\ DOMAIN free' = {}
    BY <1>1
  <1>3. TypeOK'
    <2>1. 0 \in 0 .. Capacity
      BY <1>1
    <2> QED
      BY <1>1, <1>2, <2>1 DEF TypeOK
  <1>4. WhenInvalid'
    BY <1>1 DEF WhenInvalid
  <1>5. TailSound'
    BY <1>1 DEF TailSound
  <1>6. NoOverlap'
    BY <1>1, <1>2 DEF NoOverlap, LiveApart, FreeApart, LiveFreeApart
  <1> QED
    BY <1>1, <1>2, <1>3, <1>4, <1>5, <1>6 DEF Inductive

LEMMA StutterStep ==
    ASSUME Inductive, UNCHANGED vars
    PROVE  Inductive'
  BY DEF vars, Inductive, TypeOK, WhenInvalid, TailSound, LiveSound, FreeSound,
         NoOverlap, LiveApart, FreeApart, LiveFreeApart, Apart

(* Everything the theorems need of one allocate(). *)
LEMMA AllocateStep ==
    ASSUME Inductive, NEW size \in Sizes, NEW align \in Aligns, Allocate(size, align)
    PROVE  /\ Inductive'
           /\ \/ UNCHANGED vars
              \/ \E off, need \in Nat : need > 0 /\ Handed(off, need, size)
           /\ bump' >= bump
  <1> DEFINE a    == EffAlign(align)
             need == AlignUp(size, a)
  <1>1. valid /\ size > 0
    BY DEF Allocate
  <1>2. /\ a \in Nat \ {0} /\ a % DefaultAlign = 0
        /\ need \in Nat /\ size \in Nat /\ size <= need /\ 0 < need
        /\ Capacity + a + need < SizeMod
    BY <1>1, RequestFacts
  <1>3. \/ \E i \in DOMAIN free : Fits(i, a, need) /\ Reuse(i, a, need, size)
        \/ Bump(a, need, size)
    BY DEF Allocate
  <1> HIDE DEF a, need
  <1>4. ASSUME NEW i \in DOMAIN free, Fits(i, a, need), Reuse(i, a, need, size)
        PROVE  /\ Inductive'
               /\ \E off \in Nat : Handed(off, need, size)
               /\ bump' = bump
    BY <1>1, <1>2, <1>4, ReuseStep
  <1>5. CASE Bump(a, need, size)
    BY <1>1, <1>2, <1>5, BumpStep
  <1>6. bump \in Nat
    BY DEF Inductive, TypeOK
  <1> QED
    BY <1>2, <1>3, <1>4, <1>5, <1>6

LEMMA NextInductive == Inductive /\ [Next]_vars => Inductive'
  <1> SUFFICES ASSUME Inductive, [Next]_vars
               PROVE  Inductive'
    OBVIOUS
  <1>1. CASE Initialize
    <2>1. CASE Clear
      BY <2>1, ClearStep
    <2>2. CASE /\ ~valid /\ valid' = TRUE /\ bump' = 0 /\ high' = 0
               /\ free' = free /\ live' = live
      BY <2>2, ArenaAssumption
         DEF Inductive, TypeOK, WhenInvalid, TailSound, NoOverlap,
             LiveApart, FreeApart, LiveFreeApart
    <2> QED
      BY <1>1, <2>1, <2>2 DEF Initialize
  <1>2. CASE Destroy
    BY <1>2, ClearStep DEF Destroy
  <1>3. ASSUME NEW size \in Sizes, NEW align \in Aligns, Allocate(size, align)
        PROVE  Inductive'
    BY <1>3, AllocateStep
  <1>4. ASSUME NEW off \in 0 .. Capacity, Deallocate(off)
        PROVE  Inductive'
    BY <1>4, DeallocateStep
  <1>5. CASE UNCHANGED vars
    BY <1>5, StutterStep
  <1> QED
    BY <1>1, <1>2, <1>3, <1>4, <1>5 DEF Next

LEMMA AlwaysInductive == Spec => []Inductive
  BY InitInductive, NextInductive, PTL DEF Spec

(* Every reachable state is well typed: the values of TypeOK, whatever the   *)
(* capacity and the requests.                                                *)
THEOREM TypeCorrect == Spec => []TypeOK
  <1>1. Inductive => TypeOK
    BY DEF Inductive
  <1> QED
    BY <1>1, AlwaysInductive, PTL

(* No byte of the arena is in two live blocks, in two free blocks, or in one *)
(* of each: allocate() never hands out a byte that is out or listed twice.   *)
THEOREM OverlapFree == Spec => []NoOverlap
  <1>1. Inductive => NoOverlap
    BY DEF Inductive
  <1> QED
    BY <1>1, AlwaysInductive, PTL

(* flush_to_device and invalidate_from_device, which copy the bytes below    *)
(* high_water_, move every live and every free block, and no byte beyond the *)
(* device buffer.                                                            *)
THEOREM CopiesCoverBlocks == Spec => []CopiedRangeCoversBlocks
  <1>1. Inductive => CopiedRangeCoversBlocks
    BY DEF Inductive, TailSound, LiveSound, FreeSound, CopiedRangeCoversBlocks
  <1> QED
    BY <1>1, AlwaysInductive, PTL

(* A pointer returned by allocate() has room for the size asked for, as long *)
(* as no request is near the top of VkDeviceSize.                            *)
THEOREM RequestsHonoured == Spec => []RoomForRequest
  <1>1. Inductive => RoomForRequest
    BY DEF Inductive, LiveSound, RoomForRequest
  <1> QED
    BY <1>1, AlwaysInductive, PTL

(* Every live block starts at a multiple of kDefaultAlignment. *)
THEOREM DescriptorAligned == Spec => []OffsetsAligned
  <1>1. Inductive => OffsetsAligned
    BY DEF Inductive, LiveSound, OffsetsAligned
  <1> QED
    BY <1>1, AlwaysInductive, PTL

(* A block is never placed over bytes that were handed out before unless     *)
(* deallocate() has put them on the free list, and the tail never grows.     *)
THEOREM GrantsAreFree == Spec => GrantsFromFreeBytes
  <1>1. Inductive /\ [Next]_vars => [valid /\ valid' => FreshGrants]_vars
    <2> SUFFICES ASSUME Inductive, Next, valid, valid'
                 PROVE  FreshGrants
      OBVIOUS
    <2>1. bump \in Nat
      BY ArenaAssumption DEF Inductive, TypeOK
    <2>2. ASSUME NEW size \in Sizes, NEW align \in Aligns, Allocate(size, align)
          PROVE  FreshGrants
      <3>1. bump' >= bump
        BY <2>2, AllocateStep
      <3>2. CASE UNCHANGED vars
        BY <3>1, <3>2 DEF vars, FreshGrants
      <3>3. ASSUME NEW off \in Nat, NEW need \in Nat, Handed(off, need, size)
            PROVE  FreshGrants
        <4>1. \A g \in live' \ live : g.off = off /\ g.size = need
          BY <3>3 DEF Handed
        <4>2. off >= bump \/ \E i \in DOMAIN free : WithinBlock(off, need, free[i])
          BY <3>3 DEF Handed
        <4> QED
          BY <3>1, <4>1, <4>2 DEF FreshGrants
      <3> QED
        BY <2>2, <3>2, <3>3, AllocateStep
    <2>3. ASSUME NEW off \in 0 .. Capacity, Deallocate(off)
          PROVE  FreshGrants
      <3>1. bump' = bump /\ live' \ live = {}
        BY <2>3 DEF Deallocate
      <3> QED
        BY <2>1, <3>1 DEF FreshGrants
    <2> QED
      BY <2>2, <2>3 DEF Next, Initialize, Destroy, Clear
  <1> QED
    BY <1>1, AlwaysInductive, PTL DEF Spec, GrantsFromFreeBytes

-------------------------------------------------------------------------------
(* The refinement of RegionAllocator.                                        *)

ByteRange(b)  == [lo |-> b.off, hi |-> b.off + b.size]
Ranges    == {ByteRange(b) : b \in live}

(* A successful allocate() grants one new range that overlaps none. *)
LEMMA HandedGrants ==
    ASSUME Inductive, NEW off \in Nat, NEW need \in Nat, need > 0, NEW size \in Nat,
           Handed(off, need, size)
    PROVE  \E r \in Ranges' \ Ranges :
              /\ 0 <= r.lo /\ r.lo < r.hi /\ r.hi <= Capacity
              /\ \A s \in Ranges : ~(r.lo < s.hi /\ s.lo < r.hi)
              /\ Ranges' = Ranges \cup {r}
  <1> DEFINE n == [off |-> off, size |-> need, asked |-> size]
             r == [lo |-> off, hi |-> off + need]
  <1>1. \A b \in live : b.off \in Nat /\ b.size \in Nat /\ b.size > 0
    BY DEF Inductive, TypeOK, Grant, LiveSound
  <1>2. live' = live \cup {n} /\ off + need <= Capacity
        /\ \A b \in live : b.off + b.size <= off \/ off + need <= b.off
    BY DEF Handed
  <1>3. ByteRange(n) = r
    BY DEF ByteRange
  <1>4. Ranges' = Ranges \cup {r}
    BY <1>2, <1>3 DEF Ranges, ByteRange
  <1>5. \A s \in Ranges : ~(r.lo < s.hi /\ s.lo < r.hi)
    <2> TAKE s \in Ranges
    <2>1. PICK b \in live : s = ByteRange(b)
      BY DEF Ranges
    <2>2. s.lo = b.off /\ s.hi = b.off + b.size
      BY <2>1 DEF ByteRange
    <2> QED
      BY <1>1, <1>2, <2>2
  <1>6. r \notin Ranges
    BY <1>5
  <1> QED
    BY <1>2, <1>4, <1>5, <1>6

(* The arena implements the allocator of one region: allocate() grants a     *)
(* range that overlaps no range still out, deallocate() takes one back, and  *)
(* destroy() gives the whole region up.                                      *)
THEOREM Refinement == Spec => Implements
  <1>1. Init => Abstract!Init
    BY DEF Init, Abstract!Init
  <1>2. Inductive /\ [Next]_vars => [Abstract!Next]_Ranges
    <2> SUFFICES ASSUME Inductive, [Next]_vars
                 PROVE  Abstract!Next \/ Ranges' = Ranges
      OBVIOUS
    <2>1. CASE live' = {}
      BY <2>1 DEF Abstract!Next
    <2>2. CASE live' = live
      BY <2>2 DEF Ranges, ByteRange
    <2>3. ASSUME NEW size \in Sizes, NEW align \in Aligns, Allocate(size, align)
          PROVE  Abstract!Next \/ Ranges' = Ranges
      <3>1. size \in Nat
        BY ArenaAssumption
      <3>2. CASE UNCHANGED vars
        BY <2>2, <3>2 DEF vars
      <3>3. ASSUME NEW off \in Nat, NEW need \in Nat, need > 0, Handed(off, need, size)
            PROVE  Abstract!Next
        BY <3>1, <3>3, HandedGrants
           DEF Abstract!Next, Abstract!Grant, Abstract!Overlap, Ranges, ByteRange
      <3> QED
        BY <2>3, <3>2, <3>3, AllocateStep
    <2>4. ASSUME NEW b \in live, live' = live \ {b}
          PROVE  Abstract!Next
      <3>1. \A c \in live \ {b} : ByteRange(c) # ByteRange(b)
        BY DEF Inductive, TypeOK, Grant, LiveSound, NoOverlap, LiveApart, Apart, ByteRange
      <3>2. ByteRange(b) \in Ranges \ Ranges' /\ Ranges' = Ranges \ {ByteRange(b)}
        BY <2>4, <3>1 DEF Ranges, ByteRange
      <3> QED
        BY <3>2 DEF Abstract!Next, Abstract!Release, Ranges, ByteRange
    <2> QED
      BY <2>1, <2>2, <2>3, <2>4, DeallocateStep DEF Next, Initialize, Destroy, Clear, vars
  <1> QED
    BY <1>1, <1>2, AlwaysInductive, PTL DEF Spec, Implements, Abstract!Spec, Ranges, ByteRange
==============================================================================
