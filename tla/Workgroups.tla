------------------------------ MODULE Workgroups ------------------------------
(***************************************************************************)
(* What the workgroups of the reduction and scan kernels compute           *)
(* (src/shaders/reduce.comp, scan.comp), with a workgroup of W threads.    *)
(*                                                                         *)
(* An element is a bag of input positions and "+" is bag union: a value    *)
(* then says exactly which inputs were added into it, and how often.       *)
(***************************************************************************)
EXTENDS Integers, Sequences, Bags

CONSTANT W          \* local_size_x, 256 in the shaders: a power of two

ASSUME WorkgroupAssumption == W \in Nat /\ W >= 2 /\ \E k \in 1 .. 10 : W = 2^k

Input(i) == SetToBag({i})
Stale    == SetToBag({-1})      \* what memory from the arena happens to hold

(* Workgroups in a dispatch over n elements. *)
Blocks(n) == (n + W - 1) \div W

Global(g, t) == (g - 1) * W + t

(* Shared memory after the load: the workgroup's elements, 0 past the end.   *)
LoadedUnguarded(s, n, g) ==
    [t \in 1 .. W |-> IF Global(g, t) <= Len(s) THEN s[Global(g, t)] ELSE EmptyBag]
Loaded(s, n, g) ==
    [t \in 1 .. W |-> IF Global(g, t) <= n THEN s[Global(g, t)] ELSE EmptyBag]

(* The tree reduction: between two barriers thread t < s adds element t + s. *)
TreeSum(loaded) ==
    LET round[s \in {2^k : k \in 0 .. 10} \cap 1 .. W] ==
            IF s = W THEN loaded
            ELSE [t \in 1 .. W |-> LET v == round[2 * s]
                                   IN  IF t <= s THEN v[t] (+) v[t + s] ELSE v[t]]
    IN  round[1][1]

(* The Hillis-Steele scan: in the round of an offset every thread reads the  *)
(* element that far below, and adds it after the barrier.  Without that      *)
(* barrier a thread may read what the round has already written.             *)
HillisSteeleNoBarrier(loaded) ==
    LET round[offset \in {2^k : k \in 0 .. 10}] ==
            IF offset = 1 THEN loaded
            ELSE LET v   == round[offset \div 2]
                     d   == offset \div 2
                     new[t \in 1 .. W] == IF t > d THEN v[t] (+) new[t - d] ELSE v[t]
                 IN  [t \in 1 .. W |-> new[t]]
    IN  round[W]

HillisSteele(loaded) ==
    LET round[offset \in {2^k : k \in 0 .. 10}] ==
            IF offset = 1 THEN loaded
            ELSE LET v == round[offset \div 2]
                     d == offset \div 2
                 IN  [t \in 1 .. W |-> IF t > d THEN v[t] (+) v[t - d] ELSE v[t]]
    IN  round[W]
==============================================================================
