--------------------------- MODULE MCKernelLaunch ---------------------------
(***************************************************************************)
(* KernelLaunch on buffers of one or two elements of one bit.              *)
(***************************************************************************)
EXTENDS KernelLaunchProofs

Bits == {0, 1}

Uma(ops)     == [uma |-> TRUE, others |-> FALSE, ops |-> ops]
Staged(ops)  == [uma |-> FALSE, others |-> FALSE, ops |-> ops]
Threaded(ops) == [uma |-> TRUE, others |-> TRUE, ops |-> ops]

(* The operations that give the sequential result on each kind of device.    *)
Right    == {Uma({"each", "compact"}), Uma({"each", "capMap"}), Threaded({"each"}),
             Threaded({"capMap"}), Staged({"compact"})}
All      == {Staged({"each", "capEach", "map", "capMap", "compact"})}
Discrete == {Staged({"each"})}
Captured == {Uma({"capEach"})}
==============================================================================
