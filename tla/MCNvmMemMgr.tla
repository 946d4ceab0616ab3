---------------------------- MODULE MCNvmMemMgr ----------------------------
(***************************************************************************)
(* Instances of NvmMemMgr for TLC.                                         *)
(***************************************************************************)
EXTENDS NvmMemMgr, TLC

CONSTANTS t1, t2, p1, p2, p3, p4, p5

\* Small caps: three objects on the heap, two blocks of other memory.
MCCap == [a \in Areas |-> IF a = "heap" THEN 9 ELSE 3]

\* Threads start alike, and so do the places.
Symmetry == Permutations(Threads) \cup Permutations(Places)
=============================================================================
