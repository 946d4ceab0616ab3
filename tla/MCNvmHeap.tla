----------------------------- MODULE MCNvmHeap -----------------------------
(***************************************************************************)
(* Instances of NvmHeap for TLC.                                           *)
(***************************************************************************)
EXTENDS NvmHeap, TLC

CONSTANTS t1, t2, o1, o2, o3, o4

\* Threads start alike, and so do the free places of the heap.
Symmetry == Permutations(Threads) \cup Permutations(Objs \ {Root})
=============================================================================
