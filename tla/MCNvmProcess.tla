---------------------------- MODULE MCNvmProcess ----------------------------
(***************************************************************************)
(* Instances of NvmProcess for TLC.                                        *)
(***************************************************************************)
EXTENDS NvmProcess, TLC

CONSTANTS t1, t2, p1, p2, p3

\* Places of memory are alike.
Symmetry == Permutations(Places)
=============================================================================
