---------------------------- MODULE MCNvmThread ----------------------------
(***************************************************************************)
(* Instances of NvmThread for TLC.                                         *)
(***************************************************************************)
EXTENDS NvmThread, TLC

CONSTANTS u1, u2, h1, h2, h3

\* Users start alike, and so do the pieces of memory.
Symmetry == Permutations(Users) \cup Permutations(Handles)
=============================================================================
