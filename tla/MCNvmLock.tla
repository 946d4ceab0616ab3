----------------------------- MODULE MCNvmLock -----------------------------
(***************************************************************************)
(* Instances of NvmLock for TLC.                                           *)
(***************************************************************************)
EXTENDS NvmLock

CONSTANTS t1, t2, t3

\* Three threads with three ids, as NanoVM_rand_int hands them out.
MCTid == [t \in Threads |-> CASE t = t1 -> 1 [] t = t2 -> 2 [] OTHER -> 3]
=============================================================================
