---------------------------- MODULE MCNvmValues -----------------------------
(***************************************************************************)
(* Instance of NvmValues for TLC: a class with a BYTE and a reference, and *)
(* one below it with a SHORT.                                              *)
(***************************************************************************)
EXTENDS NvmValues, TLC

CONSTANTS p1, p2, p3, p4, base, sub, x, y, z

MCParent == (base :> None) @@ (sub :> base)

MCOwn == (base :> {x, z}) @@ (sub :> {y})

MCFieldType == (x :> "BYTE") @@ (y :> "SHORT") @@ (z :> base)

\* In the range of a BYTE, and only in that of a SHORT.
MCInts == {-2, 5}

\* Places are alike.
Symmetry == Permutations(Places)
=============================================================================
