----------------------------- MODULE MCNvmStack -----------------------------
(***************************************************************************)
(* Instances of NvmStack for TLC.                                          *)
(***************************************************************************)
EXTENDS NvmStack

CONSTANTS o1, o2, zero

\* Room for one narrow argument, or for a wide one that starts at the last
\* local; and for two arguments, the wide one first or last.
MCMethods == {<<1, 0>>, <<3, 1>>}

\* UnrefAll is what unref'ing one value after the other does, in heaps where
\* what is not live has no references.
ASSUME UnrefAllInOrder ==
  \A cnt \in [Objs -> 0 .. 4], live \in SUBSET Objs,
    s \in SeqUpTo(Ref \cup {Unset}, 4) :
    LET h == [live |-> live, cnt |-> cnt] IN
    (\A o \in Objs \ live : cnt[o] = 0) =>
      UnrefAll(h, s) = FoldLeft(UnrefTo, h, s)
=============================================================================
