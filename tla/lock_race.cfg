\* Two threads, every interleaving of the code.
SPECIFICATION Spec
CONSTANTS
  t1 = t1
  t2 = t2
  t3 = t3
  Threads = {t1, t2}
  Tid <- MCTid
  MaxDepth = 1
INVARIANTS MutualExclusion
