\* Three threads, nesting to depth 2, acquisitions that do not overlap.
SPECIFICATION FairSerialSpec
CONSTANTS
  t1 = t1
  t2 = t2
  t3 = t3
  Threads = {t1, t2, t3}
  Tid <- MCTid
  MaxDepth = 2
INVARIANTS TypeOK MutualExclusion CountIsDepth FreeWhenUnused
PROPERTIES AbstractSpec LockFreedom
