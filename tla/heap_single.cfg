\* One thread: every sequence of calls on three objects of two fields or none.
SPECIFICATION FairSpec
CONSTANTS
  t1 = t1
  t2 = t2
  o1 = o1
  o2 = o2
  o3 = o3
  o4 = o4
  Threads = {t1}
  Objs = {o1, o2, o3}
  Root = o1
  Null = Null
  Nobody = Nobody
  MaxLocals = 1
  MaxSlots = 2
  Arities = {0, 2}
INVARIANTS GarbageFreed
PROPERTIES Returns
CHECK_DEADLOCK FALSE
