\* Two threads that keep to one thread per object's fields.
SPECIFICATION SyncSpec
CONSTANTS
  t1 = t1
  t2 = t2
  o1 = o1
  o2 = o2
  o3 = o3
  o4 = o4
  Threads = {t1, t2}
  Objs = {o1, o2}
  Root = o1
  Null = Null
  Nobody = Nobody
  MaxLocals = 1
  MaxSlots = 1
  Arities = {0, 1}
INVARIANTS NoLeak
CHECK_DEADLOCK FALSE
