\* Two threads, two primitive types, caps that are soon reached.
SPECIFICATION Spec
CONSTANTS
  t1 = t1
  t2 = t2
  p1 = p1
  p2 = p2
  p3 = p3
  p4 = p4
  p5 = p5
  Threads = {t1, t2}
  Places = {p1, p2, p3, p4, p5}
  Prims = {int, long}
  Null = Null
  None = None
  Cap <- MCCap
  Sizes = {2}
  Small = 1
  Prefix = 1
  WordSize = 13
SYMMETRY Symmetry
INVARIANTS TypeOK UsedExact UsageBounded OneZero BlocksOwned GotUnlessRefused LockHeld
CHECK_DEADLOCK FALSE
