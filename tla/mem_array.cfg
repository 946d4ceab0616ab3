\* An array that does not fit.
SPECIFICATION Spec
CONSTANTS
  t1 = t1
  t2 = t2
  p1 = p1
  p2 = p2
  p3 = p3
  p4 = p4
  p5 = p5
  Threads = {t1}
  Places = {p1, p2, p3, p4, p5}
  Prims = {int}
  Null = Null
  None = None
  Cap <- MCCap
  Sizes = {1, 2}
  Small = 1
  Prefix = 1
  WordSize = 13
SYMMETRY Symmetry
INVARIANTS FailsWithNull
CHECK_DEADLOCK FALSE
