\* Two threads, three places, all four builds; the first id is drawn alone.
SPECIFICATION SyncSpec
CONSTANTS
  t1 = t1
  t2 = t2
  p1 = p1
  p2 = p2
  p3 = p3
  Threads = {t1, t2}
  Main = t1
  Places = {p1, p2, p3}
  None = None
  Sizes = {1}
  PrefixSize = 2
  Slack = 1
  MaxTid = 5
  Rands = {0, 5}
  Seconds = {1, 2}
  MaxDraws = 2
SYMMETRY Symmetry
INVARIANTS TypeOK UsedExact BlocksOwned DrawsDiffer
