\* Two users, a table of two slots, one user at a time on each thread.  Three
\* pieces of memory: two threads in the table, and one on its way out.
SPECIFICATION TurnsSpec
CONSTANTS
  u1 = u1
  u2 = u2
  h1 = h1
  h2 = h2
  h3 = h3
  Users = {u1, u2}
  Handles = {h1, h2, h3}
  Cap = 2
  Starts = TRUE
  None = None
SYMMETRY Symmetry
INVARIANTS TypeOK TableExact RunningAllocated Balanced MgrUnused MgrLockHeld
CHECK_DEADLOCK FALSE
