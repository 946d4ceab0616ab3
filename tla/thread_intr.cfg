\* Two users that interrupt as they like, threads that are never started.
SPECIFICATION Spec
CONSTANTS
  u1 = u1
  u2 = u2
  h1 = h1
  h2 = h2
  h3 = h3
  Users = {u1, u2}
  Handles = {h1, h2}
  Cap = 1
  Starts = FALSE
  None = None
PROPERTIES DeadStaysDead
CHECK_DEADLOCK FALSE
