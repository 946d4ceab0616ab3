\* Two frames, a narrow and a wide object, a wide zero, and arguments that may
\* not fit.
SPECIFICATION Spec
CONSTANTS
  o1 = o1
  o2 = o2
  zero = zero
  Objs = {o1, o2}
  Uncounted = {zero}
  Wide = {o2, zero}
  Unset = Unset
  FrameCap = 2
  Methods <- MCMethods
  MaxArgs = 2
  MaxHeld = 1
  MaxCount = 2
INVARIANTS TypeOK CountsExact NoDangling BlocksBalance ArgsPlaced
CHECK_DEADLOCK FALSE
