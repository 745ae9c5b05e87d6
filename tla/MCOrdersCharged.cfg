SPECIFICATION Spec
CONSTANTS
  None = None
  Orders = {o1}
  Workers = {w1, w2}
CHECK_DEADLOCK FALSE
INVARIANT NeverChargedForNothing
