CONSTANTS
  u1 = u1
  u2 = u2
  r1 = r1
  r2 = r2
  w1 = w1
  w2 = w2
  None = None
  FeeOf <- Fees
  Want <- WantUneven
  Given <- JustTwo
  Users = {u1, u2}
  Rows = {r1, r2}
  Workers = {w1, w2}
  DayCap = 2
  Again = FALSE
SYMMETRY Alike
SPECIFICATION Spec
INVARIANTS OneHelpADay  
CHECK_DEADLOCK FALSE
