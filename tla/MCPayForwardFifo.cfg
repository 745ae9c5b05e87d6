CONSTANTS
  u1 = u1
  u2 = u2
  r1 = r1
  r2 = r2
  w1 = w1
  w2 = w2
  None = None
  FeeOf <- Fees
  Want <- WantAll
  Given <- OneAndTwo
  Users = {u1}
  Rows = {r1, r2}
  Workers = {w1}
  DayCap = 2
  Again = FALSE
SPECIFICATION FairSpec
INVARIANTS GiftsRight
PROPERTIES GiftArrives
CHECK_DEADLOCK FALSE
