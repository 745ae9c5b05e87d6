SPECIFICATION FairSpec
CONSTANTS
  None = None
  Orders = {o1}
  Workers = {w1, w2}
CHECK_DEADLOCK FALSE
INVARIANTS VendorOnlyPaid AnnouncedOnce PaidAndRefunded CommunityMoneyFollows
PROPERTIES TerminalStays PaidNeverUnwound PaidIsHeard
