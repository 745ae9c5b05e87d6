CONSTANTS
  Workers = {w1, w2}
  MaxMishaps = 1
  Repeats = FALSE
  None = None
  Gates = {city}
  Units = 1
  Deposits = {0, 1}
  Instalments = 2
  MaxIntents = 3
  Remedies = {"active", "paused", "return_pending"}
  Refundable = TRUE
  Reinstatable = TRUE
  Checkouts = {c1, c2}
  SalePayments = {p1}
  Stock = 4
  Traded = {c1}
  Lot = 2
  Ceiling = 2
  DebtLimit = 1
  Resident = TRUE
  MaxDay = 4
  TermDays = 2
  NoticeDays = 1
  Warn = {1}
  Abandoned = 2
  MaySellLow = FALSE
  Sales = {x1, x2}
  CashSales = {k1}
  MaxRefunds = 2
  Gifts = {x1, x2}
  Campaigns = {1, 2}
  Goal = 2
  Deliveries = {x1, x2}
  Drivers = {a1, a2}
  Unsettled = {a1}
  MaxRounds = 2
  FlashSales = {x1, x2}
  MenuItems = {x1, x2}
  Percents = {1, 2}
  LinePercents = {0, 3}
  MostPercent = 2
  LongestSale = 2
  LastDay = 2
  Whole = 100
  MaxCents = 9
  MaxParts = 3
SPECIFICATION Spec
SYMMETRY Symmetry
CHECK_DEADLOCK FALSE
INVARIANTS RtoOwnershipEarned RtoBooksRight   DeliveryRight PricesRight
PROPERTIES RtoOwnedIsFinal DeliveryIsAnErrand
