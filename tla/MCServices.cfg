CONSTANTS
  Workers = {w1, w2}
  MaxMishaps = 1
  Repeats = FALSE
  None = None
  Seekers = {x1, x2}
  Duration = 2
  SlotsLong = 2
  MaxHours = 3
  Bookings = {x1, x2}
  Slots = {1, 2, 3}
  Price = 1
  Quantities = {1, 2}
  MaxAttempts = 2
  LastStage = 1
  Periods = {x1}
  Operators = {o1, o2}
  Staff = {o1}
  Emails = {x1, x2}
  Deliverables = 2
  Placements = {x1, x2, ad1}
  Featured = {x1, x2}
  SpotsInCity = 1
  Budget = 2
  Batch = 1
  Keys = {x1, x2}
  Turns = 1
  Losses = {x1, x2}
  Liability = 3
  CoverCap = 2
  PeriodCap = 3
  Friends = {x1, x2}
  Trips = 3
  CardSizes = {2, 3}
  LifetimeCap = 1
  Sessions = {x1, x2}
  Cells = {x1, x2}
  People = {u1}
  Near = {u1}
  Topups = {x1, x2}
  Reload = 2
  Pings = {x1, x2}
  Contacts = {x1, x2}
  Tip = 2
  PingDailyCap = 1
  Claimants = {x1, x2}
  DailyQuantity = 1
  Partners = {sh1, sh2}
  Enrollments = {x1, x2}
  Residents = {x1, x2}
  Pickups = {x1, x2}
  Cosigned = 1
  Payouts = {k1}
  Suspended = {x1, x2}
  Checks = {x1}
  Cases = {x1, x2}
  Ratings = {2}
  MaxClosed = 2
  Threshold = 2
  MaxMessages = 2
  Ceiling = 1
  Dishes = {x1, x2}
  Fans = {u1}
  MaxWishes = 2
  Suggestions = {x1, x2}
  Papers = {x1, x2}
  Optional = {"services", "ordering", "booking"}
  Tweaks <- MCTweaks
  Mates = {u1}
  Invoices = {x1, x2}
  MaxAnswers = 3
SPECIFICATION Spec
SYMMETRY Symmetry
CHECK_DEADLOCK FALSE
INVARIANTS BookingsRight   PlacementsRight MembershipsRight  CommunityRight ShopsRight
