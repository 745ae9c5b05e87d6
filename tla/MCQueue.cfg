SPECIFICATION Spec
SYMMETRY Symmetry
CONSTANTS
  c1 = c1
  c2 = c2
  v1 = v1
  k1 = k1
  k2 = k2
  w1 = w1
  w2 = w2
  None = None
  Customers = {c1, c2}
  Waves = {v1}
  Caller <- MCCaller
  Keys = {k1, k2}
  Payer <- MCPayer
  MaxJoins = 2
  Schedules <- MCSchedules
  Workers = {w1, w2}
  Again = FALSE
INVARIANTS TripBilledOnce ClaimedIsBilled LineFair
PROPERTIES NobodyOvertakes
