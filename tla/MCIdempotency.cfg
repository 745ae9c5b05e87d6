SPECIFICATION IdempotencySpec
CONSTANTS
  Requests = {r1, r2, r3}
  Keys = {k1, k2}
  Bodies = {b1, b2}
  NoBody = NoBody
SYMMETRY Slots
INVARIANTS
  AtMostOneEffect
  EffectHoldsKey
PROPERTY ReplayIsOwn
CHECK_DEADLOCK FALSE
