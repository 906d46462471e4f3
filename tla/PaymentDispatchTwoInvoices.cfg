CONSTANTS
  Invoices = {i1, i2}
  Payments = {p1, p2, p3}
  Runs = {r1}
  Dispatchers = {d1}
  Viewers = {}
  None = None
SPECIFICATION Spec
SYMMETRY Symmetry
CHECK_DEADLOCK FALSE
INVARIANTS
  NoUnansweredDoublePayment
  InDoubtIsBlocked
  InFlightLeavesQueue
  PendingIsReachable
  LegInv
