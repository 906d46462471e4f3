CONSTANTS
  Invoices = {i1, i2}
  Payments = {p1, p2}
  Runs = {r1}
  Dispatchers = {d1, d2}
  Viewers = {}
  None = None
SPECIFICATION Spec
SYMMETRY Symmetry
CHECK_DEADLOCK FALSE
INVARIANT PendingIsReachable
