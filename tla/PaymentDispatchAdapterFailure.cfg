CONSTANTS
  Invoices = {i1}
  Payments = {p1, p2}
  Runs = {r1, r2}
  Dispatchers = {d1}
  Viewers = {}
  None = None
SPECIFICATION Spec

CHECK_DEADLOCK FALSE
INVARIANT NoDoublePayment
