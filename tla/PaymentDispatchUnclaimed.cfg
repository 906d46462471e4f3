CONSTANTS
  Invoices = {i1}
  Payments = {p1, p2}
  Runs = {r1}
  Dispatchers = {d1}
  Viewers = {v1}
  None = None
SPECIFICATION Spec
CHECK_DEADLOCK FALSE
PROPERTIES
  ClaimStays
