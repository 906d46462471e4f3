CONSTANTS
  Invoices = {i1}
  Payments = {p1}
  Runs = {r1}
  Dispatchers = {d1, d2}
  Viewers = {}
  None = None
SPECIFICATION FairSpec
CHECK_DEADLOCK FALSE
PROPERTIES
  InFlightResolves
  RequestsEnd
