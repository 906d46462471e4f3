CONSTANTS
  Invoices = {i1}
  Payments = {p1, p2}
  Runs = {r1, r2}
  Dispatchers = {d1, d2}
  Viewers = {}
  None = None
SPECIFICATION Spec
SYMMETRY Symmetry
CONSTRAINT RowsRemain
CHECK_DEADLOCK FALSE
INVARIANTS
  TypeOK
  NoUnansweredDoublePayment
  InDoubtIsBlocked
  RetrySafeNeverSent
  InFlightLeavesQueue
  SentIsUnflagged
PROPERTIES
  MoneyOutOnce
