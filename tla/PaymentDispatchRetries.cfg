CONSTANTS
  Invoices = {i1}
  Payments = {p1, p2, p3}
  Runs = {r1}
  Dispatchers = {d1, d2}
  Viewers = {v1}
  None = None
SPECIFICATION Spec
SYMMETRY Symmetry
CONSTRAINT RowsRemain
CHECK_DEADLOCK FALSE
INVARIANTS
  NoUnansweredDoublePayment
  RetrySafeNeverSent
  CompletedMeansMoved
  DraftIsUnsent
  IInv
PROPERTIES
  EndedRowsStay
