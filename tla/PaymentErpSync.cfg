CONSTANTS
  Invoices = {i1}
  Payments = {p1, p2}
  Workers = {w1}
  Readers = {r1}
  Total = 2
  None = None
SPECIFICATION Spec
SYMMETRY Symmetry
CONSTRAINT RowsRemain
CHECK_DEADLOCK FALSE
INVARIANTS
  TypeOK
  PaidRestsOnPayment
  OutsidePaymentIsTold
  OneErpReport
  IInv
  VoidIsRemembered
  BillPaidOnce
PROPERTIES
  ErpRecordsStand
  LedgerKept
