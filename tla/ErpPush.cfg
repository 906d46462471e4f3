CONSTANTS
  Tasks = {t1, t2}
  MaxRetries = 2
  MaxPushes = 1
  MaxFaults = 1
SPECIFICATION Spec
SYMMETRY Symmetry
INVARIANTS
  TypeOK
  IInv
  NotPayableTwice
  PushKeepsPaymentOut
  PostedIsRemembered
  OneSendAtATime
  SentHasReference
PROPERTIES
  ExportKept
