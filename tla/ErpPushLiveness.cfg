CONSTANTS
  Tasks = {t1}
  MaxRetries = 2
  MaxPushes = 2
  MaxFaults = 1
SPECIFICATION FairSpec
INVARIANTS
  IInv
PROPERTIES
  ExportKept
  PushIsAnswered
