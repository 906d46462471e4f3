CONSTANTS
  Tasks = {t1}
  MaxRetries = 3
  MaxPushes = 1
  MaxFaults = 0
SPECIFICATION Spec
INVARIANT SendingIsDriven
