SPECIFICATION Spec
CONSTANTS
  t1 = t1
  p1 = p1
  p2 = p2
  NoProc = NoProc
  Transfers = {t1}
  Procs = {p1}
  MaxRetries = 1
  MaxFaults = 1
CHECK_DEADLOCK FALSE
PROPERTIES
  AtLeastOnce
