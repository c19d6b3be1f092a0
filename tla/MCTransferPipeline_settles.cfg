SPECIFICATION Spec
CONSTANTS
  t1 = t1
  p1 = p1
  p2 = p2
  NoProc = NoProc
  Transfers = {t1}
  Procs = {p1, p2}
  MaxRetries = 3
  MaxFaults = 0
CHECK_DEADLOCK FALSE
PROPERTIES
  Settles
