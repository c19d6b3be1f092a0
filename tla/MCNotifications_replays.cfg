SPECIFICATION Spec
CONSTANTS
  n1 = n1
  n2 = n2
  p1 = p1
  p2 = p2
  a1 = a1
  a2 = a2
  NoProc = NoProc
  Notices = {n1}
  Processable = {n1}
  Procs = {p1}
  Calls = {a1, a2}
  MaxRetries = 1
  MaxCopies = 1
  MaxFaults = 0
CHECK_DEADLOCK FALSE
INVARIANTS
  ReplayedOnce
