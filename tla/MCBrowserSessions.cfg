SPECIFICATION Spec
CONSTANTS
  u1 = u1
  a = a
  b = b
  r1 = r1
  r2 = r2
  r3 = r3
  NoCall = NoCall
  Users = {u1}
  User = u1
  Tabs = {a, b}
  Requests = {r1, r2, r3}
  Logouts = {r3}
  TabOf <- MCTabOf
  Calls = {1, 2}
  Ttl = 0
  MaxNow = 1
  MaxTokens = 3
  MaxFaults = 1
SYMMETRY Symmetry
CHECK_DEADLOCK FALSE
INVARIANTS
  TypeOK
  OneLiveToken
  EndedStaysEnded
  FamilyKeepsExpiry
  NoFalseAlarm
  WaitersAreHeard
