SPECIFICATION Spec
CONSTANTS
  p1 = p1
  p2 = p2
  r1 = r1
  r2 = r2
  o1 = o1
  o2 = o2
  Transfers = {1, 2, 3}
  PageTransfers = {1, 2, 3}
  Rows = {1, 2, 3}
  Incoming = {1, 3}
  Reads = {r1, r2}
  Processes = {p1, p2}
  Nowhere = Nowhere
  Filters <- MCFilters
  PageSize = 1
  Openings = {o1, o2}
  MaxAttempts = 2
SYMMETRY Symmetry
CONSTRAINT OneAtATime
CHECK_DEADLOCK FALSE
INVARIANTS
  TypeOK
  BalanceExplained
  ShownIsTrue
  WaitIsExplained
  ExportIsComplete
  OneWallet
PROPERTIES
  PagesDescend
