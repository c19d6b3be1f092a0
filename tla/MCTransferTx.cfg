SPECIFICATION Spec
CONSTANTS
  A = A
  B = B
  C = C
  t1 = t1
  t2 = t2
  t3 = t3
  t4 = t4
  c1 = c1
  c2 = c2
  k = k
  NoKey = NoKey
  Transfers = {t1, t2, t3, t4}
  Wallets = {A, B, C}
  Malformed = {}
  Copies = {c1}
  MaxRetries = 1
  Src <- MCSrc
  Dst <- MCDst
  FromAmount <- MCFromAmount
  ToAmount <- MCToAmount
  Opening <- MCOpening
  Key <- MCKey
CHECK_DEADLOCK FALSE
INVARIANTS
  TypeOK
  NoOverdraft
  SnapshotHolds
  PostingNeverDeadlocks
  OneTransferPerKey
PROPERTIES
  KeepsPromise
  EveryCallAnswered
