SPECIFICATION Spec
CONSTANTS
  form = form
  program = program
  root = root
  NoClient = NoClient
  KeyOf <- MCKeyOf
  Clients = {form, program}
  Forms = {form}
  Admins = {root}
  c1 = c1
  c2 = c2
  Calls = {c1, c2}
  NoCall = NoCall
  Identities = {1, 2}
  MaxKey = 2
  Limit = 2
  Window = 2
  Slack = 1
  Ttl = 2
  MaxNow = 2
  MaxTries = 2
  MaxSends = 3
  MaxCommands = 1
  MaxFaults = 1
SYMMETRY Symmetry
CHECK_DEADLOCK FALSE
INVARIANTS
  TypeOK
  RateHolds
  OneTransferMeant
  ToldTheTruth
  DuplicateIsExplained
PROPERTIES
  KeyJudgedByRecentRow
