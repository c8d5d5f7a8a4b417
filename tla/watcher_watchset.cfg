SPECIFICATION Spec
CONSTANTS
  None = None
  d1 = d1
  c1 = c1
  c2 = c2
  c3 = c3
  Domain = {d1}
  Channel = {c1}
  Threshold = {1}
  Expiry = {1, 2}
  Caller = {}
  Admin = {a1}
  Settings <- PlainOnly
  RegisteredCheckers = {"rdap"}
  ValidCrons = {"daily"}
  KnownChannels = {c1, c2}
  ServedChannels = {c1, c2}
  SendOutcomes = {"ok"}
  MaxAttempts = 1
  MaxTime = 1
  MaxStray = 1
  RemoveAllowed = TRUE
  ClockMayStepBack = FALSE
PROPERTIES RowsFollowCalls
