SPECIFICATION Spec
CONSTANTS
  None = None
  d1 = d1
  c1 = c1
  c2 = c2
  c3 = c3
  Domain = {d1}
  Channel = {c1, c2, c3}
  Threshold = {1}
  Expiry = {1, 2}
  Caller = {}
  Admin = {a1}
  Settings <- Faulty
  RegisteredCheckers = {"rdap"}
  ValidCrons = {"daily"}
  KnownChannels = {c1, c2}
  ServedChannels = {c1}
  SendOutcomes = {"ok", "delivery_failed", "error", "unexpected"}
  MaxAttempts = 2
  MaxTime = 1
  MaxStray = 1
  RemoveAllowed = TRUE
  ClockMayStepBack = TRUE
INVARIANTS TypeOK AtMostOncePerKey JobHasRow
PROPERTIES ImplementsLedger
