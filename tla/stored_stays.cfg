SPECIFICATION Spec
CONSTANTS
  None = None
  p1 = p1
  p2 = p2
  d1 = d1
  d2 = d2
  Proc = {p1}
  Domain = {d1, d2}
  Kind = {"run", "rules"}
  Flag = {"default"}
  Layouts <- OneFile
  Environments <- Envs
  LegibleCrons = {"daily", "hourly", "99 * * * *"}
  FiringCrons = {"daily", "hourly", "six_hourly"}
  DefaultCron = "six_hourly"
  Normalised <- Names
  NamesIn <- Templates
  Asked <- AskBoth
  Rule = {"r1"}
  KillAllowed = FALSE
  MaxLaunches = 3
  MaxChecks = 2
PROPERTIES StoredStays
CHECK_DEADLOCK FALSE
