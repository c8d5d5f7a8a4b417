SPECIFICATION Spec
CONSTANTS
  None = None
  p1 = p1
  p2 = p2
  d1 = d1
  d2 = d2
  Proc = {p1, p2}
  Domain = {d1, d2}
  Kind = {"run", "check", "rules"}
  Flag = {"cli", "env", "default"}
  Layouts <- Elsewhere
  Environments <- AllEnvs
  LegibleCrons = {"daily", "hourly", "99 * * * *"}
  FiringCrons = {"daily", "hourly", "six_hourly"}
  DefaultCron = "six_hourly"
  Normalised <- Names
  NamesIn <- Templates
  Asked <- AskBoth
  Rule = {"r1"}
  KillAllowed = TRUE
  MaxLaunches = 2
  MaxChecks = 1
INVARIANTS TypeOK NoPoisonRow
PROPERTIES StartBlame StartServes StopSaves
CHECK_DEADLOCK FALSE
