SPECIFICATION FairSpec
CONSTANTS
  None = None
  Broken = Broken
  d1 = d1
  d2 = d2
  Domain = {d1, d2}
  Cron = {"daily", "hourly", "bad"}
  ValidCrons = {"daily", "hourly"}
  Configs <- SmallConfigs
  Slot = {s1, s2}
  MaxWrites = 2
  MaxEvents = 2
  MaxBoots = 2
INVARIANTS TypeOK NoMissedChange SchedulerFollows
PROPERTIES HolderNeverBack JobLossMeansUnlisted ChangeApplied
CHECK_DEADLOCK FALSE
