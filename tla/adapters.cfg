SPECIFICATION FairSpec
CONSTANTS
  None = None
  t1 = t1
  t2 = t2
  Task = {t1, t2}
  Uses <- AnyBesideCheck
  MaxAttempts = 2
  Ttl = 2
  Workers = 1
  MaxTime = 2
INVARIANTS TypeOK NoScriptLeft OutcomesFit PageAccounted
PROPERTIES FreshLookup EveryCallEnds
