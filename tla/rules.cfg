SPECIFICATION Spec
CONSTANTS
  None = None
  Tld = {"com"}
  Domain = {"kg", "x"}
  TldOf <- MCTldOf
  Regex = {"old", "epoch"}
  Format = {"before", "after"}
  FirstFormat = "before"
  Outcome <- MCOutcome
  Static <- MCStatic
  KnownGood <- MCKnownGood
  Learner = {l1, l2}
  Stores = {"memory", "sql"}
  Saved <- OneRule
  HostCapacity = 3
  HostWindow = 1
  TldCapacity = 2
  TldWindow = 3
  FailureThreshold = 2
  FailureWindow = 2
  OpenFor = 1
  CacheFor = 1
  MaxTime = 1
  MaxParses = 3
  MaxDrifts = 1
INVARIANTS TypeOK LearnedOnce
PROPERTIES DisabledStaysDisabled
SYMMETRY Symm
CHECK_DEADLOCK FALSE
