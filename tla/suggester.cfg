SPECIFICATION Spec
CONSTANTS
  None = None
  Tld = {"com", "org"}
  Domain = {"x", "y"}
  TldOf <- MCTldOf
  Regex = {"epoch"}
  Format = {"after"}
  FirstFormat = "after"
  Outcome <- MCOutcome
  Static <- MCStatic
  KnownGood <- MCKnownGood
  Learner = {l1, l2}
  Stores = {"memory"}
  Saved <- NoRules
  HostCapacity = 2
  HostWindow = 1
  TldCapacity = 2
  TldWindow = 3
  FailureThreshold = 2
  FailureWindow = 2
  OpenFor = 2
  CacheFor = 2
  MaxTime = 3
  MaxParses = 4
  MaxDrifts = 0
INVARIANTS RateBounded BreakerShields
SYMMETRY Symm
CHECK_DEADLOCK FALSE
