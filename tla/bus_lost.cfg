SPECIFICATION Spec
CONSTANTS
  None = None
  Subscriber = {s1}
  MaxSize = 2
  MaxCritical = 2
  MaxStandard = 4
INVARIANTS CriticalNeverDropped
CHECK_DEADLOCK FALSE
