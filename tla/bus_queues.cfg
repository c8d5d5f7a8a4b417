SPECIFICATION CallbacksFairSpec
CONSTANTS
  None = None
  Subscriber = {s1}
  p1 = p1
  Publisher = {p1}
  Emits <- EveryType
  Handler = {h1, h2}
  Slow = {h2}
  OnTypes = {"DomainEvent"}
  MaxSize = 2
  MaxCritical = 2
  MaxStandard = 4
INVARIANTS TypeOK CriticalSafe DropsAnnounced StandardAccounted CountedOnce
PROPERTIES SiblingsCalled CriticalReceived PublishEnds
CHECK_DEADLOCK FALSE
