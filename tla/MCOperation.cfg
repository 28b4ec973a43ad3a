\* Two attempts: one that is retried and a last one.
CONSTANTS
  MaxAttempts = 2
SPECIFICATION FairSpec
INVARIANTS
  DeliveryIsHonest
  Inv
  AttemptsDoNotOverlap
  EventsInOrder
PROPERTIES
  DeadlineReturns
