\* One operation with two events that may abandon a call, a queue of one, an
\* outside close, one that the callback makes, and a flush.
CONSTANTS
  Ops = {o1}
  Closers = {c1}
  SelfClosers = {s1}
  Flushers = {f1}
  MaxInFlight = 2
  MaxBuffered = 2
  RequestWorkspace = 1
  OtherWorkspace = 0
  MaxCounter = 4
  MaxCalls = 1
  Capacity = 1
SPECIFICATION FairSpec
INVARIANTS
  CloseIsQuiescent
PROPERTIES
  CloseReturns
