\* Three events compete for a queue of two, so events are refused, discarded
\* and delivered around two outside closes and one made by the callback.
CONSTANTS
  Events = {e1, e2, e3}
  Closers = {c1, c2}
  SelfClosers = {s1}
  Flushers = {f1}
  Capacity = 2
  MaxCounter = 2
SPECIFICATION FairSpec
INVARIANTS
  Inv
  DropsAreCounted
  ClosedIsQuiet
PROPERTIES
  EventSettles
