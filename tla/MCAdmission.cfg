\* Three sends compete for two slots and for bytes that hold one reservation
\* and a half, so both overloads and their interplay with a shrink happen.
CONSTANTS
  o1 = o1  o2 = o2  o3 = o3  c1 = c1  c2 = c2
  Ops = {o1, o2, o3}
  Closers = {c1, c2}
  MaxInFlight = 2
  MaxBuffered = 5
  RequestWorkspace = 2
  OtherWorkspace = 1
  MaxCounter = 1
  MaxCalls = 1
SPECIFICATION Spec
SYMMETRY Symmetry
INVARIANTS
  Inv
  ClosedIsDrained
PROPERTIES
  NoAddWhileDraining
  ImplementsGate
