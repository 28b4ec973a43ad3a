\* Three calls and a cap of two: a call can sleep at the cap while one lease is
\* shared, one dial is under way, a session dies and the pool is closed.
CONSTANTS
  Acquirers = {a1, a2, a3}
  Conns = {c1, c2, c3}
  NoConn = NoConn
  MaxConnections = 2
SPECIFICATION FairSpec
INVARIANTS CapHolds LeaseIsGood NoneLeaks
PROPERTY AcquireReturns
