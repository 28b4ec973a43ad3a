CONSTANTS
  Acquirers = {a1, a2, a3}
  Conns = {c1, c2, c3}
  NoConn = NoConn
  MaxConnections = 1
SPECIFICATION Spec
INVARIANT SleeperWillWake
