\* The transport as it is: the replay of a request on a new connection can fail
\* with DNS, CONNECT, PROXY or TLS after the first connection took the request.
CONSTANTS
  MaxAttempts = 2
SPECIFICATION Spec
INVARIANTS
  LaterFailureKeepsFloor
