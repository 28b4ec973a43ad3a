SPECIFICATION LibrarySpec
CONSTANTS
  \* Backoff
  IntBound = 16
  Millisecond = 2
  RetryAfterCap = 5
  Delays = {0, 1, 2, 3, 7, 15}
  Remainings <- MCRemainings
  MaxAttempt = 6
  \* ManualTime
  Sleepers = {s1, s2}
  Advancers = {a1, a2}
  Counters = {c1}
  Durations = {0, 1}
  Nobody = nobody
  \* TestKit
  Attempts = {t1, t2, t3}
  Controlled = {r1, r2}
  Settlers = {b1, b2}
  Ops = {o1, o2}
  Fixed = fixed
  NoOutcome = noOutcome
  \* StrictJSON
  Names = {"a", "b", "c"}
  MaxNestingDepth = 2
  MaxTokens = 7
  MaxMembersPerObject = 2
  \* Payload
  MaxValidationIssues = 3
  MaxIssuePath = 5
  PathMarker = 3
  MaxPathBytes = 9
  CountLimit = 4
  PathLengths = {1, 3, 6}
  MaxFound = 5
  MaxModelDepth = 3
  Nodes = {1, 2, 3}
  Root = 1
  MaxChildren = 2
  EncodeLimit = 6
  PieceLengths = {1, 2, 4}
  \* Response
  MaxPayload = 3
  ErrorBody = 2
  Expansion = 1
  Lengths = {0, 2, 3, 4}
INVARIANTS DelayIsRight SleepersAreExact KitIsExact ParserAgrees IssuesAreExact WalkIsExact LimitIsExact ResponseIsSound
PROPERTY KitReturns
\* A part stops when its work is done.
CHECK_DEADLOCK FALSE
