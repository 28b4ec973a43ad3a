\* Two streams that need two chunks each and a window of one: both calls sleep on
\* the window and on the queue, which an update, SETTINGS or a GOAWAY may change.
CONSTANTS
  Calls = {c1, c2}
  BodyLen = 2
  QueueCap = 1
  WindowSize = 1
  MaxWindowSize = 2
  MaxStreamID = 3
  MaxInformational = 1
  MaxFrames = 1
  Topics = {"flow", "settings", "goaway"}
  Breaks = FALSE
  FrameSizes = {1, 2}
  StreamLimits = {0, 1}
  Increments = {1}
SPECIFICATION FairSpec
INVARIANT DataIsCovered
PROPERTY DoReturns
