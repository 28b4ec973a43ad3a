CONSTANTS
  Calls = {c1, c2}
  BodyLen = 1
  QueueCap = 1
  WindowSize = 1
  MaxWindowSize = 1
  MaxStreamID = 3
  MaxInformational = 1
  MaxFrames = 0
  Topics = {}
  Breaks = FALSE
  FrameSizes = {1, 2}
  StreamLimits = {1}
  Increments = {1}
SPECIFICATION Spec
INVARIANT CancelStaysOwn
