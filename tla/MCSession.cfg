\* One stream and three frames: an informational response, final headers and data,
\* or two GOAWAYs around an answer.  The second call finds no identifier left.
CONSTANTS
  Calls = {c1, c2}
  BodyLen = 2
  QueueCap = 1
  WindowSize = 2
  MaxWindowSize = 3
  MaxStreamID = 1
  MaxInformational = 1
  MaxFrames = 3
  Topics = {"answers", "goaway"}
  Breaks = TRUE
  FrameSizes = {1, 2}
  StreamLimits = {0, 1}
  Increments = {1}
SYMMETRY Symmetry
SPECIFICATION Spec
INVARIANTS TableIsExact GoAwayIsRight
PROPERTY CancelledIsSilent
