SPECIFICATION FairSpec
CONSTANTS
  Callers = {g1, g2}
  None = None
  MaxCaptures = 2
  MaxBuffers = 2
  MaxMics = 3
  Overlap = FALSE
INVARIANTS RecordingIsFresh NoMicrophoneLeft
PROPERTIES BestDeviceOpened StopAlwaysReturns
CHECK_DEADLOCK FALSE
