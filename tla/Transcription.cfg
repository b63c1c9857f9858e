SPECIFICATION WhisperFairSpec
CONSTANTS
  n_text_ctx = 14
  Pad = 1
  best_of = 2
  NTemperatures = 3
  NConditioned = 2
  NInit = 4
  EntropyLen = 2
  Lengths = {9, 3005, 3400, 3600}
  PromptLengths = {0, 1, 9}
  MaxCalls = 2
CHECK_DEADLOCK FALSE
INVARIANTS PositionsFit EachPositionOnce HistoryWasSaid
PROPERTIES FailedTextIsLastResort TranscribeReturns
