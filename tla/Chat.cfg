SPECIFICATION StageSpec
CONSTANTS
  Pad = 4
  MaskSlack = 1
  maxContextTokens = 38
  defaultMaxTokens = 12
  n_ubatch_max = 8
  Models <- MCModels
  MaxLength = 7
  PromptLengths <- MCPromptLengths
INVARIANTS AttendsItsPast ContextSuffices OnlyTheAnswer
