SPECIFICATION Spec
CONSTANTS
  Tokens <- MCTokens
  NumLayers = 2
  MaxLen = 3
  HeadNorm = TRUE
  BlockLen = 2
  PP = 2
  BUCKET_STEP_SMALL = 1
  BUCKET_SPLIT = 1
  BUCKET_STEP_LARGE = 2
  BUCKET_COUNT = 2
  Builds <- MCBuilds
  Prompts <- MCPrompts
  MaxEvents = 3
INVARIANTS LogitsFaithful PoolsFaithful
CHECK_DEADLOCK FALSE
