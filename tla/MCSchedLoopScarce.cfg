CONSTANTS
  c1 = c1
  c2 = c2
  c3 = c3
  c4 = c4
  Client = {c1, c2, c3, c4}
  Prompt <- ScarcePrompts
  MaxTokens <- ScarceCaps
  BadParams = {c4}
  Aborters = {c2}
  Quitters = {}
  Vocab = {9}
  NLayer = 1
  MaxLen = 6
  Block = 2
  KvPages = 9
  MaxNumSeqs = 2
  ChunkSize = 2
  AddedOutputLen = 0
  MaxWaiting = 0
  CachePages = 0
  MinBlocks = 2
  MayShutdown = TRUE
  Failing = {"engine", "flush", "place"}
  MaxFaults = 1
  MaxFrames = 2
SPECIFICATION Spec
INVARIANT ConsistentUnderScarcity
CHECK_DEADLOCK FALSE
