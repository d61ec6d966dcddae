CONSTANTS
  c1 = c1
  c2 = c2
  c3 = c3
  c4 = c4
  Client = {c1, c2, c3, c4}
  Prompt <- SharedPrompts
  MaxTokens <- SharedCaps
  BadParams = {}
  Aborters = {c1}
  Quitters = {c2}
  Vocab = {9}
  NLayer = 2
  MaxLen = 6
  Block = 2
  KvPages = 24
  MaxNumSeqs = 2
  ChunkSize = 6
  AddedOutputLen = 1
  MaxWaiting = 1
  CachePages = 2
  MinBlocks = 2
  MayShutdown = FALSE
  Failing = {"engine", "sampler"}
  MaxFaults = 1
  MaxFrames = 2
SPECIFICATION Spec
INVARIANTS BooksAgree PagesAccounted KvFaithful CacheFaithful LedgerBalanced FramesProtocol
PROPERTY EveryRequestEnds
