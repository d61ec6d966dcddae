CONSTANTS
  PromptLens = {1, 2, 3, 4, 5}
  OutputCaps = {0, 2, 3}
  ChunkSizes = {1, 4}
  HfJson <- MCHfJson
  Alphabetic <- MCAlphabetic
  Numeric <- MCNumeric
  Asks <- MCAsks
  Piece <- MCPiece
  Stops <- MCStops
  Eos = "E"
  MaxPreempts = 1
SPECIFICATION CSpec
INVARIANT ClientGetsTheText
\* a panic in the slice of a delta stops the thread
CHECK_DEADLOCK FALSE
