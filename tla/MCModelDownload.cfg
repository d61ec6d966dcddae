CONSTANTS
  Proc = {p1, p2}
  Size <- Sizes
  Modes = {"modelscope", "huggingface", "auto"}
  Asks = {"download", "file", "quant"}
  Shared = {1}
  CrashCap = 3
  FaultCap = 4
SPECIFICATION FairSpec
INVARIANTS FinalIsWhole ServedAsListed
PROPERTIES EventuallyFetched
