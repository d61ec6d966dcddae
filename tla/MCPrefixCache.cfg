CONSTANTS
  Block = 2
  CachePages = 4
  Prompts <- SharedPrefixes
  Runs = {10, 20, 30, 40, 50}
SPECIFICATION Spec
INVARIANTS HitsSoundAndLongest RunsAccounted GuardedInsertSafe
CHECK_DEADLOCK FALSE
