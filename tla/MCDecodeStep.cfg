SPECIFICATION Spec
CONSTANTS
  Tokens = {t1, t2}
  MaxLen = 2
  Segs = {s1, s2}
  Own = own
  Stray = stray
  StepSmall = 2
  Split = 2
  StepLarge = 1
  Count = 1
  WedgeCap = 1
  QueueCap = 2
  Starves = TRUE
INVARIANTS ResultFaithful
SYMMETRY Symmetric
