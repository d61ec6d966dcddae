CONSTANTS
  Proc = {p1, p2}
  Content = {c1, c2}
  None = None
  Bad = Bad
  Nobody = Nobody
  CrashCap = 2
  FaultCap = 1
SPECIFICATION FairSpec
INVARIANTS TypeOK CompileJustified PathStaysGood
PROPERTIES WaitersEscape ImplementsRegistry
