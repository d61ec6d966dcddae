SPECIFICATION FairSpec
CONSTANTS
  Grid = 3
  Width <- Widths
  Layers = 2
  GenMod = 4
  GiveUpCap = 1
  Foreign = TRUE
INVARIANTS OkIsSeparated
PROPERTIES StepDrains
CHECK_DEADLOCK TRUE
