CONSTANTS
  Client = {"c1", "c2"}
  Sites <- MCSites
  Bodies <- MCBodies
  FrameCap = 1
  Width = 8
SPECIFICATION Spec
INVARIANTS FitsDevice WithinContext AnswersHonest
PROPERTY EveryClientAnswered
