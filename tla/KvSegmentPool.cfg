CONSTANTS
  Total = 6
  Holder = {h1, h2, h3}
  Sizes = {1, 2, 3}
  MaxAllocs = 8
SPECIFICATION Spec
INVARIANTS FreeListExact RefsExact
PROPERTY ImplementsSharedPages
CHECK_DEADLOCK FALSE
