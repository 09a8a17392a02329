SPECIFICATION Spec
CONSTANTS
  Priorities = {0, 1, 5, 9}
  Capacity = 1
  PosMax = 7
  MaxInserts = 5
  Times = {0, 2}
CHECK_DEADLOCK FALSE
INVARIANTS
  InBounds
  FloodBound
  NoNeedlessDelay
PROPERTIES
  RefinesPriorityQueue
