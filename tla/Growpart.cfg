SPECIFICATION GrowSpec
CONSTANTS
  Totals = {9, 14, 16}
  First = 2
  Ent = 2
  MinGrow = 2
  Sizes = {0, 3, 6, 20}
INVARIANT FsInsidePartition
PROPERTY TableSurvivesKill
CHECK_DEADLOCK FALSE
