SPECIFICATION Spec
CONSTANTS
  MaxFiles = 1
  MaxDumps = 1
  MaxPosted = 2
  MaxDepth = 3
  MaxWindows = 1
CHECK_DEADLOCK FALSE
INVARIANTS
  PictureSaved
