SPECIFICATION Spec
CONSTANTS
  MaxFiles = 2
  MaxDumps = 3
  MaxPosted = 2
  MaxDepth = 3
  MaxWindows = 1
CHECK_DEADLOCK FALSE
INVARIANTS
  ClipboardKept
  OutputIsCurrent
  DibOwnedOnce
  SavedOrSaid
  SavedUnderItsName
  CopyFindsPicture
