SPECIFICATION FairSpec
CONSTANTS
  MAX_FILES = 2
  MaxDrop = 3
  MaxDumps = 3
  MaxPosted = 2
  MaxDepth = 3
CHECK_DEADLOCK FALSE
INVARIANTS
  IdsOfLatest
  BitmapOfThumb
  NoHandlerTwice
  PictureOfLatest
  JumpReturnsUnboxed
  ButtonsTruthful
PROPERTIES
  PanelPromise
  Responsive
  PostedAreDispatched
