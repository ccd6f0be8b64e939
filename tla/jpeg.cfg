SPECIFICATION PicturesSpec
CONSTANTS
  Word = 32
  Rows = {1, 3}
  Widths = {4, 10}
  Headers = {2, 5}
  Profiles = {3, 7}
  PictureWidths = {1, 2, 3}
  PictureHeights = {1, 2, 3}
  AlphaValues = {0, 128, 255}
  HeaderSizes = {12, 36, 40, 64, 124}
  BitCounts = {1, 4, 16, 24}
  ClrUsed = {0, 2, 4095, 4097}
  Gaps = {0, 3, 4, 8}
  Overlaps = {3, 8, 70}
  ProfileSizes = {0, 130, 150}
  TagCounts = {0, 1, 2}
  Image = 8
CHECK_DEADLOCK FALSE
INVARIANTS
  PictureInDib
  GivenBackOnce
  PixelsKept
  BlocksFreed
PROPERTIES
  DecodeAsInDialog
