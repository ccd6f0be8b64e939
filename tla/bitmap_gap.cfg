SPECIFICATION Spec
CONSTANTS
  HeaderSizes = {12, 36, 40, 64, 124}
  BitCounts = {1, 4, 16, 24}
  ClrUsed = {0, 2, 4095, 4097}
  Gaps = {0, 3, 4, 8}
  Overlaps = {3, 8, 70}
  ProfileSizes = {0, 130, 150}
  TagCounts = {0, 1, 2}
  Image = 8
CHECK_DEADLOCK FALSE
INVARIANTS
  GapDeclared
