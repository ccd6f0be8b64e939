SPECIFICATION Spec
CONSTANTS
  Groups = {"Shootmania"}
  Capacity = 2
  MaxLength = 3
  MayNest = FALSE
  ErrorPages = FALSE
  XmlBreaks = FALSE
CHECK_DEADLOCK FALSE
INVARIANTS
  NotFoundIsTruthful
