SPECIFICATION Spec
CONSTANTS
  Groups = {"Stadium"}
  Capacity = 2
  MaxLength = 3
  MayNest = TRUE
  ErrorPages = FALSE
  XmlBreaks = FALSE
CHECK_DEADLOCK FALSE
INVARIANTS
  OneMapPerQuery
