SPECIFICATION AnswersSpec
CONSTANTS
  Groups = {"Stadium", "Maniaplanet", "Shootmania", "Questmania", "Sunrise", "Original"}
  Capacity = 2
  MaxLength = 3
  MayNest = TRUE
  ErrorPages = TRUE
  XmlBreaks = TRUE
  MaxAnswer = 7
  Arrays = {"TrackInfo", "TrackObject", "Replay", "Item"}
  MaxRecords = 2
CHECK_DEADLOCK FALSE
INVARIANTS
  NothingLeaks
  NotFoundOnlyAfterAnswers
  NewestFirst
  FailureGivesButtonBack
  FieldsAsSplit
  PrintedAsSent
  AnswerReleased
PROPERTIES
  QueryEnds
  QueryAsInDialog
