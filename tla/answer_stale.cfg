SPECIFICATION MxSpec
CONSTANTS
  Arrays = {"Replay"}
  MaxRecords = 2
CHECK_DEADLOCK FALSE
INVARIANTS
  UserIsOwn
