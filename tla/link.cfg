SPECIFICATION Spec
CONSTANTS
  Disturbances = {"TRANSFER", "GARBLED", "SHORT", "CANCEL"}
  MaxFaults = 2
  MaxUnread = 4
  MaxImages = 3
INVARIANTS
  TypeOK
  InStep
PROPERTIES
  AnswersMatch
CHECK_DEADLOCK FALSE
