SPECIFICATION Spec
CONSTANTS
  Disturbances = {"SHORT"}
  MaxFaults = 1
  MaxUnread = 4
  MaxImages = 3
INVARIANTS
  ImageOrError
CHECK_DEADLOCK FALSE
