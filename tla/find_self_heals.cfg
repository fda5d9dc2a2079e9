SPECIFICATION Spec
CONSTANTS
  Disturbances = {"TRANSFER"}
  MaxFaults = 1
  MaxUnread = 4
  MaxImages = 3
INVARIANTS
  SelfHeals
CHECK_DEADLOCK FALSE
