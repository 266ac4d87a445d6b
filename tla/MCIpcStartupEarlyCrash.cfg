CONSTANTS
  MaxPolls = 2
  CpMayCrash = TRUE
SPECIFICATION Spec
PROPERTIES EarlyCrashIsDumped
CHECK_DEADLOCK FALSE
