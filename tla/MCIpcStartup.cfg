CONSTANTS
  MaxPolls = 2
  CpMayCrash = TRUE
SPECIFICATION Spec
INVARIANTS UpMeansReady EarlyMeansCrash
PROPERTIES HandshakeCompletes CrashAfterUpIsDumped
CHECK_DEADLOCK FALSE
