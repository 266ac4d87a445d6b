SPECIFICATION Spec
CONSTANTS
  Configs <- MCConfigs
  Packets = 2
  MaxRetries = 1
  MaxAsserts = 1
INVARIANTS
  AnswerOrAssert
  LogInOrder
  OneDump
  LockHasOwner
PROPERTIES
  CrashIsHandled
  CrashKillsAp
  PanicEnds
  MessageIsTaken
\* The AP stops for good after a panic.
CHECK_DEADLOCK FALSE
