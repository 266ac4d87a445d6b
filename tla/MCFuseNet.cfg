CONSTANTS
  MAX_PDP_CNTXS = 2
  MAX_DUN_PDP_CNTXS = 0
  NoDevice = NoDevice
  MaxBuffers = 2
  FlowStartLimit = 2
  FlowStopLimit = 0
SPECIFICATION Spec
INVARIANTS EntryFollowsDevice QueueFollowsFlow XmitWaitsOnlyIfHasty LostOnlyOnCrashCode
PROPERTIES ImplementsPool QueueRestarts
