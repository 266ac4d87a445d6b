CONSTANTS
  MAX_PDP_CNTXS = 3
  MAX_DUN_PDP_CNTXS = 1
  NoDevice = NoDevice
  MaxBuffers = 2
  FlowStartLimit = 2
  FlowStopLimit = 0
SPECIFICATION SafeSpec
INVARIANTS XmitNeverWaits
