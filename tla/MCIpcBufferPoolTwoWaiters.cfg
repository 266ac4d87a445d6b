CONSTANTS
  Allocators = {}
  Waiters = {w1, w2}
  Timed = {}
  Returners = {r1}
  MaxBuffers = 2
  FlowStartLimit = 1
  FlowStopLimit = 0
  HasCallback = TRUE
SPECIFICATION Spec
PROPERTIES NoWaiterSleepsOnBuffers
