CONSTANTS
  Allocators = {r1}
  Waiters = {w1}
  Timed = {w1}
  Returners = {r1, r2}
  MaxBuffers = 3
  FlowStartLimit = 2
  FlowStopLimit = 0
  HasCallback = TRUE
SPECIFICATION Spec
INVARIANTS Conserved StateMatchesLevel NoLostReport NoStrandedWaiter
PROPERTIES NoWaiterSleepsOnBuffers
