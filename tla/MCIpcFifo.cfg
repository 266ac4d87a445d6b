CONSTANTS
  Buffers = {b1, b2, b3}
  Threads = {t1, t2}
  NoThread = NoThread
  NoBuffer = NoBuffer
  MAX = 4
SYMMETRY Symmetry
SPECIFICATION SafeSpec
INVARIANTS NeverWraps OnePlace NoLostWakeup
PROPERTIES SafelyImplementsChannel
