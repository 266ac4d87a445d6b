CONSTANTS
  Buffers = {b1, b2}
  Threads = {t1, t2}
  NoThread = NoThread
  NoBuffer = NoBuffer
  MAX = 4
SPECIFICATION Spec
PROPERTIES ImplementsChannel
