CONSTANTS
  a1 = a1
  a2 = a2
  c1 = c1
  csd = csd
  pkt = pkt
  log = log
  Threads <- MCThreads
  CpuOf <- MCCpuOf
  Types <- MCTypes
  SizeOf <- MCSizeOf
  CountOf <- MCCountOf
  Base = 1
  Area = 6
  WORD = 12
  MAX = 3
  NoType = NoType
  MaxTries = 2
SYMMETRY Symmetry
SPECIFICATION Spec
INVARIANTS TypeOK PoolsDisjoint BuffersFit ListIsSound
CHECK_DEADLOCK FALSE
