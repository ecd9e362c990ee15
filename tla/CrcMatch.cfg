SPECIFICATION Spec
CONSTANTS
  a = a
  b = b
  Conn = {a, b}
  None = None
  WireTicks = 6
  Keep = 3
  Mate <- MCMate
  Delay = 2
  Lead = 2
  CrcSlots = 4
  MaxSkip = 2
  MaxTick = 10
INVARIANT VerdictRight
CHECK_DEADLOCK FALSE
