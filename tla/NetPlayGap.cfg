SPECIFICATION Spec
CONSTANTS
  Host = Host  Guest = Guest
  Delay = 2  Win = 3  RingSize = 8  LocSize = 4  TickMod = 16
  FramesPerTick = 1  StallMax = 2  BiteMax = 1
  SimStart <- MCStart  SimStep <- MCSimStep  Survives <- MCSurvives
  Upset <- MCUpset  Checksum <- MCChecksum
  Sims <- MCSims  Sums <- MCSims
  MaxTick = 6  MaxUnread = 2  MaxLag = 6  MaxStall = 1
  FaultKinds = {}  MaxFaults = 0
INVARIANT WatermarkHonest
SYMMETRY Swap
