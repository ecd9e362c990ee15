SPECIFICATION Spec
CONSTANTS
  Host = Host  Guest = Guest
  Delay = 1  Win = 3  RingSize = 8  LocSize = 4  TickMod = 16
  FramesPerTick = 1  StallMax = 2  BiteMax = 2
  SimStart <- MCStart  SimStep <- MCSimStep  Survives <- MCSurvives
  Upset <- MCUpset  Checksum <- MCChecksum
  Sims <- MCSims  Sums <- MCSims
  MaxTick = 4  MaxUnread = 1  MaxLag = 2  MaxStall = 1
  FaultKinds = {"upset", "error", "damage"}  MaxFaults = 1
INVARIANTS InputAgreement RecordsImmutable WatermarkHonest RepairHeals
PROPERTY NoFalseAlarm
SYMMETRY Swap
