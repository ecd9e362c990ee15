SPECIFICATION Spec
CONSTANTS
  Host = Host  Guest = Guest
  Delay = 1  Win = 2  RingSize = 4  LocSize = 2  TickMod = 12
  FramesPerTick = 1  StallMax = 2  BiteMax = 2
  SimStart <- MCStart  SimStep <- MCSimStep  Survives <- MCSurvives
  Upset <- MCUpset  Checksum <- MCChecksum
  Sims <- MCSims  Sums <- MCSims
  MaxTick = 12  MaxUnread = 2  MaxLag = 2  MaxStall = 1
  FaultKinds = {}  MaxFaults = 0
INVARIANTS InputAgreement SimAgreement RecordsImmutable WatermarkHonest WrapInvisible SkewBounded
PROPERTIES NoFalseAlarm ImplementsLockstep
SYMMETRY Swap
