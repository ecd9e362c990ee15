SPECIFICATION FairSpec
CONSTANTS
  Host = Host  Guest = Guest
  Delay = 1  Win = 2  RingSize = 4  LocSize = 2  TickMod = 12
  FramesPerTick = 2  StallMax = 2  BiteMax = 2
  SimStart <- MCStart  SimStep <- MCSimStep  Survives <- MCSurvives
  Upset <- MCUpset  Checksum <- MCChecksum
  Sims <- MCSims  Sums <- MCSims
  MaxTick = 2  MaxUnread = 1  MaxLag = 2  MaxStall = 1
  FaultKinds = {"leave"}  MaxFaults = 1
INVARIANTS TypeOK InputAgreement
PROPERTIES Progress PeerGone
CHECK_DEADLOCK FALSE
