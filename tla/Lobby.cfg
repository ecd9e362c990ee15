SPECIFICATION FairSpec
CONSTANTS
  MaxPlayers = 2  MaxUpdates = 3  MaxLate = 1
INVARIANTS TypeOK AsleepUpToDate OfflineLast
PROPERTY CountPublished
CHECK_DEADLOCK FALSE
