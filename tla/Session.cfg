SPECIFICATION FairSpec
CONSTANTS
  SeqMod = 4  MaxRestarts = 3
INVARIANTS TypeOK AnswerIsOwn FrameLoopReady
PROPERTY Settles
