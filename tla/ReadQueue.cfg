SPECIFICATION FairSpec
CONSTANTS
  Workers = {w1, w2, w3}
  Functions = {f1}
  Cost <- ReadTimes
  Budget = 3
  QueueLimit = 1
  MaxRequests = 3
  NoWorker = NoWorker
  NoFunction = NoFunction
INVARIANTS
  TypeOK
  NoDanglingFrame
  OneAnswerOwed
  NoLostWakeup
  RejectNeverBlocks
  TimeAccounting
  WorthTheWait
  QuitLosesNothing
PROPERTIES
  ReadersJoined
