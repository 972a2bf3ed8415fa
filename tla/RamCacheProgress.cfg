SPECIFICATION FairSpec
CONSTANTS
  Workers = {w1, w2}
  Containers = {c1, c2, c3}
  small = small
  large = large
  Functions <- FunctionSet
  Mem <- Sizes
  MaxMemory = 3
  Threshold = 60
  WriteBatch = 2
  MaxInvocations = 3
  SlowRuns = FALSE
  NoFunction = NoFunction
  NoContainer = NoContainer
PROPERTIES
  NothingHalfDone
  ShutdownCompletes
