SPECIFICATION Spec
CONSTANTS
  Workers = {w1, w2}
  Containers = {c1, c2, c3, c4}
  small = small
  large = large
  Functions <- FunctionSet
  Mem <- Sizes
  MaxMemory = 3
  Threshold = 60
  WriteBatch = 1
  MaxInvocations = 4
  SlowRuns = FALSE
  NoFunction = NoFunction
  NoContainer = NoContainer
INVARIANTS
  NeverOvercommitted
