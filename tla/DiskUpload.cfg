SPECIFICATION Spec
CONSTANTS
  large = large
  Functions = {f1, f2, large}
  Nodes = {1, 2, 3, 4}
  NoNode = NoNode
  NoFunction = NoFunction
  Quit = Quit
  Imported = {f2}
  Size <- Sizes
  DiskSize = 2
  Stale = {0}
  MaxStores = 4
  MaxReads = 1
INVARIANT FoundIsInBucket
