SPECIFICATION FairSpec
CONSTANTS
  large = large
  Functions = {f1, f2, large}
  Nodes = {1, 2, 3, 4}
  NoNode = NoNode
  NoFunction = NoFunction
  Quit = Quit
  Size <- Sizes
  Imported = {f2}
  DiskSize = 2
  Stale = {0}
  MaxStores = 4
  MaxReads = 1
INVARIANTS
  TypeOK
  NodesHaveOneOwner
  ReaderHoldsItsNode
  DiskAccounting
  StoredIsTraced
  NothingLeftBehind
PROPERTIES
  NeverForgotten
  KeepsRecency
  DrainCompletes
