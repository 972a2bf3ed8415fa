SPECIFICATION FairSpec
CONSTANT Workers = {w1, w2}
INVARIANTS
  TypeOK
  CreationsCounted
  NoLostWakeup
PROPERTY EveryCreationPasses
