SPECIFICATION FairSpec
CONSTANTS
  MasterThreads = {m1, m2}
  StatsThreads = {s1}
  MaxJobs = 2
INVARIANTS
  TypeOK
  NobodySleepsOverAJob
PROPERTIES
  MasterKeepsPromise
  StatsKeepsPromise
  MasterDestroyed
