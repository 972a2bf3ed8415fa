SPECIFICATION FairSpec
CONSTANTS
  MasterThreads = {m1, m2}
  StatsThreads = {s1}
  MaxJobs = 2
PROPERTIES
  FilesClosed
