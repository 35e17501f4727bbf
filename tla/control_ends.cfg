\* The user may do nothing more, and a poll may wait for ever.
SPECIFICATION FairSpec
CHECK_DEADLOCK FALSE
CONSTANTS
  NoEntity = NoEntity
  m = m  n = n  d = d
  Entities = {m, n, d}
  Nodes = {d}
  MaxRuns = 2
  MaxThreads = 2
  MaxLoads = 2
  Scripts <- FewerThreads
PROPERTIES
  JobsComplete
  PollEnds
