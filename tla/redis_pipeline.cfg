SPECIFICATION FairSpec
CONSTANTS
  c1 = c1  c2 = c2
  Workers = {w1, w2}
  NoJob = NoJob
  NoWorker = NoWorker
  Callers = {c1, c2}
  Commands <- ThreeAndOne
  Replies <- Reported
  Attempts = 2
  MaxLost = 2
INVARIANTS
  SlotsAreFound
  RepliesInOrder
  OnlyUnlockOutlivesCall
PROPERTIES
  KeepsPromise
  CallsEnd
