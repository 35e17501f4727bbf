\* A thread for each of two devices, the second created while the first runs models.
SPECIFICATION FairSpec
CONSTANTS
  cpu = cpu  gpu = gpu  c1 = c1  g1 = g1
  NoDevice = NoDevice  NoSession = NoSession
  Workers = {c1, g1}
  Devices = {cpu, gpu}
  DeviceOf <- OneThreadEach
  MaxRuns = 2
INVARIANTS
  TypeOK
  TerminatesLiveSession
  EntryIsFree
  LateInItsEntry
PROPERTY
  EveryRunEnds
