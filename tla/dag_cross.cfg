\* Two requests across two devices, with batching, errors and a timeout.
SPECIFICATION Spec
CONSTANTS
  d1 = d1  d2 = d2  d3 = d3  d4 = d4  d5 = d5  cpu = cpu  gpu = gpu  c1 = c1  g1 = g1  g2 = g2
  m = m  s = s  a = a  b = b  x = x
  NoWorker = NoWorker
  Dags = {d1, d2}
  Devices = {cpu, gpu}
  Keys = {a, b, x}
  Models = {m, s}
  Program <- CrossProgram
  Loaded <- CrossLoaded
  Persist <- CrossPersist
  HasTimeout = {d2}
  ModelOpts <- BatchedModels
  Workers = {c1, g1, g2}
  DeviceOf <- BatchWorkers
  MayFail = {m, s}
  BadKeys = {b}
  TimeoutFlagReturned = TRUE
INVARIANTS
  TypeOK
  RefCountIsCopies
  FinishedOnce
  CopyInOnePlace
  FinishedMeansDone
PROPERTY
  ServiceSpec
