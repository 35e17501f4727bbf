\* Every accepted request is answered: one worker per device, batches that are too small,
\* of one copy or two, go back to the queue until MINBATCHTIMEOUT has passed.
SPECIFICATION FairSpec
CONSTANTS
  d1 = d1  d2 = d2  d3 = d3  d4 = d4  d5 = d5  cpu = cpu  gpu = gpu  c1 = c1  g1 = g1  g2 = g2
  m = m  s = s  a = a  b = b  x = x
  NoWorker = NoWorker
  Dags = {d1, d2}
  Devices = {cpu, gpu}
  Keys = {a, b, x}
  Models = {m, s}
  Program <- CrossProgram
  Loaded <- CrossLoaded
  Persist <- CrossPersist
  HasTimeout = {}
  ModelOpts <- AwaitedModels
  Workers = {c1, g1}
  DeviceOf <- CrossWorkers
  MayFail = {s}
  BadKeys = {}
  TimeoutFlagReturned = TRUE
PROPERTY
  EveryRequestAnswered
