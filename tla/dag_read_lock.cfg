\* A read lock that RAI_DagOpBatchable keeps blocks the worker that stores the outputs.
SPECIFICATION FairSpec
CHECK_DEADLOCK FALSE
CONSTANTS
  d1 = d1  d2 = d2  d3 = d3  d4 = d4  d5 = d5  cpu = cpu  gpu = gpu  c1 = c1  g1 = g1  g2 = g2
  m = m  s = s  a = a  b = b  x = x
  NoWorker = NoWorker
  Dags = {d1, d2}
  Devices = {cpu, gpu}
  Keys = {a, b, x}
  Models = {m, s}
  Program <- ShapesProgram
  Loaded <- ShapesLoaded
  Persist <- ShapesPersist
  HasTimeout = {}
  ModelOpts <- BatchedModels
  Workers = {c1, g1}
  DeviceOf <- CrossWorkers
  MayFail = {}
  BadKeys = {}
  TimeoutFlagReturned = TRUE
PROPERTY
  EveryRequestAnswered
