\* One model on one device: batches, MINBATCHSIZE and MINBATCHTIMEOUT, two workers on a queue,
\* inputs of two dimensions, and a request that is refused.
SPECIFICATION Spec
CONSTANTS
  d1 = d1  d2 = d2  d3 = d3  d4 = d4  d5 = d5  cpu = cpu  gpu = gpu  c1 = c1  g1 = g1  g2 = g2
  m = m  s = s  a = a  b = b  x = x
  NoWorker = NoWorker
  Dags = {d1, d2, d3, d4, d5}
  Devices = {cpu, gpu}
  Keys = {a, b, x}
  Models = {m, s}
  Program <- BatchProgram
  Loaded <- BatchLoaded
  Persist <- BatchPersist
  HasTimeout = {}
  ModelOpts <- MinBatchModels
  Workers = {g1, g2}
  DeviceOf <- GpuWorkers
  MayFail = {}
  BadKeys = {}
  TimeoutFlagReturned = TRUE
INVARIANT
  BatchWithinOptions
SYMMETRY BatchSymmetry
