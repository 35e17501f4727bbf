SPECIFICATION Spec
CONSTANTS
  c1 = c1
  c2 = c2
  c3 = c3
  Clients = {c1, c2, c3}
  Order <- OrderOfSlots
  Reported <- AsReported
  Home <- HomeOf
  ValidDevices = {"CPU", "GPU", "GPU:0", "GPU:1"}
  DefaultChunk = 2
  BrokenBlobs <- Broken
  WideBlobs <- Wide
  Artifact <- ArtifactOf
  Exports <- ExportsOf
  HasCuda <- CudaOf
  Scenarios <- MCScenarios
INVARIANTS
  AckMeansWhole
  AnswersAreTrue
  NothingLostByRename
  ResultsOfRuns
  StatsFollowObjects
  KeptAcrossRestart
  StepsStayTogether
  SamplesAreBatches
CHECK_DEADLOCK FALSE
