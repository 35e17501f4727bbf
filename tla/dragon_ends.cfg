\* A server is told to shut down at any time; steps may run for ever.
SPECIFICATION FairSpec
CONSTANTS
  a = a  b = b  c = c  d = d  h1 = h1  h2 = h2
  NoStep = NoStep
  Steps = {a, b, c, d}
  HostList <- TwoHosts
  Nodes <- SmallBothAndMore
  PolicyFits = {a, b, c}
  Scripts <- JustTooLarge
  MaxFaults = 1
  MaxStops = 1
PROPERTIES
  ImmediateShutdownEnds
  ShutdownEnds
  EveryStepEnds
