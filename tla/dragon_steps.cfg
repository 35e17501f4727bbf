\* Three steps compete for two hosts; process groups may fail to start.
SPECIFICATION Spec
CONSTANTS
  a = a  b = b  c = c  d = d  h1 = h1  h2 = h2
  NoStep = NoStep
  Steps = {a, b, c, d}
  HostList <- TwoHosts
  Nodes <- SmallBothAndMore
  PolicyFits = {a, b, c}
  Scripts <- FitOrFail
  MaxFaults = 1
  MaxStops = 1
INVARIANTS
  NoStepForgotten
  HostsAccountedFor
  HostServesOneStep
  EndedIsDead
  DoneWithAll
