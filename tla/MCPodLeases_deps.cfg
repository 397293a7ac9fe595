SPECIFICATION Spec
CONSTANTS
  n1 = n1
  n2 = n2
  Node = {n1, n2}
  NoNode = NoNode
  Pod <- TwoPods
  TTL = 1
  Skew <- N2Ahead
  MaxSkew = 1
  App <- OwnApp
  DependsOn <- Chain
  Fits <- Everywhere
  Probed = {1}
  NoEngine = {}
  Busy <- SchedAndTaker
  MaxTime = 1
  MaxVersion = 4
  MaxFaults = 0
INVARIANTS CapturedAfterDependencies StartedAfterDependencies
PROPERTIES ImplementsAtomicPods
