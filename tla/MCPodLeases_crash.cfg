SPECIFICATION Spec
CONSTANTS
  n1 = n1
  n2 = n2
  Node = {n1, n2}
  NoNode = NoNode
  Pod <- OnePod
  TTL = 1
  Skew <- N2Ahead
  MaxSkew = 1
  App <- OwnApp
  DependsOn <- NoDeps
  Fits <- Everywhere
  Probed = {}
  NoEngine = {}
  Busy <- N1AndTaker
  MaxTime = 1
  MaxVersion = 2
  MaxFaults = 1
INVARIANTS IInv
PROPERTIES ImplementsOwnership ImplementsAtomicPods
