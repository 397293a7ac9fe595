SPECIFICATION Spec
CONSTANTS
  n1 = n1
  n2 = n2
  Node = {n1, n2}
  NoNode = NoNode
  Pod <- OnePod
  TTL = 1
  Skew <- N2Ahead
  MaxSkew = 1
  App <- OwnApp
  DependsOn <- NoDeps
  Fits <- Everywhere
  Probed = {}
  NoEngine = {n2}
  Busy <- N1AndBlind
  MaxTime = 2
  MaxVersion = 3
  MaxFaults = 0
INVARIANTS TypeOK VersionNamesRecord OneLeaseHolder
PROPERTIES NoStealing LeaseNeverShrinks
