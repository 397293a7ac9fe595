SPECIFICATION AdminSpec
CONSTANTS
  n1 = n1
  n2 = n2
  Node = {n1, n2}
  NoNode = NoNode
  Pod = {1}
  TTL = 1
  Skew <- NoSkew
  MaxSkew = 0
  App <- OwnApp
  DependsOn <- NoDeps
  Fits <- Everywhere
  Probed = {}
  NoEngine = {}
  Busy <- SchedOnly
  MaxTime = 0
  MaxVersion = 2
  MaxFaults = 1
  MaxRequests = 1
INVARIANTS DeadOwnerExpires
