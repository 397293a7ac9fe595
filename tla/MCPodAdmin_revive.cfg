SPECIFICATION AdminSpec
CONSTANTS
  n1 = n1
  n2 = n2
  Node = {n1, n2}
  NoNode = NoNode
  Pod = {1}
  TTL = 1
  Skew <- NoSkew
  MaxSkew = 0
  App <- OwnApp
  DependsOn <- NoDeps
  Fits <- Everywhere
  Probed = {}
  NoEngine = {}
  Busy <- SchedAndTaker
  MaxTime = 0
  MaxVersion = 2
  MaxFaults = 0
  MaxRequests = 2
INVARIANTS AdminInv
PROPERTIES OnlyFirstCaptureRevives
