SPECIFICATION FairSpec
CONSTANTS
  n1 = n1
  n2 = n2
  Node = {n1, n2}
  NoNode = NoNode
  Pod <- OnePod
  TTL = 1
  Skew <- NoSkew
  MaxSkew = 0
  App <- OwnApp
  DependsOn <- NoDeps
  Fits <- Everywhere
  Probed = {}
  NoEngine = {}
  Busy <- SchedOnly
  MaxTime = 3
  MaxVersion = 99
  MaxFaults = 2
PROPERTIES ExpiredIsRetaken
