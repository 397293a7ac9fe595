SPECIFICATION Spec
CONSTANTS
  p1 = p1
  p2 = p2
  shop = shop
  blog = blog
  Pod <- MCPod
  Project <- MCProject
  ProjectOf <- MCProjectOf
  FirstTable = {p1}
  Slot = {1, 2}
  MaxChanges = 1
  MaxDeploys = 1
  MaxFaults = 1
PROPERTIES
  DisplayCatchesUp
  DeployEnds
