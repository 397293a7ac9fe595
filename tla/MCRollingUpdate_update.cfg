SPECIFICATION RuSpec
CONSTANTS
  n1 = n1
  Node = {n1}
  NoNode = NoNode
  Pod = {1, 2, 3, 4}
  TTL = 1
  First = 1
  MaxDeploys = 3
  MaxVersion = 2
INVARIANTS RuInv LatestSurvives
PROPERTIES ReplacedOnceRunning
