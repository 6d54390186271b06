CONSTANTS
  a = a b = b c = c int = int str = str
  Nodes = {n1, n2}
  DataNodes = {d1}
  NResources = 2
  Replaced = {2}
  Names = {a, b, c}
  Types = {int, str}
  Deployments <- MCDeployments
  BarrierKnown = TRUE
  MaxRev = 3
  MaxStray = 1
SPECIFICATION Spec
SYMMETRY MCSymmetry
INVARIANTS ReadyHasSchema BarrierReachable
PROPERTIES NothingRemoved
