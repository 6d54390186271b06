CONSTANTS
  a = a b = b c = c int = int str = str
  Nodes = {n1}
  DataNodes = {d1}
  NResources = 2
  Replaced = {2}
  Names = {a, b, c}
  Types = {int, str}
  Deployments <- MCSameVersion
  BarrierKnown = TRUE
  MaxRev = 4
  MaxStray = 1
SPECIFICATION Spec
INVARIANT OpenMeansApplied
