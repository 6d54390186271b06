CONSTANTS
  Services = {a, b}
  Signatures = {s1, s2}
  Requests = {r1, r2}
  IdleTicks = 4
  MaxTicks = 4
  MaxStates = 2
  None = None
SYMMETRY Symmetry
SPECIFICATION Spec
INVARIANTS TypeOK HitFitsRequest ScansMatchNeed
PROPERTIES CurrentOnlyImproves
