\* Views are interchangeable, but liveness is checked: no symmetry.
CONSTANTS
  Views = {v1, v2}
  Generations = 2
SPECIFICATION MapLiveSpec
INVARIANTS ThisSessionOnly LatchExact
PROPERTIES LatchReleased
