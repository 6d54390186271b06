\* A second connection is there for one that would be lost.
CONSTANTS
  Conns = {c1, c2}
SPECIFICATION LiveSpec
INVARIANTS NoConnectionLost OpenedMeansReady
PROPERTIES StopCloses
\* A service that has stopped does nothing more.
CHECK_DEADLOCK FALSE
