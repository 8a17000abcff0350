\* Two video connections; no symmetry, for the liveness.
SPECIFICATION Spec
CONSTANTS
  Producers = {v1, v2}
CHECK_DEADLOCK FALSE
INVARIANTS TypeOK LoopHasRing FifoOpenHasRing
PROPERTIES StopEnds StopIsComplete
