\* Two cameras, one with three frames or both with one; the buffer holds four pieces, a read two.
\* The system may stop: the cameras may send no more.
SPECIFICATION Spec
CONSTANTS
  c1 = c1
  c2 = c2
  Conns = {c1, c2}
  Capacity = 4
  ReadMax = 2
  Loads <- MCLoads
INVARIANTS TypeOK OverflowNeedsRace OwnFramesInOrder SleepsOnlyOnLate
PROPERTIES PassEnds
CHECK_DEADLOCK FALSE
