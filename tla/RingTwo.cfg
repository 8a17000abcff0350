\* Two video connections feed the channel; four slots.
SPECIFICATION Spec
CONSTANTS
  Producers = {p1, p2}
  Frames = {f1, f2, f3}
  NoFrame = NoFrame
  NMAX = 4
INVARIANTS TypeOK CountBounded HeldFrameIntact
PROPERTY RefinesFifo
