\* Two cameras, two live timers.
SPECIFICATION Spec
CONSTANTS
  Clients = {c1, c2}
  Timers = {t1, t2}
  SockSizes = {2}
INVARIANT StoppedTimerNeverFires
