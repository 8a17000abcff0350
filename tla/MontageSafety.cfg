\* Two cameras, counted as one, two or too many; two live timers; symmetric.
SPECIFICATION Spec
CONSTANTS
  Clients = {c1, c2}
  Timers = {t1, t2}
  SockSizes = {1, 2, 9}
SYMMETRY Symmetry
VIEW NoStale
INVARIANTS TypeOK TriggerHasOwner ExclusiveUntilTimeout
