\* Two cameras, one live timer; no symmetry.
SPECIFICATION Spec
CONSTANTS
  Clients = {c1, c2}
  Timers = {t1}
  SockSizes = {2}
PROPERTY MontageEnds
