\* Two cameras, three connections, three numbers, two entries in sockets.
SPECIFICATION Spec
CONSTANTS
  c1 = c1
  c2 = c2
  Cams = {c1, c2}
  Fds = {1, 2, 3}
  Limit = 2
  Arrivals <- MCArrivals
  Senders = {"heart"}
INVARIANTS TypeOK KeepsLive LiveIsServed SelectCanRun
PROPERTY BrokenIsClosed
CHECK_DEADLOCK FALSE
