\* Two publishers, one client that stays connected, one outage, limits never reached.
SPECIFICATION Spec
CONSTANTS
  Publishers = {p1, p2}
  Clients = {c1}
  Buffer = 3
  CatchUpLimit = 100
  ReplayLimit = 50
  Horizons = {4}
  MaxId = 3
  MaxConnects = 1
  MaxDrops = 1
  MaxFailures = 0
INVARIANTS OutageIsReplayed
CHECK_DEADLOCK FALSE
