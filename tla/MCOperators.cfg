\* Two requests at a time, of two admins, authors of three challenges, two registrants.
SPECIFICATION OperatorsSpec
CONSTANTS
  Requests = {r1, r2}
  Users = {a, b, p}
  Teams = {s, t}
  Staff = {a, b}
  Players = {p}
  Contestants = {x, y}
  Challenges = {1, 2, 3}
  Flags = {f}
  Registrants = {u, v}
  Clubs = {k}
  Fields = {q}
  MaxLog = 3
  None = None
SYMMETRY Symmetry
INVARIANTS SomeAdminRemains UserGateHasRemedy 
PROPERTIES OnlyOverlapMisfits OnlyOverlapAccuses CycleIsAnnounced OnlyOverlapUndoes
CHECK_DEADLOCK FALSE
