\* Two requests at a time: of three users for two teams of at most two; of two registrants.
SPECIFICATION EnrolSpec
CONSTANTS
  None = None
  Requests = {r1, r2}
  Teams = {s, t}
  Users = {1, 2, 3}
  TeamSize = 2
  Registrants = {u1, u2}
  Addresses = {x, y}
  MaxCodes = 2
SYMMETRY Symmetry
INVARIANTS TeamSizeCap SeatFilled NoGhostTeam NobodyStranded
 
CHECK_DEADLOCK FALSE
