SPECIFICATION Spec
CONSTANTS
  Requests = {r1, r2}
  Users = {1, 2, 3}
  Teams = {s, t}
  TeamSize = 2
  None = None
CHECK_DEADLOCK FALSE

PROPERTIES SeatMovesToMember
