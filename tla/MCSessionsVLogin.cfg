\* One imported user, a login and a change of password beside it.
SPECIFICATION Spec
CONSTANTS
  None = None
  Requests = {r1, r2}
  Users = {u}
  Imported = {u}
  Passwords = {p, q}
  MaxCodes = 1
SYMMETRY Interchangeable
PROPERTIES LoginKeepsPassword
CHECK_DEADLOCK FALSE
