\* Small events, archives; three requests of one user; three players.
SPECIFICATION FrontSpec
CONSTANTS
  MaxChanges = 2
  None = None
  Requests = {r1, r2, r3}
  Users = {u}
  Passwords = {p, q}
  Imported = {u}
  MaxCodes = 1
  Callers = {c1, c2}
  Sources = {i}
  Targets = {t}
  LastWindow = 1
  GeneralLimit = 1
  TargetLimit = 1
  FailureLimit = 1
  FloodLimit = 2
  Players = {1, 2, 3}
  TeamOf <- MCTeamOf
  Challenges = {1, 2}
  Curve <- MCCurve
  Requires <- MCRequires
  Anonymize <- MCAnonymize
  Charges <- MCCharges
  Grants <- MCGrants
  Moderated <- MCModerated
  FreezeAt = 2
  MaxTime = 2
  PageLimit = 1
  MaxOpen = 2
  MaxRows = 3
  Publishers = {p1, p2}
  Clients = {k1}
  Buffer = 1
  CatchUpLimit = 2
  ReplayLimit = 2
  FeedHorizons = {2, 4}
  MaxId = 3
  MaxConnects = 2
  MaxDrops = 1
  MaxFailures = 1
SYMMETRY Symmetry
INVARIANTS RedirectsLand WithheldStaysWithheld  OutlivedOnlyBeside   WalkMissesNothing SteadyMissesNothing
PROPERTIES EndedStaysEnded PastStands OnePrice
CHECK_DEADLOCK FALSE
