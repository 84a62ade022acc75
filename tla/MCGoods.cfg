\* Three requests of one account for three hints it cannot all afford; an operator and a player at the files.
SPECIFICATION GoodsSpec
CONSTANTS
  h1 = h1 h2 = h2 h3 = h3
  Requests = {r1, r2, r3}
  Accounts = {a1}
  Hints = {h1, h2, h3}
  None = None
  FirstPrice <- Prices
  NextPrice <- Edited
  Needs <- Chain
  SolveValue = 2
  Awards = {bonus}
  Worth <- Values
  MaxSolves = 2
  MaxEdits = 2
  Transfers = {f1, f2}
  Player = f1
  Shas = {a}
  Names = {m, n}
  Challenges = {c}
  Imports <- OneRowEach
  MaxFailures = 1
  MaxOps = 5
SYMMETRY Symmetry
INVARIANTS NeverOverdrawn OneChargePerUnlock OnlyOverlapLosesBytes
 
CHECK_DEADLOCK FALSE
