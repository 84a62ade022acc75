SPECIFICATION Spec
CONSTANTS
  None = None
  Submissions = {s1, s2}
  Accounts = {a1, a2}
  Challenges = {c1}
  MaxAttempts = 0
  BloodMode = "bonus"
  Decline = "logarithmic"
  FirstPrice = 9
  Gated = FALSE
  Uncapped = None
  Cap <- MCCap
  FirstBlood <- MCFirstBlood
  Curve <- MCCurve
  AskingPrice <- MCAsking
  Requires <- MCRequires
  MaxAccountEdits = 1
  MaxChallengeEdits = 0
INVARIANT BonusIndexNeverRefuses
CHECK_DEADLOCK FALSE
