\* Three submissions of three accounts, two challenges, one behind the other, and an operator.
SPECIFICATION Spec
CONSTANTS
  None = None
  Submissions = {s1, s2, s3}
  Accounts = {a1, a2, a3}
  Challenges = {c1, c2}
  MaxAttempts = 1
  BloodMode = "bonus"
  Decline = "linear"
  FirstPrice = 9
  Gated = TRUE
  Uncapped = None
  Cap <- MCCap
  FirstBlood <- MCFirstBlood
  Curve <- MCCurve
  AskingPrice <- MCAsking
  Requires <- MCRequires
  MaxAccountEdits = 1
  MaxChallengeEdits = 1
SYMMETRY Interchangeable
INVARIANTS AttemptCap FirstBloodIsFirst OutboxMatchesLedger DeletedHasNoHistory
PROPERTIES ImplementsLedger
CHECK_DEADLOCK FALSE
