\* Three operations, one worker that dies, no failing statement.
SPECIFICATION Spec
CONSTANTS
  Ops = {"backup", "restore", "import"}
  Does <- MCDoes
  MaxUser = 2
  Foreign <- MCForeign
  MaxFailures = 0
  MaxCrashes = 1
INVARIANTS SettledJobFreesItsKind
CHECK_DEADLOCK FALSE
