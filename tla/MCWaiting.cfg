SPECIFICATION WaitingSpec
CONSTANTS
  front = front
  console = console
  Processes = {front, console}
  Watching = {front}
  Requests = {q1, q2}
  Home <- MCHome
  Keys <- MCKeys
  Values = {TRUE, FALSE}
  Patches <- MCPatches
  Rules <- MCRules
  MaxCommits = 3
  MaxFaults = 1
  None = None
  Ops = {"backup", "restore", "import"}
  Does <- MCDoes
  Foreign <- MCForeign
  MaxUser = 2
  MaxTrouble = 1
  MaxCrashes = 1
  Submissions = {s1, s2, s3}
  Players = {a1}
  Challenges = {h1, h2}
  Uncapped = h2
  Views = {v1, v2, v3}
  Pushes = {w1}
  Viewers = {a, b}
  Hashes = {x, y}
  MaxGen = 2
INVARIANTS ListenerCurrent StoreKept ShownOwn
PROPERTIES OnlyOverlapBreaks ListenersConverge AcceptedTaskEnds EveryRequestAnswered WrongNeverWaits
CHECK_DEADLOCK FALSE
