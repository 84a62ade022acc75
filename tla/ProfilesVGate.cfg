\* One registrant, one team, one question.
SPECIFICATION Spec
CONSTANTS
  Users = {u}
  Teams = {t}
  Fields = {q}
  Requests = {r}
  None = None
PROPERTY AnsweredAtCreation
CHECK_DEADLOCK FALSE
