SPECIFICATION Spec
CONSTANTS
  Editors = {e1, e2}
  Sessions = {1, 2}
  Ids = {1}
  Specs = {a, b}
  None = None
  CAPACITY = 1
  Window = 1
  MAX_PING_TASKS = 1
  MaxEdits = 2
INVARIANTS
  AgentRunsCurrentList
PROPERTIES
  TimersSurvive
  EditTakesEffect
CHECK_DEADLOCK FALSE
