SPECIFICATION Spec
CONSTANTS
  None = None
  Managers = {m1}
  RunTabs = {}
  CommandTabs = {cmd}
  Iterations = 2
PROPERTY ResetAfterComplete
CHECK_DEADLOCK FALSE
