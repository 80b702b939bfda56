SPECIFICATION FairSpec
CONSTANTS
  None = None
  Managers = {m1}
  RunTabs = {}
  CommandTabs = {cmd}
  Iterations = 2
PROPERTY StartComesBack
CHECK_DEADLOCK FALSE
