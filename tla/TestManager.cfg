SPECIFICATION FairSpec
CONSTANTS
  None = None
  Managers = {m1, m2}
  RunTabs = {run}
  CommandTabs = {}
  Iterations = 2
INVARIANTS CallsDoNotOverlap OneJobPerManager RunningTestCanBeStopped TimerStopsUnlessStopped FinalizedOnce AtMostOneLateCall
PROPERTY StartComesBackUnlessRefused
CHECK_DEADLOCK FALSE
