SPECIFICATION FairSpec
CONSTANTS
  a = a
  NULL = NULL
  NoTest = NoTest
  Tests = {a}
  Mode <- MCMode
  NumStreams = 1
  Timed = {a}
  Omits = {a}
  MaxLines = 1
  MaxStops = 2
  MayCut = {a}
  MayFail = {a}
INVARIANT WorkersJoinedUnlessStopped
PROPERTY CallReturns
CHECK_DEADLOCK FALSE
