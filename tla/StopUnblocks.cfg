SPECIFICATION FairSpec
CONSTANTS
  a = a
  NULL = NULL
  NoTest = NoTest
  Tests = {a}
  Mode <- MCMode
  NumStreams = 1
  Timed = {a}
  Omits = {}
  MaxLines = 1
  MaxStops = 1
  MayCut = {a}
  MayFail = {}
CHECK_DEADLOCK FALSE
PROPERTY StopUnblocks
