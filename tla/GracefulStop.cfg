SPECIFICATION Spec
CONSTANTS
  a = a
  NULL = NULL
  NoTest = NoTest
  Tests = {a}
  Mode <- MCMode
  NumStreams = 1
  Timed = {a}
  Omits = {}
  MaxLines = 1
  MaxStops = 1
  MayCut = {}
  MayFail = {}
INVARIANT GracefulStop
CHECK_DEADLOCK FALSE
