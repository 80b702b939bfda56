SPECIFICATION Spec
CONSTANTS
  a = a
  b = b
  NULL = NULL
  NoTest = NoTest
  Tests = {a, b}
  Mode <- MCMode
  NumStreams = 1
  Timed = {a, b}
  Omits = {}
  MaxLines = 1
  MaxStops = 1
  MayCut = {}
  MayFail = {}
INVARIANTS CompletedCallIsQuiet DanglingOnlyAfterError StopIsReported
CHECK_DEADLOCK FALSE
