SPECIFICATION FairSpec
CONSTANTS
  a = a
  NoTest = NoTest
  Tests = {a}
  Mode <- MCMode
  NumStreams = 1
  Timed = {a}
  Omits = {}
  MayStop = {}
  MayCut = {a}
  MayInterrupt = {}
  MayFail = {}
PROPERTY ServerFreesUp
CHECK_DEADLOCK FALSE
