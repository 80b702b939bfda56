SPECIFICATION FairSpec
CONSTANTS
  a = a
  NoTest = NoTest
  Tests = {a}
  Mode <- MCMode
  NumStreams = 2
  Timed = {a}
  Omits = {a}
  MayStop = {a}
  MayCut = {a}
  MayInterrupt = {}
  MayFail = {a}
INVARIANTS StreamRolesComplementary NoDesync
PROPERTY ClientReturns ServerFreesUp StopEndsCall
CHECK_DEADLOCK FALSE
