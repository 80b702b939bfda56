SPECIFICATION Spec
CONSTANTS
  a = a
  b = b
  NoTest = NoTest
  Tests = {a, b}
  Mode <- MCMode
  NumStreams = 1
  Timed = {a, b}
  Omits = {a}
  MayStop = {a}
  MayCut = {}
  MayInterrupt = {b}
  MayFail = {a, NoTest}
INVARIANTS TypeOK OneClientAtATime NoSenderAfterTestEnd
PROPERTY SessionSpec
CHECK_DEADLOCK FALSE
