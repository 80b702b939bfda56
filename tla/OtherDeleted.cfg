SPECIFICATION LogSpec
CONSTANTS
  Plans <- MCPlans
  PartSize = 2
  MaxAnalyzed = 2
  Loads = {1, 2}
  Requests = {1, 2}
  MaxLoads = 2
  MaxDialogs = 2
INVARIANT DeletesWhatWasAsked
CHECK_DEADLOCK FALSE
