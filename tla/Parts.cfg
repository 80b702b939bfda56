SPECIFICATION Spec
CONSTANTS
  Settings <- MCSettings
  MaxTests = 1
  MaxClock = 5
  Grace = 1
  MaxPackets = 3
  MaxDups = 1
  MaxIntervals = 2
  RateSettings <- MCRateSettings
  BlockSize = 2
  Multisend = 2
  RingSize = 2
  LastTick = 4
  MaxBytes = 6
  SocketSettings <- MCSocketSettings
  MaxDescriptors = 12
  MaxOthers = 1
  Typed <- MCTyped
  Forms <- MCForms
  FileSizes = {0, 7}
  MaxParses = 2
  Clients <- MCClients
  MaxServed = 3
  Tests <- MCTests
  MaxCopies = 1
  MaxLost = 1
  Entries <- MCEntries
  Peaks = {0, 90, 120}
  Shares = {0, 100}
  Estimates = {0, 5, 60}
  MaxStarts = 2
  Plans <- MCPlans
  PartSize = 2
  MaxAnalyzed = 2
  Loads = {1, 2}
  Requests = {1}
  MaxLoads = 2
  MaxDialogs = 2
INVARIANTS
  TimersLinked
  LossIsReal
  OmittedLossStaysOmitted
  IntervalsAddUp
  RateKept
  EndsWithQuota
  RateLimitExact
  DescriptorsAccounted
  ReleasedOnce
  AcceptedArgumentsAgree
  ServedAsAsked
  LossWithinTotal
  ReportsAgree
  LoadWithinBounds
  LogsComplete
  CurrentWhenUnchanged
  RowsHaveFiles
  SummaryOfThisLog
PROPERTY TimerSetSpec
CHECK_DEADLOCK FALSE
