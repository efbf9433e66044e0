SPECIFICATION FairSpec
CONSTANTS
  Channels <- ThreeMessages
  MaxMessages = 3
  PollLimit = 1
  MaxRestarts = 1
  Signal <- BuyNow
  Config <- Settings
  Quotes <- Moving
  EntryCrosscheck = TRUE
  Readings <- SomeReadings
  MaxOpenSignals = 2
  MaxLegsOpen = 3
  MaxDeaths = 1
INVARIANTS TypeOK WithinLimits ActsOnEarlierRuns
PROPERTIES NothingOvertakes NotJudgedAgain NotHandledAgain EveryMessageHandled NothingMissed
CHECK_DEADLOCK FALSE
