SPECIFICATION Spec
CONSTANTS
  Channels <- OneEntry
  MaxMessages = 1
  PollLimit = 1
  MaxRestarts = 0
  Signal <- BuyNow
  Config <- Settings
  Quotes <- Moving
  EntryCrosscheck = TRUE
  Readings <- SomeReadings
  MaxOpenSignals = 1
  MaxLegsOpen = 3
  MaxDeaths = 1
PROPERTIES RunsAreKept
CHECK_DEADLOCK FALSE
