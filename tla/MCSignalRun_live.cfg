SPECIFICATION FairSpec
CONSTANTS
  NumLegs = 1
  Side = "BUY"
  EntryType = "MARKET"
  SignalSl = 1
  Tp1 = 5
  FillPrice <- Fill3
  MovePrices <- Move2
  Quotes <- Quote9
  Actions <- StopsAndClose
  Crosscheck = TRUE
  Faults <- LiveFaults
  MaxMessages = 2
  MaxFaults = 2
  MaxSeq = 6
INVARIANTS NothingOrphaned
PROPERTIES DisagreementCloses RunsEnd EndsAreNoticed
CHECK_DEADLOCK FALSE
