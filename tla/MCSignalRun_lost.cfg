SPECIFICATION Spec
CONSTANTS
  NumLegs = 2
  Side = "BUY"
  EntryType = "MARKET"
  SignalSl = 1
  Tp1 = 5
  FillPrice <- Fill3
  MovePrices <- Move2
  Quotes <- Quote9
  Actions <- OnlyBe
  Crosscheck = FALSE
  Faults <- LostOrDied
  MaxMessages = 1
  MaxFaults = 1
  MaxSeq = 8
INVARIANTS OpenedOnce
CHECK_DEADLOCK FALSE
