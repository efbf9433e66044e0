SPECIFICATION FairSpec
CONSTANTS
  NumLegs = 3
  Side = "BUY"
  EntryType = "MARKET"
  SignalSl = 1
  Tp1 = 5
  FillPrice <- Fill3
  MovePrices <- Move2
  Quotes <- Quote9
  Actions <- NoActions
  Crosscheck = FALSE
  Faults <- NoFaults
  MaxMessages = 0
  MaxFaults = 0
  MaxSeq = 20
PROPERTIES LadderDelivers
CHECK_DEADLOCK FALSE
