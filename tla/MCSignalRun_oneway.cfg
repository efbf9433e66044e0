SPECIFICATION Spec
CONSTANTS
  NumLegs = 2
  Side = "BUY"
  EntryType = "MARKET"
  SignalSl = 1
  Tp1 = 5
  FillPrice <- Fill3
  MovePrices <- Move2
  Quotes <- Quote9
  Actions <- MoveBe
  Crosscheck = FALSE
  Faults <- NoFaults
  MaxMessages = 2
  MaxFaults = 0
  MaxSeq = 8
PROPERTIES StopsMoveOneWay
CHECK_DEADLOCK FALSE
