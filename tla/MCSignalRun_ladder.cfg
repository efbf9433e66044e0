SPECIFICATION Spec
CONSTANTS
  NumLegs = 4
  Side = "BUY"
  EntryType = "MARKET"
  SignalSl = 1
  Tp1 = 5
  FillPrice <- Fill3
  MovePrices <- Move2
  Quotes <- Quote9
  Actions <- NoActions
  Crosscheck = FALSE
  Faults <- ByHandNoFill
  MaxMessages = 0
  MaxFaults = 1
  MaxSeq = 20
INVARIANTS LadderHasCause StopIsKnown
PROPERTIES StopsMoveOneWay
CHECK_DEADLOCK FALSE
