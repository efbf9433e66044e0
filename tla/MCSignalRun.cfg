SPECIFICATION Spec
CONSTANTS
  NumLegs = 2
  Side = "BUY"
  EntryType = "LIMIT"
  SignalSl = 1
  Tp1 = 5
  FillPrice <- Fill3
  MovePrices <- Move2
  Quotes <- Quote9
  Actions <- AllActions
  Crosscheck = FALSE
  Faults <- AnyButLost
  MaxMessages = 1
  MaxFaults = 1
  MaxSeq = 4
INVARIANTS TypeOK NothingOrphaned AnswerIsComing WaitsForItsOwn
PROPERTIES LegsMoveForward
CHECK_DEADLOCK FALSE
