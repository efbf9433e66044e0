SPECIFICATION FairSpec
CONSTANTS
  Lots = 3
  Stops <- OneStop
  Faults <- Expected
  MaxChanges = 5
  MaxStops = 1
  MaxFaults = 1
INVARIANTS TypeOK NeverToldLess NeverForgotten
PROPERTIES CatchesUp
