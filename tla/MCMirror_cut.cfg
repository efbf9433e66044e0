SPECIFICATION FairSpec
CONSTANTS
  Positions <- OnePosition
  SourceLots = 3
  MirrorVolume <- TwoOfThree
  VolumeMin = 1
  Stops <- OneStop
  OpenStops <- OneStop
  CopyStops = TRUE
  MaxFailures = 3
  Faults <- Cut
  MaxModifies = 0
  MaxFaults = 1
PROPERTIES NoCloseMissed
CHECK_DEADLOCK FALSE
