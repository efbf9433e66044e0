SPECIFICATION FairSpec
CONSTANTS
  Positions <- OnePosition
  SourceLots = 3
  MirrorVolume <- TwoOfThree
  VolumeMin = 1
  Stops <- OneStop
  OpenStops <- OneStop
  CopyStops = TRUE
  MaxFailures = 2
  Faults <- Anything
  MaxModifies = 1
  MaxFaults = 2
INVARIANTS TypeOK OpenedOnce NothingOrphaned NeverClosesMore TableFollowsSource DestIsKnown
PROPERTIES Converges
CHECK_DEADLOCK FALSE
