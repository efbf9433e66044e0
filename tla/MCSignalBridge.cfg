SPECIFICATION CallerFairSpec
CONSTANTS
  c1 = c1
  c2 = c2
  Ids <- TwoIds
  Garbage = Garbage
  None = None
  Faults <- AnswersKept
  MaxLines = 3
  MaxCrashes = 2
  MaxFaults = 2
  MaxDeaths = 1
INVARIANTS TypeOK NoCommandSkipped RepeatsNeedCrashes OneResultPerCommand NoAnswerSkipped
PROPERTIES AnsweredIsFinal AnswersInOrder EveryLineActedOn
CHECK_DEADLOCK FALSE
