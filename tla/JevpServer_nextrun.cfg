\* -maxevts 1, a run above it, and a second run.
SPECIFICATION FairSpec
CONSTANTS
  Builders <- MCBuilders
  NoFile = NoFile
  Bad = Bad
  Eor = Eor
  live = live
  fileA = fileA
  fileB = fileB
  Files = {live}
  Live = {live}
  Content <- LongContent
  Runs = {1, 2, 3}
  DaqFiles <- NoDaqFiles
  FirstFile = live
  MaxEvts = 1
  Die = FALSE
  ThrottleAlgos = FALSE
  ThrottleTime = 1
  Costs = {0}
  MaxLaunches = 0
PROPERTY NextRunStarts
CHECK_DEADLOCK FALSE
