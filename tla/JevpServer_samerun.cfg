\* -files with two files of one run, and -die.
SPECIFICATION FairSpec
CONSTANTS
  Builders <- MCBuilders
  NoFile = NoFile
  Bad = Bad
  Eor = Eor
  live = live
  fileA = fileA
  fileB = fileB
  Files = {fileA, fileB}
  Live = {}
  Content <- SameRunContent
  Runs = {1, 2, 3}
  DaqFiles <- TwoDaqFiles
  FirstFile = fileA
  MaxEvts = 0
  Die = TRUE
  ThrottleAlgos = FALSE
  ThrottleTime = 1
  Costs = {0}
  MaxLaunches = 0
PROPERTY DiesAtEnd
CHECK_DEADLOCK FALSE
