\* Two files and a stream with -die; clients launch any of them at any time.
SPECIFICATION FairSpec
CONSTANTS
  Builders <- MCBuilders
  NoFile = NoFile
  Bad = Bad
  Eor = Eor
  live = live
  fileA = fileA
  fileB = fileB
  Files = {live, fileA, fileB}
  Live = {live}
  Content <- MCContent
  Runs = {1, 2, 3}
  DaqFiles <- MCDaqFiles
  FirstFile = fileA
  MaxEvts = 0
  Die = TRUE
  ThrottleAlgos = TRUE
  ThrottleTime = 1
  Costs = {0, 3}
  MaxLaunches = 1
INVARIANTS TypeOK HandshakeInv RdrExclusive BuildersSeeCurrentRun ThrottleBound
PROPERTIES WrittenBeforeNext ReaderReleased DiesAtEnd EveryRunWritten
\* The process exits after the last file; a launched file ends in a pause.
CHECK_DEADLOCK FALSE
