\* Every file, a directory that is being written, and the event pool.
SPECIFICATION FairSpec
CONSTANTS
  Length = 4
  Inputs = {"file", "dir", "live"}
  Files <- AllFiles
  Last = 3
  PadChecks = 1
  MaxSkip = 1
  MaxAsk = 2
  MaxOther = 1
INVARIANTS TypeOK NoEventPassedOver OnceInOrder EndIsTold EorMeansAll
PROPERTY ReadsToTheEnd
