\* A job that cleans by age and one that cleans by default; two faults.
SPECIFICATION FairSpec
CONSTANTS
  job1 = job1  job2 = job2
  Procs = {job1, job2}
  Keys = {q1}
  GlobalLock = lock
  Nobody = nobody
  Policy <- BothCleanups
  MaxTries = 1
  MaxFaults = 2
INVARIANTS TypeOK GlobalLockExcludes KeptWhole ServedWhole
PROPERTY QueryReturns
