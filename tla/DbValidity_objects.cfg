\* Every set of rows and of files that begin at one of four times.
SPECIFICATION Spec
CONSTANTS
  MaxTime = 4
  Unset = 3
  MaxFails = 1
INVARIANTS TypeOK Current LatestOfItsSource AsIfFreshWhenComplete
