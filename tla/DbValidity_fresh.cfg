\* No query fails: an event at which there is no object yet, and one after it.
SPECIFICATION Spec
CONSTANTS
  MaxTime = 3
  Unset = 2
  MaxFails = 0
INVARIANT AbsentUntilFirstRow
