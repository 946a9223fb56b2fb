SPECIFICATION Spec
CONSTANTS
  top = top  input = input  reader = reader  db = db  tpc = tpc
  calib = calib  hits = hits  monitor = monitor  out = out
  Makers <- MCMakers
  Kids <- MCKids
  Top = top
  Active = {top, input, reader, db, tpc, calib, hits, out}
  Privileged = {reader, input, calib}
  Inputs = {reader}
  Runs = {1, 2}
  Codes = {0, 2, 3}
  Last = 3
  OutMk = TRUE
CHECK_DEADLOCK FALSE
INVARIANTS TypeOK BitsMatchCalls CurrentRunBegun EveryActiveMade FinishOrder
PROPERTIES ImplementsProtocol HaltIsFinal EveryoneFinished
