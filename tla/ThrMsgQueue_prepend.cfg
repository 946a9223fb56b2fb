\* A high-priority send while the first element is in slot 0.
SPECIFICATION Spec
CONSTANTS
  Threads = {t1, t2}
  Msgs = {m1}
  Max = 2
  Prios = {0, 1}
  UMod = 8
  NoMsg = NoMsg
  NoThread = NoThread
INVARIANT NoFault
CHECK_DEADLOCK FALSE
