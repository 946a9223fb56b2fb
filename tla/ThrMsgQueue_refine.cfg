\* Three threads, ordinary priority only (as pMsgQSend uses it): the deque.
SPECIFICATION Spec
CONSTANTS
  Threads = {t1, t2, t3}
  Msgs = {m1, m2}
  Max = 2
  Prios = {0}
  UMod = 8
  NoMsg = NoMsg
  NoThread = NoThread
SYMMETRY QueueSymmetry
PROPERTY RefinesDeque
CHECK_DEADLOCK FALSE
