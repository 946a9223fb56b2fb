\* Three threads that send, receive and look, with both priorities.
SPECIFICATION FairSpec
CONSTANTS
  Threads = {t1, t2, t3}
  Msgs = {m1}
  Max = 2
  Prios = {0, 1}
  UMod = 8
  NoMsg = NoMsg
  NoThread = NoThread
INVARIANTS TypeOK LockInv SemaphoreInv NeverRefused NoLostWakeup
PROPERTIES ReceiverWakes SenderWakes
\* All threads may be inside calls that wait.
CHECK_DEADLOCK FALSE
