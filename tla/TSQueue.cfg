CONSTANTS
  t1 = t1
  t2 = t2
  Threads = {t1, t2}
  Nodes = {n1, n2, n3}
  NULL = NULL
  END = END
  MaxItems = 3
  MaxEmpty = 1
SPECIFICATION FairSpec
INVARIANTS TypeOK CountsItems PushedIsReachable EmptyIfNone
PROPERTIES ImplementsFifo CallsReturn
CHECK_DEADLOCK FALSE
