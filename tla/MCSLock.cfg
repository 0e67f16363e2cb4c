SPECIFICATION FairSpec
CONSTANTS
  Threads = {t1, t2, t3}
  Locks = {l1, l2}
  None = none
  MaxTickets = 3
INVARIANTS
  Exclusion
  InTurn
  NodesLeft
PROPERTIES
  LockReturns
CHECK_DEADLOCK FALSE
