SPECIFICATION Spec
CONSTANTS
  r1 = r1
  r2 = r2
  r3 = r3
  Regions = {r1, r2, r3}
  Size <- MCSize
  Queues = {q1, q2}
  NoQueue = NoQueue
  Priorities = {2}
  PriorityMin <- MCPriorityMin
  Total = 16
  HighPercent = 85
  LowPercent = 50
  EvictLimit = 8
  PrefetchLimit = 0
  DriverUsed = {9, 16}
  MaxCalls = 6
INVARIANT OwnersExist
PROPERTIES PressureRelieved SuspendedFirst WithinShare
CHECK_DEADLOCK FALSE
