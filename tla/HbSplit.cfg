SPECIFICATION Spec
CONSTANTS
  t1 = t1
  t2 = t2
  MaxLength = 4
  Threads = {t1, t2}
  Plans <- MCPlans
  Modes = {"NATIVE", "HB_FIXED"}
  SplitCounts = {1, 2, 3, 5}
  StrictModes = {TRUE, FALSE}
  Levels = {1, 2}
  Threshold0 = 2
INVARIANTS
  ExecutedOnce
  PreemptionDelay
  GroupsReleased
CHECK_DEADLOCK FALSE
