SPECIFICATION Spec
CONSTANTS
  Clients = {app, ctl}
  Worker = worker
  NoThread = none
  Submitters = {app}
  Waiters = {}
  Syncers = {app}
  Suspenders = {ctl}
  Configurers = {app}
  Destroyers = {ctl}
  Kinds = {"kernel", "copy"}
  SuspendFlags = {"None"}
  ResumeFlags = {"None"}
  Blocking = {TRUE, FALSE}
  Level0 = 1
  Threshold0 = 2
  Batch0 = 1
  Levels = {2}
  MaxCmds = 3
  MaxPauses = 1
  LaunchConfigs <- SmallerConfig
INVARIANTS
  SettledCompleted
  IdleMeansDone
  InFlightBound
  SuspendedMeansPaused
  DestroyLosesNothing
CHECK_DEADLOCK FALSE
