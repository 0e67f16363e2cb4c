SPECIFICATION FairSpec
CONSTANTS
  Clients = {app, ctl}
  Worker = worker
  NoThread = none
  Submitters = {app}
  Waiters = {app}
  Syncers = {app}
  Suspenders = {ctl}
  Configurers = {}
  Destroyers = {}
  Kinds = {"kernel", "callback"}
  SuspendFlags = {"None"}
  ResumeFlags = {"None"}
  Blocking = {FALSE}
  Level0 = 2
  Threshold0 = 1
  Batch0 = 1
  Levels = {}
  MaxCmds = 2
  MaxPauses = 1
  LaunchConfigs <- NoConfigs
PROPERTIES
  CallsReturn
  BecomesIdle
  ImplementsStream
