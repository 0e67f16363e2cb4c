SPECIFICATION Spec
CONSTANTS
  Clients = {app, ctl}
  Worker = worker
  NoThread = none
  Submitters = {app}
  Waiters = {app}
  Syncers = {app}
  Suspenders = {ctl}
  Configurers = {}
  Destroyers = {}
  Kinds = {"kernel"}
  SuspendFlags = {"None"}
  ResumeFlags = {"None"}
  Blocking = {FALSE}
  Level0 = 1
  Threshold0 = 2
  Batch0 = 1
  Levels = {}
  MaxCmds = 3
  MaxPauses = 1
  LaunchConfigs <- NoConfigs
PROPERTIES
  NoLaunchWhilePaused
