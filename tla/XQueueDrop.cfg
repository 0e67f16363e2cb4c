SPECIFICATION Spec
CONSTANTS
  Clients = {app, ctl}
  Worker = worker
  NoThread = none
  Submitters = {app}
  Waiters = {}
  Syncers = {app}
  Suspenders = {ctl}
  Configurers = {}
  Destroyers = {}
  Kinds = {"kernel", "copy"}
  SuspendFlags = {"None", "Sync"}
  ResumeFlags = {"None", "Drop"}
  Blocking = {FALSE}
  Level0 = 2
  Threshold0 = 2
  Batch0 = 1
  Levels = {}
  MaxCmds = 3
  MaxPauses = 1
  LaunchConfigs <- NoConfigs
INVARIANT
  TypeOK
PROPERTIES
  NeverGoesBack
  SettledQuiet
