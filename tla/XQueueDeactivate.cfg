SPECIFICATION Spec
CONSTANTS
  Clients = {app, ctl}
  Worker = worker
  NoThread = none
  Submitters = {app}
  Waiters = {}
  Syncers = {app}
  Suspenders = {ctl}
  Configurers = {}
  Destroyers = {}
  Kinds = {"kernel", "copy", "record"}
  SuspendFlags = {"None"}
  ResumeFlags = {"None"}
  Blocking = {FALSE}
  Level0 = 2
  Threshold0 = 2
  Batch0 = 2
  Levels = {}
  MaxCmds = 3
  MaxPauses = 2
  LaunchConfigs <- NoConfigs
INVARIANTS
  CompletedMeansExecuted
  AtMostOnce
PROPERTIES
  InOrder
  NoLaunchWhilePaused
