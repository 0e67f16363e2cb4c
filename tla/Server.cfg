SPECIFICATION ServerSpec
CONSTANTS
  p1 = p1
  p2 = p2
  gpu = gpu
  Handles = {1, 2}
  Pids = {p1, p2}
  Devices = {gpu}
  NoDevice = NoDevice
  PidOf <- MCPidOf
  DeviceOf <- MCDeviceOf
  Nice <- MCNice
  Timeslice = 1
  SliceOf <- MCSliceOf
  Recovery = 1
  Rate <- MCRate
  Policies0 = {"HPF"}
  NextPolicies = {}
  Existing = {1, 2}
  Removable = {2}
  Configured = {}
  HintsOf <- MCHints
  Bounded = TRUE
  MaxEvents <- MCMaxEvents
  MaxQueue = 4
  MaxTicks = 0
  Joined0 <- MCJoined
  Mortal = {p2}
  MaxJoins = 1
  MaxChan = 2
INVARIANTS DeadForgotten ClientsServed SurvivorsRun
CHECK_DEADLOCK FALSE
