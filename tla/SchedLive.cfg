SPECIFICATION FairSpec
CONSTANTS
  p1 = p1
  p2 = p2
  gpu = gpu
  npu = npu
  Handles = {1, 2}
  Pids = {p1, p2}
  Devices = {gpu, npu}
  NoDevice = NoDevice
  PidOf <- MCPidOf
  DeviceOf <- MCDeviceOf
  Nice <- MCNice
  Timeslice = 1
  SliceOf <- MCSliceOf
  Recovery = 1
  Rate <- MCRate
  Policies0 = {"UP", "PUP"}
  NextPolicies = {"UP"}
  Existing = {1, 2}
  Removable = {}
  Configured = {}
  HintsOf <- MCHints
  Bounded = FALSE
  MaxEvents <- MCMaxEvents
  MaxQueue = 1
  MaxTicks = 1
INVARIANT WorkConserving
PROPERTIES EveryoneRuns SetPolicyReturns
CHECK_DEADLOCK FALSE
