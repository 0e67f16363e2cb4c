SPECIFICATION Spec
CONSTANTS
  p1 = p1
  p2 = p2
  gpu = gpu
  npu = npu
  Handles = {1, 2, 3}
  Pids = {p1, p2}
  Devices = {gpu, npu}
  NoDevice = NoDevice
  PidOf <- MCPidOf
  DeviceOf <- MCDeviceOf
  Nice <- MCNice
  Timeslice = 1
  SliceOf <- MCSliceOf
  Recovery = 1
  Rate <- MCRate
  Policies0 = {"HPF", "HHPF", "CHPF", "LAX", "KEDF", "IAH", "AWF", "CFS", "SLO", "MLFQ"}
  NextPolicies = {"HPF"}
  Existing = {1, 2, 3}
  Removable = {3}
  Configured = {3}
  HintsOf <- MCHints
  Bounded = TRUE
  MaxEvents <- MCMaxEvents
  MaxQueue = 2
  MaxTicks = 2
INVARIANTS StatusConsistent   HighestFirst
  OneAtATime FairRuntime WakeupPending SliceKept
CHECK_DEADLOCK FALSE
