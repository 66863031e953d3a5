SPECIFICATION PlatformSpec
CONSTANTS
  Drivers <- NetDrivers
  Vlans <- TwoVlans
  OtherVlan = 30
  Fds = {3, 4, 5}
  MaxFrames = 4
  MaxOwed = 3
  LoopKinds = {"unix", "wrs"}
  LoopPorts = {0, 1}
  Delays = {0, 2, 3}
  Sub = 2
  DefaultDelay = 2
  MaxSkipped = 2
  Chain = 3
  Midnight = 10
  Noon = 18
  Days = 2
  Leaps <- AnyLeap
  MaxLost = 1
  MaxRestarts = 1
  CyclesPerSec = 3
  LowWords = 3
  MaxSweep = 6
  MaxCycles = 30
  Names = {"a", "b", "c"}
  MaxPorts = 2
  OptMax = 2
  VidMax = 3
  VlanSize = 2
  Profiles = {"WR", "HA"}
  Archs = {"unix", "wrs", "sim"}
  Lines <- ConfLines
  MaxLines = 4
  MaxArgs = 1
  DefaultNames <- PortNames
  Hosted = {TRUE, FALSE}
  MaxMemCalls = 3
  CqConfigs <- Qualities
  NodeModes = {"GM", "ABSCAL", "MASTER", "SLAVE"}
  MaxModeSets = 3
  Writers = {"w1"}
  ShReaders = {"r1"}
  MaxUpdates = 3
  Clients = {"c1", "c2", "c3"}
  MaxClients = 2
  FirstFd = 4
  SelectMax = 6
  Functions = {"f"}
  MaxCalls = 2
  MaxConnects = 3
  Wrap = 16
  Ports = {0, 1}
  Own = {"SYNC_SEND"}
  Shared = {"GM_BY_BMCA"}
  Logs <- TimerLogs
  Second = 4
  LogMin <- MinLog
  LogMax = 0
  MaxLate = 1
  TProp = 1
  Jitters = {0, 2}
  Updates = {0, 1}
  SimIntervals <- SimTimes
  IterMax = 2
  MaxSyncs = 4
  MaxPending = 8
INVARIANT FollowUpAfterSync
CHECK_DEADLOCK FALSE
