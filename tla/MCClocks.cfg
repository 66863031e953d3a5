SPECIFICATION ClocksSpec
CONSTANTS
  MaxLen = 3
  NR = 2
  SingleFmaster = FALSE
  N = 2
  ClockId = 5
  Qualities <- SlaveOnlyQuality
  GmLockedClass = FALSE
  SlaveOnly = TRUE
  MasterOnly = {}
  EPC = FALSE
  DesiredState <- MCDesired
  P2P = {}
  GmDelay = FALSE
  Flaky = {1}
  Steady = {}
  Announces <- Crowd
  Loops = {}
  Phantoms <- MCPhantoms
INVARIANTS TypeOK UniqueSources SlaveOnlyNeverMaster SelectionRight
