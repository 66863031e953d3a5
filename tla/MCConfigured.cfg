SPECIFICATION Spec
CONSTANTS
  NR = 2
  SingleFmaster = FALSE
  N = 3
  ClockId = 5
  Qualities <- MCQuality
  GmLockedClass = FALSE
  SlaveOnly = FALSE
  MasterOnly = {}
  EPC = TRUE
  DesiredState <- EpcDesired
  P2P = {1, 3}
  GmDelay = TRUE
  Flaky = {1, 3}
  Steady = {}
  Announces <- ThreePaths
  Loops <- LoopBack
  Phantoms <- MCPhantoms
INVARIANT EpcHoldsDesiredState
