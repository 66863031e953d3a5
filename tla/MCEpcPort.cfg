SPECIFICATION Spec
CONSTANTS
  NR = 2
  SingleFmaster = FALSE
  N = 2
  ClockId = 5
  Qualities <- MCQuality
  GmLockedClass = FALSE
  SlaveOnly = FALSE
  MasterOnly = {}
  EPC = TRUE
  DesiredState <- EpcFollower
  P2P = {}
  GmDelay = FALSE
  Flaky = {}
  Steady = {}
  Announces <- Nobody
  Loops <- LoopBack
  Phantoms <- MCPhantoms
INVARIANT EpcAcceptsOtherPorts
