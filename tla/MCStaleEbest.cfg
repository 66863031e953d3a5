SPECIFICATION Spec
CONSTANTS
  NR = 2
  SingleFmaster = FALSE
  N = 1
  ClockId = 5
  Qualities <- MCQuality
  GmLockedClass = FALSE
  SlaveOnly = FALSE
  MasterOnly = {}
  EPC = FALSE
  DesiredState <- MCDesired
  P2P = {}
  GmDelay = FALSE
  Flaky = {}
  Steady = {}
  Announces <- OneMaster
  Loops = {}
  Phantoms <- MCPhantoms
INVARIANT EbestHasErbest
