SPECIFICATION SettleSpec
CONSTANTS
  NR = 2
  SingleFmaster = FALSE
  N = 2
  ClockId = 5
  Qualities <- MCQuality
  GmLockedClass = FALSE
  SlaveOnly = FALSE
  MasterOnly = {}
  EPC = FALSE
  DesiredState <- MCDesired
  P2P = {}
  GmDelay = FALSE
  Flaky = {}
  Steady = {1, 2}
  Announces <- WorseOnLan
  Loops <- BothWays
  Phantoms <- MCPhantoms
INVARIANT NoSelfRecord
PROPERTIES LoopSettles PathsSettle
