SPECIFICATION FairSpec
CONSTANTS
  NR = 2
  SingleFmaster = FALSE
  N = 2
  ClockId = 5
  Qualities <- MCQuality
  GmLockedClass = FALSE
  SlaveOnly = FALSE
  MasterOnly = {}
  EPC = FALSE
  DesiredState <- MCDesired
  P2P = {}
  GmDelay = FALSE
  Flaky = {}
  Steady = {}
  Announces <- OneLan
  Loops = {}
  Phantoms <- MCPhantoms
INVARIANT SettledSlaveIsEbest
PROPERTIES DecisionNeverFaults LostMasters
