SPECIFICATION LinksSpec
CONSTANTS
  R = 1
  Fallbacks = {TRUE, FALSE}
  WrNodes = {TRUE, FALSE}
  Expires = {"S"}
  Cap = 1
  MaxFaults = 2
  OneStep = {}
  DxModes <- LinkModes
  MaxReqs = 2
  MaxSyncs = 2
  MaxFlight = 2
  MaxChanges = 1
  MaxDxFaults = 1
  
PROPERTY FreshSyncEachTime
CHECK_DEADLOCK FALSE
