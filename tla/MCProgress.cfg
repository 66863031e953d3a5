SPECIFICATION ProgressSpec
CONSTANTS
  R = 1
  Fallbacks = {TRUE, FALSE}
  WrNodes = {TRUE}
  Expires = {}
  Cap = 1
  MaxFaults = 0
PROPERTIES
  WrCalibrates WrTriesAgain WrMasterReleased FilterConverges WhSettles L1SyncSettles GmOutputs
CHECK_DEADLOCK FALSE
