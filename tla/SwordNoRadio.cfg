SPECIFICATION FairSpec
CONSTANTS
  RXTABLE_SZ = 1
  Types = {1, 4}
  TYPE_CNT = 4
  NearTypes = {1}
  None = None
  Bad = Bad
  RadioPresent = FALSE
CHECK_DEADLOCK FALSE
PROPERTY WatchdogFed
