SPECIFICATION FairSpec
CONSTANTS
  RXTABLE_SZ = 2
  Types = {0, 1, 4}
  TYPE_CNT = 4
  NearTypes = {1}
  None = None
  Bad = Bad
  RadioPresent = TRUE
CHECK_DEADLOCK FALSE
INVARIANTS TypeOK StandbyRadioOff NoLostWakeUp
PROPERTIES ImplementsPresence WatchdogFed
