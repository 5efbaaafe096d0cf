SPECIFICATION Spec
CONSTANTS
  TIMESLOT_DUR_TICKS = 4
  RSLOT_CNT = 104
  RCYCLE_CNT = 4
  ZERO_ID_INCREMENT = 3
  TX_DUR_TICS = 1
  IDs <- ConfiguredIDs
  Heard = {}
  Latency = 1
  TickInAdjust = FALSE
PROPERTY SlotsAfterCalibration
