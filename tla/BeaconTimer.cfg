SPECIFICATION Spec
CONSTANTS
  TIMESLOT_DUR_TICKS = 6
  RSLOT_CNT = 6
  RCYCLE_CNT = 3
  ZERO_ID_INCREMENT = 3
  TX_DUR_TICS = 2
  IDs = {0, 1, 2}
  Heard = {0, 1, 2}
  Latency = 2
  TickInAdjust = FALSE
INVARIANTS TypeOK EverySlotServed ListensInCycle0 NoFlagLost
PROPERTY SendsInOwnSlot
