SPECIFICATION FairSpec
CONSTANTS
  MaxLevel = 1
  Lit = {1}
INVARIANTS TypeOK NoLostWakeUp IndicationTimed
PROPERTIES BatteryShown BladeFollows GemFollows KeepsBlinking WaitLedsOffEnds
