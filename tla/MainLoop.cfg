SPECIFICATION FairSpec
CONSTANTS
  QueueLen = 2
  LongPolls = 2
INVARIANTS TypeOK OneEventPerPress WakePressIsOver FreshPinEvents
PROPERTIES LightsSettle WatchdogFed DeadBatterySleeps
