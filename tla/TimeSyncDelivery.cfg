SPECIFICATION DSpec
CONSTANTS
  Nodes = {1, 2, 3}
  Links <- Line132
  HOPS_CNT_MAX = 2
  SCYCLES_TO_KEEP_TIMESRC = 1
  MaxStarts = 1
PROPERTY Converges
