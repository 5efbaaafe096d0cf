SPECIFICATION FairSpec
CONSTANTS
  Nodes = {1, 2, 3}
  Links <- Line
  HOPS_CNT_MAX = 4
  SCYCLES_TO_KEEP_TIMESRC = 4
  MaxStarts = 1
INVARIANTS TypeOK SourceTruthful
PROPERTIES NeverWorse GhostFlushed
