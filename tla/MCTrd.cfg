CONSTANTS
  TRD_SEQNO_LAST = 12
  TRD_SEQNO_WRAP_WINDOW = 4
  TRD_NODE_ENTRIES = 1
  TRD_CACHE_ENTRIES_PER_NODE = 3
  TRD_AGE_IGNORE_OLD = 2
  TRD_AGE_NO_SUMMARY = 3
  TRD_AGE_DELETE_OLD = 4
  TRD_AGE_MAX = 6
  TRD_FAST_RETX_COUNT = 1
  MAX_INIT_LOOPS = 2
  Nodes = {1, 2, 3}
  Origin = 1
  MaxInFlight = 1
  Scenarios <- MCScenarios
SPECIFICATION MCFairSpec
INVARIANTS
  HandedUpInOrder
  OnlyWholeTasks
  CacheServes
PROPERTY
  CatchesUp
