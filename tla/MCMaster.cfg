SPECIFICATION MCFairSpec
CONSTANTS
  TR_MAX_SEQNO = 12
  TR_VALID_RANGE = 4
  U16 = 20
  Tids = {t1}
  Addrs = {1, 2}
  STR_NACK_MLIST_LEN = 2
  MAX_TIMEOUT_COUNT = 2
  MaxIndex = 14
  Gap = 2
  Late = 2
  Lag <- MCLag
INVARIANTS
  TypeOK
  NothingForgotten
  MissingIsChased
  PlistSorted
PROPERTIES
  DeliversInOrder
  EndingIsDeleted
CHECK_DEADLOCK FALSE
