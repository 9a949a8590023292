SPECIFICATION FairSpec
CONSTANTS
  TR_MAX_SEQNO = 16
  TR_VALID_RANGE = 3
  U16 = 24
  t1 = t1
  t2 = t2
  a1 = a1
  a2 = a2
  Tids = {t1, t2}
  Addrs = {a1, a2}
  RCRT_MAX_ALIVE_TIMEOUT = 2
  MAX_AHEAD = 4
  MaxIndex = 18
  Junk = {0, 1000}
  Losses = {20, 60}
  Budgets <- MCBudgets
  FallsShort <- MCFallsShort
INVARIANTS
  GapsAreChased
PROPERTIES
  SharesAreSound
  DeliversInOrder
  ClosingEnds
CHECK_DEADLOCK FALSE
