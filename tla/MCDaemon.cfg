SPECIFICATION FairSpec
CONSTANTS
  Fds = {f1, f2}
  Sessions = {1, 2}
  MAX_TID = 3
  Motes = {a1, a2}
  BCAST = bcast
  PTR_MAX_NUM_RETX = 1
  TCMP_DEFAULT_NUM_PING = 2
  TCMP_DEFAULT_NUM_TRACERT = 1
  MaxBox = 2
  Budgets <- MCBudgets
INVARIANTS
  Answers
  RunningIsBound
  CloseIsFinal
PROPERTIES
  TidsNotReused
  ProbeEnds
CHECK_DEADLOCK FALSE
