CONSTANTS
  BUFSIZE = 8
  MTU = 8
  Room = 1
  Conns = {c1, c2}
  Noise <- MCNoise
  FromBase <- MCFromBase
  FromClients <- MCFromClients
  Arrivals <- MCArrivals
  Budgets <- MCBudgets
SPECIFICATION MCFairSpec
INVARIANTS
  AckedWasGot
  AFaultCostsTwo
PROPERTIES
  Served
CHECK_DEADLOCK FALSE
