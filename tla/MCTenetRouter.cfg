CONSTANTS
  Masters <- MCMasters
  Motes <- MCMotes
  Interfaces <- MCInterfaces
  Interface = "wlan0"
  Standalone <- MCStandalone
  IPRT_PER_MRT = 4
  Budgets <- MCBudgets
  MaxPackets = 4
SPECIFICATION MCFairSpec
INVARIANTS
  OneCopy
  RoutesFollowUse
PROPERTIES
  Settles
CHECK_DEADLOCK FALSE
