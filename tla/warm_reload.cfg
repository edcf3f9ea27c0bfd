SPECIFICATION FairSpec
CONSTANTS
  p1 = p1
  p2 = p2
  w1 = w1
  w2 = w2
  Nobody = Nobody
  Routes = {p1}
  Workers = {w1}
  Configs <- SwitchConfigs
  MaxReloads = 1
  MaxEpoch = 3
  MaxBorrows = 1
  MaxFailures = 0
  Expires = FALSE
INVARIANTS DialsLeaveNothing
PROPERTIES NeverTwoBehind StopUnwinds DeficitsAreDialed
CHECK_DEADLOCK FALSE
