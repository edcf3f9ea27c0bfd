SPECIFICATION FairSpec
CONSTANTS
  mixed = mixed
  v4 = v4
  c1 = c1
  c2 = c2
  c3 = c3
  Listeners = {mixed, v4}
  Conns = {c1, c2, c3}
  On <- MCOn
  Grace = 3
  ReadinessPropagation = 5
  ForceCloseWait = 1
INVARIANTS UnreadyBeforeClose ShutdownIsFinal BudgetKept
PROPERTIES ShutdownCompletes
CHECK_DEADLOCK FALSE
