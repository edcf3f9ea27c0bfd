SPECIFICATION FairSpec
CONSTANTS
  Routes = {p1, p2}
  InitialRoutes = {p1}
  IPs = {x, y}
  NoIP = NoIP
  Free = Free
  BootPrecheck = TRUE
  MaxGenerations = 2
  MaxProcedures = 2
  MaxProbes = 2
INVARIANTS SharedEgressIsOvertaken RevisitsWithinRotations StaleUntilCommitted
PROPERTIES LedgerImplemented RevisitIsAReturn ProcedureEnds
CHECK_DEADLOCK FALSE
