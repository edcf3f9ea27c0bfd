SPECIFICATION Spec
CONSTANTS
  Routes = {p1, p2}
  InitialRoutes = {p1, p2}
  IPs = {x, y, z}
  NoIP = NoIP
  Free = Free
  BootPrecheck = FALSE
  MaxGenerations = 2
  MaxProcedures = 2
  MaxProbes = 1
SYMMETRY Symmetry
INVARIANTS UniqueEgress
CHECK_DEADLOCK FALSE
