SPECIFICATION Spec
CONSTANTS
  p1 = p1
  p2 = p2
  w1 = w1
  w2 = w2
  Nobody = Nobody
  Routes = {p1, p2}
  Workers = {w1, w2}
  Configs <- BoundConfigs
  MaxReloads = 1
  MaxEpoch = 1
  MaxBorrows = 0
  MaxFailures = 0
  Expires = FALSE
SYMMETRY Symmetry
PROPERTIES BoundsAcrossReloads
CHECK_DEADLOCK FALSE
