SPECIFICATION Spec
CONSTANTS
  a = a
  b = b
  c = c
  t1 = t1
  t2 = t2
  www = www
  com = com
  x = x
  y = y
  Empty = Empty
  Star = Star
  Absent = Absent
  NoName = NoName
  NoRouter = NoRouter
  Unrestricted = Unrestricted
  Label <- MCLabel
  Lower <- MCLower
  Good <- MCGood
  MaxLabels = 2
  RouteIds = {x, y}
  Routes = {a, b, c}
  Targets = {t1, t2}
  Requests = {r1, r2}
  NoRoute = NoRoute
  NoRequest = NoRequest
  NoAnchor = NoAnchor
  Arrivals <- MCArrivals
  HostOf <- MCHostOf
  Kind <- MCKind
  Configs <- MCConfigs
  MaxGenerations = 2
  MaxStreak = 2
  CooldownAfter <- MCCurve
  MaxTrackedPairs = 1
  Endpoints <- Behaviour
  MaxTime = 2
SYMMETRY Symmetry
INVARIANTS HoldsConserved OneDialPerRoute CooldownsSound RoundRobinBalance ServedWithinPolicy
PROPERTIES NoRouteIsHonest RefusalIsolated
CHECK_DEADLOCK FALSE
