SPECIFICATION FairDrainSpec
CONSTANTS
  a = a
  b = b
  t1 = t1
  Empty = Empty
  Star = Star
  Absent = Absent
  NoName = NoName
  NoRouter = NoRouter
  Unrestricted = Unrestricted
  Label = {Empty, Star}
  Lower <- NoLabels
  Good = {}
  MaxLabels = 1
  RouteIds = {}
  Routes = {a, b}
  Manual = {a}
  Targets = {t1}
  Requests = {r1, r2}
  NoRoute = NoRoute
  NoRequest = NoRequest
  NoAnchor = NoAnchor
  Arrivals <- MCArrivals
  HostOf <- MCHostOf
  Kind <- MCKind
  Configs <- OneConfig
  MaxGenerations = 2
  MaxStreak = 2
  CooldownAfter <- MCCurve
  MaxTrackedPairs = 1
  Endpoints <- UpOrDown
  MaxTime = 0
  MaxProcedures = 2
INVARIANTS DrainIsAlmostTight RotatingIsOwned
PROPERTIES RotationEnds ChainEnds
CHECK_DEADLOCK FALSE
