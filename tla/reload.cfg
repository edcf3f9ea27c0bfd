SPECIFICATION FairSpec
CONSTANTS
  com = com
  api = api
  API = API
  id1 = id1
  id2 = id2
  e1 = e1
  E1 = E1
  e2 = e2
  Empty = Empty
  Star = Star
  Absent = Absent
  Malformed = Malformed
  NoName = NoName
  NoRouter = NoRouter
  Unrestricted = Unrestricted
  Unreadable = Unreadable
  Label <- MCLabel
  Lower <- MCLower
  Good <- MCGood
  MaxLabels = 3
  RouteIds = {id1, id2}
  Spelling = {e1, E1, e2, Malformed}
  Canonical <- MCCanonical
  Contents <- MCContents
  MaxEdits = 3
INVARIANTS ServedIsServable ReloadsAreChanges
PROPERTIES StableFileIsServed
CHECK_DEADLOCK FALSE
