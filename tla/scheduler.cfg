SPECIFICATION FairSpec
CONSTANTS
  Ids <- MCIds
  Limit = 50
  InPercent = TRUE
  MaxObjects <- MCObjects
  MaxStarts <- MCStarts
INVARIANTS OneProcedurePerRoute SlotsAreOwned
PROPERTIES CapHonest RemovedRoutesAreForgotten StopQuiesces
CHECK_DEADLOCK FALSE
