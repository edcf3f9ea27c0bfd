SPECIFICATION FairSpec
INVARIANTS HoldCoversTunnel TruncationIsVisible RecordNamesTheBreak
PROPERTIES TunnelEnds
CHECK_DEADLOCK FALSE
