SPECIFICATION PacingSpec
CONSTANTS
  Width = 8
  Second = 4
  JitterSteps <- MCJitter
  Intervals <- MCIntervals
  Ceilings <- MCCeilings
  Hints <- MCHints
  MaxRun = 9
INVARIANTS WaitFollowsCurve HintRaisesWait
