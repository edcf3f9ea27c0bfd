------------------------- MODULE MCRotationScheduler -------------------------
(***************************************************************************)
(* Small instances of RotationScheduler for TLC.                           *)
(***************************************************************************)
EXTENDS RotationScheduler

MCIds == 1..2

\* Route 1 is replaced once, route 2 competes for the slot.
MCObjects == <<2, 1>>

\* The replacement may have a second procedure.
MCStarts == [o \in Objects |-> o[2]]
=============================================================================
