--------------------------- MODULE MCRotationDrain ---------------------------
(***************************************************************************)
(* Small instances of RotationDrain for TLC: one manual and one auto       *)
(* route, and a reload that keeps them.                                    *)
(***************************************************************************)
EXTENDS RotationDrain

CONSTANTS a, b, t1      \* routes and a target

NoLabels == [l \in {Empty, Star} |-> l]
MCHostOf == [t \in {t1} |-> NoName]
MCKind   == [p \in Routes |-> "v4"]
MCArrivals == {[target |-> t1, listener |-> "mixed", family |-> "mixed"]}

Plain(routes, retries) ==
  [routes |-> routes, retries |-> retries, ids |-> [p \in Routes |-> Absent], routing |-> Absent]
OneConfig == {Plain(<<a, b>>, 1)}

Curve == INSTANCE Backoff WITH Width <- 8
MCCurve == [n \in 1..MaxStreak |-> Curve!SaturatingCooldown(1, 2, n)]

Granted == [header |-> "granted", bound |-> "whole"]

\* Endpoints without logins that grant everything, or cannot be reached.
UpOrDown ==
  {[tcp |-> t, method |-> "none", login |-> "accepted", reply |-> Granted] : t \in {"up", "down"}}
=============================================================================
