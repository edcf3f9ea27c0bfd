--------------------------- MODULE MCRequestChain ---------------------------
(***************************************************************************)
(* Small instances of RequestChain for TLC: a configuration without a      *)
(* policy, one with two rules that meet in a target, and one that gives a  *)
(* name to another route, drops a route and brings a new one.              *)
(***************************************************************************)
EXTENDS RequestChain, TLC

CONSTANTS a, b, c,      \* routes
          t1, t2,       \* targets: the host www.com, and an address
          www, com,     \* labels
          x, y          \* route ids

MCLabel == {www, com, Empty, Star}
MCLower == [l \in MCLabel |-> l]
MCGood  == {www, com}

MCHostOf == [t \in {t1, t2} |-> IF t = t1 THEN <<www, com>> ELSE NoName]
MCKind   == [p \in Routes |-> IF p = b THEN "v6" ELSE "v4"]

Arrival(t, listener, family) == [target |-> t, listener |-> listener, family |-> family]

\* A mixed listener, one that serves v4 routes only, and a v6 request.
MCArrivals ==
  {Arrival(t1, "mixed", "mixed"), Arrival(t2, "v4", "mixed"), Arrival(t1, "mixed", "v6")}

Curve == INSTANCE Backoff WITH Width <- 8

\* cooldown.base = 1, cooldown.max = 2.
MCCurve == [n \in 1..MaxStreak |-> Curve!SaturatingCooldown(1, 2, n)]

Rule(name, ids) == [domains |-> <<name>>, routes |-> ids]

Plain ==
  [routes |-> <<a, b>>, retries |-> 2, ids |-> [p \in Routes |-> Absent], routing |-> Absent]

Ruled ==
  [routes |-> <<b, a>>, retries |-> 2, ids |-> [p \in Routes |-> IF p = a THEN x ELSE y],
   routing |-> [rules |-> <<Rule(<<Star, com>>, <<x>>), Rule(<<www, com>>, <<y>>)>>,
                defaults |-> <<x, y>>]]

Renamed ==
  [routes |-> <<a, c>>, retries |-> 1, ids |-> [p \in Routes |-> IF p = c THEN x ELSE y],
   routing |-> [rules |-> <<Rule(<<www, com>>, <<y>>)>>, defaults |-> <<x, y>>]]

MCConfigs == {Plain, Ruled, Renamed}

\* The requests are interchangeable.
Symmetry == Permutations(Requests)
=============================================================================
