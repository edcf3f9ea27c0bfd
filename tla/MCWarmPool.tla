----------------------------- MODULE MCWarmPool -----------------------------
(***************************************************************************)
(* Small instances of WarmPool for TLC.                                    *)
(***************************************************************************)
EXTENDS WarmPool, TLC

CONSTANTS p1, p2, w1, w2

Large    == [enabled |-> TRUE, minIdle |-> 2, maxIdle |-> 2, maxTotal |-> 3,
             maxDials |-> 2, perRoute |-> 1]
Small    == [enabled |-> TRUE, minIdle |-> 1, maxIdle |-> 1, maxTotal |-> 1,
             maxDials |-> 1, perRoute |-> 0]
Disabled == [Small EXCEPT !.enabled = FALSE]
Tight    == [Small EXCEPT !.perRoute = 1]
Wide     == [Large EXCEPT !.maxTotal = 2, !.perRoute = 2]

\* Every cap of Large binds with two routes; a reload between Tight and Wide
\* lowers or raises every bound.
BoundConfigs == {Tight, Wide, Large}

\* A reload of one route switches the pool off and on.
SwitchConfigs == {Small, Disabled}

Symmetry == Permutations(Workers) \cup Permutations(Routes)
=============================================================================
