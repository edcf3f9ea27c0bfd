------------------------------ MODULE RoutePool ------------------------------
(***************************************************************************)
(* The shared route pool of internal/pool/pool.go: selection order,        *)
(* the two cooldown scopes, authentication blocks and the in-flight holds. *)
(*                                                                         *)
(* The module declares the state the pool keeps about every route and one  *)
(* action per pool operation.  An action constrains only the variables the *)
(* operation writes; the module that composes it with its callers says     *)
(* what else stays unchanged.                                              *)
(*                                                                         *)
(* Abstractions.  Time is a discrete monotonic clock (relNanos).  Streaks  *)
(* are counted up to MaxStreak, where the saturating curve is flat.  A     *)
(* scan of the entries reads all of them in one instant.                   *)
(*                                                                         *)
(* A definition X_Fault is the code of X with a bug in it.  No behaviour   *)
(* uses it; each shows that the properties notice the bug.                 *)
(***************************************************************************)
EXTENDS Naturals, Sequences, FiniteSets

CONSTANTS
  Routes,           \* the *Proxy objects of all pool generations
  Targets,          \* CONNECT targets (the host:port key of a pair)
  MaxStreak,        \* streaks are counted up to here
  CooldownAfter,    \* CooldownAfter[n]: cooldown applied after n failures
  MaxTrackedPairs,  \* maxTrackedTargetPairs, per route
  NoRoute           \* the nil *Proxy

ASSUME RoutesAssumption ==
  /\ IsFiniteSet(Routes)
  /\ NoRoute \notin Routes

ASSUME CurveAssumption ==
  /\ MaxStreak \in Nat \ {0}
  /\ CooldownAfter \in [1..MaxStreak -> Nat \ {0}]
  /\ MaxTrackedPairs \in Nat \ {0}

VARIABLES
  now,                  \* the monotonic clock
  pass,                 \* pass[p]: recency pass
  inFlight,             \* inFlight[p]: holds taken by PickFor and not released
  cooldownUntil,        \* cooldownUntil[p]: route deadline, 0 when none
  consecutiveFailures,  \* consecutiveFailures[p]: route failure streak
  authBlocked,          \* authBlocked[p]
  rotating,             \* rotating[p]: held out of picks by a procedure
  pairs                 \* pairs[p][t]: the (route, target) cooldown

dialHealth == <<cooldownUntil, consecutiveFailures>>
health     == <<dialHealth, authBlocked, pairs>>
poolVars   == <<now, pass, inFlight, health, rotating>>

\* The absence of an entry in a route's targetCool map.
NoPair == [deadline |-> 0, consecutive |-> 0]
Pair   == [deadline : Nat, consecutive : 0..MaxStreak]

PoolTypeOK ==
  /\ now \in Nat
  /\ pass \in [Routes -> Nat]
  /\ inFlight \in [Routes -> Nat]
  /\ cooldownUntil \in [Routes -> Nat]
  /\ consecutiveFailures \in [Routes -> 0..MaxStreak]
  /\ authBlocked \in [Routes -> BOOLEAN]
  /\ rotating \in [Routes -> BOOLEAN]
  /\ pairs \in [Routes -> [Targets -> Pair]]

PoolInit ==
  /\ now = 0
  /\ pass = [p \in Routes |-> 0]
  /\ inFlight = [p \in Routes |-> 0]
  /\ cooldownUntil = [p \in Routes |-> 0]
  /\ consecutiveFailures = [p \in Routes |-> 0]
  /\ authBlocked = [p \in Routes |-> FALSE]
  /\ rotating = [p \in Routes |-> FALSE]
  /\ pairs = [p \in Routes |-> [t \in Targets |-> NoPair]]

-----------------------------------------------------------------------------
(* Selection.                                                              *)

\* availableAt: the route may take a new pick, whatever the target.
RouteAvailable(p) == ~authBlocked[p] /\ ~rotating[p] /\ now >= cooldownUntil[p]

\* availableForAt adds the pair scope.
Available(p, t) == RouteAvailable(p) /\ now >= pairs[p][t].deadline

\* effectiveCooldownNano: when p could serve t again.
Deadline(p, t) ==
  IF pairs[p][t].deadline > cooldownUntil[p]
  THEN pairs[p][t].deadline ELSE cooldownUntil[p]

\* p comes no later than q in the pool's entries.
NotAfter(entries, p, q) ==
  \E i, j \in DOMAIN entries : entries[i] = p /\ entries[j] = q /\ i <= j

\* Fault: the configured order alone decides.
FirstMin_OrderOnly(entries, S, key) ==
  CHOOSE p \in S : \A q \in S : NotAfter(entries, p, q)

\* minRecencyPass and the fallback scan: the smallest key, first seen wins.
FirstMin(entries, S, key) ==
  CHOOSE p \in S : \A q \in S : \/ key[p] < key[q]
                                \/ key[p] = key[q] /\ NotAfter(entries, p, q)

\* Fault: no cooling route is picked when every route cools.
PickFor_NoFallback(entries, candidates, t) ==
  LET avail == {p \in candidates : Available(p, t)}
  IN  IF avail = {} THEN NoRoute ELSE FirstMin(entries, avail, pass)

\* PickFor's choice among the candidates left to a request.
PickFor(entries, candidates, t) ==
  LET avail    == {p \in candidates : Available(p, t)}
      fallback == {p \in candidates : ~authBlocked[p] /\ ~rotating[p]}
  IN  CASE avail # {} -> FirstMin(entries, avail, pass)
        [] avail = {} /\ fallback # {} ->
             FirstMin(entries, fallback, [p \in fallback |-> Deadline(p, t)])
        [] OTHER -> NoRoute

-----------------------------------------------------------------------------
(* The operations.                                                         *)

\* serve: one hold plus one step back on the recency clock.
Serve(p) ==
  /\ inFlight' = [inFlight EXCEPT ![p] = @ + 1]
  /\ pass' = [pass EXCEPT ![p] = @ + 1]

\* Fault: the hold is kept.
Release_Kept(p) == UNCHANGED inFlight

\* Release never drives the count below zero.
Release(p) == inFlight' = [inFlight EXCEPT ![p] = IF @ = 0 THEN 0 ELSE @ - 1]

Escalate(n) == IF n < MaxStreak THEN n + 1 ELSE n

\* The pair map of p after a success with t, and after a rotation.
clearTargetCooldown(p, t)  == [pairs EXCEPT ![p][t] = NoPair]
clearAllTargetCooldowns(p) == [pairs EXCEPT ![p] = [t \in Targets |-> NoPair]]

\* Fault: the streak is reset and the deadline is not.
ReportSuccess_StreakOnly(p, t) ==
  /\ consecutiveFailures' = [consecutiveFailures EXCEPT ![p] = 0]
  /\ pairs' = clearTargetCooldown(p, t)
  /\ pass' = [pass EXCEPT ![p] = @ + 1]
  /\ UNCHANGED <<cooldownUntil, authBlocked>>

\* ReportSuccess: route and pair are proven good; one more recency step.
ReportSuccess(p, t) ==
  /\ consecutiveFailures' = [consecutiveFailures EXCEPT ![p] = 0]
  /\ cooldownUntil' = [cooldownUntil EXCEPT ![p] = 0]
  /\ pairs' = clearTargetCooldown(p, t)
  /\ pass' = [pass EXCEPT ![p] = @ + 1]
  /\ UNCHANGED authBlocked

\* ReportFailure: an endpoint dial or handshake failure cools the route.
ReportFailure(p) ==
  LET streak == Escalate(consecutiveFailures[p])
  IN  /\ consecutiveFailures' = [consecutiveFailures EXCEPT ![p] = streak]
      /\ cooldownUntil' = [cooldownUntil EXCEPT ![p] = now + CooldownAfter[streak]]
      /\ UNCHANGED <<authBlocked, pairs, pass>>

Tracked(p) == {t \in Targets : pairs[p][t].consecutive > 0}
Expired(p) == {t \in Tracked(p) : now >= pairs[p][t].deadline}

\* evictTargetPair: any expired pair (map order decides), else one that
\* recovers soonest.
Evictable(p) ==
  IF Expired(p) # {} THEN Expired(p)
  ELSE {t \in Tracked(p) : \A u \in Tracked(p) :
                              pairs[p][t].deadline <= pairs[p][u].deadline}

\* A refusal of t would grow the map of p beyond its cap.
PairsFull(p, t) == t \notin Tracked(p) /\ Cardinality(Tracked(p)) >= MaxTrackedPairs

\* Fault: the refusal of one target cools the route for every target.
ReportTargetFailure_AllTargets(p, t) ==
  LET streak == Escalate(pairs[p][t].consecutive)
      cooled == [deadline |-> now + CooldownAfter[streak], consecutive |-> streak]
  IN  /\ pairs' = [pairs EXCEPT ![p] = [u \in Targets |-> cooled]]
      /\ UNCHANGED <<dialHealth, authBlocked, pass>>

\* ReportTargetFailure: a refused CONNECT cools the (route, target) pair.
ReportTargetFailure(p, t) ==
  LET streak == Escalate(pairs[p][t].consecutive)
      cooled == [deadline |-> now + CooldownAfter[streak], consecutive |-> streak]
  IN  /\ \/ /\ ~PairsFull(p, t)
            /\ pairs' = [pairs EXCEPT ![p][t] = cooled]
         \/ /\ PairsFull(p, t)
            /\ \E u \in Evictable(p) :
                 pairs' = [pairs EXCEPT ![p] = [@ EXCEPT ![u] = NoPair, ![t] = cooled]]
      /\ UNCHANGED <<dialHealth, authBlocked, pass>>

\* ReportAuthBlocked: no cooldown; only a replaced route serves again.
ReportAuthBlocked(p) ==
  /\ authBlocked' = [authBlocked EXCEPT ![p] = TRUE]
  /\ UNCHANGED <<dialHealth, pairs, pass>>

=============================================================================
