------------------------------ MODULE WarmPool ------------------------------
(***************************************************************************)
(* The warm-connection pool of internal/warmpool/warmpool.go: a sweeper    *)
(* schedules deficits, workers claim and dial them, requests borrow what   *)
(* is parked, and rotations, reloads and Stop take it away again.          *)
(*                                                                         *)
(* Rotations of a route belong to internal/pool/rotation.go; here they are *)
(* the environment: BeginRotation raises the flag, then the epoch, and the *)
(* provider may change the egress address before the flag falls.  A        *)
(* connection carries the stamp the code gives it, and the egress it       *)
(* really left through (which no code can see).                            *)
(*                                                                         *)
(* Abstractions.  wp.mu is a variable only where claimTask reads two route *)
(* atomics under it; any other critical section is one step.  Connections  *)
(* expire in the order they were parked.  A health pause (auth block,      *)
(* cooldown) and the end of a backoff come from the environment.           *)
(* A definition X_Fault is the code of X with a bug in it.                 *)
(***************************************************************************)
EXTENDS Integers, Sequences, FiniteSets

CONSTANTS
  Routes,       \* every *Proxy that ever exists
  Workers,      \* as many replenish workers as any configuration asks for
  Configs,      \* the warm-pool settings of successive generations
  Nobody,       \* no worker holds wp.mu; no request is inside Borrow
  MaxReloads,   \* bound on reloads
  MaxEpoch,     \* bound on rotations per route
  MaxBorrows,   \* bound on borrowed connections
  MaxFailures,  \* bound on failed warm dials
  Expires       \* whether parked connections reach idle-ttl

Settings == [enabled : BOOLEAN, minIdle : Nat, maxIdle : Nat \ {0}, maxTotal : Nat \ {0},
             maxDials : Nat \ {0}, perRoute : Nat]

ASSUME WarmAssumption ==
  /\ IsFiniteSet(Routes) /\ IsFiniteSet(Workers)
  /\ Nobody \notin Routes \cup Workers
  /\ Configs # {} /\ Configs \subseteq Settings
  /\ \A c \in Configs : c.minIdle <= c.maxIdle /\ c.maxIdle <= c.maxTotal
                         /\ c.maxDials <= Cardinality(Workers)
  /\ {MaxReloads, MaxEpoch, MaxBorrows, MaxFailures} \subseteq Nat
  /\ Expires \in BOOLEAN

VARIABLES
  live, cfg, reloads,        \* the published routes and settings; reloads so far
  rotation, epoch, egress,   \* rotation[p], rotationEpoch[p], egress generation
  paused,                    \* routes that are auth-blocked or cooling
  bucket,                    \* bucket[p]: "none", "open" or "deleted"
  ready, pending, flying,    \* ready[p], pending[p], flying[p] of p's bucket
  backoff,                   \* routes whose replenish backoff runs
  authBroken,                \* authBroken[p]: epoch of a broken login, or 0
  mu, wake,                  \* wp.mu, and the wake token
  sweeper, sweepLive, sweepCfg,   \* the sweeper and the snapshot of its pass
  worker, task,              \* worker[w]: its stage; task[w]: its dial
  borrower, borrowed,        \* the request inside Borrow; hand-outs so far
  failures,                  \* failed warm dials so far
  cancelled, stopped         \* Stop cancelled the context; Stop emptied the pool

storeVars  == <<live, cfg, reloads>>
routeVars  == <<rotation, epoch, egress, paused>>
bucketVars == <<bucket, ready, pending, flying, backoff, authBroken>>
sweepVars  == <<sweeper, sweepLive, sweepCfg>>
workVars   == <<worker, task, failures>>
borrowVars == <<borrower, borrowed>>
stopVars   == <<cancelled, stopped>>
vars == <<storeVars, routeVars, bucketVars, mu, wake, sweepVars, workVars, borrowVars, stopVars>>

Conn == [epoch : Nat, egress : Nat]
Task == [route : Routes \cup {Nobody}, epoch : Nat, egress : Nat, cfg : Configs]
WorkerStage == {"off", "gone", "parked", "looking", "stamping", "claimed", "dialing"}

TypeOK ==
  /\ live \subseteq Routes /\ cfg \in Configs /\ reloads \in 0..MaxReloads
  /\ rotation \in [Routes -> {"serving", "flagged", "draining", "rotated"}]
  /\ epoch \in [Routes -> Nat] /\ egress \in [Routes -> Nat]
  /\ paused \subseteq Routes
  /\ bucket \in [Routes -> {"none", "open", "deleted"}]
  /\ ready \in [Routes -> Seq(Conn)]
  /\ pending \in [Routes -> Nat] /\ flying \in [Routes -> Nat]
  /\ backoff \subseteq Routes
  /\ authBroken \in [Routes -> Nat]
  /\ mu \in Workers \cup {Nobody} /\ wake \in BOOLEAN
  /\ sweeper \in {"waiting", "loaded", "off"}
  /\ sweepLive \subseteq Routes /\ sweepCfg \in Configs
  /\ worker \in [Workers -> WorkerStage] /\ task \in [Workers -> Task]
  /\ borrower \in Routes \cup {Nobody} /\ borrowed \in 0..MaxBorrows
  /\ failures \in 0..MaxFailures
  /\ cancelled \in BOOLEAN /\ stopped \in BOOLEAN

NoTask == [route |-> Nobody, epoch |-> 0, egress |-> 0, cfg |-> CHOOSE c \in Configs : TRUE]

\* Start has launched the sweeper, whose first pass launches the workers.
Init ==
  /\ live \in SUBSET Routes \ {{}}
  /\ cfg \in Configs
  /\ reloads = 0
  /\ rotation = [p \in Routes |-> "serving"]
  /\ epoch = [p \in Routes |-> 1]
  /\ egress = [p \in Routes |-> 1]
  /\ paused = {}
  /\ bucket = [p \in Routes |-> "none"]
  /\ ready = [p \in Routes |-> <<>>]
  /\ pending = [p \in Routes |-> 0]
  /\ flying = [p \in Routes |-> 0]
  /\ backoff = {}
  /\ authBroken = [p \in Routes |-> 0]
  /\ mu = Nobody
  /\ wake = FALSE
  /\ sweeper = "waiting"
  /\ sweepLive = {}
  /\ sweepCfg = cfg
  /\ worker = [w \in Workers |-> "off"]
  /\ task = [w \in Workers |-> NoTask]
  /\ borrower = Nobody
  /\ borrowed = 0
  /\ failures = 0
  /\ cancelled = FALSE
  /\ stopped = FALSE

-----------------------------------------------------------------------------
(* Counts and conditions.                                                  *)

\* The sum of f over the routes.
Entries(f) == UNION {{p} \X (1..f[p]) : p \in Routes}
Total(f)   == Cardinality(Entries(f))

\* Orphaned buckets hold nothing, so this is totalIdleLocked.
TotalIdle == Total([p \in Routes |-> Len(ready[p])])

Running(stages) == {w \in Workers : worker[w] \in stages}

Rotating(p) == rotation[p] # "serving"

\* replenishEligibleLocked
Eligible(p) == ~Rotating(p) /\ p \notin paused /\ authBroken[p] = 0 /\ p \notin backoff

-----------------------------------------------------------------------------
(* The environment: reloads, rotations, route health.                      *)

\* Publish: a removed *Proxy never returns.
Reload ==
  /\ reloads < MaxReloads
  /\ reloads' = reloads + 1
  /\ cfg' \in Configs
  /\ \E kept \in SUBSET live,
        fresh \in SUBSET {p \in Routes \ live : bucket[p] = "none" /\ p \notin sweepLive} :
       live' = kept \cup fresh
  /\ UNCHANGED <<routeVars, bucketVars, mu, wake, sweepVars, workVars, borrowVars, stopVars>>

RaiseFlag(p) ==
  /\ rotation[p] = "serving" /\ epoch[p] < MaxEpoch
  /\ rotation' = [rotation EXCEPT ![p] = "flagged"]
  /\ UNCHANGED <<storeVars, epoch, egress, paused, bucketVars, mu, wake, sweepVars, workVars,
                 borrowVars, stopVars>>

RaiseEpoch(p) ==
  /\ rotation[p] = "flagged"
  /\ rotation' = [rotation EXCEPT ![p] = "draining"]
  /\ epoch' = [epoch EXCEPT ![p] = @ + 1]
  /\ UNCHANGED <<storeVars, egress, paused, bucketVars, mu, wake, sweepVars, workVars,
                 borrowVars, stopVars>>

\* The provider hands the route another egress address.
ChangeEgress(p) ==
  /\ rotation[p] = "draining"
  /\ rotation' = [rotation EXCEPT ![p] = "rotated"]
  /\ egress' = [egress EXCEPT ![p] = @ + 1]
  /\ UNCHANGED <<storeVars, epoch, paused, bucketVars, mu, wake, sweepVars, workVars,
                 borrowVars, stopVars>>

\* EndRotation, MarkStale or AbandonRotation.
Return(p) ==
  /\ rotation[p] \in {"draining", "rotated"}
  /\ rotation' = [rotation EXCEPT ![p] = "serving"]
  /\ UNCHANGED <<storeVars, epoch, egress, paused, bucketVars, mu, wake, sweepVars, workVars,
                 borrowVars, stopVars>>

\* A request's report blocks or cools the route, or its pause is over.
Health(p) ==
  /\ paused' = IF p \in paused THEN paused \ {p} ELSE paused \cup {p}
  /\ UNCHANGED <<storeVars, rotation, epoch, egress, bucketVars, mu, wake, sweepVars, workVars,
                 borrowVars, stopVars>>

BackoffOver(p) ==
  /\ p \in backoff
  /\ backoff' = backoff \ {p}
  /\ UNCHANGED <<storeVars, routeVars, bucket, ready, pending, flying, authBroken, mu, wake,
                 sweepVars, workVars, borrowVars, stopVars>>

-----------------------------------------------------------------------------
(* The sweeper.                                                            *)

\* One generation is loaded per pass, before the lock.  The select that waits
\* for the next pass may still pick a tick after the context was cancelled.
SweepLoad ==
  /\ sweeper = "waiting"
  /\ sweeper' = "loaded"
  /\ sweepLive' = live
  /\ sweepCfg' = cfg
  /\ UNCHANGED <<storeVars, routeVars, bucketVars, mu, wake, workVars, borrowVars, stopVars>>

SweepExit ==
  /\ sweeper = "waiting" /\ cancelled
  /\ sweeper' = "off"
  /\ UNCHANGED <<storeVars, routeVars, bucketVars, mu, wake, sweepLive, sweepCfg, workVars,
                 borrowVars, stopVars>>

SweepStopped ==
  /\ sweeper = "loaded" /\ stopped /\ mu = Nobody
  /\ sweeper' = "waiting"
  /\ UNCHANGED <<storeVars, routeVars, bucketVars, mu, wake, sweepLive, sweepCfg, workVars,
                 borrowVars, stopVars>>

\* The subsequence of s at the positions in `at`.
Selected(s, at) ==
  [k \in 1..Cardinality(at) |-> s[CHOOSE i \in at : Cardinality({j \in at : j <= i}) = k]]

\* The parked connections of the route's current epoch.
Fresh(p) == Selected(ready[p], {i \in DOMAIN ready[p] : ready[p][i].epoch = epoch[p]})

\* A shrunken bound drops from the newest.
Trimmed(s, max) == SubSeq(s, 1, IF Len(s) < max THEN Len(s) ELSE max)

\* What a pass leaves parked: epochs, idle-ttl (the `old` oldest), bound.
Swept(p, old) ==
  IF p \in sweepLive /\ sweepCfg.enabled
  THEN Trimmed(SubSeq(Fresh(p), old + 1, Len(Fresh(p))), sweepCfg.maxIdle)
  ELSE <<>>

\* Fault: dials in the air are scheduled again.
Owed_WithoutFlying(p, parked) ==
  IF sweepCfg.minIdle > Len(parked) + pending[p]
  THEN sweepCfg.minIdle - (Len(parked) + pending[p]) ELSE 0

\* The deficit of a bucket; a dial in the air counts as owned.
Owed(p, parked) ==
  LET owned == Len(parked) + pending[p] + flying[p]
  IN  IF sweepCfg.minIdle > owned THEN sweepCfg.minIdle - owned ELSE 0

\* Deficits are scheduled bucket by bucket in map order until the total is
\* reached: all of them, or as many as fit with at most one cut short.
Scheduled(owed, room) ==
  {add \in [Routes -> 0..sweepCfg.minIdle] :
     /\ \A p \in Routes : add[p] <= owed[p]
     /\ add = owed \/ Total(add) = room
     /\ Total(add) <= room
     /\ Cardinality({p \in Routes : 0 < add[p] /\ add[p] < owed[p]}) <= 1}

\* reconcileWorkersLocked: grow the fleet to the configured concurrency.
Launch(want) ==
  \E up \in SUBSET Running({"off"}) :
    /\ Cardinality(up) = IF want > Cardinality(Workers \ Running({"off"}))
                         THEN want - Cardinality(Workers \ Running({"off"})) ELSE 0
    /\ worker' = [w \in Workers |-> IF w \in up THEN "parked" ELSE worker[w]]

\* Fault: a deficit left over from an earlier pass wakes nobody.
Calls_OnlyWhenAdded(p) == pending'[p] > pending[p]

\* Whatever is still pending wakes a worker again, at every pass.
Calls(p) == pending'[p] > 0

SweepPass ==
  /\ sweeper = "loaded" /\ ~stopped /\ mu = Nobody
  /\ sweeper' = "waiting"
  /\ UNCHANGED <<storeVars, routeVars, flying, backoff, mu, sweepLive, sweepCfg, task, failures,
                 borrowVars, stopVars>>
  /\ bucket' = [p \in Routes |-> IF p \in sweepLive THEN "open"
                                 ELSE IF bucket[p] = "open" THEN "deleted" ELSE bucket[p]]
  /\ authBroken' = [p \in Routes |->
                      IF p \in sweepLive /\ authBroken[p] # epoch[p] THEN 0 ELSE authBroken[p]]
  /\ \E old \in [Routes -> IF Expires THEN 0..sweepCfg.maxTotal ELSE {0}] :
       ready' = [p \in Routes |-> Swept(p, old[p])]
  /\ IF sweepCfg.enabled
     THEN LET open  == {p \in sweepLive : Eligible(p)'}
              total == TotalIdle'
              room  == IF sweepCfg.maxTotal > total THEN sweepCfg.maxTotal - total ELSE 0
          IN  /\ \E add \in Scheduled([p \in Routes |->
                              IF p \in open THEN Owed(p, ready'[p]) ELSE 0], room) :
                   pending' = [p \in Routes |-> pending[p] + add[p]]
              /\ wake' = (wake \/ \E p \in open : Calls(p))
              /\ Launch(sweepCfg.maxDials)
     ELSE UNCHANGED <<pending, wake, worker>>

-----------------------------------------------------------------------------
(* The workers.                                                            *)

Move(w, from, to) == worker[w] = from /\ worker' = [worker EXCEPT ![w] = to]

\* Fault: a parked worker only looks at the context when it is woken.
WorkerExit_WhenWoken(w) ==
  /\ wake /\ Move(w, "parked", "gone")
  /\ cancelled
  /\ UNCHANGED <<storeVars, routeVars, bucketVars, mu, wake, sweepVars, task, failures,
                 borrowVars, stopVars>>

\* wp.workers still counts a worker that left because the context is done.
WorkerExit(w) ==
  /\ Move(w, "parked", "gone")
  /\ cancelled
  /\ UNCHANGED <<storeVars, routeVars, bucketVars, mu, wake, sweepVars, task, failures,
                 borrowVars, stopVars>>

\* A worker goes on claiming until it sees the context cancelled.
MoveOn(w, from) == Move(w, from, IF cancelled THEN "parked" ELSE "looking")

Surplus == Cardinality(Workers \ Running({"off"})) > cfg.maxDials

\* A token wakes one worker, which retires when the fleet is too large.
WakeUp(w) ==
  /\ wake /\ mu = Nobody
  /\ \/ ~Surplus /\ MoveOn(w, "parked")
     \/ Surplus /\ Move(w, "parked", "off")
  /\ wake' = FALSE
  /\ UNCHANGED <<storeVars, routeVars, bucketVars, mu, sweepVars, task, failures, borrowVars,
                 stopVars>>

Claimable(p) ==
  /\ bucket[p] = "open" /\ pending[p] > 0 /\ Eligible(p)
  /\ cfg.perRoute = 0 \/ flying[p] < cfg.perRoute

MayClaim ==
  /\ ~stopped /\ cfg.enabled
  /\ TotalIdle < cfg.maxTotal
  /\ Cardinality(Running({"dialing"})) < cfg.maxDials

\* claimTask re-checks every bound under wp.mu ...
ClaimCheck(w, p) ==
  /\ Move(w, "looking", "stamping")
  /\ mu = Nobody
  /\ MayClaim /\ Claimable(p)
  /\ mu' = w
  /\ task' = [task EXCEPT ![w].route = p]
  /\ UNCHANGED <<storeVars, routeVars, bucketVars, wake, sweepVars, failures, borrowVars,
                 stopVars>>

\* ... and then reads the epoch that stamps the dial.
ClaimStamp(w) ==
  LET p == task[w].route IN
  /\ Move(w, "stamping", "claimed")
  /\ pending' = [pending EXCEPT ![p] = @ - 1]
  /\ flying' = [flying EXCEPT ![p] = @ + 1]
  /\ task' = [task EXCEPT ![w].epoch = epoch[p]]
  /\ mu' = Nobody
  /\ UNCHANGED <<storeVars, routeVars, bucket, ready, backoff, authBroken, wake, sweepVars,
                 failures, borrowVars, stopVars>>

ClaimNothing(w) ==
  /\ Move(w, "looking", "parked")
  /\ mu = Nobody
  /\ cancelled \/ ~MayClaim \/ \A p \in Routes : ~Claimable(p)
  /\ UNCHANGED <<storeVars, routeVars, bucketVars, mu, wake, sweepVars, task, failures,
                 borrowVars, stopVars>>

\* Fault: the dial goes by the settings of the last pass.
DialStart_SweepSettings(w) ==
  /\ Move(w, "claimed", "dialing")
  /\ task' = [task EXCEPT ![w].cfg = sweepCfg, ![w].egress = egress[task[w].route]]
  /\ UNCHANGED <<storeVars, routeVars, bucketVars, mu, wake, sweepVars, failures, borrowVars,
                 stopVars>>

\* runDial counts the dial and loads the generation before it dials.
DialStart(w) ==
  /\ Move(w, "claimed", "dialing")
  /\ task' = [task EXCEPT ![w].cfg = cfg, ![w].egress = egress[task[w].route]]
  /\ UNCHANGED <<storeVars, routeVars, bucketVars, mu, wake, sweepVars, failures, borrowVars,
                 stopVars>>

\* Every exit path of runDial returns the task's flying reservation.
Land(p) == flying' = [flying EXCEPT ![p] = @ - 1]

\* The dial fails: a broken login stops warming the route, anything else
\* backs it off.  A cancelled context fails every dial that is not done.
DialFails(w) ==
  LET p == task[w].route IN
  /\ MoveOn(w, "dialing")
  /\ mu = Nobody
  /\ IF cancelled THEN UNCHANGED failures ELSE failures < MaxFailures /\ failures' = failures + 1
  /\ Land(p)
  /\ \/ authBroken' = [authBroken EXCEPT ![p] = epoch[p]] /\ UNCHANGED backoff
     \/ backoff' = backoff \cup {p} /\ UNCHANGED authBroken
  /\ task' = [task EXCEPT ![w] = NoTask]
  /\ UNCHANGED <<storeVars, routeVars, bucket, ready, pending, mu, wake, sweepVars, borrowVars,
                 stopVars>>

Straddled(w) == epoch[task[w].route] # task[w].epoch

\* Fault: a bucket deleted during the dial is not noticed.
NoPlace_Orphan(w) ==
  LET p == task[w].route IN
  \/ stopped \/ ~task[w].cfg.enabled
  \/ Len(ready[p]) >= task[w].cfg.maxIdle \/ TotalIdle >= task[w].cfg.maxTotal

\* The bounds after the dial are those of the generation loaded before it.
NoPlace(w) ==
  LET p == task[w].route IN
  \/ stopped \/ bucket[p] # "open" \/ ~task[w].cfg.enabled
  \/ Len(ready[p]) >= task[w].cfg.maxIdle \/ TotalIdle >= task[w].cfg.maxTotal

\* The fresh connection is closed.
DialDiscarded(w) ==
  /\ MoveOn(w, "dialing")
  /\ mu = Nobody
  /\ Straddled(w) \/ NoPlace(w)
  /\ Land(task[w].route)
  /\ task' = [task EXCEPT ![w] = NoTask]
  /\ UNCHANGED <<storeVars, routeVars, bucket, ready, pending, backoff, authBroken, mu, wake,
                 sweepVars, failures, borrowVars, stopVars>>

\* It is parked.  It left through the egress of some moment of the dial.
DialParked(w) ==
  LET p == task[w].route IN
  /\ MoveOn(w, "dialing")
  /\ mu = Nobody
  /\ ~Straddled(w) /\ ~NoPlace(w)
  /\ Land(p)
  /\ \E e \in task[w].egress..egress[p] :
       ready' = [ready EXCEPT ![p] = Append(@, [epoch |-> task[w].epoch, egress |-> e])]
  /\ backoff' = backoff \ {p}
  /\ task' = [task EXCEPT ![w] = NoTask]
  /\ UNCHANGED <<storeVars, routeVars, bucket, pending, authBroken, mu, wake, sweepVars,
                 failures, borrowVars, stopVars>>

-----------------------------------------------------------------------------
(* Requests and shutdown.                                                  *)

\* Borrow looks at the configuration before it takes wp.mu.
BorrowCheck(p) ==
  /\ borrower = Nobody /\ cfg.enabled /\ borrowed < MaxBorrows
  /\ borrower' = p
  /\ UNCHANGED <<storeVars, routeVars, bucketVars, mu, wake, sweepVars, workVars, borrowed,
                 stopVars>>

\* Fault: a parked connection is handed out whatever its epoch.
Borrowable_AnyEpoch(p) == bucket[p] = "open" /\ ready[p] # <<>>

Borrowable(p) == bucket[p] = "open" /\ ready[p] # <<>> /\ Head(ready[p]).epoch = epoch[p]

BorrowTake(p) ==
  /\ borrower = p /\ mu = Nobody
  /\ Borrowable(p)
  /\ ready' = [ready EXCEPT ![p] = Tail(@)]
  /\ borrowed' = borrowed + 1
  /\ borrower' = Nobody
  /\ UNCHANGED <<storeVars, routeVars, bucket, pending, flying, backoff, authBroken, mu, wake,
                 sweepVars, workVars, stopVars>>

\* A miss; a connection of another epoch is popped and closed on the way.
BorrowMiss(p) ==
  /\ borrower = p /\ mu = Nobody
  /\ ~Borrowable(p)
  /\ ready' = [ready EXCEPT ![p] = IF bucket[p] = "open" /\ @ # <<>> THEN Tail(@) ELSE @]
  /\ borrower' = Nobody
  /\ UNCHANGED <<storeVars, routeVars, bucket, pending, flying, backoff, authBroken, mu, wake,
                 sweepVars, workVars, borrowed, stopVars>>

\* A borrowed connection died: its siblings are closed.
DiscardRoute(p) ==
  /\ mu = Nobody /\ bucket[p] = "open" /\ borrowed > 0
  /\ ready' = [ready EXCEPT ![p] = <<>>]
  /\ UNCHANGED <<storeVars, routeVars, bucket, pending, flying, backoff, authBroken, mu, wake,
                 sweepVars, workVars, borrowVars, stopVars>>

StopCancel ==
  /\ ~cancelled
  /\ cancelled' = TRUE
  /\ UNCHANGED <<storeVars, routeVars, bucketVars, mu, wake, sweepVars, workVars, borrowVars,
                 stopped>>

StopClose ==
  /\ cancelled /\ ~stopped /\ mu = Nobody
  /\ stopped' = TRUE
  /\ ready' = [p \in Routes |-> <<>>]
  /\ pending' = [p \in Routes |-> IF bucket[p] = "open" THEN 0 ELSE pending[p]]
  /\ UNCHANGED <<storeVars, routeVars, bucket, flying, backoff, authBroken, mu, wake, sweepVars,
                 workVars, borrowVars, cancelled>>

-----------------------------------------------------------------------------
Sweep == SweepLoad \/ SweepExit \/ SweepStopped \/ SweepPass

WorkerStep(w) ==
  \/ WorkerExit(w) \/ WakeUp(w) \/ ClaimNothing(w) \/ ClaimStamp(w) \/ DialStart(w)
  \/ DialFails(w) \/ DialDiscarded(w) \/ DialParked(w)
  \/ \E p \in Routes : ClaimCheck(w, p)

RotationStep(p) == RaiseFlag(p) \/ RaiseEpoch(p) \/ ChangeEgress(p) \/ Return(p)

Request(p) == BorrowCheck(p) \/ BorrowTake(p) \/ BorrowMiss(p) \/ DiscardRoute(p)

PoolNext ==
  \/ Sweep
  \/ \E w \in Workers : WorkerStep(w)
  \/ \E p \in Routes : RotationStep(p) \/ Request(p) \/ Health(p) \/ BackoffOver(p)

\* One configuration for ever, with a shutdown; and a program that reloads.
FixedSpec == Init /\ [][PoolNext \/ StopCancel \/ StopClose]_vars
Spec      == Init /\ [][PoolNext \/ Reload \/ StopCancel \/ StopClose]_vars

\* The sweep is level-triggered by a ticker, and workers are goroutines whose
\* dials are bounded by the dial timeout.  A Stop that began runs to its end.
\* A select over a cancelled context and a ready channel picks at random, so
\* it does not pick the channel for ever.
Fairness ==
  /\ WF_vars(Sweep) /\ SF_vars(SweepExit)
  /\ \A w \in Workers : WF_vars(WorkerStep(w)) /\ WF_vars(WorkerExit(w))
  /\ WF_vars(StopClose)

FairSpec == Spec /\ Fairness

-----------------------------------------------------------------------------
(* Correctness.                                                            *)

\* However late a dial ends, nothing is left of it: every claimed dial is one
\* flying reservation that every exit path gives back, also to a bucket
\* deleted meanwhile, and no socket outlives its bucket or a stopped pool
\* (warmpool.go runDial, Stop).
Dialing(p) == {w \in Running({"claimed", "dialing"}) : task[w].route = p}
DialsLeaveNothing ==
  \A p \in Routes : /\ flying[p] = Cardinality(Dialing(p))
                    /\ ready[p] # <<>> => bucket[p] = "open" /\ ~stopped

\* With one configuration the documented bounds hold at every moment: parked
\* per route and in total, dials in total and per route (docs/warm-pool.md,
\* Bounds), and the sweeper never owes a route more than its minimum, parked,
\* scheduled and flying connections together (warmpool.go sweep).
WithinBounds ==
  /\ \A p \in Routes : Len(ready[p]) <= cfg.maxIdle
  /\ TotalIdle <= cfg.maxTotal
  /\ Cardinality(Running({"claimed", "dialing"})) <= cfg.maxDials
  /\ \A p \in Routes : cfg.perRoute > 0 => flying[p] <= cfg.perRoute
  /\ \A p \in Routes : Len(ready[p]) + pending[p] + flying[p] <= cfg.minIdle

\* Across reloads each bound holds as the most generous of the settings has
\* it: what passed its check under one generation is not added to what passed
\* it under another (warmpool.go sweep, claimTask, runDial).
WithinSomeBounds ==
  /\ \A p \in Routes : \E c \in Configs : Len(ready[p]) <= c.maxIdle
  /\ \E c \in Configs : TotalIdle <= c.maxTotal
  /\ \E c \in Configs : Cardinality(Running({"claimed", "dialing"})) <= c.maxDials
  /\ \A p \in Routes : \E c \in Configs : c.perRoute = 0 \/ flying[p] <= c.perRoute
  /\ \A p \in Routes : \E c \in Configs : Len(ready[p]) + pending[p] + flying[p] <= c.minIdle

\* No pass, dial, worker or claim goes by settings from before the last reload.
NothingOlder ==
  /\ sweeper = "loaded" => sweepCfg = cfg
  /\ \A w \in Workers : worker[w] = "dialing" => task[w].cfg = cfg
  /\ Cardinality(Workers \ Running({"off"})) <= cfg.maxDials
  /\ cfg.perRoute > 0 =>
       \A w \in Workers : worker[w] = "stamping" => flying[task[w].route] < cfg.perRoute

\* Lowered bounds are not enforced at once.  But as soon as they hold and what
\* went by older settings is over, they hold until the next reload: nothing
\* remembers the settings that were (warmpool.go sweep, claimTask, runDial).
BoundsReturn ==
  [][WithinBounds /\ NothingOlder /\ cfg' = cfg => WithinBounds' /\ NothingOlder']_vars

\* What remains of the bounds while the settings change, and when all of them
\* are in force again; a program that never reloads is within them throughout.
BoundsAcrossReloads == []WithinSomeBounds /\ BoundsReturn

\* A connection that carries the current epoch was dialed after the rotation
\* that raised it had begun, so a request never gets one more than a single
\* egress address behind (warmpool.go Borrow, rotation.go BeginRotation).
Taken(p) == borrowed' = borrowed + 1 /\ borrower = p
NeverTwoBehind == [][\A p \in Routes : Taken(p) => Head(ready[p]).egress + 1 >= egress[p]]_vars

\* Once Stop began, every worker and the sweeper unwind and nothing is left
\* open (warmpool.go Stop).
StopUnwinds ==
  cancelled ~> /\ stopped /\ sweeper = "off" /\ \A w \in Workers : worker[w] \in {"off", "gone"}
               /\ \A p \in Routes : ready[p] = <<>> /\ flying[p] = 0

\* A dropped wake token costs at most one sweep: what a route is owed does
\* not stay unclaimed while the route stays eligible (warmpool.go wakeNow).
DeficitsAreDialed ==
  \A p \in Routes :
    (pending[p] > 0) ~> \/ pending[p] = 0 \/ cancelled \/ ~cfg.enabled \/ ~Eligible(p)
                        \/ p \notin live \/ TotalIdle >= cfg.maxTotal
=============================================================================
