# A TLA+ development of rotation-proxy-gateway

The gateway is a Go HTTP forward proxy over a shared pool of SOCKS5 routes. A
route has health (cooldowns, authentication blocks), a place in a recency
order, in-flight holds, and, when it is a *manual* route, a rotation procedure
that asks a provider for another egress address. Half-open upstream connections
are parked in a warm pool. The configuration file is polled, and each accepted
content is published as an immutable generation.

This directory holds the specifications of that behaviour, their bounded checks
with TLC and the proofs checked by TLAPS.

## Inventory

| Component | State it keeps | Operations | Hard behaviour | What makes it correct |
| --- | --- | --- | --- | --- |
| Route pool (`pool/pool.go`) | per route: pass, in-flight count, streak and cooldown, (route, target) pairs, auth block, rotating flag; the pool mutex | `PickFor`, `Release`, `ReportSuccess`, `ReportFailure`, `ReportTargetFailure`, `ReportAuthBlocked`, `Reconfigure` | fields under three regimes: pool mutex, route mutex, atomics | holds balance, streak and deadline agree, the pair map is bounded, a refusal concerns one target, round-robin |
| Attempt chain (`proxyserver/http.go`) | per request: attempts, exclusions, chosen route | deadline, budget, pick, dial, report, release | many chains share the pool | no route twice, every hold released, `no_route` only when honest, termination |
| Rotation of a route (`pool/rotation.go`) | rotating flag, epoch, displayed state, last address, history of addresses | begin, phases, `CommitRotation`, `MarkStale`, `MarkRotated`, `AbandonRotation`, `SetBaselineIP` | runs against picks, other commits, reloads | a drained route has no holders, addresses stay distinct, a flag never stays up |
| Rotation engine (`rotation/*.go`) | due times, active procedures, unchanged runs, totals | evaluate, procedure, verification window, retries, boot precheck | concurrent procedures, abandoned procedures, stale writes | commits are exclusive, retry waits follow the curve, every procedure ends |
| Generations (`pool/generation.go`) | pointer to configuration, pool and routing policy | `Load`, `Publish` | readers keep old generations, and with them old mutexes | nothing is recorded through a pool that is not live |
| Warm pool (`warmpool/warmpool.go`) | per route: parked connections, reservations, dials in the air, backoff; workers, wake token | sweep, claim, dial, `Borrow`, `DiscardRoute`, `Stop` | everything a dial was claimed under may be gone when it completes | bounds, no orphaned socket, returned reservations, epoch isolation, unwinding |
| Sessions, lifecycle, shutdown (`proxyserver/server.go`, `lifecycle.go`, `main.go`) | tracked connections, lifecycle state, shared deadline | accept, drain, force-close, readiness | expiry against completion | readiness falls before any socket closes, nothing outlives the budget |
| Poller and reload loop (`config/poll.go`, `main.go`) | hash of the content seen last, one pending signal | load, poll, signal, read again, publish | edits between any two looks at the file | the last stable content is served, no reload without an edit |
| Runtime configuration (`config/runtime.go`, `config/routing.go`) | none, a pure function of the document | defaults, validation, resolution of the rotation cap | bounds that contradict each other only after defaults | whatever is accepted is what the other components rely on |
| Routing (`routing/routing.go`) | compiled rules | compile, match | names and labels change between generations | first match wins, fails closed |
| SOCKS5 client (`socksdial/*.go`) | a half connection, closed once | dial, negotiate, complete | errors decide which health is touched | each failure has exactly one class |
| Tunnel relay (`proxyserver/relay.go`, `http.go`) | one tunnel: two copying goroutines, two sockets, a channel of results | copy, half-close, reset, record, release | either direction may end first and closes sockets under the other; Shutdown closes from a third side | the hold covers the tunnel, a truncated answer is visible, the record names the break, nothing hangs |
| HTTP and SOCKS parsing, YAML parsing, sanitizing, logging | none, or one request's | I/O and text | — | — |

Interactions: a chain picks from the pool of the generation it loaded, borrows
from the warm pool or dials cold, and reports to the route it holds. A rotation
procedure raises the flag that picks read, waits for the holds that picks take,
and commits through the pool that is live. The warm pool reads flags and epochs
and never writes health. A reload replaces pool and mutex under all of them;
routes whose identity is unchanged are the same objects in both generations. What
a reload may bring is decided by validation, and what validation guarantees is what
the other parts take for granted.

## Modules

| Module | Models | Built on |
| --- | --- | --- |
| `Backoff` | `SaturatingCooldown` in signed integers of a given width, wrap included | — |
| `RetryPacing` | `BackoffFor`, `parseRetryAfter` and the due bookkeeping at the end of `rotate` | `Backoff` |
| `Routing` | host names, patterns, validation of rules, `Compile`, `Match`, `Scope` | — |
| `RuntimeConfig` | which documents `LoadRuntime` accepts, their defaults, `ResolveMaxConcurrent`, and what the program relies on | `Routing` |
| `ConfigReload` | bootstrap load, poller, coalescing channel, reload loop, edits of the file | `RuntimeConfig` |
| `RoutePool` | state and operations of the pool, one operator each | `Routing` |
| `SocksDial` | the stages of a SOCKS5 dial, the warm-first attempt, and the class each behaviour of an endpoint ends in | — |
| `RequestChain` | the attempt chain of `serveTunnel` for any number of requests, over the generations a reload loop publishes | `RoutePool`, `SocksDial` |
| `RotationDrain` | a rotation procedure as the data plane sees it | `RequestChain` |
| `EgressLedger` | abstract specification: who may hold which egress address | — |
| `RotationCommit` | verification, commit, boot precheck and publication | implements `EgressLedger` |
| `RotationScheduler` | the scheduling pass, the slots and flags of procedures, removed and replaced routes, `abortAll` | — |
| `WarmPool` | sweeper, workers, dials, requests, `Stop`, and their environment | — |
| `TunnelRelay` | one established tunnel or forwarded request, from the reply to the end of its session | — |
| `Shutdown` | `run` from readiness on, `shutdownAll`, the lifecycle state and every listener's `Server` | — |
| `MC*` | small instances | the module of that name |
| `NaturalFacts` | finite non-empty sets of naturals have a least and a greatest element | TLAPS |
| `RequestChainProofs` | theorems about `SocksDial`, `RequestChain` and `RotationDrain` | `RotationDrain`, `NaturalFacts` |
| `RotationEngineProofs` | theorems about `RotationScheduler`, `RetryPacing` and `Backoff` | these, `NaturalFacts` |
| `RotationCommitProofs`, `WarmPoolProofs`, `TunnelRelayProofs`, `ConfigReloadProofs`, `ShutdownProofs` | theorems about the module of that name | that module, TLAPS |

A definition named `X_Fault` is the code of `X` with a plausible bug in it. No
specification uses one: each is there to show, by taking the place of `X`, that
a property notices the bug.

### State and steps against the code

*RoutePool.* The variables are the fields of `Proxy`, less its text and statistics; `pairs[p][t]` is an entry of
`targetCool`, `NoPair` its absence. Time is a discrete clock. Streaks are counted
up to `MaxStreak`, from where the saturating curve is flat. `CooldownAfter` is
that curve; the instances compute it with `Backoff`.

*SocksDial.* A behaviour of an endpoint is a record with one answer per stage (TCP,
method choice, login, CONNECT reply). "Broken" stands for every way a stage can
fail to give a well-formed answer in time. A CONNECT reply is its four-byte header
and the bound address behind it; the header alone tells a refusal, and the address is
read only after a grant. The operators carry the names of the
functions and return the error class, or "ok"; `dialWarmFirst` is the attempt of
`server.go`, over a parked connection or without one.

*Routing, RuntimeConfig.* A host name is the sequence of the labels between its
dots, so normalisation (case, one trailing dot) and wildcards do to it what the
code does to the string. A document is a record of what its keys hold: an integer,
`Malformed`, or `Absent` where a default applies. `Accepts` is the conjunction of all
validation; `Servable` gathers the assumptions on constants that the other modules
make of a generation, so that the assumptions are not taken on trust.

*ConfigReload.* Contents stand for their hashes. `main` is where `run` is, from the
bootstrap load over the poller's start to the reload loop; a reload reads the file a
second time, after the poller did. A read may fail while the file is there. `reloads`
counts the reloads tried, loaded or not. Two history variables: `astray`, the loop's
last look met another content than the poller's baseline, or none, and no change was
noticed since; `unseeded`, the poller could not read the file it began with.

*RequestChain.* `pc[r]` is the place of a request in the loop of `serveTunnel`, `gen[r]`
the generation it loaded once. A pick is two steps, `PickScan` and `PickServe`, under
the mutex `poolMu[g]` of that generation's pool: rotations change flags without that
mutex and requests of another generation hold another one, so they may fall in between.
A report and the `Release` after it are one step. The handshake deadline may
have passed at any retry. A dial ends in any of `Outcomes`, which `SocksDial`
computes from the behaviours in `Endpoints`. A request's scope is computed, from the
routing policy of its generation, the kind of its listener and its family.
`Reconfigure` is two steps, `ReadPasses` and `Publish`, because it reads the passes of
the old pool without its mutex; `drift` counts,
as history, the passes given out between the read and the publication, and after it by
requests that still use the older pool. `peak`, history too, is the most requests of the
live generation that ever were between pick and outcome on one route at once.

*RotationDrain.* `phase[p]` is the place of a procedure in `rotate`. `MarkStale` and
the jump to the back of the pool are two steps, as are the two halves of
`MarkRotated`, because the code takes different mutexes for them. The history
variable `late[p]` counts the picks served since the procedure began.

*RotationCommit.* Every generation `g` has a pool `pools[g]` and a mutex `mutex[g]`. The
commit is split at every place where `Publish` or another procedure can get in:
loading the pool, entering the mutex with the three checks, recording and
leaving, the two totals. Addresses are canonical identities and probes may
answer any of them. The verification window is counted in probes.

*RotationScheduler.* The engine's maps are keyed by route id and name route objects, so
an id `i` and its objects `<<i, 1>>`, `<<i, 2>>`, ... are kept apart: a reload that
removes a route and a later one that adds it again make the second object while a
procedure of the first may run on. `due[i]` is reduced to "no entry", "later" and
"now"; `stage[run]` is where a procedure is in `runProcedure` and `rotate`. What the
probes find is nondeterministic, and the drain, verification and commit inside
"rotating" belong to the two modules above. `Evaluate` works on the generation it
loaded before it took `e.mu`.

*Shutdown.* `main` is where the main goroutine is in `shutdownAll`, `server[l]` where
`Server.Shutdown` of a listener is, `session[c]` where a connection is between accept and
the last deferred call of its goroutine. `elapsed` is the time since `shutdownAll` was called; it
advances only while every enabled step is a wait, because the other steps take
no time worth a tick. A session may leave at any moment or never.

*WarmPool.* `bucket[p]` tells whether the bucket of a route exists, was deleted, or
never existed; `flying`, `pending` and `ready` are its fields. A parked
connection carries the epoch the code stamps it with and, as history, the
egress generation it really left through. `wp.mu` is a variable only because
`claimTask` reads the rotating flag and the epoch in two steps while rotations
do not take it; all its other critical sections are one step. Rotations,
reloads, health pauses and the end of a backoff belong to other components and
are the environment here.

*TunnelRelay.* `main` is where the session's goroutine is, `resp` where the goroutine that
copies to the client is; `upSock` and `clientSock` are the gateway's two sockets, and
`ending` what the first close of the client's socket sent. Bytes are not modelled, only
what ends a copy. The reverse proxy of a forwarded request is a library, reduced to
whether its transport took the tunnel.

## Runs

| Run | Asks | Bounds, and why they are enough |
| --- | --- | --- |
| `chain` | are holds, exclusions, both cooldown scopes, the pair cap, the order of picks, the policy and the answers right under two concurrent chains and a reload? | 3 routes of 2 kinds, 2 targets (a name and an address), 2 listeners, 2 requests with 2 attempts, 3 configurations (no policy; two rules that meet in a target; one that gives a name to another route, drops a route and adds one), 2 generations, every behaviour of an endpoint and so all five classes, clock to 2, pair cap 1: both streak steps, expiry, the all-cooling fallback and eviction occur. One attempt more per chain is enough to upset a round-robin, because the slack follows the requests that share a route and not all of them; whom a map of several pairs evicts is left to the proof |
| `drain` | what slips past a drain, does a route always come back, do chains end? | 2 routes, one manual, 2 procedures in a row, 2 requests with 1 attempt, 2 generations and so 2 mutexes, endpoints that grant or cannot be reached, under fairness |
| `commit` | what survives reloads of the commit protocol, is it the ledger's, does every procedure end? | 2 routes of which a reload adds one, 2 addresses, 2 generations, 2 procedures each, 2 probes, boot precheck: collisions, late collisions, revisits, removal and publication at every step |
| `commit_duplicate` | are addresses distinct across reloads? (violated) | 2 routes, 3 addresses, 2 generations |
| `pacing_safety` | does a retry wait follow the curve and the hint? | 8-bit durations, boundary values on both sides of every doubling and of overflow, runs of 9 |
| `scheduler` | is there one procedure per route, does no pass admit beyond the cap of its list, does nothing leak when routes come and go? | 2 ids competing for one slot (50 %), one of them replaced once, up to 2 procedures of an object, shutdown at any step. The cap is 1 for lists of one and of two routes; a list whose cap shrinks under running procedures is left to the proof |
| `shutdown` | does readiness fall first, is what Shutdown reports final, is the budget kept? | 2 listeners, 3 connections (two on one listener), a grace of 3 ticks with a propagation longer than half of it, a tail of 1 |
| `warm_bounds` | do all the caps hold, also when a reload lowers or raises them? | 2 routes, 2 workers, 1 reload at any step between three settings: in one every cap binds before another one does (minimum 2, maximum 2, total 3, 2 dials, 1 per route), the other two differ from each other in every bound; dials in the air that were claimed or begun under the old settings. Hand-outs, failures and expiry, which only make room, are left out |
| `warm_reload` | do connections and reservations respect reloads, rotations and `Stop`, and does work go on? | 1 route, 1 worker, 2 rotations, the pool switched off or on or the route removed at any step |
| `reload` | is only what the program can rely on served, does every reload that is tried answer an edit, is a stable file served? | 2 valid documents, one malformed, a missing file, and 14 documents each wrong in one place; 3 edits, so that one can hide between the looks of the two goroutines and another follow; every read may fail |
| `relay` | does the hold cover the tunnel, is a truncated answer visible, does the record name the break, does every session end? | none: the module is closed and finite, the check is complete for it |
| `relay_truncation` | is a clean end always the target's? (violated) | none |

Deadlock is not checked, except in `pacing_safety`: a chain that ended, a procedure
count that is used up, a file nobody edits and a stopped pool, engine or process rest
for good. That nothing rests too early is what the liveness properties are for. Bounds
named `Max...` in the modules only bound the exploration (clock, procedures, generations,
reloads, edits, epochs, hand-outs, failed dials), except for `MaxTrackedPairs`, `MaxProbes`
and `MaxLabels`, which are the program's own, and `MaxStreak`, where the curve is flat.

`warm_bounds` and `warm_reload` ask about one module in two instances: the caps need two
routes and two workers, the races need rotations, hand-outs and failures, and both at once
are out of TLC's reach.

## Fairness

A request is a goroutine whose dials have timeouts, so its steps up to the end
of its chain are weakly fair; an established tunnel is not, since it may last
for ever. A procedure is weakly fair: the drain ends at `drain-timeout`, probes and
provider call at theirs. That a procedure is abandoned is never assumed. The
sweeper runs on a ticker and workers are goroutines with bounded dials: both
are weakly fair, and a sweeper that could leave because its context is done
does so eventually, because `select` chooses at random among ready cases; for
the same reason the engine's `AbortAll` is strongly fair. In `Shutdown` the steps of
the main goroutine and of each `Server.Shutdown` are weakly fair, and so is the clock,
since every wait has a timer; sessions are not. The poller has a ticker and a `select`
with a pending signal takes it, so in `ConfigReload` both goroutines are weakly fair, a
file that stays is read by a tick in the end, and edits are not. In `TunnelRelay` a copy goes on unless its peer has stopped reading, or
the target is silent; `Shutdown` goes on from canceling to closing. No
fairness is assumed of reloads in the other modules, rotations, health changes or requests to the
warm pool.

## Proofs

All theorems hold for any values of the constants, under the named assumptions of the
modules; none needs the bounds on the exploration to be small.

`RequestChainProofs`, for any requests, routes, targets, policies, configurations and
curve:

- `HoldsAreConserved`: `HoldsConserved` with `TypeOK` and `ChainOK`. `ChainOK` says what a
  request has at each place of its loop: a route that is of its scope and not
  excluded from the scan on, at most as many exclusions as attempts, a generation
  that was published. Without it a `Release` could not be shown to undo a hold.
- `EveryDialIsAnotherRoute`, from the same invariant: the count of attempts and the
  exclusion set grow together because a pick never returns an excluded route
  (`PickedChoice`, over the least pass of a finite candidate set).
- `CooldownsAreSound`: each report writes streak and deadline as one unit, and an entry
  is added to the pair map only after an expired or the oldest one is evicted.
- `NoRouteIsNeverCooling`: when anything at all is eligible, the fallback to the
  soonest route picks something.
- `EveryDialIsPermitted`: what `Match` walks is the compiled policy, and what the property
  asks of it is `Offered`, which is stated over the document. `MatchIsOffered` shows that
  they agree for every policy that `Compile` accepts: the rule that decides is the least
  one whose patterns cover the target. The invariant then carries a request's scope to
  its dials, since a generation once published is never changed (`StoreKept`).
- `RefusalsStayIsolated`: of all the steps only `ReportTargetFailure` raises a deadline. A map
  that knows the target or has room forgets nothing (`EvictsFromFull`); otherwise the one
  pair that goes has expired or recovers soonest (`EvictsSoonest`), for any cap.
- `RouteBlamedByColdDial` (a parked connection never makes an attempt blame its route),
  `RefusalIsInTheHeader` (a failure is scoped to the target exactly when the header of a
  reply refuses it, wherever the reply ends after it) and `AttemptClassified` (no attempt ends outside the five classes), by cases over the
  stages of a dial.
- `PicksAreRoundRobin`: the invariant `Even` says what a pick under way leaves room for:
  it takes the least pass, and every step that advances a pass is paid for either by a
  request that shares the route just then, of which there were at most `peak`, or by
  `drift`. The number of requests there ever are does not enter. It needs `Locked` (one scan at a time per
  generation) and `Healthy` (while no route failed, the scan sees every route).

On top of it, for rotations beside the chain (`RotationDrain`):

- `FlagIsOwned`, and `DrainMissesOnePerGeneration`: a pick between scan and serve holds
  the mutex of its generation (`Locked`), so the picks under way map one-to-one into
  the published generations; `LateOnes` adds what has been served since the procedure
  began to what is under way, and `Tight` says that a drain that ended by itself left
  no other holder.

`RotationEngineProofs`, about the scheduling pass, for any ids, objects and procedures:

- `NoTwoProcedures` and `EverySlotIsOwned`, by an invariant of these parts: no generation
  knows an object that was not made (`Numbered`), only made objects have procedures
  (`Started`), an object that joined after the pass loaded its generation has none
  (`Unseen`), and a running procedure has the slot of its id unless its object was
  removed and the pass at work does not know it either (`Held`).
- `CapIsHonest`: only a pass starts procedures (`OthersStartNothing`), and it admits what the
  cap of the list it loaded leaves free (`PassKeepsCap`). By the invariant every running
  procedure of that list has the slot of its id (`ListedHaveSlots`), so the slots counted
  bound the procedures, whatever a reload did to the list or to the cap before.

`ShutdownProofs`, for any listeners, connections and budgets:

- `NeverClosesWhileReady` by `Ordered` (the phases of the main goroutine and of every
  `Server.Shutdown` in their order), `ReportedShutdownIsFinal` by `Registered` (a session
  that was accepted too late finds the server closing and is refused), `BudgetIsKept`
  by `InBudget` (which step may be waited for at which time).

`ConfigReloadProofs`:

- `OnlyServableIsServed`: `Accepts(doc) => Servable(runtimeFromFile(doc))`, by cases over
  the blocks; the rotation cap needs the arithmetic of the rounded percentage. It
  discharges the assumptions the other modules make of a generation.
- `ReloadsAnswerEdits`: an edit is spent at most once. A difference the poller has still to
  see, a change it is about to signal, the pending signal and a reload under way each
  stand for an edit, or for the missing baseline, that no reload has answered
  (`EditsAreSpentOnce`), which is what makes the bound on `reloads` inductive.

`RotationCommitProofs`, with reloads and the boot precheck unless said otherwise:

- `CommitTypeCorrect`: `TypeOK`, strengthened by `CandidateKnown` (a procedure past the
  screen has an address), without which the record of a commit could not be typed.
- `CommitExclusive`: at most one procedure is between the checks and the record
  of `CommitRotation` on one pool. The invariant is `MutexOwned`: a pool's mutex
  names exactly the procedure that is in there.
- `SharingNeedsAReload`: two live routes share an address rotations recorded only where
  a reload overtook one of their commits. Between check and record the comparison
  must stay true, so the invariant adds that the candidate of every checked procedure
  differs from all recorded addresses of its pool, which exclusion preserves.
  `UniqueEgressWithoutReload` is the case without a reload.
- `CommitImplementsLedger`: every step is a step of `EgressLedger` or leaves its state
  alone.
- `StaleShownUntilCommitted` and `RevisitsNeverExceedRotations`; the latter needs the
  cardinality of the procedures between the two totals.
- `RevisitIsNeverUnchanged`: a candidate differs from its procedure's baseline, or without one
  from what the last rotation recorded, from the probe to the record, however often
  a collision sends it round (`CandidateDiffers`).

`WarmPoolProofs`, for any routes, workers and settings:

- `DialsAlwaysLeaveNothing`, under reloads, rotations and `Stop` at any step. The invariant
  is `DialsLeaveNothing` with `TypeOK` and `Owned`: a claim in its critical section has
  `wp.mu` and something pending on the route it reserved. Without the lock `Stop`
  could clear the pending dial before the claim moves it to `flying`. Three
  lemmas carry the argument: a step that moves no dial changes no count
  (`CountsUntouched`), a landing returns exactly the reservation of its dial
  (`LandingCounts`), and a pass moves no dial (`PassEffects`).
- `BorrowsAreNear`: the invariant `Near` says of every stamp, parked or in the air, that it
  is not ahead of the route's epoch and, while it equals it, at most one address behind,
  and not behind at all before the provider acts. Rotations keep that (`BehindStays`);
  nothing else creates a stamp but a claim and the start of a dial (`TaskBefore`,
  `ParkedBefore`).
- `LoweredBoundsReturn`, under any reloads: `WithinBounds` and `NothingOlder` together are
  `Bounded`, and every step but a reload keeps each of its five parts. `Settled` is what makes it
  true: the pass under way and the dials in the air go by the settings published. Two
  parts say more than the bounds: the fleet counts every worker launched and not
  retired, and a claim in its critical section still has room on its route. Totals are
  cardinalities of sets of entries (`Entries`), so that one more on one route is
  one more in total (`TotalPlusOne`) without induction.
- `PoolStaysWithinBounds` is the case without a reload, for a shutdown at any moment:
  `Bounded` holds at first.
- `PoolStaysWithinSomeBounds`, under any reloads: a bound is only ever tested against one
  generation's settings, so each part of `SomeBounded` is kept with either the witness it had
  or the settings of the step (`sweepCfg` for a pass, `task[w].cfg` for a dial, `cfg` for a
  claim). The bound per route needs `RoomWithinSome`, because a claim tests it in one step
  and takes its reservation in the next. `BoundsSurviveReloads` is this and
  `LoweredBoundsReturn`, as `warm_bounds` checks them.

`TunnelRelayProofs`. The module has no constants and finitely many states, so the run already
checks all of it; the proofs say why the properties hold:

- `HoldOutlivesTheTunnel`: `Places` says how far each of the two goroutines is while
  the other is where it is; every way out of `relayTunnel` has closed the tunnel and
  waited for the goroutine of the response.
- `RecordsNameTheBreak`: `Results` says which results are in the channel and which were taken.
  Each is sent once and taken once, in one of two orders (`Undecided`, `Collecting`, `Joining`).
- `BreaksAreSeen`: `Sockets` says who may have closed what. As long as the goroutine of the
  response has not, only a failed request direction or `Shutdown` closed a socket, so
  every other break finds the client's socket open and set to reset.

`RotationEngineProofs`, about the retry waits, for durations of any width from three bits on,
64 included, where TLC enumerates eight:

- `CooldownIsCurve`: `SaturatingCooldown` equals the saturated power of two. The loop is a
  recursive function, and the library's inductions cannot be instantiated; instead the
  closed form is shown to satisfy the recursion, and a least argument at which the loop
  would differ is contradicted. That `2^(n+1)` is twice `2^n` comes from the subsets
  of a finite set (`SubsetsDouble`).
- `CooldownsGrow` discharges what `RoutePool` assumes of `CooldownAfter`, and `NeverNegative`
  is the comment on `SaturatingCooldown` for arguments that bypass validation.
- `RetriesOnlySlowDown` and `HintsAreHonoured`: the properties are inductive together with
  the types. The jittered base may leave the range of a duration; either value
  the conversion can give is corrected by `BackoffFor`.

Only model-checked is every liveness property (`ChainEnds`, `RotationEnds`, `ProcedureEnds`, `StopQuiesces`,
`RemovedRoutesAreForgotten`, `ShutdownCompletes`, `StopUnwinds`, `DeficitsAreDialed`,
`StableFileIsServed`, `TunnelEnds`): fairness and ENABLED are out of the prover's reach.

## Divergences between the code and what it says of itself

Two are checked by a run that finds the counterexample; PROJECT.json quotes the
statement and gives the line.

- `commit_duplicate`. A generation published inside the critical section of a commit
  has another mutex, so a second procedure can commit the same address.
  `SharedEgressIsOvertaken` says that nothing else can make two routes share one.
- `relay_truncation`. When the request direction meets the broken tunnel first, it closes
  the client's socket in the ordinary way, and a truncated answer reads as a clean end.

Met while modelling; the properties bound or except them, without a run of their own:

- `PickFor` scans the rotating flags before it takes the hold, and `BeginRotation` does
  not take the pool mutex, although `pool.go:530` says that a drain "can never miss its
  holder". `DrainIsAlmostTight` bounds what it misses to one pick per generation.
- A dial claimed after `BeginRotation` raised the epoch and before the provider changed
  the address carries the current epoch, is parked, and is borrowed into the new
  egress (against `warmpool.go:13`). `NeverTwoBehind` bounds this to one address.
- A forced close does not end a forwarded request whose target is silent, against
  `server.go:246-249`; `TunnelEnds` excepts it.
- The close record says `client_aborted` when the write of the request meets the broken
  tunnel and the copy from it was ended by that close.
- An edit between the bootstrap load and the poller's first look (`poll.go:33-36`) is
  served only with the next edit. A file that changes between the look of the poller and
  the reload's, and changes back, is served in neither content: the baseline is not
  "the content that is actually serving" (`poll.go:56-58`), and one signal is not "one
  distinct configuration" (`main.go:341-342`). The same happens when the reload's own read
  fails once while the file is there: the poller took the content as its baseline and
  does not signal it again. `StableFileIsServed` excepts exactly these.
- A baseline the poller could not read costs one reload no edit asked for, as
  `poll.go:36-38` says; `ReloadsAreChanges` allows that one.
- `halfconn.go:208` and `socksdial.go:107-108` speak of a "complete reply" that refuses; a
  refusal whose bound address never arrives is classed the same, after four bytes.
- `serveTunnel` checks the budget before it picks, so a chain whose budget ends
  with the last eligible route is `retry_exhausted`, although
  `docs/failure-and-health.md` reserves that for chains with routes left; and
  `failovers` also counts the failed attempt that no other follows, against
  `docs/observability.md`.
- `MarkRotated` resets the streak under the route mutex and the cooldown after it: a
  failure in between leaves a streak without a cooldown, which the comment at
  `ReportSuccess` rules out.
- A procedure writes its schedule by id. When its route was removed and added
  again meanwhile, that write sets the first attempt of the replacement; and when
  both happen within one tick the replacement inherits the old due time. In both
  cases a route "added by a reload" does not rotate "on the next cycle", as
  `engine.go:189` says. `RemovedRoutesAreForgotten` shows that nothing of a removed
  route stays for good.
- Due routes are admitted in configured order, so with intervals shorter than a
  procedure the routes early in the list can keep the later ones waiting.
- `MarkStopped` tries its compare-and-swaps one after another; that it ends in
  "stopped" rests on `shutdownAll` being the only writer by then.
- `MarkStale` makes a route pickable before it moves it to the back
  (`rotation.go:170`).
- A commit can be recorded through a pool that stopped being live after the
  check, and a commit refused because the pool was republished marks a route
  that is still live stale.
- The boot precheck can record its baseline between a procedure's comparison and its commit
  of the same address. The first rotation of the route then counts a revisit for an
  address the route only has from that precheck, and, when the procedure has no baseline
  of its own, possibly for one that did not change. `RevisitIsAReturn` excepts the latter.
- A `Retry-After` too large for a duration wraps around and is dropped;
  `HintRaisesWait` is stated for hints that are durations.
- `runDial` judges a finished dial by the generation it loaded before it; the sweep
  does not trim the total after a reload lowered it, and does not count earlier
  reservations against the total; a surplus worker can claim beyond a lowered
  concurrency. `WithinBounds` is therefore stated for one configuration; across reloads
  `WithinSomeBounds` holds, and `BoundsReturn` says when the lowered bounds hold again.

## Plan

Done: every component with state of its own is modelled, the components that interact
are composed where their interaction decides a property, and every safety property of a
passing run is proved, for any constants where the module has some. What would come next,
in this order:

1. A measure of time in `RotationScheduler`, to say how long a due route can be kept
   waiting by the ones before it.
2. Accepting and refusing a request before its attempt chain (`serveConn`), and the
   bootstrap environment.

## Not modelled

- The wire formats: reading and refusing HTTP requests, SOCKS frames byte by byte,
  the text of `/status`, `/readyz` and of close records. They decide what an abstract
  message is and carry no state the properties above are about.
- Parsing: YAML, URLs, durations and the bootstrap environment. `RuntimeConfig` starts
  from what the keys of a document hold.
- Bytes of a tunnel, buffers, socket options other than the reset on close.
- Sanitizing and logging.
- Counters and statistics, but for the totals of rotations and revisits.
- A route that the pool's order or short intervals keep from rotating: the model has no
  measure of time that would tell how short an interval is.
