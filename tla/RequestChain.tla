---------------------------- MODULE RequestChain ----------------------------
(***************************************************************************)
(* The attempt chain of internal/proxyserver/http.go (serveTunnel) over    *)
(* the pools of internal/pool/pool.go: many requests select, dial, report  *)
(* and release routes concurrently, and a reload publishes a new           *)
(* generation of the pool under them (Reconfigure, generation.go).         *)
(*                                                                         *)
(* A request is a thread with a program counter.  It loads the generation  *)
(* once: its candidates, its retry budget and the mutex it picks under are *)
(* that generation's, while the routes it reports to are objects other     *)
(* generations may share.  PickFor is two steps, the scan and the serve,   *)
(* because other threads touch route state without that mutex in between.  *)
(* A report and the Release that follows it are one step.  The dial,       *)
(* whether it starts from a parked half connection or cold, ends as        *)
(* SocksDial says for some behaviour of the endpoint.  The handshake       *)
(* deadline runs on a clock of its own, so it may have passed at any       *)
(* retry.                                                                  *)
(*                                                                         *)
(* A route that is removed and configured again is a new object, another   *)
(* element of Routes.                                                      *)
(***************************************************************************)
EXTENDS RoutePool, SocksDial, Routing

CONSTANTS
  Requests,        \* the requests; each runs one chain
  Arrivals,        \* what a request may ask for, and on which listener
  HostOf,          \* HostOf[t]: the host name of a target, or NoName
  Kind,            \* Kind[p]: the egress family of a route
  Configs,         \* the configurations a generation may be built from
  MaxGenerations,  \* bound on generations
  Endpoints,       \* how the endpoints behind the routes may behave
  MaxTime,         \* bound on the clock
  NoRequest,       \* nobody holds the mutex of a pool
  NoAnchor         \* no reload is under way

Family == {"mixed", "v4", "v6"}

ASSUME RequestsAssumption ==
  /\ IsFiniteSet(Requests)
  /\ NoRequest \notin Requests
  /\ Arrivals \subseteq [target : Targets, listener : Family, family : Family]
  /\ HostOf \in [Targets -> Name \cup {NoName}]
  /\ Kind \in [Routes -> {"v4", "v6"}]
  /\ MaxTime \in Nat
  /\ Endpoints \subseteq Behaviour

\* What a generation is built from, as RuntimeConfig accepts it.
ASSUME ConfigsAssumption ==
  /\ MaxGenerations \in Nat \ {0}
  /\ NoAnchor \notin Nat
  /\ \A c \in Configs : /\ c.routes \in Seq(Routes) \ {<<>>} /\ Distinct(c.routes)
                        /\ c.retries \in Nat \ {0}
                        /\ c.ids \in [Routes -> RouteIds \cup {Absent}]
                        /\ c.routing \in RoutingBlock \cup {Absent}

VARIABLES
  pc,         \* pc[r]: where request r is; the terminal values are outcomes
  arrival,    \* arrival[r]: its target, its listener's kind, its own family
  gen,        \* gen[r]: the generation it loaded, 0 before it starts
  scope,      \* scope[r]: the candidates, fixed when the request starts
  attempts,   \* attempts[r]: routes dialed so far
  exclude,    \* exclude[r]: routes that failed this request
  chosen,     \* chosen[r]: the route scanned, dialed or held
  failovers,  \* failovers[r]: what r added to the listener's failovers counter
  poolMu,     \* poolMu[g]: the request inside PickFor of generation g
  store,      \* store[g]: what generation g was built from; the last one is live
  anchor,     \* the smallest pass a Reconfigure has read
  drift,      \* steps of the recency clock by requests of an older generation,
              \* or taken between such a reading and its publication
              \* (history)
  peak        \* the most requests of the live generation that were ever
              \* between pick and outcome on one route at once (history)

chainVars   == <<pc, arrival, gen, scope, attempts, exclude, chosen, failovers, poolMu>>
reloadVars  == <<store, anchor, drift, peak>>
requestVars == <<chainVars, reloadVars>>
vars == <<poolVars, requestVars>>

Refused == {"no_route", "retry_exhausted", "setup"}
Chain   == {"select", "picked", "dialing"}
Stage   == {"idle", "established", "closed"} \cup Chain \cup Refused

live      == Len(store)
Target(r) == arrival[r].target
Config(r) == store[gen[r]]

TypeOK ==
  /\ PoolTypeOK
  /\ pc \in [Requests -> Stage]
  /\ arrival \in [Requests -> Arrivals]
  /\ store \in Seq(Configs) /\ live \in 1..MaxGenerations
  /\ gen \in [Requests -> 0..live]
  /\ scope \in [Requests -> SUBSET Routes]
  /\ attempts \in [Requests -> Nat]
  /\ exclude \in [Requests -> SUBSET Routes]
  /\ chosen \in [Requests -> Routes \cup {NoRoute}]
  /\ failovers \in [Requests -> Nat]
  /\ poolMu \in [1..MaxGenerations -> Requests \cup {NoRequest}]
  /\ anchor \in Nat \cup {NoAnchor}
  /\ drift \in Nat
  /\ peak \in Nat

Init ==
  /\ PoolInit
  /\ pc = [r \in Requests |-> "idle"]
  /\ arrival \in [Requests -> Arrivals]
  /\ gen = [r \in Requests |-> 0]
  /\ scope = [r \in Requests |-> {}]
  /\ attempts = [r \in Requests |-> 0]
  /\ exclude = [r \in Requests |-> {}]
  /\ chosen = [r \in Requests |-> NoRoute]
  /\ failovers = [r \in Requests |-> 0]
  /\ poolMu = [g \in 1..MaxGenerations |-> NoRequest]
  /\ \E c \in Configs : store = <<c>>
  /\ anchor = NoAnchor
  /\ drift = 0
  /\ peak = 0

Goto(r, from, to) == pc[r] = from /\ pc' = [pc EXCEPT ![r] = to]
Candidates(r) == scope[r] \ exclude[r]
Picked(r) == PickFor(Config(r).routes, Candidates(r), Target(r))

\* What a step of r on the recency clock adds to the history.
Drifts(r) == drift' = IF anchor = NoAnchor /\ gen[r] = live THEN drift ELSE drift + 1

\* The requests of the live generation that dial p, and what one more of them
\* on p adds to the history.
Dialing(p) == {r \in Requests : pc[r] = "dialing" /\ gen[r] = live /\ chosen[r] = p}
Crowds(r, p) ==
  LET crowd == Cardinality(Dialing(p)) + 1
  IN  peak' = IF gen[r] = live /\ crowd > peak THEN crowd ELSE peak

-----------------------------------------------------------------------------
(* Start and the loop head: deadline, retry budget, pick.                  *)

\* A listener view, or a request's family, admits its own kind of route.
Admits(family, p) == family = "mixed" \/ family = Kind[p]

\* The candidates of an arrival in a generation: the routing policy, the
\* listener and the family of the request each narrow them.
ScopeOf(c, a) ==
  {p \in Scope(Elements(c.routes), c.ids, Match(Compile(c.routing), HostOf[a.target])) :
     Admits(a.listener, p) /\ Admits(a.family, p)}

Start(r) ==
  /\ Goto(r, "idle", "select")
  /\ gen' = [gen EXCEPT ![r] = live]
  /\ scope' = [scope EXCEPT ![r] = ScopeOf(store[live], arrival[r])]
  /\ UNCHANGED <<poolVars, arrival, attempts, exclude, chosen, failovers, poolMu, reloadVars>>

\* The inbound handshake deadline is checked before every attempt but the first.
DeadlineExpired(r) ==
  /\ Goto(r, "select", "setup")
  /\ attempts[r] > 0
  /\ UNCHANGED <<poolVars, arrival, gen, scope, attempts, exclude, chosen, failovers, poolMu,
                 reloadVars>>

RetryExhausted(r) ==
  /\ Goto(r, "select", "retry_exhausted")
  /\ attempts[r] >= Config(r).retries
  /\ UNCHANGED <<poolVars, arrival, gen, scope, attempts, exclude, chosen, failovers, poolMu,
                 reloadVars>>

\* Fault: selection outside the pool mutex.
CanPick_Unlocked(r) == attempts[r] < Config(r).retries

CanPick(r) == attempts[r] < Config(r).retries /\ poolMu[gen[r]] = NoRequest

\* PickFor returned nil: nothing was served and the mutex is free again.
PickNone(r) ==
  /\ Goto(r, "select", "no_route")
  /\ CanPick(r)
  /\ Picked(r) = NoRoute
  /\ UNCHANGED <<poolVars, arrival, gen, scope, attempts, exclude, chosen, failovers, poolMu,
                 reloadVars>>

\* PickFor's scan; the mutex is held until the chosen route is served.
PickScan(r) ==
  /\ Goto(r, "select", "picked")
  /\ CanPick(r)
  /\ Picked(r) # NoRoute
  /\ chosen' = [chosen EXCEPT ![r] = Picked(r)]
  /\ poolMu' = [poolMu EXCEPT ![gen[r]] = r]
  /\ Crowds(r, Picked(r))
  /\ UNCHANGED <<poolVars, arrival, gen, scope, attempts, exclude, failovers, store, anchor, drift>>

\* Fault: the return of the served route leaves the mutex locked.
PickServe_KeepsMutex(r) ==
  /\ Goto(r, "picked", "dialing")
  /\ Serve(chosen[r])
  /\ attempts' = [attempts EXCEPT ![r] = @ + 1]
  /\ Drifts(r)
  /\ UNCHANGED <<now, health, rotating, arrival, gen, scope, exclude, chosen, failovers, poolMu,
                 store, anchor, peak>>

PickServe(r) ==
  /\ Goto(r, "picked", "dialing")
  /\ Serve(chosen[r])
  /\ attempts' = [attempts EXCEPT ![r] = @ + 1]
  /\ poolMu' = [poolMu EXCEPT ![gen[r]] = NoRequest]
  /\ Drifts(r)
  /\ UNCHANGED <<now, health, rotating, arrival, gen, scope, exclude, chosen, failovers, store,
                 anchor, peak>>

-----------------------------------------------------------------------------
(* The dial and what its outcome does to health.                           *)

\* What an attempt may end in, over a parked half connection or without one.
Outcomes ==
  {dialWarmFirst(parked, credentials, encodes, e) :
     parked \in {NoReply} \cup {d.reply : d \in Endpoints},
     credentials \in Credentials, encodes \in BOOLEAN, e \in Endpoints}

DialSucceeds(r) ==
  /\ "ok" \in Outcomes
  /\ Goto(r, "dialing", "established")
  /\ ReportSuccess(chosen[r], Target(r))
  /\ Drifts(r)
  /\ UNCHANGED <<now, inFlight, rotating, arrival, gen, scope, attempts, exclude, chosen,
                 failovers, poolMu, store, anchor, peak>>

ReportClass(class, p, t) ==
  \/ class \in {"dial", "handshake"} /\ ReportFailure(p)
  \/ class = "connect_target" /\ ReportTargetFailure(p, t)
  \/ class = "auth" /\ ReportAuthBlocked(p)

\* Fault: the failed route stays a candidate.
Excluded_Forgotten(r) == exclude[r]

Excluded(r) == exclude[r] \cup {chosen[r]}

\* A failure that retries: report, exclude the route, release the hold, and
\* count a failover when the budget leaves another attempt.
DialFails(r) ==
  /\ Goto(r, "dialing", "select")
  /\ \E class \in Outcomes \ {"ok"} : ReportClass(class, chosen[r], Target(r))
  /\ exclude' = [exclude EXCEPT ![r] = Excluded(r)]
  /\ Release(chosen[r])
  /\ chosen' = [chosen EXCEPT ![r] = NoRoute]
  /\ failovers' = [failovers EXCEPT ![r] = IF attempts[r] < Config(r).retries THEN @ + 1 ELSE @]
  /\ UNCHANGED <<now, rotating, arrival, gen, scope, attempts, poolMu, reloadVars>>

\* A local construction failure: answered at once, no health change, no retry.
SetupFails(r) ==
  /\ "setup" \in Outcomes
  /\ Goto(r, "dialing", "setup")
  /\ Release(chosen[r])
  /\ chosen' = [chosen EXCEPT ![r] = NoRoute]
  /\ UNCHANGED <<now, pass, health, rotating, arrival, gen, scope, attempts, exclude,
                 failovers, poolMu, reloadVars>>

\* The tunnel, the forwarded response or the client's reply ends: the
\* deferred Release runs whatever ended it.
Finish(r) ==
  /\ Goto(r, "established", "closed")
  /\ Release(chosen[r])
  /\ chosen' = [chosen EXCEPT ![r] = NoRoute]
  /\ UNCHANGED <<now, pass, health, rotating, arrival, gen, scope, attempts, exclude,
                 failovers, poolMu, reloadVars>>

-----------------------------------------------------------------------------
(* The reload loop.                                                        *)

\* The smallest pass of a pool.
Anchor(entries) ==
  CHOOSE n \in {pass[p] : p \in Elements(entries)} : \A p \in Elements(entries) : n <= pass[p]

\* Reconfigure reads the passes without the mutex, while picks advance them.
ReadPasses ==
  /\ anchor = NoAnchor
  /\ live < MaxGenerations
  /\ anchor' = Anchor(store[live].routes)
  /\ UNCHANGED <<poolVars, chainVars, store, drift, peak>>

Known == UNION {Elements(store[g].routes) : g \in 1..live}

\* A route that is in the live generation keeps its object and everything it
\* counts; any other is a new object that starts at the anchor.
Publish ==
  /\ anchor # NoAnchor
  /\ \E c \in Configs :
       /\ Elements(c.routes) \cap Known \subseteq Elements(store[live].routes)
       /\ store' = Append(store, c)
       /\ pass' = [p \in Routes |-> IF p \in Elements(c.routes) \ Known THEN anchor ELSE pass[p]]
  /\ anchor' = NoAnchor
  /\ UNCHANGED <<now, inFlight, health, rotating, chainVars, drift, peak>>

Tick ==
  /\ now < MaxTime
  /\ now' = now + 1
  /\ UNCHANGED <<pass, inFlight, health, rotating, requestVars>>

-----------------------------------------------------------------------------
ChainStep(r) ==
  \/ DeadlineExpired(r) \/ RetryExhausted(r)
  \/ PickNone(r) \/ PickScan(r) \/ PickServe(r)
  \/ DialSucceeds(r) \/ DialFails(r) \/ SetupFails(r)

Next ==
  \/ Tick \/ ReadPasses \/ Publish
  \/ \E r \in Requests : Start(r) \/ ChainStep(r) \/ Finish(r)

Spec == Init /\ [][Next]_vars

\* Go schedules every runnable goroutine and every dial is bounded by the
\* dial timeout, so a chain's own steps are weakly fair; the arrival of a
\* request, the end of a tunnel and the clock are not.
Fairness == \A r \in Requests : WF_vars(ChainStep(r))

FairSpec == Spec /\ Fairness

-----------------------------------------------------------------------------
(* Correctness.                                                            *)

Holders(p) == {r \in Requests : pc[r] \in {"dialing", "established"} /\ chosen[r] = p}

\* Every pick holds its route until exactly one Release: the in-flight count
\* a drain reads (pool.go InFlight) is the number of requests dialing or
\* relaying through the route.
HoldsConserved == \A p \in Routes : inFlight[p] = Cardinality(Holders(p))

\* A request never tries a route twice and never dials more than max-retries
\* routes: the dials made so far are as many as the distinct routes behind
\* them, whatever classes of failure ended them (http.go serveTunnel).
Dialed(r) == IF pc[r] \in {"dialing", "established"} THEN exclude[r] \cup {chosen[r]} ELSE exclude[r]
OneDialPerRoute ==
  \A r \in Requests :
    /\ gen[r] # 0 => attempts[r] <= Config(r).retries
    /\ pc[r] \in {"select", "picked", "dialing", "established", "no_route"}
         => attempts[r] = Cardinality(Dialed(r))

\* Cooldowns are sound in both scopes, whatever reports, evictions and clock
\* steps interleave: a streak and its deadline are written as one unit, none
\* further away than the curve allows (pool.go ReportSuccess), and a flood of
\* refused targets cannot grow a route's pair map without limit (pool.go
\* ReportTargetFailure, evictTargetPair).
Agrees(deadline, streak) ==
  /\ deadline = 0 <=> streak = 0
  /\ streak > 0 => deadline <= now + CooldownAfter[streak]
CooldownsSound ==
  \A p \in Routes :
    /\ Agrees(cooldownUntil[p], consecutiveFailures[p])
    /\ \A t \in Targets : Agrees(pairs[p][t].deadline, pairs[p][t].consecutive)
    /\ Cardinality(Tracked(p)) <= MaxTrackedPairs

\* Every dial obeys the generation its request loaded, whatever is published
\* or renamed meanwhile: the route is one of that generation, of the kind of
\* the listener and of the family asked for, and its name there is offered by
\* the first rule that names the target, or by the default list when none
\* does (http.go serveTunnel, routing.go Match, pool.go Scope).
Names(rule, t) ==
  /\ HostOf[t] # NoName /\ validateHostname(normalizeHost(HostOf[t]))
  /\ \E d \in Elements(rule.domains) : Covers(compilePattern(d), normalizeHost(HostOf[t]))
Offered(routing, t, id) ==
  \/ \E i \in DOMAIN routing.rules :
       /\ id \in Elements(routing.rules[i].routes) /\ Names(routing.rules[i], t)
       /\ \A j \in 1..(i - 1) : ~Names(routing.rules[j], t)
  \/ /\ routing.defaults # Absent /\ id \in Elements(routing.defaults)
     /\ \A i \in DOMAIN routing.rules : ~Names(routing.rules[i], t)
ServedWithinPolicy ==
  \A r \in Requests : pc[r] \in {"picked", "dialing", "established"} =>
    /\ chosen[r] \in Elements(Config(r).routes)
    /\ arrival[r].listener \in {"mixed", Kind[chosen[r]]}
    /\ arrival[r].family \in {"mixed", Kind[chosen[r]]}
    /\ Config(r).routing # Absent =>
         Offered(Config(r).routing, Target(r), Config(r).ids[chosen[r]])

\* Cooling alone never refuses a request: it is answered no_route only when
\* every candidate it has not tried is auth-blocked or being rotated
\* (docs/failure-and-health.md, Selection).
NoRouteIsHonest ==
  [][\A r \in Requests :
       pc[r] # "no_route" /\ pc'[r] = "no_route"
         => \A p \in scope[r] : p \in Dialed(r) \/ authBlocked[p] \/ rotating[p]]_vars

\* While no route failed and every request may use every route of its
\* generation, the recency order of the live pool is a round-robin, also for
\* routes a reload has added: however the picks, successes and local failures
\* of concurrent chains interleave, a route is ahead of another by one pick
\* and its success, by as many more steps as requests ever shared a route
\* between pick and outcome beside one another, and by what a reload cannot
\* see: the steps of requests that hold another generation's mutex, or taken
\* after the passes were read.  However many requests there ever are, one
\* after another they keep every route within two steps (pool.go serve,
\* minRecencyPass, Reconfigure).
Clean ==
  \A r \in Requests :
    exclude[r] = {} /\ (gen[r] # 0 => scope[r] = Elements(Config(r).routes))
RoundRobinBalance ==
  Clean =>
    \A p, q \in Elements(store[live].routes) :
      pass[p] + Cardinality(Dialing(p)) <= pass[q] + peak + 1 + drift

\* A refused CONNECT cools one target only: a refusal for t changes what the
\* route offers to no other target, except that a pair map which is full and
\* does not know t forgets one pair.  That pair makes room because it has
\* expired or because none recovers sooner, and losing it only makes the route
\* available sooner (pool.go ReportTargetFailure, evictTargetPair).
Forgets(p, t, u) ==
  /\ pairs'[p][u] = NoPair
  /\ pairs[p][t] = NoPair /\ Cardinality(Tracked(p)) = MaxTrackedPairs
  /\ \/ pairs[p][u].deadline <= now
     \/ \A v \in Tracked(p) : now < pairs[p][v].deadline
                              /\ pairs[p][u].deadline <= pairs[p][v].deadline
  /\ \A v \in Targets \ {t, u} : UNCHANGED pairs[p][v]
RefusalIsolated ==
  [][\A p \in Routes, t \in Targets :
       pairs'[p][t].deadline > pairs[p][t].deadline
         => /\ \E r \in Requests : pc[r] = "dialing" /\ chosen[r] = p /\ Target(r) = t
            /\ \A u \in Targets \ {t} : UNCHANGED pairs[p][u] \/ Forgets(p, t, u)
            /\ UNCHANGED <<dialHealth, authBlocked>>]_vars

\* Every chain ends, established or answered, however many routes fail and
\* however the pool mutex is contended (http.go serveTunnel).
ChainEnds ==
  \A r \in Requests : pc[r] \in Chain ~> pc[r] \in {"established", "closed"} \cup Refused
=============================================================================
