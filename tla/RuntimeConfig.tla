---------------------------- MODULE RuntimeConfig ----------------------------
(***************************************************************************)
(* The runtime configuration: internal/config/runtime.go decides which     *)
(* documents may serve (runtimeFromFile and what it calls) and what the    *)
(* configuration read from an accepted one is.                             *)
(*                                                                         *)
(* Abstractions.  A document is a record of what its keys hold: a number   *)
(* or a duration is an integer, Malformed when it does not parse, or       *)
(* Absent.  The spellings of an endpoint that parse are those with a       *)
(* canonical identity.  The errors are not modelled, only that there are   *)
(* some: any of them rejects the whole document.                           *)
(***************************************************************************)
EXTENDS Routing

CONSTANTS
  Spelling,   \* what a proxy line may say
  Canonical,  \* Canonical[s]: the route identity of s, or Malformed
  Malformed   \* anything that does not parse

ASSUME DocumentAssumption ==
  /\ Absent # Malformed
  /\ {Absent, Malformed} \cap (Int \cup RouteIds) = {}
  /\ DOMAIN Canonical = Spelling

Raw == Int \cup {Absent, Malformed}

\* An entry of proxies.auto or proxies.manual; the last three keys are of
\* manual ones: the cadence, whether the provider call is a valid HTTP
\* request, and its timeout.
RouteEntry ==
  [proxy : Spelling, kind : {"v4", "v6", "other"}, id : RouteIds \cup {Absent, Malformed},
   interval : Raw, api : BOOLEAN, timeout : Raw]

Document ==
  [level    : {"debug", "info", "warn", "error", "other"},
   retries  : Raw, base : Raw, max : Raw, dial : Raw,
   rotation : [limit : Raw, percent : BOOLEAN, drain : Raw, url : {"https", "other", "absent"},
               check : Raw, every : Raw, backoff : Raw],
   warmPool : [min : Raw, max : Raw, total : Raw, dials : Raw, perRoute : Raw, ttl : Raw],
   auto     : Seq(RouteEntry), manual : Seq(RouteEntry),
   routing  : RoutingBlock \cup {Absent}]

Default(raw, value) == IF raw = Absent THEN value ELSE raw
Positive(raw)       == raw \in Int /\ raw > 0
AtLeast(raw, least) == raw \in Int /\ raw >= least

-----------------------------------------------------------------------------
(* The blocks, with their defaults (seconds).                              *)

parseRotationSettings(r) ==
  [limit |-> Default(r.limit, 1), percent |-> r.percent /\ r.limit # Absent,
   drain |-> Default(r.drain, 55), url |-> IF r.url = "absent" THEN "https" ELSE r.url,
   check |-> Default(r.check, 20), every |-> Default(r.every, 2),
   backoff |-> Default(r.backoff, 900)]

\* parseMaxConcurrent and RotationSettings.validate.
RotationValid(s) ==
  /\ Positive(s.limit)
  /\ s.percent => s.limit <= 100
  /\ s.url = "https"
  /\ Positive(s.drain) /\ Positive(s.backoff)
  /\ Positive(s.check) /\ Positive(s.every) /\ s.every <= s.check

parseWarmPoolSettings(w) ==
  [min |-> Default(w.min, 1), max |-> Default(w.max, 2), total |-> Default(w.total, 64),
   dials |-> Default(w.dials, 2), perRoute |-> Default(w.perRoute, 0), ttl |-> Default(w.ttl, 45)]

\* Fault: the bounds are checked one by one, not against each other.
WarmPoolValid_Alone(s) ==
  /\ AtLeast(s.min, 0) /\ AtLeast(s.max, 1) /\ AtLeast(s.total, 1)
  /\ AtLeast(s.dials, 1) /\ AtLeast(s.perRoute, 0) /\ Positive(s.ttl)

\* WarmPoolSettings.validate; a disabled pool is validated too.
WarmPoolValid(s) ==
  /\ AtLeast(s.min, 0) /\ AtLeast(s.max, 1) /\ AtLeast(s.total, 1)
  /\ AtLeast(s.dials, 1) /\ AtLeast(s.perRoute, 0) /\ Positive(s.ttl)
  /\ s.min <= s.max /\ s.max <= s.total

-----------------------------------------------------------------------------
(* The routes.                                                             *)

\* parseRouteSpec: kind, endpoint and id.
RouteValid(e) == e.kind # "other" /\ Canonical[e.proxy] # Malformed /\ e.id # Malformed

\* parseManualRouteSpec and parseRotateAPI.
ManualRouteValid(e) ==
  RouteValid(e) /\ Positive(e.interval) /\ e.api /\ Positive(Default(e.timeout, 10))

RouteSpec(e, origin) ==
  [identity |-> Canonical[e.proxy], kind |-> e.kind, id |-> e.id, origin |-> origin]

\* AllRoutes: auto first.
AllRoutes(doc) ==
  [i \in DOMAIN doc.auto |-> RouteSpec(doc.auto[i], "auto")] \o
  [i \in DOMAIN doc.manual |-> RouteSpec(doc.manual[i], "manual")]

\* One identity namespace for both origins, and at least one route.
RoutesValid(routes) ==
  routes # <<>> /\ Distinct([i \in DOMAIN routes |-> routes[i].identity])

-----------------------------------------------------------------------------
(* The document.                                                           *)

\* RuntimeConfig.validate for everything but the blocks and the routes.
ScalarsValid(doc) ==
  /\ doc.level # "other"
  /\ AtLeast(Default(doc.retries, 0), 1)
  /\ Positive(doc.dial)
  /\ Positive(doc.base) /\ Positive(doc.max) /\ doc.base <= doc.max

\* LoadRuntime succeeds.
Accepts(doc) ==
  /\ doc # Malformed
  /\ ScalarsValid(doc)
  /\ RotationValid(parseRotationSettings(doc.rotation))
  /\ WarmPoolValid(parseWarmPoolSettings(doc.warmPool))
  /\ \A i \in DOMAIN doc.auto : RouteValid(doc.auto[i])
  /\ \A i \in DOMAIN doc.manual : ManualRouteValid(doc.manual[i])
  /\ LET routes == AllRoutes(doc)
     IN  /\ RoutesValid(routes)
         /\ RoutingAccepted(doc.routing, [i \in DOMAIN routes |-> routes[i].id])

\* The configuration of an accepted document.
runtimeFromFile(doc) ==
  [level |-> doc.level, maxRetries |-> doc.retries, dialTimeout |-> doc.dial,
   cooldownBase |-> doc.base, cooldownMax |-> doc.max,
   rotation |-> parseRotationSettings(doc.rotation),
   warmPool |-> parseWarmPoolSettings(doc.warmPool),
   routes |-> AllRoutes(doc), routing |-> Compile(doc.routing)]

\* ResolveMaxConcurrent: the rotations n manual routes may have at a time.
ResolveMaxConcurrent(s, n) ==
  LET wanted == IF s.percent THEN (n * s.limit + 99) \div 100 ELSE s.limit
      limit  == IF wanted < 1 THEN 1 ELSE wanted
  IN  IF n <= 0 THEN 0 ELSE IF limit > n THEN n ELSE limit

-----------------------------------------------------------------------------
(* What the rest of the program relies on.                                 *)

\* The ids a rule or the default list offers are ids of routes.
IdsOf(cfg) == {cfg.routes[i].id : i \in DOMAIN cfg.routes}

\* A target that some rule decides has a route to try, and every candidate
\* is one route of the pool.
RoutingServable(cfg) ==
  cfg.routing # NoRouter =>
    /\ \A i \in DOMAIN cfg.routing.rules :
         cfg.routing.rules[i].routes # {} /\ cfg.routing.rules[i].routes \subseteq IdsOf(cfg)
    /\ cfg.routing.defaults \subseteq IdsOf(cfg)
    /\ \A i, j \in DOMAIN cfg.routes : cfg.routes[i].id = cfg.routes[j].id => i = j

\* The assumptions the other modules of this development make of a
\* generation: max-retries and the cooldown curve (RequestChain, Backoff),
\* the warm-pool bounds (WarmPool), the rotation cap (RotationScheduler),
\* one object per identity (RotationCommit), and routing that resolves.
Servable(cfg) ==
  /\ cfg.maxRetries >= 1 /\ 0 < cfg.cooldownBase /\ cfg.cooldownBase <= cfg.cooldownMax
  /\ LET w == cfg.warmPool
     IN  0 <= w.min /\ w.min <= w.max /\ 1 <= w.max /\ w.max <= w.total /\ 1 <= w.dials
  /\ \A n \in 1..Len(cfg.routes) : ResolveMaxConcurrent(cfg.rotation, n) \in 1..n
  /\ cfg.rotation.percent => ResolveMaxConcurrent(cfg.rotation, Len(cfg.routes)) * 100
                               >= Len(cfg.routes) * cfg.rotation.limit
  /\ 0 < cfg.rotation.every /\ cfg.rotation.every <= cfg.rotation.check
  /\ cfg.routes # <<>>
  /\ \A i, j \in DOMAIN cfg.routes : cfg.routes[i].identity = cfg.routes[j].identity => i = j
  /\ RoutingServable(cfg)
=============================================================================
