-------------------------- MODULE RequestChainProofs --------------------------
(***************************************************************************)
(* Proofs about the attempt of a request (SocksDial), the chain of its     *)
(* attempts (RequestChain) and the rotations that run beside it            *)
(* (RotationDrain), for any routes, targets, requests, configurations and  *)
(* behaviours of the endpoints: what a failed attempt blames is to blame,  *)
(* holds are conserved, every dial is another route, cooldowns are sound,  *)
(* a request is refused for want of a route only when no route could serve *)
(* it, the rotating flag is up exactly while a procedure owns the route,   *)
(* and a drain misses at most one holder per generation.                   *)
(***************************************************************************)
EXTENDS RotationDrain, NaturalFacts

-----------------------------------------------------------------------------
(* What the class of a failed attempt proves about the endpoint.           *)

\* Every stage ends well or in one class, whatever the endpoint does.
LEMMA HalfClassified ==
  ASSUME NEW e \in Behaviour, NEW c \in Credentials
  PROVE  DialHalf(c, e) \in {"ok", "dial", "handshake", "auth", "setup"}
<1>1. /\ e.tcp \in {"up", "down", "canceled"}
      /\ e.method \in {"none", "password", "refused", "unknown", "broken"}
      /\ e.login \in {"accepted", "rejected", "broken"}
  BY DEF Behaviour
<1>2. Login(c, e) \in {"ok", "handshake", "auth", "setup"}
  BY <1>1 DEF Login, Credentials
<1>3. negotiate(c, e) \in {"ok", "handshake", "auth", "setup"}
  BY <1>1, <1>2 DEF negotiate
<1>4. dialTCP(e) \in {"ok", "dial", "setup"}
  BY <1>1 DEF dialTCP
<1>5. QED
  BY <1>3, <1>4 DEF DialHalf

\* The second stage blames the route or the target, never the login, and the
\* target exactly when a reply refuses in its header.
LEMMA ConnectClassified ==
  ASSUME NEW encodes \in BOOLEAN, NEW reply \in Reply
  PROVE  /\ CompleteConnect(encodes, reply) \in {"ok", "handshake", "connect_target", "setup"}
         /\ CompleteConnect(encodes, reply) = "connect_target" <=> encodes /\ reply.header = "refused"
<1>1. reply.header \in {"granted", "refused", "broken"} /\ reply.bound \in {"whole", "broken"}
  BY DEF Reply
<1>2. CASE encodes = TRUE
  BY <1>1, <1>2 DEF CompleteConnect
<1>3. CASE encodes = FALSE
  BY <1>3 DEF CompleteConnect
<1>4. QED
  BY <1>2, <1>3

\* No attempt ends outside the five classes the chain tells apart
\* (http.go serveTunnel): every behaviour has an outcome.
THEOREM AttemptClassified ==
  ASSUME NEW e \in Behaviour, NEW c \in Credentials, NEW encodes \in BOOLEAN,
         NEW parked \in Reply \cup {NoReply}
  PROVE  dialWarmFirst(parked, c, encodes, e) \in Class \cup {"ok"}
<1>1. Dial(c, encodes, e) \in Class \cup {"ok"}
  <2>1. CASE DialHalf(c, e) = "ok"
    <3>1. CompleteConnect(encodes, e.reply) \in {"ok", "handshake", "connect_target", "setup"}
      BY ConnectClassified DEF Behaviour
    <3>2. QED
      BY <2>1, <3>1 DEF Dial, Class
  <2>2. CASE DialHalf(c, e) # "ok"
    BY <2>2, HalfClassified DEF Dial, Class
  <2>3. QED
    BY <2>1, <2>2
<1>2. CASE parked # NoReply /\ CompleteConnect(encodes, parked) \in {"ok", "connect_target"}
  BY <1>2 DEF dialWarmFirst, Class
<1>3. CASE ~(parked # NoReply /\ CompleteConnect(encodes, parked) \in {"ok", "connect_target"})
  BY <1>1, <1>3 DEF dialWarmFirst
<1>4. QED
  BY <1>2, <1>3

\* "No route health is reported for the attempt" over a parked connection
\* (server.go dialWarmFirst): whenever an attempt blames the route, its cold
\* dial alone ends in the same class, however the parked one failed.
THEOREM RouteBlamedByColdDial ==
  ASSUME NEW e \in Behaviour, NEW c \in Credentials, NEW encodes \in BOOLEAN,
         NEW parked,
         dialWarmFirst(parked, c, encodes, e) \in {"dial", "handshake", "auth", "setup"}
  PROVE  dialWarmFirst(parked, c, encodes, e) = Dial(c, encodes, e)
<1>1. CompleteConnect(encodes, parked) \notin {"ok", "connect_target"} \/ parked = NoReply
  BY DEF dialWarmFirst
<1>2. QED
  BY <1>1 DEF dialWarmFirst

\* An attempt cools a target alone exactly when a reply refuses it in its
\* header: the parked connection's, or the endpoint's own, which was reached
\* and let the route log in and is dialed only when the parked one did not
\* answer.  The four header bytes decide; what comes of the rest of a refused
\* reply is never asked (halfconn.go CompleteConnect, server.go dialWarmFirst).
THEOREM RefusalIsInTheHeader ==
  ASSUME NEW e \in Behaviour, NEW c \in Credentials, NEW encodes \in BOOLEAN,
         NEW parked \in Reply \cup {NoReply}
  PROVE  dialWarmFirst(parked, c, encodes, e) = "connect_target" <=>
           /\ encodes
           /\ \/ parked.header = "refused"
              \/ /\ parked = NoReply \/ CompleteConnect(encodes, parked) # "ok"
                 /\ DialHalf(c, e) = "ok"
                 /\ e.reply.header = "refused"
<1> DEFINE completed == CompleteConnect(encodes, parked)
           byParked  == encodes /\ parked.header = "refused"
           byDial    == encodes /\ DialHalf(c, e) = "ok" /\ e.reply.header = "refused"
<1>1. Dial(c, encodes, e) = "connect_target" <=> byDial
  <2>1. CASE DialHalf(c, e) = "ok"
    BY <2>1, ConnectClassified DEF Dial, Behaviour
  <2>2. CASE DialHalf(c, e) # "ok"
    BY <2>2, HalfClassified DEF Dial
  <2> QED BY <2>1, <2>2
<1>2. CASE parked = NoReply
  <2>1. dialWarmFirst(parked, c, encodes, e) = Dial(c, encodes, e)
    BY <1>2 DEF dialWarmFirst
  <2>2. ~byParked
    BY <1>2 DEF NoReply
  <2> QED BY <1>1, <1>2, <2>1, <2>2
<1>3. CASE parked # NoReply
  <2>1. completed = "connect_target" <=> byParked
    BY <1>3, ConnectClassified
  <2>2. dialWarmFirst(parked, c, encodes, e) =
          IF completed \in {"ok", "connect_target"} THEN completed ELSE Dial(c, encodes, e)
    BY <1>3 DEF dialWarmFirst
  <2> HIDE DEF completed
  <2>3. dialWarmFirst(parked, c, encodes, e) = "connect_target" <=>
          byParked \/ (completed # "ok" /\ byDial)
    BY <1>1, <2>1, <2>2
  <2> QED BY <1>3, <2>3 DEF completed
<1> QED BY <1>2, <1>3

-----------------------------------------------------------------------------
(* The chain of attempts.                                                  *)

\* A request past its start has a generation, and its candidates are routes
\* of it; one that has picked holds a route it did not try, within budget.
ChainOK ==
  \A r \in Requests :
    /\ pc[r] # "idle" => gen[r] \in 1..live
    /\ gen[r] # 0 => scope[r] \subseteq Elements(Config(r).routes)
    /\ pc[r] = "idle" => gen[r] = 0 /\ attempts[r] = 0 /\ exclude[r] = {}
    /\ pc[r] \in {"picked", "dialing", "established"} => chosen[r] \in Routes
    /\ pc[r] \in {"picked", "dialing", "established"} => chosen[r] \notin exclude[r]
    /\ pc[r] = "picked" => attempts[r] < Config(r).retries
    /\ pc[r] \in {"select", "picked", "no_route"} => attempts[r] = Cardinality(exclude[r])
    /\ pc[r] \in {"dialing", "established"} => attempts[r] = Cardinality(exclude[r]) + 1
    /\ gen[r] # 0 => attempts[r] <= Config(r).retries
    /\ IsFiniteSet(exclude[r])

ReloadOK == anchor # NoAnchor => live < MaxGenerations

Inv == TypeOK /\ ChainOK /\ ReloadOK /\ HoldsConserved

-----------------------------------------------------------------------------
(* Selection.                                                              *)

\* The scan returns one of the routes it scans, and none of them is smaller.
LEMMA FirstMinScanned ==
  ASSUME NEW entries \in Seq(Routes), NEW S \in SUBSET Elements(entries), S # {},
         NEW key, \A p \in S : key[p] \in Nat
  PROVE  /\ FirstMin(entries, S, key) \in S
         /\ \A q \in S : key[FirstMin(entries, S, key)] <= key[q]
<1> DEFINE T == {key[p] : p \in S}
<1>1. PICK least \in T : \A k \in T : least <= k
  <2>1. T \in SUBSET Nat /\ T # {}
    OBVIOUS
  <2> HIDE DEF T
  <2> QED BY <2>1, LeastNumber
<1> DEFINE I == {i \in DOMAIN entries : entries[i] \in S /\ key[entries[i]] = least}
<1>2. PICK first \in I : \A i \in I : first <= i
  <2>1. PICK p \in S : key[p] = least
    BY <1>1
  <2>2. PICK i \in DOMAIN entries : entries[i] = p
    BY DEF Elements
  <2>3. I \in SUBSET Nat /\ i \in I
    BY <2>1, <2>2
  <2> HIDE DEF I
  <2> QED BY <2>3, LeastNumber
<1> DEFINE best == entries[first]
<1>3. best \in S /\ key[best] = least /\ first \in DOMAIN entries
  BY <1>2
<1>4. ASSUME NEW q \in S
      PROVE  key[best] < key[q] \/ (key[best] = key[q] /\ NotAfter(entries, best, q))
  <2>1. least <= key[q] /\ least \in Nat /\ key[q] \in Nat
    BY <1>1, <1>3
  <2>2. CASE key[q] # least
    <3> HIDE DEF best
    <3> QED BY <1>3, <2>1, <2>2
  <2>3. CASE key[q] = least
    <3>1. PICK j \in DOMAIN entries : entries[j] = q
      BY DEF Elements
    <3>2. first <= j
      BY <1>2, <2>3, <3>1
    <3>3. NotAfter(entries, best, q)
      BY <1>3, <3>1, <3>2 DEF NotAfter
    <3> QED BY <1>3, <2>3, <3>3
  <2> QED BY <2>2, <2>3
<1> HIDE DEF best
<1> DEFINE fm == FirstMin(entries, S, key)
<1>5. /\ fm \in S
      /\ \A q \in S : \/ key[fm] < key[q]
                       \/ (key[fm] = key[q] /\ NotAfter(entries, fm, q))
  BY <1>3, <1>4 DEF FirstMin
<1> HIDE DEF fm
<1>6. \A q \in S : key[fm] <= key[q]
  BY <1>5
<1> QED BY <1>5, <1>6 DEF fm

\* What PickFor returns is a candidate in service, and it returns nothing
\* only when no candidate is in service.
LEMMA PickForChoice ==
  ASSUME PoolTypeOK, NEW entries \in Seq(Routes), NEW candidates \in SUBSET Elements(entries),
         NEW t \in Targets
  PROVE  \/ /\ PickFor(entries, candidates, t) \in candidates
            /\ ~authBlocked[PickFor(entries, candidates, t)]
            /\ ~rotating[PickFor(entries, candidates, t)]
         \/ /\ PickFor(entries, candidates, t) = NoRoute
            /\ \A p \in candidates : authBlocked[p] \/ rotating[p]
<1> DEFINE avail    == {p \in candidates : Available(p, t)}
           fallback == {p \in candidates : ~authBlocked[p] /\ ~rotating[p]}
           soonest  == [p \in fallback |-> Deadline(p, t)]
<1>1. candidates \subseteq Routes
  BY DEF Elements
<1>2. avail \subseteq fallback
  BY DEF Available, RouteAvailable
<1>3. CASE avail # {}
  <2>1. \A p \in avail : pass[p] \in Nat
    BY <1>1 DEF PoolTypeOK
  <2>2. avail \in SUBSET Elements(entries)
    OBVIOUS
  <2>3. FirstMin(entries, avail, pass) \in avail
    <3> HIDE DEF avail
    <3> QED BY <1>3, <2>1, <2>2, FirstMinScanned
  <2>4. PickFor(entries, candidates, t) = FirstMin(entries, avail, pass)
    BY <1>3 DEF PickFor
  <2> QED BY <1>2, <2>3, <2>4
<1>4. CASE avail = {} /\ fallback # {}
  <2>1. \A p \in fallback : soonest[p] \in Nat
    BY <1>1 DEF PoolTypeOK, Pair, Deadline
  <2>2. fallback \in SUBSET Elements(entries)
    OBVIOUS
  <2>3. FirstMin(entries, fallback, soonest) \in fallback
    <3> HIDE DEF fallback, soonest
    <3> QED BY <1>4, <2>1, <2>2, FirstMinScanned
  <2>4. PickFor(entries, candidates, t) = FirstMin(entries, fallback, soonest)
    BY <1>4 DEF PickFor
  <2> QED BY <2>3, <2>4
<1>5. CASE avail = {} /\ fallback = {}
  <2>1. PickFor(entries, candidates, t) = NoRoute
    BY <1>5 DEF PickFor
  <2> QED BY <1>5, <2>1
<1> QED BY <1>3, <1>4, <1>5

\* A request's own pick.
LEMMA PickedChoice ==
  ASSUME Inv, NEW r \in Requests, pc[r] = "select"
  PROVE  \/ /\ Picked(r) \in Candidates(r) /\ Picked(r) \in Routes
            /\ ~authBlocked[Picked(r)] /\ ~rotating[Picked(r)]
         \/ /\ Picked(r) = NoRoute
            /\ \A p \in Candidates(r) : authBlocked[p] \/ rotating[p]
<1>1. gen[r] \in 1..live /\ gen[r] # 0 /\ scope[r] \subseteq Elements(Config(r).routes)
  BY DEF Inv, ChainOK
<1>2. Config(r) \in Configs
  BY <1>1 DEF Inv, TypeOK, Config, live
<1>3. Config(r).routes \in Seq(Routes)
  BY <1>2, ConfigsAssumption
<1>4. Target(r) \in Targets
  BY RequestsAssumption DEF Inv, TypeOK, Target
<1>5. Candidates(r) \in SUBSET Elements(Config(r).routes)
  BY <1>1 DEF Candidates
<1>6. Elements(Config(r).routes) \subseteq Routes
  BY <1>3 DEF Elements
<1> QED BY <1>3, <1>4, <1>5, <1>6, PickForChoice DEF Picked, Inv, TypeOK

-----------------------------------------------------------------------------
(* Type correctness, the holds and the budget.                             *)

\* The recency anchor of a reload is the smallest pass of the live pool.
LEMMA AnchorIsPass ==
  ASSUME Inv
  PROVE  /\ Anchor(store[live].routes) \in Nat
         /\ \E p \in Elements(store[live].routes) : Anchor(store[live].routes) = pass[p]
         /\ \A p \in Elements(store[live].routes) : Anchor(store[live].routes) <= pass[p]
<1> DEFINE S == {pass[p] : p \in Elements(store[live].routes)}
<1>1. store[live] \in Configs
  BY DEF Inv, TypeOK, live
<1>2. store[live].routes \in Seq(Routes) \ {<<>>}
  BY <1>1, ConfigsAssumption
<1>3. S \in SUBSET Nat /\ S # {}
  <2>1. Elements(store[live].routes) \subseteq Routes
    BY <1>2 DEF Elements
  <2>2. 1 \in DOMAIN store[live].routes
    BY <1>2
  <2>3. store[live].routes[1] \in Elements(store[live].routes)
    BY <2>2 DEF Elements
  <2> QED BY <2>1, <2>3 DEF Inv, TypeOK, PoolTypeOK
<1>4. \E n \in S : \A m \in S : n <= m
  <2> HIDE DEF S
  <2> QED BY <1>3, LeastNumber
<1>5. /\ Anchor(store[live].routes) \in S
      /\ \A p \in Elements(store[live].routes) : Anchor(store[live].routes) <= pass[p]
  BY <1>4 DEF Anchor
<1> QED BY <1>3, <1>5

\* What a failure reports about a route stays typed, and touches nothing else.
LEMMA ReportTyped ==
  ASSUME PoolTypeOK, NEW class, NEW p \in Routes, NEW t \in Targets, ReportClass(class, p, t)
  PROVE  /\ pass' = pass
         /\ cooldownUntil' \in [Routes -> Nat]
         /\ consecutiveFailures' \in [Routes -> 0..MaxStreak]
         /\ authBlocked' \in [Routes -> BOOLEAN]
         /\ pairs' \in [Routes -> [Targets -> Pair]]
<1> USE DEF PoolTypeOK
<1>1. \A n \in 0..MaxStreak : Escalate(n) \in 1..MaxStreak
  BY CurveAssumption DEF Escalate
<1>2. \A n \in 1..MaxStreak : CooldownAfter[n] \in Nat
  BY CurveAssumption
<1>3. CASE ReportFailure(p)
  BY <1>1, <1>2, <1>3 DEF ReportFailure
<1>4. CASE ReportAuthBlocked(p)
  BY <1>4 DEF ReportAuthBlocked, dialHealth
<1>5. CASE ReportTargetFailure(p, t)
  <2> DEFINE streak == Escalate(pairs[p][t].consecutive)
             cooled == [deadline |-> now + CooldownAfter[streak], consecutive |-> streak]
  <2>1. cooled \in Pair /\ NoPair \in Pair
    <3>1. pairs[p][t].consecutive \in 0..MaxStreak
      BY DEF Pair
    <3>2. streak \in 1..MaxStreak /\ now + CooldownAfter[streak] \in Nat
      BY <1>1, <1>2, <3>1
    <3> HIDE DEF streak
    <3> QED BY <3>2, CurveAssumption DEF Pair, NoPair
  <2>2. UNCHANGED <<dialHealth, authBlocked, pass>>
        /\ \/ pairs' = [pairs EXCEPT ![p][t] = cooled]
           \/ \E u \in Evictable(p) :
                pairs' = [pairs EXCEPT ![p] = [@ EXCEPT ![u] = NoPair, ![t] = cooled]]
    BY <1>5 DEF ReportTargetFailure
  <2>3. pairs' \in [Routes -> [Targets -> Pair]]
    <3> HIDE DEF cooled
    <3>1. CASE pairs' = [pairs EXCEPT ![p][t] = cooled]
      BY <2>1, <3>1
    <3>2. CASE \E u \in Evictable(p) :
                 pairs' = [pairs EXCEPT ![p] = [@ EXCEPT ![u] = NoPair, ![t] = cooled]]
      <4>1. PICK u \in Evictable(p) :
              pairs' = [pairs EXCEPT ![p] = [@ EXCEPT ![u] = NoPair, ![t] = cooled]]
        BY <3>2
      <4>2. [pairs[p] EXCEPT ![u] = NoPair, ![t] = cooled] \in [Targets -> Pair]
        BY <2>1
      <4> QED BY <4>1, <4>2
    <3> QED BY <2>2, <3>1, <3>2
  <2> QED BY <2>2, <2>3 DEF dialHealth
<1> QED BY <1>3, <1>4, <1>5 DEF ReportClass

LEMMA HoldersFinite ==
  ASSUME NEW p
  PROVE  IsFiniteSet(Holders(p)) /\ Cardinality(Holders(p)) \in Nat
BY FS_Subset, FS_CardinalityType, RequestsAssumption DEF Holders

LEMMA DialingFinite ==
  ASSUME NEW p
  PROVE  IsFiniteSet(Dialing(p)) /\ Cardinality(Dialing(p)) \in Nat
BY FS_Subset, FS_CardinalityType, RequestsAssumption DEF Dialing

\* A step that gives a route up drops one hold and one holder.
LEMMA ReleaseDropsOne ==
  ASSUME Inv, NEW r \in Requests, NEW to \in Stage \ {"dialing", "established"},
         pc[r] \in {"dialing", "established"},
         pc' = [pc EXCEPT ![r] = to], chosen' = [chosen EXCEPT ![r] = NoRoute],
         Release(chosen[r])
  PROVE  HoldsConserved' /\ inFlight' \in [Routes -> Nat]
<1> USE DEF Inv, TypeOK, PoolTypeOK
<1>1. PICK p \in Routes : p = chosen[r] /\ r \in Holders(p)
  BY DEF ChainOK, Holders
<1>2. Holders(p)' = Holders(p) \ {r} /\ \A q \in Routes \ {p} : Holders(q)' = Holders(q)
  BY <1>1 DEF Holders, Stage
<1>3. Cardinality(Holders(p)') = Cardinality(Holders(p)) - 1
  <2>1. IsFiniteSet(Holders(p))
    BY HoldersFinite
  <2> HIDE DEF Inv, TypeOK, PoolTypeOK
  <2>2. Cardinality(Holders(p) \ {r}) = Cardinality(Holders(p)) - 1
    BY <1>1, <2>1, FS_RemoveElement
  <2> QED BY <1>2, <2>2
<1>4. Cardinality(Holders(p)) \in Nat \ {0}
  <2>1. Holders(p) # {} /\ IsFiniteSet(Holders(p)) /\ Cardinality(Holders(p)) \in Nat
    BY <1>1, HoldersFinite
  <2> QED BY <2>1, FS_EmptySet
<1>5. inFlight[p] = Cardinality(Holders(p))
  BY <1>1 DEF HoldsConserved
<1>6. inFlight' = [inFlight EXCEPT ![p] = inFlight[p] - 1] /\ inFlight[p] - 1 \in Nat
  BY <1>1, <1>4, <1>5 DEF Release
<1>7. \A q \in Routes : inFlight'[q] = Cardinality(Holders(q)')
  BY <1>1, <1>2, <1>3, <1>5, <1>6 DEF HoldsConserved
<1> QED BY <1>1, <1>6, <1>7 DEF HoldsConserved

LEMMA InitInv == Init => Inv
<1> SUFFICES ASSUME Init PROVE Inv
  OBVIOUS
<1>1. TypeOK
  <2>1. PoolTypeOK
    BY CurveAssumption DEF Init, PoolInit, PoolTypeOK, NoPair, Pair
  <2>2. store \in Seq(Configs) /\ live \in 1..MaxGenerations
    BY ConfigsAssumption DEF Init, live
  <2> QED BY <2>1, <2>2, ConfigsAssumption DEF Init, TypeOK, Stage, Chain, Refused
<1>2. ChainOK
  BY FS_EmptySet, <1>1 DEF Init, ChainOK, TypeOK
<1>3. ReloadOK
  BY DEF Init, ReloadOK
<1>4. HoldsConserved
  <2>1. \A p \in Routes : Holders(p) = {}
    BY DEF Init, Holders
  <2> QED BY <2>1, FS_EmptySet DEF Init, PoolInit, HoldsConserved
<1> QED BY <1>1, <1>2, <1>3, <1>4 DEF Inv

-----------------------------------------------------------------------------
\* A step that changes neither the pool nor a chosen route keeps the holds.
LEMMA HoldsUntouched ==
  ASSUME Inv, UNCHANGED inFlight,
         \A p \in Routes : Holders(p)' = Holders(p)
  PROVE  HoldsConserved'
BY DEF Inv, HoldsConserved

\* The candidates of a new request are routes of its generation.
LEMMA ScopeOfGeneration ==
  ASSUME NEW c, NEW a
  PROVE  ScopeOf(c, a) \subseteq Elements(c.routes)
BY DEF ScopeOf, Scope

LEMMA StartKeepsInv ==
  ASSUME Inv, NEW r \in Requests, Start(r)
  PROVE  Inv'
<1> USE DEF Inv, Start, Goto
<1>1. store[live] \in Configs /\ live \in 1..MaxGenerations /\ live \in Nat
  BY ConfigsAssumption DEF TypeOK, live
<1>2. /\ store[live].routes \in Seq(Routes) /\ store[live].retries \in Nat \ {0}
      /\ Elements(store[live].routes) \subseteq Routes
  BY <1>1, ConfigsAssumption DEF Elements
<1>3. ScopeOf(store[live], arrival[r]) \subseteq Elements(store[live].routes)
  BY ScopeOfGeneration
<1>4. TypeOK'
  <2>1. PoolTypeOK'
    BY DEF TypeOK, PoolTypeOK, poolVars, health, dialHealth
  <2>2. scope' \in [Requests -> SUBSET Routes] /\ gen' \in [Requests -> 0..live]
    BY <1>1, <1>2, <1>3 DEF TypeOK
  <2> QED BY <2>1, <2>2 DEF TypeOK, reloadVars, live, Stage, Chain
<1>5. ChainOK'
  <2> SUFFICES ASSUME NEW q \in Requests PROVE ChainOK!(q)'
    BY DEF ChainOK
  <2>1. CASE q = r
    BY <1>1, <1>2, <1>3, <2>1, FS_EmptySet DEF ChainOK, TypeOK, Config, reloadVars, live
  <2>2. CASE q # r
    BY <2>2 DEF ChainOK, TypeOK, Config, reloadVars, live
  <2> QED BY <2>1, <2>2
<1>6. HoldsConserved'
  <2>1. \A p \in Routes : Holders(p)' = Holders(p)
    BY DEF TypeOK, Holders
  <2> QED BY <2>1, HoldsUntouched DEF poolVars
<1>7. ReloadOK'
  BY DEF ReloadOK, reloadVars, live
<1> QED BY <1>4, <1>5, <1>6, <1>7

\* The ends of the loop that serve nothing.
LEMMA EndKeepsInv ==
  ASSUME Inv, NEW r \in Requests, DeadlineExpired(r) \/ RetryExhausted(r) \/ PickNone(r)
  PROVE  Inv'
<1> USE DEF Inv, Goto
<1>1. /\ pc[r] = "select" /\ \E to \in Refused : pc' = [pc EXCEPT ![r] = to]
      /\ UNCHANGED <<poolVars, arrival, gen, scope, attempts, exclude, chosen, failovers, poolMu,
                     reloadVars>>
  BY DEF DeadlineExpired, RetryExhausted, PickNone, Refused
<1>2. TypeOK'
  <2>1. PoolTypeOK'
    BY <1>1 DEF TypeOK, PoolTypeOK, poolVars, health, dialHealth
  <2> QED BY <1>1, <2>1 DEF TypeOK, reloadVars, live, Stage
<1>3. ChainOK'
  BY <1>1 DEF ChainOK, TypeOK, Config, reloadVars, live, Refused
<1>4. HoldsConserved'
  <2>1. \A p \in Routes : Holders(p)' = Holders(p)
    BY <1>1 DEF TypeOK, Holders, Refused
  <2> QED BY <1>1, <2>1, HoldsUntouched DEF poolVars
<1>5. ReloadOK'
  BY <1>1 DEF ReloadOK, reloadVars, live
<1> QED BY <1>2, <1>3, <1>4, <1>5

LEMMA ScanKeepsInv ==
  ASSUME Inv, NEW r \in Requests, PickScan(r)
  PROVE  Inv'
<1> USE DEF Inv, Goto, PickScan
<1>1. Picked(r) \in Routes /\ Picked(r) \notin exclude[r]
  BY PickedChoice DEF Candidates
<1>2. gen[r] \in 1..MaxGenerations /\ attempts[r] < Config(r).retries
  <2>1. gen[r] \in 1..live /\ live \in 1..MaxGenerations /\ MaxGenerations \in Nat
    BY ConfigsAssumption DEF ChainOK, TypeOK
  <2> QED BY <2>1 DEF CanPick
<1>3. TypeOK'
  <2>1. PoolTypeOK'
    BY DEF TypeOK, PoolTypeOK, poolVars, health, dialHealth
  <2>2. peak' \in Nat
    BY DialingFinite DEF TypeOK, Crowds
  <2> QED BY <1>1, <1>2, <2>1, <2>2 DEF TypeOK, reloadVars, live, Stage, Chain
<1>4. ChainOK'
  BY <1>1, <1>2 DEF ChainOK, TypeOK, Config, reloadVars, live
<1>5. HoldsConserved'
  <2>1. \A p \in Routes : Holders(p)' = Holders(p)
    BY DEF TypeOK, Holders
  <2> QED BY <2>1, HoldsUntouched DEF poolVars
<1>6. ReloadOK'
  BY DEF ReloadOK, reloadVars, live
<1> QED BY <1>3, <1>4, <1>5, <1>6

LEMMA ServeKeepsInv ==
  ASSUME Inv, NEW r \in Requests, PickServe(r)
  PROVE  Inv'
<1> USE DEF Inv, Goto, PickServe, Serve
<1>1. PICK p \in Routes : p = chosen[r] /\ r \notin Holders(p)
  BY DEF ChainOK, Holders
<1>2. Config(r).retries \in Nat /\ gen[r] \in 1..live
  <2>1. gen[r] \in 1..live
    BY DEF ChainOK
  <2>2. Config(r) \in Configs
    BY <2>1 DEF TypeOK, Config, live
  <2> QED BY <2>1, <2>2, ConfigsAssumption
<1>3. TypeOK'
  <2>1. PoolTypeOK'
    BY <1>1 DEF TypeOK, PoolTypeOK, health, dialHealth
  <2>2. drift' \in Nat /\ attempts' \in [Requests -> Nat]
    BY DEF TypeOK, Drifts
  <2>3. poolMu' \in [1..MaxGenerations -> Requests \cup {NoRequest}]
    BY DEF TypeOK
  <2> QED BY <2>1, <2>2, <2>3 DEF TypeOK, live, Stage, Chain
<1>4. ChainOK'
  <2> SUFFICES ASSUME NEW q \in Requests PROVE ChainOK!(q)'
    BY DEF ChainOK
  <2>1. CASE q = r
    BY <1>2, <2>1 DEF ChainOK, TypeOK, Config, live
  <2>2. CASE q # r
    BY <2>2 DEF ChainOK, TypeOK, Config, live
  <2> QED BY <2>1, <2>2
<1>5. HoldsConserved'
  <2>1. Holders(p)' = Holders(p) \cup {r} /\ \A q \in Routes \ {p} : Holders(q)' = Holders(q)
    BY <1>1 DEF TypeOK, Holders
  <2>2. Cardinality(Holders(p) \cup {r}) = Cardinality(Holders(p)) + 1
    BY <1>1, HoldersFinite, FS_AddElement
  <2>3. inFlight' = [inFlight EXCEPT ![p] = inFlight[p] + 1]
    BY <1>1
  <2>4. \A q \in Routes : inFlight'[q] = Cardinality(Holders(q)')
    BY <2>1, <2>2, <2>3 DEF HoldsConserved, TypeOK, PoolTypeOK
  <2> QED BY <2>4 DEF HoldsConserved
<1>6. ReloadOK'
  BY DEF ReloadOK, live
<1> QED BY <1>3, <1>4, <1>5, <1>6

LEMMA SuccessKeepsInv ==
  ASSUME Inv, NEW r \in Requests, DialSucceeds(r)
  PROVE  Inv'
<1> USE DEF Inv, Goto, DialSucceeds
<1>1. PICK p \in Routes : p = chosen[r]
  BY DEF ChainOK
<1>2. TypeOK'
  <2>1. /\ cooldownUntil' \in [Routes -> Nat] /\ pass' \in [Routes -> Nat]
        /\ consecutiveFailures' \in [Routes -> 0..MaxStreak]
    BY <1>1, CurveAssumption DEF TypeOK, PoolTypeOK, ReportSuccess
  <2>2. pairs' \in [Routes -> [Targets -> Pair]]
    <3>1. NoPair \in Pair
      BY CurveAssumption DEF NoPair, Pair
    <3>2. pairs' = [pairs EXCEPT ![p][Target(r)] = NoPair]
      BY <1>1 DEF ReportSuccess, clearTargetCooldown
    <3> QED BY <3>1, <3>2 DEF TypeOK, PoolTypeOK
  <2>3. PoolTypeOK'
    BY <2>1, <2>2 DEF TypeOK, PoolTypeOK, ReportSuccess
  <2>4. drift' \in Nat
    BY DEF TypeOK, Drifts
  <2> QED BY <2>3, <2>4 DEF TypeOK, live, Stage
<1>3. ChainOK'
  BY DEF ChainOK, TypeOK, Config, live
<1>4. HoldsConserved'
  <2>1. \A q \in Routes : Holders(q)' = Holders(q)
    BY DEF TypeOK, Holders
  <2> QED BY <2>1, HoldsUntouched
<1>5. ReloadOK'
  BY DEF ReloadOK, live
<1> QED BY <1>2, <1>3, <1>4, <1>5

LEMMA FailureKeepsInv ==
  ASSUME Inv, NEW r \in Requests, DialFails(r)
  PROVE  Inv'
<1> USE DEF Inv, Goto, DialFails
<1>1. chosen[r] \in Routes /\ chosen[r] \notin exclude[r] /\ Target(r) \in Targets
  BY RequestsAssumption DEF ChainOK, TypeOK, Target
<1>2. HoldsConserved' /\ inFlight' \in [Routes -> Nat]
  BY ReleaseDropsOne DEF Stage, Chain
<1>3. PICK class : ReportClass(class, chosen[r], Target(r))
  OBVIOUS
<1>4. exclude' = [exclude EXCEPT ![r] = exclude[r] \cup {chosen[r]}]
  BY DEF Excluded
<1>5. TypeOK'
  <2>1. PoolTypeOK'
    BY <1>1, <1>2, <1>3, ReportTyped DEF TypeOK, PoolTypeOK
  <2>2. failovers' \in [Requests -> Nat] /\ exclude' \in [Requests -> SUBSET Routes]
    BY <1>1, <1>4 DEF TypeOK
  <2> QED BY <2>1, <2>2 DEF TypeOK, reloadVars, live, Stage, Chain
<1>6. ChainOK'
  <2> SUFFICES ASSUME NEW q \in Requests PROVE ChainOK!(q)'
    BY DEF ChainOK
  <2>1. CASE q = r
    <3>1. /\ IsFiniteSet(exclude[r] \cup {chosen[r]})
          /\ Cardinality(exclude[r] \cup {chosen[r]}) = Cardinality(exclude[r]) + 1
      BY <1>1, FS_AddElement DEF ChainOK
    <3> QED BY <1>4, <2>1, <3>1 DEF ChainOK, TypeOK, Config, reloadVars, live
  <2>2. CASE q # r
    BY <1>4, <2>2 DEF ChainOK, TypeOK, Config, reloadVars, live
  <2> QED BY <2>1, <2>2
<1>7. ReloadOK'
  BY DEF ReloadOK, reloadVars, live
<1> QED BY <1>2, <1>5, <1>6, <1>7

LEMMA ReturnKeepsInv ==
  ASSUME Inv, NEW r \in Requests, SetupFails(r) \/ Finish(r)
  PROVE  Inv'
<1> USE DEF Inv, Goto
<1>1. /\ pc[r] \in {"dialing", "established"} /\ Release(chosen[r])
      /\ \E to \in {"setup", "closed"} : pc' = [pc EXCEPT ![r] = to]
      /\ chosen' = [chosen EXCEPT ![r] = NoRoute]
      /\ UNCHANGED <<now, pass, health, rotating, arrival, gen, scope, attempts, exclude,
                     failovers, poolMu, reloadVars>>
  BY DEF SetupFails, Finish
<1>2. HoldsConserved' /\ inFlight' \in [Routes -> Nat]
  BY <1>1, ReleaseDropsOne DEF Stage, Refused
<1>3. TypeOK'
  <2>1. PoolTypeOK'
    BY <1>1, <1>2 DEF TypeOK, PoolTypeOK, health, dialHealth
  <2> QED BY <1>1, <2>1 DEF TypeOK, reloadVars, live, Stage, Refused
<1>4. ChainOK'
  BY <1>1 DEF ChainOK, TypeOK, Config, reloadVars, live
<1>5. ReloadOK'
  BY <1>1 DEF ReloadOK, reloadVars, live
<1> QED BY <1>2, <1>3, <1>4, <1>5

LEMMA ReloadKeepsInv ==
  ASSUME Inv, Tick \/ ReadPasses \/ Publish
  PROVE  Inv'
<1> USE DEF Inv
<1>1. CASE Tick
  <2> USE <1>1 DEF Tick, requestVars, chainVars, reloadVars
  <2>1. TypeOK'
    BY DEF TypeOK, PoolTypeOK, live, health, dialHealth
  <2>2. ChainOK' /\ ReloadOK'
    BY DEF ChainOK, ReloadOK, Config, live
  <2>3. HoldsConserved'
    BY DEF HoldsConserved, Holders
  <2> QED BY <2>1, <2>2, <2>3
<1>2. CASE ReadPasses
  <2> USE <1>2 DEF ReadPasses, poolVars, chainVars
  <2>1. anchor' \in Nat
    BY AnchorIsPass
  <2>2. TypeOK'
    BY <2>1 DEF TypeOK, PoolTypeOK, live, health, dialHealth
  <2>3. ChainOK' /\ ReloadOK'
    BY DEF ChainOK, ReloadOK, Config, live
  <2>4. HoldsConserved'
    BY DEF HoldsConserved, Holders
  <2> QED BY <2>2, <2>3, <2>4
<1>3. CASE Publish
  <2> USE <1>3 DEF Publish, chainVars
  <2>1. PICK c \in Configs :
          /\ store' = Append(store, c)
          /\ pass' = [p \in Routes |-> IF p \in Elements(c.routes) \ Known THEN anchor ELSE pass[p]]
    OBVIOUS
  <2>2. /\ store' \in Seq(Configs) /\ live' = live + 1 /\ live \in Nat /\ live' \in 1..MaxGenerations
        /\ \A g \in 1..live : store'[g] = store[g]
    BY <2>1, ConfigsAssumption DEF TypeOK, ReloadOK, live
  <2>3. pass' \in [Routes -> Nat]
    BY <2>1 DEF TypeOK, PoolTypeOK
  <2>4. TypeOK'
    <3>1. PoolTypeOK'
      BY <2>3 DEF TypeOK, PoolTypeOK, health, dialHealth
    <3>2. gen' \in [Requests -> 0..live']
      BY <2>2 DEF TypeOK
    <3> QED BY <2>2, <3>1, <3>2 DEF TypeOK
  <2>5. ChainOK'
    <3> SUFFICES ASSUME NEW q \in Requests PROVE ChainOK!(q)'
      BY DEF ChainOK
    <3>1. gen[q] # 0 => gen[q] \in 1..live
      BY DEF TypeOK
    <3>2. gen[q] # 0 => Config(q)' = Config(q)
      BY <2>2, <3>1 DEF Config
    <3> QED BY <2>2, <3>1, <3>2 DEF ChainOK
  <2>6. HoldsConserved'
    BY DEF HoldsConserved, Holders
  <2>7. ReloadOK'
    BY DEF ReloadOK
  <2> QED BY <2>4, <2>5, <2>6, <2>7
<1> QED BY <1>1, <1>2, <1>3

LEMMA NextInv ==
  ASSUME Inv, [Next]_vars
  PROVE  Inv'
<1>1. CASE UNCHANGED vars
  BY <1>1 DEF vars, poolVars, health, dialHealth, requestVars, chainVars, reloadVars, Inv, TypeOK,
              PoolTypeOK, ChainOK, ReloadOK, HoldsConserved, Holders, Config, live
<1> QED BY <1>1, StartKeepsInv, EndKeepsInv, ScanKeepsInv, ServeKeepsInv, SuccessKeepsInv,
           FailureKeepsInv, ReturnKeepsInv, ReloadKeepsInv DEF Next, ChainStep

LEMMA SpecInv == Spec => []Inv
  BY InitInv, NextInv, PTL DEF Spec

-----------------------------------------------------------------------------
(* Cooldowns.                                                              *)

Bounded == \A p \in Routes : IsFiniteSet(Tracked(p))

CoolInv == CooldownsSound /\ Bounded

LEMMA InitCool == Init => CoolInv
<1> SUFFICES ASSUME Init PROVE CoolInv
  OBVIOUS
<1>1. \A p \in Routes : Tracked(p) = {}
  BY DEF Init, PoolInit, Tracked, NoPair
<1>2. \A p \in Routes : IsFiniteSet(Tracked(p)) /\ Cardinality(Tracked(p)) <= MaxTrackedPairs
  <2>1. 0 <= MaxTrackedPairs
    BY CurveAssumption
  <2>2. IsFiniteSet({}) /\ Cardinality({}) = 0
    BY FS_EmptySet
  <2> QED BY <1>1, <2>1, <2>2
<1>3. \A p \in Routes : /\ Agrees(cooldownUntil[p], consecutiveFailures[p])
                        /\ \A t \in Targets : Agrees(pairs[p][t].deadline, pairs[p][t].consecutive)
  BY DEF Init, PoolInit, Agrees, NoPair
<1> QED BY <1>2, <1>3 DEF CoolInv, CooldownsSound, Bounded

\* The parts of the invariant, when the clock did not move.
LEMMA CoolFromParts ==
  ASSUME now' = now,
         \A q \in Routes :
           /\ Agrees(cooldownUntil'[q], consecutiveFailures'[q])
           /\ \A u \in Targets : Agrees(pairs'[q][u].deadline, pairs'[q][u].consecutive)
           /\ IsFiniteSet(Tracked(q)') /\ Cardinality(Tracked(q)') <= MaxTrackedPairs
  PROVE  CoolInv'
<1>1. \A q \in Routes :
        /\ Agrees(cooldownUntil[q], consecutiveFailures[q])'
        /\ \A u \in Targets : Agrees(pairs[q][u].deadline, pairs[q][u].consecutive)'
  BY DEF Agrees
<1> QED BY <1>1 DEF CoolInv, CooldownsSound, Bounded

\* What a report does to one route's cooldowns keeps them sound.
LEMMA ReportKeepsCool ==
  ASSUME PoolTypeOK, CoolInv, NEW class, NEW p \in Routes, NEW t \in Targets,
         ReportClass(class, p, t), now' = now
  PROVE  CoolInv'
<1> USE DEF PoolTypeOK
<1>1. \A n \in 0..MaxStreak : Escalate(n) \in 1..MaxStreak
  BY CurveAssumption DEF Escalate
<1>2. \A n \in 1..MaxStreak : CooldownAfter[n] \in Nat \ {0}
  BY CurveAssumption
<1>3. CASE ReportFailure(p)
  <2>1. /\ consecutiveFailures' = [consecutiveFailures EXCEPT ![p] = Escalate(consecutiveFailures[p])]
        /\ cooldownUntil' = [cooldownUntil EXCEPT ![p] = now + CooldownAfter[Escalate(consecutiveFailures[p])]]
        /\ UNCHANGED pairs
    BY <1>3 DEF ReportFailure
  <2> DEFINE n == Escalate(consecutiveFailures[p])
  <2>2. n \in 1..MaxStreak /\ CooldownAfter[n] \in Nat \ {0} /\ MaxStreak \in Nat
    BY <1>1, <1>2, CurveAssumption
  <2>3. Agrees(now + CooldownAfter[n], n)
    <3> HIDE DEF n
    <3> QED BY <2>2 DEF Agrees
  <2>4. \A q \in Routes : Agrees(cooldownUntil'[q], consecutiveFailures'[q])
    <3> HIDE DEF n
    <3>1. /\ consecutiveFailures' = [consecutiveFailures EXCEPT ![p] = n]
          /\ cooldownUntil' = [cooldownUntil EXCEPT ![p] = now + CooldownAfter[n]]
      BY <2>1 DEF n
    <3> QED BY <2>3, <3>1 DEF CoolInv, CooldownsSound
  <2>5. \A q \in Routes : Tracked(q)' = Tracked(q)
    BY <2>1 DEF Tracked
  <2>6. \A q \in Routes : /\ Agrees(cooldownUntil'[q], consecutiveFailures'[q])
                          /\ \A u \in Targets : Agrees(pairs'[q][u].deadline, pairs'[q][u].consecutive)
                          /\ IsFiniteSet(Tracked(q)') /\ Cardinality(Tracked(q)') <= MaxTrackedPairs
    BY <2>1, <2>4, <2>5 DEF CoolInv, CooldownsSound, Bounded
  <2> QED BY <2>6, CoolFromParts
<1>4. CASE ReportAuthBlocked(p)
  BY <1>4 DEF ReportAuthBlocked, dialHealth, CoolInv, CooldownsSound, Bounded, Tracked, Agrees
<1>5. CASE ReportTargetFailure(p, t)
  <2> DEFINE n == Escalate(pairs[p][t].consecutive)
             cooled == [deadline |-> now + CooldownAfter[n], consecutive |-> n]
  <2>1. /\ UNCHANGED dialHealth
        /\ \/ /\ ~PairsFull(p, t)
              /\ pairs' = [pairs EXCEPT ![p][t] = cooled]
           \/ /\ PairsFull(p, t)
              /\ \E u \in Evictable(p) :
                   pairs' = [pairs EXCEPT ![p] = [@ EXCEPT ![u] = NoPair, ![t] = cooled]]
    BY <1>5 DEF ReportTargetFailure
  <2>2. n \in 1..MaxStreak /\ CooldownAfter[n] \in Nat \ {0} /\ MaxStreak \in Nat
    <3>1. pairs[p][t].consecutive \in 0..MaxStreak
      BY DEF Pair
    <3>2. n \in 1..MaxStreak
      BY <1>1, <3>1
    <3> HIDE DEF n
    <3> QED BY <1>2, <3>2, CurveAssumption
  <2>3. Agrees(cooled.deadline, cooled.consecutive) /\ cooled.consecutive > 0
    <3> HIDE DEF n
    <3> QED BY <2>2 DEF Agrees
  <2>4. Agrees(NoPair.deadline, NoPair.consecutive) /\ ~(NoPair.consecutive > 0)
    BY DEF Agrees, NoPair
  <2>5. Evictable(p) \subseteq Tracked(p) /\ Tracked(p) \subseteq Targets
    BY DEF Evictable, Expired, Tracked
  <2>6. IsFiniteSet(Tracked(p)) /\ Cardinality(Tracked(p)) <= MaxTrackedPairs
        /\ Cardinality(Tracked(p)) \in Nat /\ MaxTrackedPairs \in Nat
    BY FS_CardinalityType, CurveAssumption DEF CoolInv, CooldownsSound, Bounded
  <2> HIDE DEF cooled
  <2>7. /\ \A q \in Routes \ {p} : pairs'[q] = pairs[q] /\ Tracked(q)' = Tracked(q)
        /\ \A u \in Targets : Agrees(pairs'[p][u].deadline, pairs'[p][u].consecutive)
        /\ IsFiniteSet(Tracked(p)') /\ Cardinality(Tracked(p)') <= MaxTrackedPairs
    <3>1. CASE ~PairsFull(p, t) /\ pairs' = [pairs EXCEPT ![p][t] = cooled]
      <4>1. Tracked(p)' = Tracked(p) \cup {t}
        BY <2>3, <3>1 DEF Tracked
      <4>2. /\ IsFiniteSet(Tracked(p) \cup {t})
            /\ Cardinality(Tracked(p) \cup {t})
                 = IF t \in Tracked(p) THEN Cardinality(Tracked(p)) ELSE Cardinality(Tracked(p)) + 1
        BY <2>6, FS_AddElement
      <4>3. t \in Tracked(p) \/ Cardinality(Tracked(p)) < MaxTrackedPairs
        BY <2>6, <3>1 DEF PairsFull
      <4>4. Cardinality(Tracked(p) \cup {t}) <= MaxTrackedPairs
        BY <2>6, <4>2, <4>3
      <4>5. \A q \in Routes \ {p} : pairs'[q] = pairs[q] /\ Tracked(q)' = Tracked(q)
        BY <3>1 DEF Tracked
      <4>6. \A u \in Targets : Agrees(pairs'[p][u].deadline, pairs'[p][u].consecutive)
        BY <2>3, <3>1 DEF CoolInv, CooldownsSound
      <4> QED BY <4>1, <4>2, <4>4, <4>5, <4>6
    <3>2. ASSUME PairsFull(p, t), NEW u \in Evictable(p),
                 pairs' = [pairs EXCEPT ![p] = [@ EXCEPT ![u] = NoPair, ![t] = cooled]]
          PROVE  /\ \A q \in Routes \ {p} : pairs'[q] = pairs[q] /\ Tracked(q)' = Tracked(q)
                 /\ \A v \in Targets : Agrees(pairs'[p][v].deadline, pairs'[p][v].consecutive)
                 /\ IsFiniteSet(Tracked(p)') /\ Cardinality(Tracked(p)') <= MaxTrackedPairs
      <4>1. u \in Tracked(p) /\ u \in Targets /\ t \notin Tracked(p)
        BY <2>5, <3>2 DEF PairsFull
      <4>2. \A v \in Targets : pairs'[p][v] = IF v = t THEN cooled
                                              ELSE IF v = u THEN NoPair ELSE pairs[p][v]
        BY <3>2, <4>1
      <4>3. Tracked(p)' = (Tracked(p) \ {u}) \cup {t}
        BY <2>3, <2>4, <4>1, <4>2 DEF Tracked
      <4>4. IsFiniteSet(Tracked(p) \ {u}) /\ Cardinality(Tracked(p) \ {u}) = Cardinality(Tracked(p)) - 1
        BY <2>6, <4>1, FS_RemoveElement
      <4>5. IsFiniteSet((Tracked(p) \ {u}) \cup {t})
            /\ Cardinality((Tracked(p) \ {u}) \cup {t}) = Cardinality(Tracked(p) \ {u}) + 1
        BY <4>1, <4>4, FS_AddElement
      <4>6. IsFiniteSet(Tracked(p)') /\ Cardinality(Tracked(p)') <= MaxTrackedPairs
        BY <2>6, <4>3, <4>4, <4>5
      <4>7. \A q \in Routes \ {p} : pairs'[q] = pairs[q] /\ Tracked(q)' = Tracked(q)
        BY <3>2 DEF Tracked
      <4>8. \A v \in Targets : Agrees(pairs'[p][v].deadline, pairs'[p][v].consecutive)
        BY <2>3, <2>4, <4>2 DEF CoolInv, CooldownsSound
      <4> QED BY <4>6, <4>7, <4>8
    <3> QED BY <2>1, <3>1, <3>2
  <2>8. \A q \in Routes : /\ Agrees(cooldownUntil'[q], consecutiveFailures'[q])
                          /\ \A u \in Targets : Agrees(pairs'[q][u].deadline, pairs'[q][u].consecutive)
                          /\ IsFiniteSet(Tracked(q)') /\ Cardinality(Tracked(q)') <= MaxTrackedPairs
    <3> TAKE q \in Routes
    <3>1. CASE q = p
      BY <2>1, <2>7, <3>1 DEF CoolInv, CooldownsSound, dialHealth
    <3>2. CASE q # p
      BY <2>1, <2>7, <3>2 DEF CoolInv, CooldownsSound, Bounded, dialHealth
    <3> QED BY <3>1, <3>2
  <2> QED BY <2>8, CoolFromParts
<1> QED BY <1>3, <1>4, <1>5 DEF ReportClass

LEMMA NextCool ==
  ASSUME Inv, CoolInv, [Next]_vars
  PROVE  CoolInv'
<1>1. CASE now' = now /\ UNCHANGED health
  BY <1>1 DEF health, dialHealth, CoolInv, CooldownsSound, Bounded, Agrees, Tracked
<1>2. CASE Tick
  <2>1. now' = now + 1 /\ UNCHANGED health /\ now \in Nat
    BY <1>2 DEF Tick, Inv, TypeOK, PoolTypeOK
  <2>2. \A n \in 1..MaxStreak : CooldownAfter[n] \in Nat
    BY CurveAssumption
  <2>3. ASSUME NEW d \in Nat, NEW n \in 0..MaxStreak, Agrees(d, n) PROVE Agrees(d, n)'
    BY <2>1, <2>2, <2>3, CurveAssumption DEF Agrees
  <2>4. \A p \in Routes : /\ cooldownUntil[p] \in Nat /\ consecutiveFailures[p] \in 0..MaxStreak
                          /\ \A t \in Targets : pairs[p][t].deadline \in Nat
                                                /\ pairs[p][t].consecutive \in 0..MaxStreak
    BY DEF Inv, TypeOK, PoolTypeOK, Pair
  <2>5. \A p \in Routes : /\ Agrees(cooldownUntil[p], consecutiveFailures[p])'
                          /\ \A t \in Targets : Agrees(pairs[p][t].deadline, pairs[p][t].consecutive)'
    BY <2>1, <2>3, <2>4 DEF CoolInv, CooldownsSound, health, dialHealth
  <2>6. \A p \in Routes : Tracked(p)' = Tracked(p)
    BY <2>1 DEF Tracked, health
  <2> QED BY <2>5, <2>6 DEF CoolInv, CooldownsSound, Bounded
<1>3. ASSUME NEW r \in Requests, DialFails(r) PROVE CoolInv'
  <2>1. chosen[r] \in Routes /\ Target(r) \in Targets /\ PoolTypeOK
    BY <1>3, RequestsAssumption DEF DialFails, Goto, Inv, ChainOK, TypeOK, Target
  <2>2. (\E class : ReportClass(class, chosen[r], Target(r))) /\ now' = now
    BY <1>3 DEF DialFails
  <2> QED BY <2>1, <2>2, ReportKeepsCool
<1>4. ASSUME NEW r \in Requests, DialSucceeds(r) PROVE CoolInv'
  <2>1. PICK p \in Routes : p = chosen[r]
    BY <1>4 DEF DialSucceeds, Goto, Inv, ChainOK
  <2>2. /\ consecutiveFailures' = [consecutiveFailures EXCEPT ![p] = 0]
        /\ cooldownUntil' = [cooldownUntil EXCEPT ![p] = 0]
        /\ pairs' = [pairs EXCEPT ![p][Target(r)] = NoPair]
        /\ now' = now
    BY <1>4, <2>1 DEF DialSucceeds, ReportSuccess, clearTargetCooldown
  <2>3. PoolTypeOK
    BY DEF Inv, TypeOK
  <2>4. \A q \in Routes : /\ Agrees(cooldownUntil[q], consecutiveFailures[q])'
                          /\ \A t \in Targets : Agrees(pairs[q][t].deadline, pairs[q][t].consecutive)'
    BY <2>2, <2>3 DEF CoolInv, CooldownsSound, PoolTypeOK, Agrees, NoPair
  <2>5. \A q \in Routes : Tracked(q)' \in SUBSET Tracked(q)
    BY <2>2, <2>3 DEF PoolTypeOK, Tracked, NoPair
  <2>6. \A q \in Routes : IsFiniteSet(Tracked(q)') /\ Cardinality(Tracked(q)') <= MaxTrackedPairs
    <3> TAKE q \in Routes
    <3>1. /\ IsFiniteSet(Tracked(q)) /\ Cardinality(Tracked(q)) <= MaxTrackedPairs
          /\ Cardinality(Tracked(q)) \in Nat /\ MaxTrackedPairs \in Nat
      BY FS_CardinalityType, CurveAssumption DEF CoolInv, CooldownsSound, Bounded
    <3>2. IsFiniteSet(Tracked(q)') /\ Cardinality(Tracked(q)') <= Cardinality(Tracked(q))
      BY <2>5, <3>1, FS_Subset
    <3>3. Cardinality(Tracked(q)') \in Nat
      BY <3>2, FS_CardinalityType
    <3> QED BY <3>1, <3>2, <3>3
  <2> QED BY <2>4, <2>6 DEF CoolInv, CooldownsSound, Bounded
<1>5. ASSUME NEW r \in Requests,
             Start(r) \/ DeadlineExpired(r) \/ RetryExhausted(r) \/ PickNone(r) \/ PickScan(r)
               \/ PickServe(r) \/ SetupFails(r) \/ Finish(r)
      PROVE  now' = now /\ UNCHANGED health
  BY <1>5 DEF Start, DeadlineExpired, RetryExhausted, PickNone, PickScan, PickServe, SetupFails,
              Finish, poolVars
<1>6. CASE ReadPasses \/ Publish \/ UNCHANGED vars
  BY <1>1, <1>6 DEF ReadPasses, Publish, vars, poolVars
<1> QED BY <1>1, <1>2, <1>3, <1>4, <1>5, <1>6 DEF Next, ChainStep

-----------------------------------------------------------------------------
(* The routing policy.                                                     *)

\* What the compiler makes of an accepted block is a policy.
LEMMA CompiledIsRouter ==
  ASSUME NEW raw \in RoutingBlock, raw # Absent
  PROVE  Compile(raw) \in Router /\ Compile(raw) # NoRouter
<1>1. ASSUME NEW name \in Name PROVE compilePattern(name) \in Pattern
  <2>1. name \in Seq(Label) /\ name # <<>> /\ Len(name) \in Nat /\ Len(name) >= 1
    BY DEF Name
  <2>2. \A i \in 1..Len(name) : Lower[name[i]] \in Label
    BY <2>1, LabelAssumption
  <2>3. \E m \in Nat : m <= Len(name) /\ normalizeHost(name) = [i \in 1..m |-> Lower[name[i]]]
    BY <2>1 DEF normalizeHost
  <2>4. normalizeHost(name) \in Seq(Label)
    BY <2>2, <2>3
  <2>5. Len(normalizeHost(name)) > 1 => Tail(normalizeHost(name)) \in Seq(Label)
    BY <2>4
  <2> QED BY <2>4, <2>5 DEF compilePattern, Pattern
<1>2. ASSUME NEW i \in DOMAIN raw.rules
      PROVE  compiledRule(raw.rules[i]) \in [patterns : SUBSET Pattern, routes : SUBSET RouteIds]
  <2>1. raw.rules[i] \in RuleEntry
    BY DEF RoutingBlock
  <2>2. Elements(raw.rules[i].domains) \subseteq Name /\ Elements(raw.rules[i].routes) \subseteq RouteIds
    BY <2>1 DEF RuleEntry, Elements
  <2> QED BY <1>1, <2>2 DEF compiledRule
<1>3. [i \in DOMAIN raw.rules |-> compiledRule(raw.rules[i])]
        \in Seq([patterns : SUBSET Pattern, routes : SUBSET RouteIds])
  <2> DEFINE R == [patterns : SUBSET Pattern, routes : SUBSET RouteIds]
             rule(i) == compiledRule(raw.rules[i])
  <2>1. DOMAIN raw.rules = 1..Len(raw.rules) /\ Len(raw.rules) \in Nat
    BY DEF RoutingBlock
  <2>2. \A i \in 1..Len(raw.rules) : rule(i) \in R
    BY <1>2, <2>1
  <2> HIDE DEF R, rule
  <2>3. [i \in 1..Len(raw.rules) |-> rule(i)] \in Seq(R)
    BY <2>1, <2>2
  <2>4. [i \in DOMAIN raw.rules |-> rule(i)] \in Seq(R)
    BY <2>1, <2>3
  <2> QED BY <2>4 DEF R, rule
<1>4. (IF raw.defaults = Absent THEN {} ELSE Elements(raw.defaults)) \in SUBSET RouteIds
  BY DEF RoutingBlock, Elements
<1>5. Compile(raw) \in Router
  BY <1>3, <1>4 DEF Compile, Router
<1> QED BY <1>5, RouterAssumption

\* A compiled rule matches a valid name exactly when the block names it.
LEMMA CompiledRuleMatches ==
  ASSUME NEW raw \in RoutingBlock, raw # Absent, NEW t \in Targets, HostOf[t] # NoName,
         validateHostname(normalizeHost(HostOf[t])), NEW i \in DOMAIN raw.rules
  PROVE  Matches(Compile(raw).rules[i], normalizeHost(HostOf[t])) <=> Names(raw.rules[i], t)
<1>1. Compile(raw).rules[i].patterns = {compilePattern(d) : d \in Elements(raw.rules[i].domains)}
  BY DEF Compile, compiledRule
<1> QED BY <1>1 DEF Matches, Names

\* Match offers what the first rule that names the target offers, or the
\* default list (routing.go Match).
LEMMA MatchIsOffered ==
  ASSUME NEW raw \in RoutingBlock, raw # Absent, NEW t \in Targets
  PROVE  LET ids == Match(Compile(raw), HostOf[t])
         IN  ids # Unrestricted /\ \A id \in ids : Offered(raw, t, id)
<1> DEFINE router   == Compile(raw)
           host     == normalizeHost(HostOf[t])
           deciding == {i \in DOMAIN router.rules : Decides(router, i, host)}
           ids      == Match(router, HostOf[t])
<1>1. router \in Router /\ router # NoRouter
  BY CompiledIsRouter
<1>2. /\ DOMAIN router.rules = DOMAIN raw.rules
      /\ \A i \in DOMAIN raw.rules : router.rules[i].routes = Elements(raw.rules[i].routes)
      /\ router.defaults = IF raw.defaults = Absent THEN {} ELSE Elements(raw.defaults)
  BY DEF Compile, compiledRule
<1>3. /\ raw.rules \in Seq(RuleEntry)
      /\ \A i \in DOMAIN raw.rules : i \in Nat /\ \A j \in 1..(i - 1) : j \in DOMAIN raw.rules
  <2>1. raw.rules \in Seq(RuleEntry)
    BY DEF RoutingBlock
  <2> QED BY <2>1
<1>4. ids \in SUBSET RouteIds => ids # Unrestricted
  BY RouterAssumption
<1>5. CASE HostOf[t] # NoName /\ validateHostname(host) /\ deciding # {}
  <2>1. PICK i \in deciding : ids = router.rules[i].routes
    BY <1>1, <1>5 DEF Match
  <2>2. i \in DOMAIN raw.rules /\ Decides(router, i, host)
    BY <1>2, <2>1
  <2>3. ids \in SUBSET RouteIds
    <3>1. raw.rules[i] \in RuleEntry
      BY <1>3, <2>2
    <3>2. Elements(raw.rules[i].routes) \subseteq RouteIds
      BY <3>1 DEF RuleEntry, Elements
    <3> QED BY <1>2, <2>1, <2>2, <3>2
  <2>4. Names(raw.rules[i], t) /\ \A j \in 1..(i - 1) : ~Names(raw.rules[j], t)
    BY <1>3, <1>5, <2>2, CompiledRuleMatches DEF Decides
  <2>5. \A id \in ids : Offered(raw, t, id)
    BY <1>2, <2>1, <2>2, <2>4 DEF Offered
  <2> QED BY <1>4, <2>1, <2>3, <2>5
<1>6. CASE ~(HostOf[t] # NoName /\ validateHostname(host) /\ deciding # {})
  <2>1. ids = router.defaults
    BY <1>1, <1>6 DEF Match
  <2>2. ASSUME NEW k \in DOMAIN raw.rules, Names(raw.rules[k], t) PROVE FALSE
    <3> DEFINE naming == {i \in DOMAIN raw.rules : Names(raw.rules[i], t)}
    <3>1. HostOf[t] # NoName /\ validateHostname(host) /\ deciding = {}
      BY <1>6, <2>2 DEF Names
    <3>2. PICK i \in naming : \A j \in naming : i <= j
      <4>1. naming \in SUBSET Nat /\ naming # {}
        BY <1>3, <2>2
      <4> HIDE DEF naming
      <4> QED BY <4>1, LeastNumber
    <3>3. \A j \in 1..(i - 1) : ~Names(raw.rules[j], t)
      <4>1. ASSUME NEW j \in 1..(i - 1), Names(raw.rules[j], t) PROVE FALSE
        <5>1. j \in naming /\ i \in Nat
          BY <1>3, <4>1
        <5>2. i <= j
          BY <3>2, <5>1
        <5> QED BY <5>1, <5>2
      <4> QED BY <4>1
    <3>4. Decides(router, i, host)
      BY <1>3, <3>1, <3>2, <3>3, CompiledRuleMatches DEF Decides
    <3> QED BY <1>2, <3>1, <3>2, <3>4
  <2>3. router.defaults \in SUBSET RouteIds
    BY <1>1 DEF Router
  <2>4. \A id \in ids : Offered(raw, t, id)
    BY <1>2, <2>1, <2>2 DEF Offered
  <2> QED BY <1>4, <2>1, <2>3, <2>4
<1> QED BY <1>5, <1>6

\* A candidate of a request is one its policy, its listener and its family
\* allow.
Permitted(r, p) ==
  /\ p \in Elements(Config(r).routes)
  /\ arrival[r].listener \in {"mixed", Kind[p]}
  /\ arrival[r].family \in {"mixed", Kind[p]}
  /\ Config(r).routing # Absent => Offered(Config(r).routing, Target(r), Config(r).ids[p])

Scoped ==
  \A r \in Requests :
    /\ gen[r] # 0 => \A p \in scope[r] : Permitted(r, p)
    /\ pc[r] \in {"picked", "dialing", "established"} => chosen[r] \in scope[r]

LEMMA ScopeIsPermitted ==
  ASSUME NEW c \in Configs, NEW a \in Arrivals, NEW p \in ScopeOf(c, a)
  PROVE  /\ p \in Elements(c.routes)
         /\ a.listener \in {"mixed", Kind[p]} /\ a.family \in {"mixed", Kind[p]}
         /\ c.routing # Absent => Offered(c.routing, a.target, c.ids[p])
<1>1. /\ p \in Scope(Elements(c.routes), c.ids, Match(Compile(c.routing), HostOf[a.target]))
      /\ Admits(a.listener, p) /\ Admits(a.family, p)
  BY DEF ScopeOf
<1>2. c.routing \in RoutingBlock \cup {Absent} /\ a.target \in Targets
  BY ConfigsAssumption, RequestsAssumption
<1>3. p \in Elements(c.routes)
  BY <1>1 DEF Scope
<1>4. ASSUME c.routing # Absent PROVE Offered(c.routing, a.target, c.ids[p])
  <2>1. LET ids == Match(Compile(c.routing), HostOf[a.target])
        IN  ids # Unrestricted /\ \A id \in ids : Offered(c.routing, a.target, id)
    BY <1>2, <1>4, MatchIsOffered
  <2> QED BY <1>1, <2>1 DEF Scope, Allows
<1> QED BY <1>1, <1>3, <1>4 DEF Admits

\* What a generation was built from never changes.
LEMMA StoreKept ==
  ASSUME Inv, [Next]_vars
  PROVE  \A g \in 1..live : store'[g] = store[g]
<1>1. store \in Seq(Configs)
  BY DEF Inv, TypeOK
<1>2. CASE Publish
  BY <1>1, <1>2 DEF Publish, live
<1>3. CASE ~Publish
  BY <1>3 DEF Next, ChainStep, Tick, ReadPasses, Start, DeadlineExpired, RetryExhausted, PickNone,
              PickScan, PickServe, DialSucceeds, DialFails, SetupFails, Finish, vars, requestVars,
              reloadVars
<1> QED BY <1>2, <1>3

LEMMA NextScoped ==
  ASSUME Inv, Scoped, [Next]_vars
  PROVE  Scoped'
<1> USE DEF Goto
<1>1. /\ arrival' = arrival
      /\ \A g \in 1..live : store'[g] = store[g]
  <2>1. arrival' = arrival
    BY DEF Next, ChainStep, Tick, ReadPasses, Publish, Start, DeadlineExpired, RetryExhausted, PickNone,
           PickScan, PickServe, DialSucceeds, DialFails, SetupFails, Finish, vars, requestVars,
           chainVars
  <2> QED BY <2>1, StoreKept
<1>2. ASSUME NEW r \in Requests, NEW p, gen[r] # 0, gen'[r] = gen[r], Permitted(r, p)
      PROVE  Permitted(r, p)'
  <2>1. gen[r] \in 1..live
    BY <1>2 DEF Inv, TypeOK, live
  <2> QED BY <1>1, <1>2, <2>1 DEF Permitted, Config, Target
<1>3. ASSUME NEW r \in Requests,
             gen'[r] = gen[r] /\ scope'[r] = scope[r],
             pc'[r] \in {"picked", "dialing", "established"} => chosen'[r] \in scope[r]
      PROVE  /\ gen'[r] # 0 => \A p \in scope'[r] : Permitted(r, p)'
             /\ pc'[r] \in {"picked", "dialing", "established"} => chosen'[r] \in scope'[r]
  BY <1>2, <1>3 DEF Scoped
<1>4. CASE Tick \/ ReadPasses \/ Publish \/ UNCHANGED vars
  <2>1. UNCHANGED chainVars
    BY <1>4 DEF Tick, ReadPasses, Publish, vars, requestVars
  <2> QED BY <1>3, <2>1 DEF Scoped, chainVars
<1>5. ASSUME NEW q \in Requests, Start(q) PROVE Scoped'
  <2>1. /\ gen' = [gen EXCEPT ![q] = live] /\ pc' = [pc EXCEPT ![q] = "select"]
        /\ scope' = [scope EXCEPT ![q] = ScopeOf(store[live], arrival[q])]
        /\ UNCHANGED <<store, chosen>>
    BY <1>5 DEF Start, reloadVars
  <2>2. ASSUME NEW r \in Requests, r # q
        PROVE  gen'[r] = gen[r] /\ scope'[r] = scope[r] /\ pc'[r] = pc[r]
    BY <2>1, <2>2 DEF Inv, TypeOK
  <2>3. ASSUME NEW p \in scope'[q] PROVE Permitted(q, p)'
    <3>1. /\ store[live] \in Configs /\ arrival[q] \in Arrivals
          /\ p \in ScopeOf(store[live], arrival[q])
      BY <2>1, <2>3 DEF Inv, TypeOK, live
    <3>2. gen'[q] = live
      BY <2>1 DEF Inv, TypeOK
    <3> QED BY <1>1, <2>1, <3>1, <3>2, ScopeIsPermitted DEF Permitted, Config, Target
  <2>4. pc'[q] = "select"
    BY <2>1 DEF Inv, TypeOK
  <2> QED BY <1>3, <2>1, <2>2, <2>3, <2>4 DEF Scoped
<1>6. ASSUME NEW q \in Requests, PickScan(q) PROVE Scoped'
  <2>1. /\ UNCHANGED <<gen, scope>> /\ pc' = [pc EXCEPT ![q] = "picked"]
        /\ chosen' = [chosen EXCEPT ![q] = Picked(q)]
    BY <1>6 DEF PickScan
  <2>2. Picked(q) \in scope[q]
    BY <1>6, PickedChoice DEF PickScan, Candidates
  <2> QED BY <1>3, <2>1, <2>2 DEF Scoped, Inv, TypeOK
<1>7. ASSUME NEW q \in Requests,
             DeadlineExpired(q) \/ RetryExhausted(q) \/ PickNone(q) \/ PickServe(q)
               \/ DialSucceeds(q) \/ DialFails(q) \/ SetupFails(q) \/ Finish(q)
      PROVE  Scoped'
  <2>1. /\ UNCHANGED <<gen, scope>>
        /\ \E to \in Stage : pc' = [pc EXCEPT ![q] = to]
        /\ \E c : chosen' = [chosen EXCEPT ![q] = c]
        /\ pc'[q] \in {"picked", "dialing", "established"}
             => pc[q] \in {"picked", "dialing"} /\ chosen' = chosen
    BY <1>7 DEF DeadlineExpired, RetryExhausted, PickNone, PickServe, DialSucceeds, DialFails,
                SetupFails, Finish, Stage, Chain, Refused, Inv, TypeOK
  <2> QED BY <1>3, <2>1 DEF Scoped, Inv, TypeOK
<1> QED BY <1>4, <1>5, <1>6, <1>7 DEF Next, ChainStep

-----------------------------------------------------------------------------
(* The recency order.                                                      *)

\* A pick holds the mutex of its generation until it serves.
Locked == \A r \in Requests : pc[r] = "picked" => poolMu[gen[r]] = r

LEMMA NextLocked ==
  ASSUME Inv, Locked, [Next]_vars
  PROVE  Locked'
<1> USE DEF Goto
<1>1. CASE UNCHANGED chainVars
  BY <1>1 DEF Locked, chainVars
<1>2. ASSUME NEW r \in Requests, PickScan(r) PROVE Locked'
  <2>1. gen[r] \in 1..MaxGenerations
    BY <1>2, ConfigsAssumption DEF PickScan, Inv, ChainOK, TypeOK
  <2> QED BY <1>2, <2>1, RequestsAssumption DEF PickScan, CanPick, Locked, Inv, TypeOK
<1>3. ASSUME NEW r \in Requests, PickServe(r) PROVE Locked'
  <2> SUFFICES ASSUME NEW q \in Requests, pc'[q] = "picked" PROVE poolMu'[gen'[q]] = q
    BY DEF Locked
  <2>1. q # r /\ pc[q] = "picked" /\ gen'[q] = gen[q]
    BY <1>3 DEF PickServe, Inv, TypeOK
  <2>2. poolMu[gen[q]] = q /\ poolMu[gen[r]] = r
    BY <1>3, <2>1 DEF Locked, PickServe
  <2>3. gen[q] \in 1..MaxGenerations
    BY <2>1, ConfigsAssumption DEF Inv, ChainOK, TypeOK
  <2> QED BY <1>3, <2>1, <2>2, <2>3 DEF PickServe, Inv, TypeOK
<1>4. ASSUME NEW r \in Requests,
             Start(r) \/ DeadlineExpired(r) \/ RetryExhausted(r) \/ PickNone(r)
               \/ DialSucceeds(r) \/ DialFails(r) \/ SetupFails(r) \/ Finish(r)
      PROVE  Locked'
  <2>1. /\ poolMu' = poolMu
        /\ \E to \in Stage \ {"picked"} : pc' = [pc EXCEPT ![r] = to]
        /\ gen' = [gen EXCEPT ![r] = gen'[r]]
    BY <1>4 DEF Start, DeadlineExpired, RetryExhausted, PickNone, DialSucceeds, DialFails, SetupFails,
                Finish, Stage, Chain, Refused, Inv, TypeOK
  <2> QED BY <2>1 DEF Locked, Inv, TypeOK
<1> QED BY <1>1, <1>2, <1>3, <1>4
        DEF Next, ChainStep, Tick, ReadPasses, Publish, vars, requestVars

\* While no route failed, none cools and none is blocked.
Healthy ==
  Clean => \A p \in Routes : /\ cooldownUntil[p] = 0 /\ ~authBlocked[p] /\ ~rotating[p]
                             /\ \A t \in Targets : pairs[p][t].deadline = 0

\* Failures are not forgotten, and a request keeps its candidates.
LEMMA CleanBefore ==
  ASSUME Inv, [Next]_vars, Clean'
  PROVE  Clean /\ \A r \in Requests : ~DialFails(r)
<1> USE DEF Goto
<1>1. ASSUME NEW r \in Requests, DialFails(r) PROVE FALSE
  <2>1. exclude'[r] = exclude[r] \cup {chosen[r]}
    BY <1>1 DEF DialFails, Excluded, Inv, TypeOK
  <2> QED BY <2>1 DEF Clean
<1>2. \A r \in Requests : exclude[r] = {}
  <2>1. exclude' = exclude
    BY <1>1 DEF Next, ChainStep, Tick, ReadPasses, Publish, Start, DeadlineExpired, RetryExhausted,
                PickNone, PickScan, PickServe, DialSucceeds, SetupFails, Finish, vars, requestVars,
                chainVars
  <2> QED BY <2>1 DEF Clean
<1>3. ASSUME NEW r \in Requests, gen[r] # 0 PROVE scope[r] = Elements(Config(r).routes)
  <2>1. gen[r] \in 1..live
    BY <1>3 DEF Inv, TypeOK, live
  <2>2. gen'[r] = gen[r] /\ scope'[r] = scope[r]
    <3>1. CASE \E q \in Requests : Start(q)
      <4>1. PICK q \in Requests : Start(q)
        BY <3>1
      <4>2. q # r
        BY <1>3, <4>1 DEF Start, Inv, ChainOK
      <4> QED BY <4>1, <4>2 DEF Start, Inv, TypeOK
    <3>2. CASE ~\E q \in Requests : Start(q)
      BY <1>1, <3>2 DEF Next, ChainStep, Tick, ReadPasses, Publish, DeadlineExpired, RetryExhausted,
                PickNone, PickScan, PickServe, DialSucceeds, SetupFails, Finish, vars, requestVars,
                chainVars
    <3> QED BY <3>1, <3>2
  <2>3. store'[gen[r]] = store[gen[r]]
    BY <2>1, StoreKept
  <2> QED BY <1>3, <2>2, <2>3 DEF Clean, Config
<1> QED BY <1>1, <1>2, <1>3 DEF Clean

LEMMA NextHealthy ==
  ASSUME Inv, Healthy, [Next]_vars
  PROVE  Healthy'
<1> SUFFICES ASSUME Clean'
             PROVE  \A p \in Routes : /\ cooldownUntil'[p] = 0 /\ ~authBlocked'[p] /\ ~rotating'[p]
                                      /\ \A t \in Targets : pairs'[p][t].deadline = 0
  BY DEF Healthy
<1>1. Clean /\ \A r \in Requests : ~DialFails(r)
  BY CleanBefore
<1>2. \A p \in Routes : /\ cooldownUntil[p] = 0 /\ ~authBlocked[p] /\ ~rotating[p]
                        /\ \A t \in Targets : pairs[p][t].deadline = 0
  BY <1>1 DEF Healthy
<1>3. ASSUME NEW r \in Requests, DialSucceeds(r)
      PROVE  \A p \in Routes : /\ cooldownUntil'[p] = 0 /\ ~authBlocked'[p] /\ ~rotating'[p]
                               /\ \A t \in Targets : pairs'[p][t].deadline = 0
  <2>1. /\ cooldownUntil' = [cooldownUntil EXCEPT ![chosen[r]] = 0]
        /\ pairs' = [pairs EXCEPT ![chosen[r]][Target(r)] = NoPair]
        /\ UNCHANGED <<authBlocked, rotating>>
    BY <1>3 DEF DialSucceeds, ReportSuccess, clearTargetCooldown
  <2>2. \A p \in Routes : cooldownUntil'[p] = 0
    BY <1>2, <2>1 DEF Inv, TypeOK, PoolTypeOK
  <2>3. ASSUME NEW p \in Routes, NEW t \in Targets PROVE pairs'[p][t].deadline = 0
    <3>1. pairs \in [Routes -> [Targets -> Pair]] /\ NoPair.deadline = 0
      BY DEF Inv, TypeOK, PoolTypeOK, NoPair
    <3>2. pairs'[p][t] \in {pairs[p][t], NoPair}
      BY <2>1, <3>1
    <3> QED BY <1>2, <3>1, <3>2
  <2> QED BY <1>2, <2>1, <2>2, <2>3
<1>4. CASE ~\E r \in Requests : DialSucceeds(r)
  <2>1. UNCHANGED <<health, rotating>>
    BY <1>1, <1>4 DEF Next, ChainStep, Tick, ReadPasses, Publish, Start, DeadlineExpired,
         RetryExhausted, PickNone, PickScan, PickServe, SetupFails, Finish, vars, poolVars
  <2> QED BY <1>2, <2>1 DEF health, dialHealth
<1> QED BY <1>3, <1>4

\* A pick that no failure disturbs takes the route that was served longest ago.
LEMMA CleanPick ==
  ASSUME Inv, Clean, Healthy, NEW r \in Requests, pc[r] = "select", Picked(r) # NoRoute
  PROVE  \A q \in Elements(Config(r).routes) : pass[Picked(r)] <= pass[q]
<1> DEFINE c == Config(r)
           avail == {p \in Candidates(r) : Available(p, Target(r))}
<1>1. gen[r] \in 1..live /\ c \in Configs /\ Target(r) \in Targets
  BY RequestsAssumption DEF Inv, ChainOK, TypeOK, Config, live, Target
<1>2. c.routes \in Seq(Routes) /\ Elements(c.routes) \subseteq Routes
  BY <1>1, ConfigsAssumption DEF Elements
<1>3. Candidates(r) = Elements(c.routes)
  BY <1>1 DEF Clean, Candidates
<1>4. avail = Elements(c.routes)
  BY <1>1, <1>2, <1>3 DEF Healthy, Available, RouteAvailable, Inv, TypeOK, PoolTypeOK
<1>5. Elements(c.routes) # {}
  <2>1. c.routes # <<>>
    BY <1>1, ConfigsAssumption
  <2>2. 1 \in DOMAIN c.routes
    BY <1>2, <2>1
  <2> QED BY <2>2 DEF Elements
<1>6. Picked(r) = FirstMin(c.routes, Elements(c.routes), pass)
  BY <1>4, <1>5 DEF Picked, PickFor
<1>7. \A p \in Elements(c.routes) : pass[p] \in Nat
  BY <1>2 DEF Inv, TypeOK, PoolTypeOK
<1> HIDE DEF c
<1>8. \A q \in Elements(c.routes) : pass[FirstMin(c.routes, Elements(c.routes), pass)] <= pass[q]
  BY <1>2, <1>5, <1>7, FirstMinScanned
<1> QED BY <1>6, <1>8 DEF c

LiveRoutes == Elements(store[live].routes)

\* The balance, what is left of it after the passes were read, and the room a
\* pick leaves for its own serve.
Even ==
  /\ \A p, q \in LiveRoutes :
       pass[p] + Cardinality(Dialing(p)) <= pass[q] + peak + 1 + drift
  /\ anchor # NoAnchor =>
       \A p \in LiveRoutes : anchor <= pass[p] /\ pass[p] <= anchor + peak + 1 + drift
  /\ \A r \in Requests : pc[r] = "picked" /\ gen[r] = live =>
       \A q \in LiveRoutes :
         pass[chosen[r]] + Cardinality(Dialing(chosen[r])) + 1 <= pass[q] + peak + drift

LEMMA Numbers ==
  ASSUME Inv
  PROVE  /\ peak \in Nat /\ drift \in Nat /\ anchor \in Nat \cup {NoAnchor} /\ live \in Nat
         /\ LiveRoutes \subseteq Routes /\ \A p \in Routes : pass[p] \in Nat
<1>1. store[live] \in Configs /\ live \in Nat
  BY DEF Inv, TypeOK, live
<1>2. store[live].routes \in Seq(Routes)
  BY <1>1, ConfigsAssumption
<1> QED BY <1>1, <1>2 DEF Inv, TypeOK, PoolTypeOK, LiveRoutes, Elements

\* The parts of the invariant after a step that publishes nothing.
LEMMA EvenFromParts ==
  ASSUME UNCHANGED <<live, LiveRoutes>>,
         \A p, q \in LiveRoutes :
           pass'[p] + Cardinality(Dialing(p)') <= pass'[q] + peak' + 1 + drift',
         anchor' # NoAnchor =>
           \A p \in LiveRoutes : anchor' <= pass'[p] /\ pass'[p] <= anchor' + peak' + 1 + drift',
         \A r \in Requests : pc'[r] = "picked" /\ gen'[r] = live =>
           \A q \in LiveRoutes : \A c : c = chosen'[r] =>
             pass'[c] + Cardinality(Dialing(c)') + 1 <= pass'[q] + peak' + drift'
  PROVE  Even'
BY DEF Even

\* Steps off the recency clock, between publications: no dial begins.
LEMMA StillKeepsEven ==
  ASSUME Inv, Even, UNCHANGED <<pass, drift, store>>, peak' \in Nat, peak <= peak',
         \A p : Dialing(p)' \in SUBSET Dialing(p),
         anchor' = anchor \/ anchor' = Anchor(store[live].routes),
         \A r \in Requests : pc'[r] = "picked" /\ gen'[r] = live =>
           \A q \in LiveRoutes :
             pass[chosen'[r]] + Cardinality(Dialing(chosen'[r])) + 1 <= pass[q] + peak' + drift,
         \A r \in Requests : pc'[r] = "picked" => chosen'[r] \in Routes
  PROVE  Even'
<1>1. UNCHANGED <<live, LiveRoutes>>
  BY DEF live, LiveRoutes
<1>2. \A p : /\ Cardinality(Dialing(p)') <= Cardinality(Dialing(p))
             /\ Cardinality(Dialing(p)') \in Nat /\ Cardinality(Dialing(p)) \in Nat
  BY DialingFinite, FS_Subset, FS_CardinalityType
<1>4. ASSUME NEW p \in LiveRoutes, NEW q \in LiveRoutes
      PROVE  pass[p] + Cardinality(Dialing(p)') <= pass[q] + peak' + 1 + drift
  <2>1. pass[p] + Cardinality(Dialing(p)) <= pass[q] + peak + 1 + drift
    BY DEF Even
  <2> QED BY <1>2, <2>1, Numbers
<1>5. anchor' # NoAnchor =>
        \A p \in LiveRoutes : anchor' <= pass[p] /\ pass[p] <= anchor' + peak' + 1 + drift
  <2>1. CASE anchor' = anchor
    <3>1. ASSUME anchor # NoAnchor, NEW p \in LiveRoutes
          PROVE  anchor <= pass[p] /\ pass[p] <= anchor + peak + 1 + drift
      BY <3>1 DEF Even
    <3> QED BY <2>1, <3>1, Numbers
  <2>2. CASE anchor' = Anchor(store[live].routes)
    <3>1. PICK q \in LiveRoutes : anchor' = pass[q]
      BY <2>2, AnchorIsPass DEF LiveRoutes
    <3>2. \A p \in LiveRoutes : anchor' <= pass[p]
      BY <2>2, AnchorIsPass DEF LiveRoutes
    <3>3. \A p \in LiveRoutes : pass[p] <= pass[q] + peak' + 1 + drift
      BY <1>2, <1>4, Numbers
    <3> QED BY <3>1, <3>2, <3>3
  <2> QED BY <2>1, <2>2
<1>6. ASSUME NEW r \in Requests, pc'[r] = "picked", gen'[r] = live, NEW q \in LiveRoutes,
             NEW c, c = chosen'[r]
      PROVE  pass[c] + Cardinality(Dialing(c)') + 1 <= pass[q] + peak' + drift
  <2>1. c \in Routes /\ q \in Routes /\ pass[c] + Cardinality(Dialing(c)) + 1 <= pass[q] + peak' + drift
    BY <1>6, Numbers
  <2> QED BY <1>2, <2>1, Numbers
<1> QED BY <1>1, <1>4, <1>5, <1>6, EvenFromParts

\* Steps on the clock by a request of an older generation.
LEMMA StrangerKeepsEven ==
  ASSUME Inv, Even, NEW c \in Routes, pass' = [pass EXCEPT ![c] = @ + 1], drift' = drift + 1,
         UNCHANGED <<store, anchor, peak>>, \A p : Dialing(p)' = Dialing(p),
         \A r \in Requests : pc'[r] = "picked" => pc[r] = "picked" /\ UNCHANGED <<gen[r], chosen[r]>>
  PROVE  Even'
<1>1. UNCHANGED <<live, LiveRoutes>>
  BY DEF live, LiveRoutes
<1>2. \A p \in Routes : pass[p] \in Nat /\ pass'[p] \in Nat /\ pass[p] <= pass'[p] /\ pass'[p] <= pass[p] + 1
  <2>1. pass \in [Routes -> Nat]
    BY DEF Inv, TypeOK, PoolTypeOK
  <2> QED BY <2>1
<1>3. \A p : Cardinality(Dialing(p)) \in Nat
  BY DialingFinite
<1>4. ASSUME NEW p \in LiveRoutes, NEW q \in LiveRoutes
      PROVE  pass'[p] + Cardinality(Dialing(p)) <= pass'[q] + peak + 1 + drift'
  BY <1>2, <1>3, Numbers DEF Even
<1>5. ASSUME anchor # NoAnchor, NEW p \in LiveRoutes
      PROVE  anchor <= pass'[p] /\ pass'[p] <= anchor + peak + 1 + drift'
  BY <1>2, <1>5, Numbers DEF Even
<1>6. ASSUME NEW r \in Requests, pc'[r] = "picked", gen'[r] = live, NEW q \in LiveRoutes,
             NEW o, o = chosen'[r]
      PROVE  pass'[o] + Cardinality(Dialing(o)) + 1 <= pass'[q] + peak + drift'
  <2>1. pc[r] = "picked" /\ gen[r] = live /\ o = chosen[r] /\ o \in Routes /\ q \in Routes
    BY <1>6, Numbers DEF Inv, ChainOK
  <2>2. pass[o] + Cardinality(Dialing(o)) + 1 <= pass[q] + peak + drift
    BY <2>1 DEF Even
  <2> QED BY <1>2, <1>3, <2>1, <2>2, Numbers
<1> QED BY <1>1, <1>4, <1>5, <1>6, EvenFromParts

LEMMA ScanKeepsEven ==
  ASSUME Inv, Even, Clean, Healthy, NEW r \in Requests, PickScan(r)
  PROVE  Even'
<1> USE DEF Goto
<1>1. /\ UNCHANGED <<pass, drift, store, anchor, gen>> /\ pc[r] = "select"
      /\ pc' = [pc EXCEPT ![r] = "picked"] /\ chosen' = [chosen EXCEPT ![r] = Picked(r)]
      /\ Crowds(r, Picked(r))
  BY DEF PickScan, poolVars
<1>2. Picked(r) \in Routes /\ Picked(r) # NoRoute
  BY <1>1, PickedChoice DEF PickScan
<1>3. UNCHANGED live
  BY <1>1 DEF live
<1>4. \A p : Dialing(p)' \in SUBSET Dialing(p)
  BY <1>1, <1>3 DEF Dialing, Inv, TypeOK
<1>5. /\ peak' \in Nat /\ peak <= peak'
      /\ gen[r] = live => Cardinality(Dialing(Picked(r))) + 1 <= peak'
  <2>1. Cardinality(Dialing(Picked(r))) \in Nat /\ peak \in Nat
    BY DialingFinite, Numbers
  <2> QED BY <1>1, <2>1 DEF Crowds
<1>6. ASSUME NEW q \in Requests, pc'[q] = "picked", gen'[q] = live, NEW o \in LiveRoutes
      PROVE  pass[chosen'[q]] + Cardinality(Dialing(chosen'[q])) + 1 <= pass[o] + peak' + drift
  <2>1. CASE q = r
    <3>1. chosen'[q] = Picked(r) /\ pass[Picked(r)] <= pass[o]
      BY <1>1, <1>2, <1>6, <2>1, CleanPick DEF LiveRoutes, Config, Inv, TypeOK
    <3> DEFINE D == Dialing(Picked(r))
    <3>2. Cardinality(D) \in Nat
      BY DialingFinite
    <3>3. Cardinality(D) + 1 <= peak'
      BY <1>1, <1>6, <1>3, <1>5, <2>1
    <3> HIDE DEF D
    <3>4. pass[Picked(r)] + Cardinality(D) + 1 <= pass[o] + peak' + drift
      BY <1>2, <1>5, <3>1, <3>2, <3>3, Numbers
    <3> QED BY <3>1, <3>4 DEF D
  <2>2. CASE q # r
    <3>1. pc[q] = "picked" /\ gen[q] = live /\ chosen'[q] = chosen[q] /\ chosen[q] \in Routes
      BY <1>1, <1>6, <2>2 DEF Inv, TypeOK, ChainOK
    <3>2. pass[chosen[q]] + Cardinality(Dialing(chosen[q])) + 1 <= pass[o] + peak + drift
      BY <3>1 DEF Even
    <3>3. Cardinality(Dialing(chosen[q])) \in Nat /\ o \in Routes
      BY DialingFinite, Numbers
    <3> QED BY <1>5, <3>1, <3>2, <3>3, Numbers
  <2> QED BY <2>1, <2>2
<1>7. \A q \in Requests : pc'[q] = "picked" => chosen'[q] \in Routes
  BY <1>1, <1>2 DEF Inv, ChainOK, TypeOK
<1> QED BY <1>1, <1>4, <1>5, <1>6, <1>7, StillKeepsEven

\* A serve uses up the room its pick left.
LEMMA ServeKeepsEven ==
  ASSUME Inv, Locked, Even, NEW r \in Requests, PickServe(r)
  PROVE  Even'
<1> USE DEF Goto
<1>1. PICK c \in Routes : c = chosen[r]
  BY DEF PickServe, Inv, ChainOK
<1>2. /\ pass' = [pass EXCEPT ![c] = @ + 1] /\ UNCHANGED <<gen, chosen, store, anchor, peak>>
      /\ pc[r] = "picked" /\ pc' = [pc EXCEPT ![r] = "dialing"] /\ Drifts(r)
  BY <1>1 DEF PickServe, Serve
<1>3. UNCHANGED <<live, LiveRoutes>>
  BY <1>2 DEF live, LiveRoutes
<1>4. \A q \in Requests : pc'[q] = "picked" => q # r /\ pc[q] = "picked"
  BY <1>2 DEF Inv, TypeOK
<1>5. CASE gen[r] # live
  <2>1. \A p : Dialing(p)' = Dialing(p)
    BY <1>2, <1>3, <1>5 DEF Dialing, Inv, TypeOK
  <2>2. drift' = drift + 1
    BY <1>2, <1>5 DEF Drifts
  <2> QED BY <1>2, <1>4, <2>1, <2>2, StrangerKeepsEven
<1>6. CASE gen[r] = live
  <2>1. Dialing(c)' = Dialing(c) \cup {r} /\ r \notin Dialing(c)
        /\ \A p : p # c => Dialing(p)' = Dialing(p)
    BY <1>1, <1>2, <1>3, <1>6 DEF Dialing, Inv, TypeOK
  <2>2. /\ Cardinality(Dialing(c)') = Cardinality(Dialing(c)) + 1
        /\ \A p : Cardinality(Dialing(p)) \in Nat
    BY <2>1, DialingFinite, FS_AddElement
  <2>3. \A p \in Routes : /\ pass[p] \in Nat /\ pass'[p] \in Nat
                          /\ pass'[p] = IF p = c THEN pass[p] + 1 ELSE pass[p]
    <3>1. pass \in [Routes -> Nat]
      BY DEF Inv, TypeOK, PoolTypeOK
    <3> QED BY <1>2, <3>1
  <2>4. drift' \in Nat /\ drift <= drift' /\ (anchor # NoAnchor => drift' = drift + 1)
    BY <1>2, Numbers DEF Drifts
  <2>5. ASSUME NEW p \in LiveRoutes, NEW q \in LiveRoutes
        PROVE  pass'[p] + Cardinality(Dialing(p)') <= pass'[q] + peak + 1 + drift'
    <3>1. p \in Routes /\ q \in Routes
      BY Numbers
    <3>2. CASE p = c
      <4>1. pass[c] + Cardinality(Dialing(c)) + 1 <= pass[q] + peak + drift
        BY <1>1, <1>2, <1>6 DEF Even
      <4> QED BY <2>2, <2>3, <2>4, <3>1, <3>2, <4>1, Numbers
    <3>3. CASE p # c
      <4>1. pass[p] + Cardinality(Dialing(p)) <= pass[q] + peak + 1 + drift
        BY DEF Even
      <4> QED BY <2>1, <2>2, <2>3, <2>4, <3>1, <3>3, <4>1, Numbers
    <3> QED BY <3>2, <3>3
  <2>6. ASSUME anchor # NoAnchor, NEW p \in LiveRoutes
        PROVE  anchor <= pass'[p] /\ pass'[p] <= anchor + peak + 1 + drift'
    <3>1. p \in Routes /\ anchor <= pass[p] /\ pass[p] <= anchor + peak + 1 + drift
      BY <2>6, Numbers DEF Even
    <3> QED BY <2>3, <2>4, <2>6, <3>1, Numbers
  <2>7. ASSUME NEW q \in Requests, pc'[q] = "picked", gen'[q] = live PROVE FALSE
    BY <1>2, <1>4, <1>6, <2>7 DEF Locked
  <2> QED BY <1>2, <1>3, <2>5, <2>6, <2>7, EvenFromParts
<1> QED BY <1>5, <1>6

\* A success moves a dial into the pass.
LEMMA SuccessKeepsEven ==
  ASSUME Inv, Even, NEW r \in Requests, DialSucceeds(r)
  PROVE  Even'
<1> USE DEF Goto
<1>1. PICK c \in Routes : c = chosen[r]
  BY DEF DialSucceeds, Inv, ChainOK
<1>2. /\ pass' = [pass EXCEPT ![c] = @ + 1] /\ UNCHANGED <<gen, chosen, store, anchor, peak>>
      /\ pc[r] = "dialing" /\ pc' = [pc EXCEPT ![r] = "established"] /\ Drifts(r)
  BY <1>1 DEF DialSucceeds, ReportSuccess
<1>3. UNCHANGED <<live, LiveRoutes>>
  BY <1>2 DEF live, LiveRoutes
<1>4. \A q \in Requests : pc'[q] = "picked" => q # r /\ pc[q] = "picked"
  BY <1>2 DEF Inv, TypeOK
<1>5. CASE gen[r] # live
  <2>1. \A p : Dialing(p)' = Dialing(p)
    BY <1>2, <1>3, <1>5 DEF Dialing, Inv, TypeOK
  <2>2. drift' = drift + 1
    BY <1>2, <1>5 DEF Drifts
  <2> QED BY <1>2, <1>4, <2>1, <2>2, StrangerKeepsEven
<1>6. CASE gen[r] = live
  <2>1. Dialing(c)' = Dialing(c) \ {r} /\ r \in Dialing(c)
        /\ \A p : p # c => Dialing(p)' = Dialing(p)
    BY <1>1, <1>2, <1>3, <1>6 DEF Dialing, Inv, TypeOK
  <2>2. /\ Cardinality(Dialing(c)') = Cardinality(Dialing(c)) - 1
        /\ \A p : Cardinality(Dialing(p)) \in Nat
    BY <2>1, DialingFinite, FS_RemoveElement
  <2>3. \A p \in Routes : /\ pass[p] \in Nat /\ pass'[p] \in Nat
                          /\ pass'[p] = IF p = c THEN pass[p] + 1 ELSE pass[p]
    <3>1. pass \in [Routes -> Nat]
      BY DEF Inv, TypeOK, PoolTypeOK
    <3> QED BY <1>2, <3>1
  <2>4. drift' \in Nat /\ drift <= drift' /\ (anchor # NoAnchor => drift' = drift + 1)
    BY <1>2, Numbers DEF Drifts
  <2>5. \A p \in Routes : /\ pass'[p] + Cardinality(Dialing(p)') = pass[p] + Cardinality(Dialing(p))
                          /\ pass[p] <= pass'[p]
    <3> TAKE p \in Routes
    <3>1. CASE p = c
      BY <2>2, <2>3, <3>1
    <3>2. CASE p # c
      BY <2>1, <2>3, <3>2
    <3> QED BY <3>1, <3>2
  <2>6. ASSUME NEW p \in LiveRoutes, NEW q \in LiveRoutes
        PROVE  pass'[p] + Cardinality(Dialing(p)') <= pass'[q] + peak + 1 + drift'
    <3>1. p \in Routes /\ q \in Routes
      BY Numbers
    <3>2. pass[p] + Cardinality(Dialing(p)) <= pass[q] + peak + 1 + drift
      BY DEF Even
    <3>3. pass'[p] + Cardinality(Dialing(p)') = pass[p] + Cardinality(Dialing(p)) /\ pass[q] <= pass'[q]
      BY <2>5, <3>1
    <3> QED BY <2>2, <2>3, <2>4, <3>1, <3>2, <3>3, Numbers
  <2>7. ASSUME anchor # NoAnchor, NEW p \in LiveRoutes
        PROVE  anchor <= pass'[p] /\ pass'[p] <= anchor + peak + 1 + drift'
    <3>1. p \in Routes /\ anchor <= pass[p] /\ pass[p] <= anchor + peak + 1 + drift
      BY <2>7, Numbers DEF Even
    <3> QED BY <2>3, <2>4, <2>7, <3>1, Numbers
  <2>8. ASSUME NEW q \in Requests, pc'[q] = "picked", gen'[q] = live, NEW o \in LiveRoutes,
               NEW d, d = chosen'[q]
        PROVE  pass'[d] + Cardinality(Dialing(d)') + 1 <= pass'[o] + peak + drift'
    <3>1. pc[q] = "picked" /\ gen[q] = live /\ d = chosen[q] /\ d \in Routes /\ o \in Routes
      BY <1>2, <1>4, <2>8, Numbers DEF Inv, ChainOK
    <3>2. pass[d] + Cardinality(Dialing(d)) + 1 <= pass[o] + peak + drift
      BY <3>1 DEF Even
    <3>3. /\ pass'[d] + Cardinality(Dialing(d)') = pass[d] + Cardinality(Dialing(d))
          /\ pass[o] <= pass'[o]
      BY <2>5, <3>1
    <3>4. Cardinality(Dialing(d)) \in Nat
      BY <2>2
    <3> QED BY <2>3, <2>4, <3>1, <3>2, <3>3, <3>4, Numbers
  <2> QED BY <1>2, <1>3, <2>6, <2>7, <2>8, EvenFromParts
<1> QED BY <1>5, <1>6

\* A route a reload adds begins at the smallest pass that was read.
LEMMA PublishKeepsEven ==
  ASSUME Inv, Even, Publish
  PROVE  Even'
<1>1. PICK c \in Configs :
        /\ Elements(c.routes) \cap Known \subseteq LiveRoutes
        /\ store' = Append(store, c)
        /\ pass' = [p \in Routes |-> IF p \in Elements(c.routes) \ Known THEN anchor ELSE pass[p]]
        /\ anchor # NoAnchor /\ anchor' = NoAnchor /\ UNCHANGED <<chainVars, drift, peak>>
  BY DEF Publish, LiveRoutes
<1>2. store \in Seq(Configs) /\ live \in Nat /\ live' = live + 1 /\ store'[live'] = c
  BY <1>1 DEF Inv, TypeOK, live
<1>3. \A r \in Requests : gen'[r] # live'
  BY <1>1, <1>2 DEF Inv, TypeOK, chainVars
<1>4. \A p : Cardinality(Dialing(p)') = 0
  <2>1. \A p : Dialing(p)' = {}
    BY <1>3 DEF Dialing
  <2> QED BY <2>1, FS_EmptySet
<1>5. LiveRoutes' = Elements(c.routes) /\ LiveRoutes' \subseteq Routes
  <2>1. c.routes \in Seq(Routes)
    BY ConfigsAssumption
  <2> QED BY <1>2, <2>1 DEF LiveRoutes, Elements
<1>6. ASSUME NEW p \in LiveRoutes'
      PROVE  /\ pass'[p] \in Nat
             /\ anchor <= pass'[p] /\ pass'[p] <= anchor + peak + 1 + drift
  <2>1. CASE p \in Known
    <3>1. p \in LiveRoutes /\ pass'[p] = pass[p]
      BY <1>1, <1>5, <2>1
    <3> QED BY <1>1, <3>1, Numbers DEF Even
  <2>2. CASE p \notin Known
    <3>1. pass'[p] = anchor
      BY <1>1, <1>5, <2>2
    <3> QED BY <1>1, <3>1, Numbers
  <2> QED BY <2>1, <2>2
<1>7. ASSUME NEW p \in LiveRoutes', NEW q \in LiveRoutes'
      PROVE  pass'[p] + Cardinality(Dialing(p)') <= pass'[q] + peak + 1 + drift
  <2>1. pass'[p] \in Nat /\ pass'[p] <= anchor + peak + 1 + drift
    BY <1>6
  <2>2. pass'[q] \in Nat /\ anchor <= pass'[q]
    BY <1>6
  <2>3. anchor \in Nat /\ peak \in Nat /\ drift \in Nat
    BY <1>1, Numbers
  <2>4. Cardinality(Dialing(p)') = 0
    BY <1>4
  <2> QED BY <2>1, <2>2, <2>3, <2>4
<1> QED BY <1>1, <1>3, <1>7 DEF Even

LEMMA NextEven ==
  ASSUME Inv, Locked, Healthy, Clean => Even, [Next]_vars
  PROVE  (Clean => Even)'
<1> USE DEF Goto
<1> SUFFICES ASSUME Clean' PROVE Even'
  OBVIOUS
<1>1. Clean /\ Even /\ \A r \in Requests : ~DialFails(r)
  BY CleanBefore
<1>2. CASE Tick \/ ReadPasses \/ UNCHANGED vars
  <2>1. /\ UNCHANGED <<pass, drift, store, chainVars, peak>>
        /\ anchor' = anchor \/ anchor' = Anchor(store[live].routes)
    BY <1>2 DEF Tick, ReadPasses, vars, poolVars, requestVars, reloadVars
  <2>2. /\ \A p : Dialing(p)' \in SUBSET Dialing(p)
        /\ \A r \in Requests : pc'[r] = "picked" => chosen'[r] \in Routes
    BY <2>1 DEF Dialing, chainVars, live, Inv, ChainOK
  <2>3. \A r \in Requests : pc'[r] = "picked" /\ gen'[r] = live =>
          \A q \in LiveRoutes :
            pass[chosen'[r]] + Cardinality(Dialing(chosen'[r])) + 1 <= pass[q] + peak + drift
    BY <1>1, <2>1 DEF Even, chainVars
  <2> QED BY <1>1, <2>1, <2>2, <2>3, StillKeepsEven, Numbers
<1>3. ASSUME NEW r \in Requests,
             Start(r) \/ DeadlineExpired(r) \/ RetryExhausted(r) \/ PickNone(r)
               \/ SetupFails(r) \/ Finish(r)
      PROVE  Even'
  <2>1. /\ UNCHANGED <<pass, drift, store, anchor, peak>>
        /\ \E to \in Stage \ {"picked", "dialing"} : pc' = [pc EXCEPT ![r] = to]
        /\ \A q \in Requests : q # r => gen'[q] = gen[q] /\ chosen'[q] = chosen[q]
    BY <1>3 DEF Start, DeadlineExpired, RetryExhausted, PickNone, SetupFails, Finish, poolVars,
                reloadVars, Stage, Chain, Refused, Inv, TypeOK
  <2>2. /\ \A p : Dialing(p)' \in SUBSET Dialing(p)
        /\ \A q \in Requests : pc'[q] = "picked" => q # r /\ pc[q] = "picked" /\ chosen'[q] \in Routes
    BY <2>1 DEF Dialing, live, Inv, ChainOK, TypeOK
  <2>3. \A q \in Requests : pc'[q] = "picked" /\ gen'[q] = live =>
          \A o \in LiveRoutes :
            pass[chosen'[q]] + Cardinality(Dialing(chosen'[q])) + 1 <= pass[o] + peak + drift
    BY <1>1, <2>1, <2>2 DEF Even
  <2> QED BY <1>1, <2>1, <2>2, <2>3, StillKeepsEven, Numbers
<1> QED BY <1>1, <1>2, <1>3, PublishKeepsEven, ScanKeepsEven, ServeKeepsEven, SuccessKeepsEven
        DEF Next, ChainStep

LEMMA InitEven == Init => Locked /\ Healthy /\ (Clean => Even)
<1> SUFFICES ASSUME Init PROVE Locked /\ Healthy /\ Even
  OBVIOUS
<1>1. Inv
  BY InitInv
<1>2. Locked /\ Healthy
  BY DEF Init, PoolInit, Locked, Healthy, NoPair
<1>3. \A p : Cardinality(Dialing(p)) = 0
  <2>1. \A p : Dialing(p) = {}
    BY DEF Init, Dialing
  <2> QED BY <2>1, FS_EmptySet
<1>4. (\A p \in Routes : pass[p] = 0) /\ drift = 0 /\ peak = 0 /\ anchor = NoAnchor
      /\ \A r \in Requests : pc[r] # "picked"
  BY DEF Init, PoolInit
<1> QED BY <1>1, <1>2, <1>3, <1>4, Numbers DEF Even

-----------------------------------------------------------------------------
(* What follows.                                                           *)

\* The in-flight count of a route is the number of requests dialing or
\* relaying through it (pool.go PickFor, Release).
THEOREM HoldsAreConserved == Spec => []HoldsConserved
<1>1. Inv => HoldsConserved
  BY DEF Inv
<1> QED BY <1>1, SpecInv, PTL

\* Every dial of a request is of another route, and within max-retries
\* (http.go serveTunnel).
THEOREM EveryDialIsAnotherRoute == Spec => []OneDialPerRoute
<1>1. Inv => OneDialPerRoute
  <2> SUFFICES ASSUME Inv, NEW r \in Requests
               PROVE  /\ gen[r] # 0 => attempts[r] <= Config(r).retries
                      /\ pc[r] \in {"select", "picked", "dialing", "established", "no_route"}
                           => attempts[r] = Cardinality(Dialed(r))
    BY DEF OneDialPerRoute
  <2>1. CASE pc[r] \in {"dialing", "established"}
    <3>1. Cardinality(exclude[r] \cup {chosen[r]}) = Cardinality(exclude[r]) + 1
      BY <2>1, FS_AddElement DEF Inv, ChainOK
    <3> QED BY <2>1, <3>1 DEF Inv, ChainOK, Dialed
  <2>2. CASE pc[r] \notin {"dialing", "established"}
    BY <2>2 DEF Inv, ChainOK, Dialed
  <2> QED BY <2>1, <2>2
<1> QED BY <1>1, SpecInv, PTL

\* Both cooldown scopes are sound under any reports, evictions and time
\* (pool.go ReportFailure, ReportTargetFailure, ReportSuccess).
THEOREM CooldownsAreSound == Spec => []CooldownsSound
<1>1. Inv /\ CoolInv /\ [Next]_vars => CoolInv'
  BY NextCool
<1>2. CoolInv => CooldownsSound
  BY DEF CoolInv
<1> QED BY <1>1, <1>2, SpecInv, InitCool, PTL DEF Spec

\* A request is refused for want of a route only when every candidate it has
\* not tried is auth-blocked or being rotated (pool.go PickFor).
THEOREM NoRouteIsNeverCooling == Spec => NoRouteIsHonest
<1> DEFINE Honest == \A r \in Requests :
                       pc[r] # "no_route" /\ pc'[r] = "no_route"
                         => \A p \in scope[r] : p \in Dialed(r) \/ authBlocked[p] \/ rotating[p]
<1>1. ASSUME Inv, [Next]_vars PROVE Honest
  <2> SUFFICES ASSUME NEW r \in Requests, pc[r] # "no_route", pc'[r] = "no_route"
               PROVE  \A p \in scope[r] : p \in Dialed(r) \/ authBlocked[p] \/ rotating[p]
    OBVIOUS
  <2>1. PickNone(r)
    <3>1. pc \in [Requests -> Stage]
      BY <1>1 DEF Inv, TypeOK
    <3>2. ~(Tick \/ ReadPasses \/ Publish \/ UNCHANGED vars)
      BY DEF Tick, ReadPasses, Publish, vars, requestVars, chainVars
    <3>3. PICK q \in Requests : Start(q) \/ ChainStep(q) \/ Finish(q)
      BY <1>1, <3>2 DEF Next
    <3>4. ASSUME NEW from, NEW to, Goto(q, from, to), to # "no_route" PROVE FALSE
      BY <3>1, <3>4 DEF Goto
    <3>5. PickNone(q)
      BY <3>3, <3>4 DEF ChainStep, Start, Finish, DeadlineExpired, RetryExhausted, PickScan,
                        PickServe, DialSucceeds, DialFails, SetupFails
    <3>6. q = r
      BY <3>1, <3>5 DEF PickNone, Goto
    <3> QED BY <3>5, <3>6
  <2>2. pc[r] = "select" /\ Picked(r) = NoRoute
    BY <2>1 DEF PickNone, Goto
  <2>3. \A p \in Candidates(r) : authBlocked[p] \/ rotating[p]
    BY <1>1, <2>2, PickedChoice, RoutesAssumption
  <2> QED BY <2>2, <2>3 DEF Candidates, Dialed
<1>2. Inv /\ [Next]_vars => [Honest]_vars
  BY <1>1
<1> QED BY <1>2, SpecInv, PTL DEF Spec, NoRouteIsHonest

\* Every dial obeys the policy of the generation its request loaded: the
\* first rule that names the target, or the default list, whatever is
\* published or renamed meanwhile (routing.go Match, pool.go Scope).
THEOREM EveryDialIsPermitted == Spec => []ServedWithinPolicy
<1>1. Init => Scoped
  BY DEF Init, Scoped
<1>2. Inv /\ Scoped /\ [Next]_vars => Scoped'
  BY NextScoped
<1>3. Inv /\ Scoped => ServedWithinPolicy
  BY DEF Inv, ChainOK, Scoped, Permitted, ServedWithinPolicy
<1> QED BY <1>1, <1>2, <1>3, SpecInv, PTL DEF Spec

\* A map that must forget a pair is exactly full, and does not know the target.
LEMMA EvictsFromFull ==
  ASSUME Inv, CoolInv, NEW p \in Routes, NEW t \in Targets, PairsFull(p, t)
  PROVE  pairs[p][t] = NoPair /\ Cardinality(Tracked(p)) = MaxTrackedPairs
<1>1. pairs[p][t] \in Pair
  BY DEF Inv, TypeOK, PoolTypeOK
<1>2. pairs[p][t].consecutive = 0
  BY <1>1, CurveAssumption DEF PairsFull, Tracked, Pair
<1>3. pairs[p][t].deadline = 0
  BY <1>2 DEF CoolInv, CooldownsSound, Agrees
<1>4. Cardinality(Tracked(p)) \in Nat /\ Cardinality(Tracked(p)) <= MaxTrackedPairs
  BY FS_CardinalityType DEF CoolInv, CooldownsSound, Bounded
<1> QED BY <1>1, <1>2, <1>3, <1>4, CurveAssumption DEF PairsFull, Pair, NoPair

\* The pair it forgets has expired, or none has and none expires sooner.
LEMMA EvictsSoonest ==
  ASSUME PoolTypeOK, NEW p \in Routes, NEW u \in Evictable(p)
  PROVE  \/ pairs[p][u].deadline <= now
         \/ \A v \in Tracked(p) : now < pairs[p][v].deadline
                                  /\ pairs[p][u].deadline <= pairs[p][v].deadline
<1>1. now \in Nat /\ \A v \in Tracked(p) : pairs[p][v].deadline \in Nat
  BY DEF PoolTypeOK, Tracked, Pair
<1>2. CASE Expired(p) # {}
  BY <1>1, <1>2 DEF Evictable, Expired
<1>3. CASE Expired(p) = {}
  BY <1>1, <1>3 DEF Evictable, Expired
<1> QED BY <1>2, <1>3

\* A refusal for one target changes what the route offers to no other one,
\* except that a full map which does not know the target forgets one pair,
\* expired or soonest to expire (pool.go ReportTargetFailure, evictTargetPair).
THEOREM RefusalsStayIsolated == Spec => RefusalIsolated
<1> DEFINE Isolated ==
      \A p \in Routes, t \in Targets :
        pairs'[p][t].deadline > pairs[p][t].deadline
          => /\ \E r \in Requests : pc[r] = "dialing" /\ chosen[r] = p /\ Target(r) = t
             /\ \A u \in Targets \ {t} : UNCHANGED pairs[p][u] \/ Forgets(p, t, u)
             /\ UNCHANGED <<dialHealth, authBlocked>>
<1>1. ASSUME Inv, CoolInv, [Next]_vars PROVE Isolated
  <2> SUFFICES ASSUME NEW p \in Routes, NEW t \in Targets,
                      pairs'[p][t].deadline > pairs[p][t].deadline
               PROVE  /\ \E r \in Requests : pc[r] = "dialing" /\ chosen[r] = p /\ Target(r) = t
                      /\ \A u \in Targets \ {t} : UNCHANGED pairs[p][u] \/ Forgets(p, t, u)
                      /\ UNCHANGED <<dialHealth, authBlocked>>
    OBVIOUS
  <2>1. pairs \in [Routes -> [Targets -> Pair]] /\ pairs[p][t].deadline \in Nat
    BY <1>1 DEF Inv, TypeOK, PoolTypeOK, Pair
  <2>2. pairs'[p][t] \notin {pairs[p][t], NoPair}
    BY <2>1 DEF NoPair
  <2>3. PICK r \in Requests : DialSucceeds(r) \/ DialFails(r)
    <3>1. pairs' # pairs
      BY <2>2
    <3> QED BY <1>1, <3>1 DEF Next, ChainStep, Tick, ReadPasses, Publish, Start, DeadlineExpired,
                  RetryExhausted, PickNone, PickScan, PickServe, SetupFails, Finish, vars, poolVars,
                  health
  <2>4. DialFails(r)
    <3>1. SUFFICES ASSUME DialSucceeds(r) PROVE FALSE
      BY <2>3
    <3>2. pairs' = [pairs EXCEPT ![chosen[r]][Target(r)] = NoPair]
      BY <3>1 DEF DialSucceeds, ReportSuccess, clearTargetCooldown
    <3> QED BY <2>1, <2>2, <3>2
  <2>5. PICK class : ReportClass(class, chosen[r], Target(r))
    BY <2>4 DEF DialFails
  <2>6. PICK q \in Routes, u \in Targets : q = chosen[r] /\ u = Target(r) /\ pc[r] = "dialing"
    BY <1>1, <2>4, RequestsAssumption DEF DialFails, Goto, Inv, ChainOK, TypeOK, Target
  <2>7. ReportTargetFailure(q, u)
    BY <2>2, <2>5, <2>6 DEF ReportClass, ReportFailure, ReportAuthBlocked
  <2>8. PICK cooled : \/ pairs' = [pairs EXCEPT ![q][u] = cooled]
                      \/ /\ PairsFull(q, u)
                         /\ \E v \in Evictable(q) :
                              pairs' = [pairs EXCEPT ![q] = [@ EXCEPT ![v] = NoPair, ![u] = cooled]]
    BY <2>7 DEF ReportTargetFailure
  <2>9. \A v \in Evictable(q) : v \in Tracked(q) /\ v \in Targets
    BY DEF Evictable, Expired, Tracked
  <2>10. p = q /\ t = u
    BY <2>1, <2>2, <2>8, <2>9
  <2>11. ASSUME NEW v \in Targets \ {t}
         PROVE  UNCHANGED pairs[p][v] \/ Forgets(p, t, v)
    <3>1. CASE pairs' = [pairs EXCEPT ![q][u] = cooled]
      BY <2>1, <2>10, <3>1
    <3>2. CASE /\ PairsFull(q, u)
               /\ \E w \in Evictable(q) :
                    pairs' = [pairs EXCEPT ![q] = [@ EXCEPT ![w] = NoPair, ![u] = cooled]]
      <4>1. PICK w \in Evictable(p) :
              pairs' = [pairs EXCEPT ![p] = [@ EXCEPT ![w] = NoPair, ![t] = cooled]]
        BY <2>10, <3>2
      <4>2. /\ \A x \in Targets \ {t, w} : UNCHANGED pairs[p][x]
            /\ w # t => pairs'[p][w] = NoPair
        BY <2>1, <2>9, <2>10, <4>1
      <4>3. pairs[p][t] = NoPair /\ Cardinality(Tracked(p)) = MaxTrackedPairs
        BY <1>1, <2>1, <2>10, <3>2, EvictsFromFull
      <4>4. ASSUME v = w
            PROVE  \/ pairs[p][v].deadline <= now
                   \/ \A x \in Tracked(p) : now < pairs[p][x].deadline
                                            /\ pairs[p][v].deadline <= pairs[p][x].deadline
        BY <1>1, <4>1, <4>4, EvictsSoonest DEF Inv, TypeOK
      <4> QED BY <4>2, <4>3, <4>4 DEF Forgets
    <3> QED BY <2>8, <3>1, <3>2
  <2> QED BY <2>6, <2>7, <2>10, <2>11 DEF ReportTargetFailure
<1>2. Inv /\ CoolInv /\ [Next]_vars => [Isolated]_vars
  BY <1>1
<1>3. Spec => []CoolInv
  <2>1. Inv /\ CoolInv /\ [Next]_vars => CoolInv'
    BY NextCool
  <2> QED BY <2>1, SpecInv, InitCool, PTL DEF Spec
<1> QED BY <1>2, <1>3, SpecInv, PTL DEF Spec, RefusalIsolated

\* The recency order is a round-robin for as long as nothing fails, over any
\* number of requests, routes and reloads (pool.go serve, Reconfigure).
THEOREM PicksAreRoundRobin == Spec => []RoundRobinBalance
<1>1. Inv /\ Locked /\ Healthy /\ (Clean => Even) /\ [Next]_vars
        => (Locked /\ Healthy /\ (Clean => Even))'
  BY NextLocked, NextHealthy, NextEven
<1>2. (Clean => Even) => RoundRobinBalance
  BY DEF Even, RoundRobinBalance, LiveRoutes
<1> QED BY <1>1, <1>2, SpecInv, InitEven, PTL DEF Spec

-----------------------------------------------------------------------------
(* Rotations beside the chain.                                             *)

\* The picks between the scan and the serve.
Pickers(p) == {r \in Requests : pc[r] = "picked" /\ chosen[r] = p}

EngineOK ==
  /\ phase \in [Manual -> Phase]
  /\ marked \in [Manual -> Nat] /\ \A p \in Manual : marked[p] \in 1..live
  /\ forced \in [Manual -> BOOLEAN]
  /\ late \in [Manual -> Nat]

\* What was served since a procedure began, and what may still be, is one
\* pick per generation.
LateOnes ==
  \A p \in Manual :
    /\ late[p] <= live
    /\ rotating[p] => late[p] + Cardinality(Pickers(p)) <= live

\* A drain that ended by itself left no holder but late ones.
Tight ==
  \A p \in Manual : phase[p] = "provider" /\ ~forced[p] => Cardinality(Holders(p)) <= late[p]

DrainInv == Inv /\ EngineOK /\ Locked /\ RotatingIsOwned /\ LateOnes /\ Tight

-----------------------------------------------------------------------------
LEMMA PickersFinite ==
  ASSUME NEW p
  PROVE  IsFiniteSet(Pickers(p)) /\ Cardinality(Pickers(p)) \in Nat
BY FS_Subset, FS_CardinalityType, RequestsAssumption DEF Pickers

\* The mutexes let one pick per generation be under way.
LEMMA OnePickPerGeneration ==
  ASSUME Inv, Locked, NEW p
  PROVE  Cardinality(Pickers(p)) <= live
<1> DEFINE f == [r \in Pickers(p) |-> gen[r]]
<1>1. live \in Nat /\ IsFiniteSet(1..live) /\ Cardinality(1..live) = live
  <2>1. live \in Nat
    BY ConfigsAssumption DEF Inv, TypeOK
  <2> HIDE DEF f
  <2> QED BY <2>1, FS_Interval
<1>2. \A r \in Pickers(p) : r \in Requests /\ gen[r] \in 1..live /\ poolMu[gen[r]] = r
  BY DEF Pickers, Inv, ChainOK, Locked
<1>3. f \in Injection(Pickers(p), 1..live)
  BY <1>2 DEF Injection, IsInjective
<1> HIDE DEF f
<1> QED BY <1>1, <1>3, FS_Injection

LEMMA DrainInitInv == DrainInit => DrainInv
<1> SUFFICES ASSUME DrainInit PROVE DrainInv
  OBVIOUS
<1>1. Inv
  BY InitInv DEF DrainInit
<1>2. live = 1
  BY DEF DrainInit, Init, live
<1>3. EngineOK /\ Locked /\ RotatingIsOwned /\ Tight
  BY <1>2, ManualAssumption
     DEF DrainInit, Init, PoolInit, EngineOK, Locked, RotatingIsOwned, Tight, Phase
<1>4. LateOnes
  BY <1>2, ManualAssumption DEF DrainInit, Init, PoolInit, LateOnes
<1> QED BY <1>1, <1>3, <1>4 DEF DrainInv

-----------------------------------------------------------------------------
(* Steps of the engine.                                                    *)

\* A step that leaves the requests alone needs only to keep the pool typed.
LEMMA EngineKeepsInv ==
  ASSUME Inv, UNCHANGED <<inFlight, requestVars>>, PoolTypeOK'
  PROVE  Inv' /\ UNCHANGED live /\ \A p : Pickers(p)' = Pickers(p) /\ Holders(p)' = Holders(p)
BY DEF Inv, TypeOK, ChainOK, ReloadOK, HoldsConserved, Holders, Pickers, requestVars, chainVars,
       reloadVars, Config, live

\* The back of a pool is a pass.
LEMMA FurthestIsPass ==
  ASSUME Inv, NEW g \in 1..live, NEW p \in Routes
  PROVE  Furthest(Elements(store[g].routes) \cup {p}) \in Nat
<1> DEFINE S == Elements(store[g].routes) \cup {p}
           N == {pass[q] : q \in S}
           f == [q \in S |-> pass[q]]
<1>1. store[g].routes \in Seq(Routes)
  BY ConfigsAssumption DEF Inv, TypeOK, live
<1>2. S \in SUBSET Routes /\ S # {}
  BY <1>1 DEF Elements
<1>3. IsFiniteSet(S)
  BY <1>2, RoutesAssumption, FS_Subset
<1>4. N \in SUBSET Nat /\ N # {}
  BY <1>2 DEF Inv, TypeOK, PoolTypeOK
<1>5. f \in Surjection(S, N)
  BY DEF Surjection
<1>6. IsFiniteSet(N)
  <2> HIDE DEF S, N, f
  <2> QED BY <1>3, <1>5, FS_Surjection
<1>7. \E n \in N : \A m \in N : m <= n
  <2> HIDE DEF N
  <2> QED BY <1>4, <1>6, GreatestNumber
<1>8. Furthest(S) \in N
  <2> HIDE DEF S
  <2> QED BY <1>7 DEF Furthest
<1> QED BY <1>4, <1>8

LEMMA ProcedureKeepsInv ==
  ASSUME DrainInv, NEW p \in Manual, BeginRotation(p) \/ ProcedureStep(p) \/ Abandon(p)
  PROVE  DrainInv'
<1> USE DEF DrainInv, Enter
<1>1. p \in Routes
  BY ManualAssumption
<1>2. UNCHANGED <<inFlight, requestVars>>
  BY DEF BeginRotation, ProcedureStep, Abandon, Drained, DrainTimeout, Commit, ResetStreak,
         ResetCooldowns, MarkStale, JumpToBack, vars, poolVars
<1>3. PoolTypeOK'
  <2> USE DEF Inv, TypeOK, PoolTypeOK, health, dialHealth
  <2>1. CASE BeginRotation(p) \/ Commit(p) \/ MarkStale(p) \/ Abandon(p)
    BY <1>1, <2>1 DEF BeginRotation, Commit, MarkStale, Abandon
  <2>2. CASE Drained(p) \/ DrainTimeout(p)
    BY <2>2 DEF Drained, DrainTimeout, vars, poolVars
  <2>3. CASE ResetStreak(p)
    BY <1>1, <2>3, CurveAssumption DEF ResetStreak
  <2>4. CASE ResetCooldowns(p)
    <3>1. NoPair \in Pair
      BY CurveAssumption DEF NoPair, Pair
    <3> QED BY <1>1, <2>4, <3>1 DEF ResetCooldowns, clearAllTargetCooldowns
  <2>5. CASE JumpToBack(p)
    <3>1. Furthest(Elements(store[marked[p]].routes) \cup {p}) \in Nat
      BY <1>1, FurthestIsPass DEF EngineOK
    <3> QED BY <1>1, <2>5, <3>1 DEF JumpToBack
  <2> QED BY <2>1, <2>2, <2>3, <2>4, <2>5 DEF ProcedureStep
<1>4. Inv' /\ UNCHANGED live /\ \A q : Pickers(q)' = Pickers(q) /\ Holders(q)' = Holders(q)
  BY <1>2, <1>3, EngineKeepsInv
<1>5. Locked'
  BY <1>2 DEF Locked, requestVars, chainVars
<1>6. live \in Nat /\ live >= 1
  BY ConfigsAssumption DEF Inv, TypeOK
<1>7. EngineOK'
  <2>1. CASE MarkStale(p)
    <3>1. marked' = [marked EXCEPT ![p] = live] /\ phase' = [phase EXCEPT ![p] = "stale"]
          /\ UNCHANGED <<forced, late>>
      BY <2>1 DEF MarkStale
    <3>2. live \in 1..live
      BY <1>6
    <3>3. /\ marked' \in [Manual -> Nat] /\ phase' \in [Manual -> Phase]
          /\ \A q \in Manual : marked'[q] \in 1..live
      BY <1>6, <3>1, <3>2 DEF EngineOK, Phase
    <3> QED BY <1>4, <3>1, <3>3 DEF EngineOK
  <2>2. CASE ~MarkStale(p)
    <3>1. marked' = marked
      BY <2>2 DEF BeginRotation, ProcedureStep, Abandon, Drained, DrainTimeout, Commit, ResetStreak,
                  ResetCooldowns, JumpToBack
    <3>2. \E to \in Phase : phase' = [phase EXCEPT ![p] = to]
      BY <2>2 DEF BeginRotation, ProcedureStep, Abandon, Drained, DrainTimeout, Commit, ResetStreak,
                  ResetCooldowns, JumpToBack, Phase
    <3>3. forced' = forced \/ \E b \in BOOLEAN : forced' = [forced EXCEPT ![p] = b]
      BY <2>2 DEF BeginRotation, ProcedureStep, Abandon, Drained, DrainTimeout, Commit, ResetStreak,
                  ResetCooldowns, JumpToBack
    <3>4. late' = late \/ late' = [late EXCEPT ![p] = 0]
      BY <2>2 DEF BeginRotation, ProcedureStep, Abandon, Drained, DrainTimeout, Commit, ResetStreak,
                  ResetCooldowns, JumpToBack
    <3>5. phase' \in [Manual -> Phase] /\ forced' \in [Manual -> BOOLEAN]
          /\ late' \in [Manual -> Nat]
      BY <3>2, <3>3, <3>4 DEF EngineOK
    <3> QED BY <1>4, <3>1, <3>5 DEF EngineOK
  <2> QED BY <2>1, <2>2
<1>8. RotatingIsOwned'
  <2> USE DEF RotatingIsOwned, EngineOK, Inv, TypeOK, PoolTypeOK
  <2>1. CASE BeginRotation(p)
    BY <1>1, <2>1 DEF BeginRotation
  <2>2. CASE Commit(p) \/ MarkStale(p) \/ Abandon(p)
    BY <1>1, <2>2 DEF Commit, MarkStale, Abandon
  <2>3. CASE Drained(p) \/ DrainTimeout(p)
    BY <2>3 DEF Drained, DrainTimeout, vars, poolVars
  <2>4. CASE ResetStreak(p) \/ ResetCooldowns(p) \/ JumpToBack(p)
    BY <2>4 DEF ResetStreak, ResetCooldowns, JumpToBack
  <2> QED BY <2>1, <2>2, <2>3, <2>4 DEF ProcedureStep
<1>9. LateOnes'
  <2> SUFFICES ASSUME NEW q \in Manual
               PROVE  /\ late'[q] <= live
                      /\ rotating'[q] => late'[q] + Cardinality(Pickers(q)) <= live
    BY <1>4 DEF LateOnes
  <2>1. CASE BeginRotation(p)
    <3>1. CASE q = p
      <4>1. late'[q] = 0
        BY <2>1, <3>1 DEF BeginRotation, EngineOK
      <4>2. Cardinality(Pickers(q)) <= live /\ Cardinality(Pickers(q)) \in Nat
        BY OnePickPerGeneration, PickersFinite
      <4> QED BY <1>6, <4>1, <4>2
    <3>2. CASE q # p
      <4>1. late'[q] = late[q] /\ rotating'[q] = rotating[q]
        BY <2>1, <3>2, ManualAssumption DEF BeginRotation, EngineOK, Inv, TypeOK, PoolTypeOK
      <4> QED BY <4>1 DEF LateOnes
    <3> QED BY <3>1, <3>2
  <2>2. CASE ProcedureStep(p) \/ Abandon(p)
    <3>1. late' = late
      BY <2>2 DEF ProcedureStep, Abandon, Drained, DrainTimeout, Commit, ResetStreak,
                  ResetCooldowns, MarkStale, JumpToBack
    <3>2. rotating'[q] => rotating[q]
      BY <1>1, <2>2, ManualAssumption
         DEF ProcedureStep, Abandon, Drained, DrainTimeout, Commit, ResetStreak, ResetCooldowns,
             MarkStale, JumpToBack, vars, poolVars, Inv, TypeOK, PoolTypeOK
    <3> QED BY <3>1, <3>2 DEF LateOnes
  <2> QED BY <2>1, <2>2
<1>10. Tight'
  <2> SUFFICES ASSUME NEW q \in Manual, phase'[q] = "provider", ~forced'[q]
               PROVE  Cardinality(Holders(q)) <= late'[q]
    BY <1>4 DEF Tight
  <2>1. CASE Drained(p) /\ q = p
    <3>1. Cardinality(Holders(q)) = 0 /\ late'[q] \in Nat
      BY <1>1, <2>1 DEF Drained, Inv, HoldsConserved, EngineOK
    <3> QED BY <3>1
  <2>2. CASE ~(Drained(p) /\ q = p)
    <3>1. phase[q] = "provider" /\ ~forced[q] /\ late'[q] = late[q]
      BY <2>2 DEF BeginRotation, ProcedureStep, Abandon, Drained, DrainTimeout, Commit, ResetStreak,
                  ResetCooldowns, MarkStale, JumpToBack, EngineOK
    <3> QED BY <3>1 DEF Tight
  <2> QED BY <2>1, <2>2
<1> QED BY <1>4, <1>5, <1>7, <1>8, <1>9, <1>10

-----------------------------------------------------------------------------
(* Steps of the requests and the reload loop.                              *)

\* What is left to show of a step that neither serves nor touches an engine
\* variable or a flag.
LEMMA QuietKeepsInv ==
  ASSUME DrainInv, [Next]_vars, UNCHANGED <<engineVars, rotating>>, live <= live', live' \in Nat,
         Locked',
         \A p \in Manual : /\ rotating[p] => Pickers(p)' = Pickers(p)
                           /\ Holders(p)' \in SUBSET Holders(p)
  PROVE  DrainInv'
<1> USE DEF DrainInv
<1>1. Inv'
  BY NextInv
<1>2. live \in Nat
  BY ConfigsAssumption DEF Inv, TypeOK
<1>3. EngineOK'
  BY <1>2 DEF EngineOK, engineVars
<1>4. RotatingIsOwned'
  BY DEF RotatingIsOwned, engineVars
<1>5. LateOnes'
  <2> SUFFICES ASSUME NEW p \in Manual
               PROVE  /\ late[p] <= live'
                      /\ rotating[p] => late[p] + Cardinality(Pickers(p)) <= live'
    BY DEF LateOnes, engineVars
  <2>1. late[p] \in Nat /\ Cardinality(Pickers(p)) \in Nat
    BY PickersFinite DEF EngineOK
  <2> QED BY <1>2, <2>1 DEF LateOnes
<1>6. Tight'
  <2> SUFFICES ASSUME NEW p \in Manual, phase[p] = "provider", ~forced[p]
               PROVE  Cardinality(Holders(p)') <= late[p]
    BY DEF Tight, engineVars
  <2>1. /\ IsFiniteSet(Holders(p)) /\ Cardinality(Holders(p)) \in Nat
        /\ Cardinality(Holders(p)) <= late[p] /\ late[p] \in Nat
    BY HoldersFinite DEF Tight, EngineOK
  <2>2. Cardinality(Holders(p)') <= Cardinality(Holders(p)) /\ Cardinality(Holders(p)') \in Nat
    BY <2>1, FS_Subset, FS_CardinalityType
  <2> QED BY <2>1, <2>2
<1> QED BY <1>1, <1>3, <1>4, <1>5, <1>6

LEMMA RequestKeepsInv ==
  ASSUME DrainInv, NEW r \in Requests, RequestStep(r)
  PROVE  DrainInv'
<1> USE DEF DrainInv, Goto
<1>1. [Next]_vars /\ UNCHANGED engineVars
  BY DEF RequestStep, Next, ChainStep
<1>2. /\ UNCHANGED <<rotating, store>>
      /\ live' = live /\ live \in Nat
  BY ConfigsAssumption
     DEF RequestStep, Start, DeadlineExpired, RetryExhausted, PickNone, PickScan, DialSucceeds,
         DialFails, SetupFails, Finish, poolVars, reloadVars, live, Inv, TypeOK
<1>3. CASE PickScan(r)
  <2>1. Picked(r) \in Routes /\ ~rotating[Picked(r)] /\ gen[r] \in 1..MaxGenerations
    <3>1. gen[r] \in 1..live /\ live \in 1..MaxGenerations /\ MaxGenerations \in Nat
      BY <1>3, ConfigsAssumption DEF PickScan, Inv, ChainOK, TypeOK
    <3> QED BY <1>3, <3>1, PickedChoice DEF PickScan
  <2>2. Locked'
    BY <1>3, <2>1, RequestsAssumption DEF PickScan, CanPick, Locked, Inv, TypeOK
  <2>3. \A p \in Manual : /\ rotating[p] => Pickers(p)' = Pickers(p)
                          /\ Holders(p)' = Holders(p)
    BY <1>3, <2>1 DEF PickScan, Pickers, Holders, Inv, TypeOK
  <2> QED BY <1>1, <1>2, <2>2, <2>3, QuietKeepsInv
<1>4. CASE ~PickScan(r)
  <2>1. /\ pc[r] # "picked" /\ \E to \in Stage \ {"picked"} : pc' = [pc EXCEPT ![r] = to]
        /\ poolMu' = poolMu
        /\ gen' = [gen EXCEPT ![r] = gen'[r]]
        /\ \E c \in Routes \cup {NoRoute} : chosen' = [chosen EXCEPT ![r] = c]
        /\ pc'[r] \in {"dialing", "established"}
             => pc[r] = "dialing" /\ chosen' = chosen
    BY <1>4 DEF RequestStep, Start, DeadlineExpired, RetryExhausted, PickNone, DialSucceeds,
                DialFails, SetupFails, Finish, Stage, Chain, Refused, Inv, TypeOK
  <2>2. Locked'
    BY <2>1 DEF Locked, Inv, TypeOK
  <2>3. \A p \in Manual : Pickers(p)' = Pickers(p) /\ Holders(p)' \in SUBSET Holders(p)
    BY <2>1 DEF Pickers, Holders, Inv, TypeOK
  <2> QED BY <1>1, <1>2, <2>2, <2>3, QuietKeepsInv
<1> QED BY <1>3, <1>4

\* A serve moves a pick from under way to late.
LEMMA ServeDuringKeepsInv ==
  ASSUME DrainInv, NEW r \in Requests, ServeDuring(r)
  PROVE  DrainInv'
<1> USE DEF DrainInv, Goto
<1>1. PickServe(r) /\ [Next]_vars /\ UNCHANGED <<phase, marked, forced, procedures>>
  BY DEF ServeDuring, Next, ChainStep
<1>2. Inv'
  BY <1>1, NextInv
<1>3. PICK p \in Routes : p = chosen[r] /\ r \in Pickers(p) /\ r \notin Holders(p)
  BY <1>1 DEF PickServe, Inv, ChainOK, Pickers, Holders
<1>4. UNCHANGED <<rotating, store, live>> /\ live \in Nat
  BY <1>1, ConfigsAssumption DEF PickServe, live, Inv, TypeOK
<1>5. /\ Pickers(p)' = Pickers(p) \ {r} /\ Holders(p)' = Holders(p) \cup {r}
      /\ \A q \in Routes \ {p} : Pickers(q)' = Pickers(q) /\ Holders(q)' = Holders(q)
  BY <1>1, <1>3 DEF PickServe, Pickers, Holders, Inv, TypeOK
<1>6. /\ Cardinality(Pickers(p)') = Cardinality(Pickers(p)) - 1
      /\ Cardinality(Holders(p)') = Cardinality(Holders(p)) + 1
      /\ Cardinality(Pickers(p)) \in Nat /\ Cardinality(Pickers(p)') \in Nat
      /\ Cardinality(Holders(p)) \in Nat
  <2>1. IsFiniteSet(Pickers(p)) /\ IsFiniteSet(Holders(p))
        /\ Cardinality(Pickers(p)) \in Nat /\ Cardinality(Holders(p)) \in Nat
    BY PickersFinite, HoldersFinite
  <2>2. /\ IsFiniteSet(Pickers(p) \ {r})
        /\ Cardinality(Pickers(p) \ {r}) = Cardinality(Pickers(p)) - 1
    BY <1>3, <2>1, FS_RemoveElement
  <2>3. Cardinality(Holders(p) \cup {r}) = Cardinality(Holders(p)) + 1
    BY <1>3, <2>1, FS_AddElement
  <2>4. Cardinality(Pickers(p) \ {r}) \in Nat
    BY <2>2, FS_CardinalityType
  <2> QED BY <1>5, <2>1, <2>2, <2>3, <2>4
<1>7. \A q \in Manual : late'[q] = IF q = p /\ rotating[q] THEN late[q] + 1 ELSE late[q]
  BY <1>3 DEF ServeDuring
<1>8. EngineOK'
  <2>1. late' \in [Manual -> Nat]
    BY DEF ServeDuring, EngineOK
  <2> QED BY <1>1, <1>4, <2>1 DEF EngineOK
<1>9. RotatingIsOwned'
  BY <1>1, <1>4 DEF RotatingIsOwned
<1>10. Locked'
  <2> SUFFICES ASSUME NEW q \in Requests, pc'[q] = "picked" PROVE poolMu'[gen'[q]] = q
    BY DEF Locked
  <2>1. q # r /\ pc[q] = "picked" /\ gen'[q] = gen[q]
    BY <1>1 DEF PickServe, Inv, TypeOK
  <2>2. poolMu[gen[q]] = q /\ poolMu[gen[r]] = r
    BY <1>1, <2>1 DEF Locked, PickServe
  <2>3. gen[q] # gen[r]
    BY <2>1, <2>2
  <2>4. gen[q] \in 1..MaxGenerations
    <3>1. gen[q] \in 1..live /\ live \in 1..MaxGenerations /\ MaxGenerations \in Nat
      BY <2>1, ConfigsAssumption DEF Inv, ChainOK, TypeOK
    <3> QED BY <3>1
  <2> QED BY <1>1, <2>1, <2>2, <2>3, <2>4 DEF PickServe, Inv, TypeOK
<1>11. LateOnes'
  <2> SUFFICES ASSUME NEW q \in Manual
               PROVE  /\ late'[q] <= live
                      /\ rotating[q] => late'[q] + Cardinality(Pickers(q)') <= live
    BY <1>4 DEF LateOnes
  <2>1. late[q] \in Nat /\ late[q] <= live
        /\ (rotating[q] => late[q] + Cardinality(Pickers(q)) <= live)
    BY DEF EngineOK, LateOnes
  <2>2. CASE q = p
    BY <1>4, <1>6, <1>7, <2>1, <2>2
  <2>3. CASE q # p
    BY <1>5, <1>7, <2>1, <2>3, ManualAssumption
  <2> QED BY <2>2, <2>3
<1>12. Tight'
  <2> SUFFICES ASSUME NEW q \in Manual, phase[q] = "provider", ~forced[q]
               PROVE  Cardinality(Holders(q)') <= late'[q]
    BY <1>1 DEF Tight
  <2>1. rotating[q] /\ Cardinality(Holders(q)) <= late[q] /\ late[q] \in Nat
    BY ManualAssumption DEF RotatingIsOwned, Tight, EngineOK
  <2>2. CASE q = p
    BY <1>6, <1>7, <2>1, <2>2
  <2>3. CASE q # p
    BY <1>5, <1>7, <2>1, <2>3, ManualAssumption
  <2> QED BY <2>2, <2>3
<1> QED BY <1>2, <1>8, <1>9, <1>10, <1>11, <1>12

LEMMA ReloadStepKeepsInv ==
  ASSUME DrainInv, Tick \/ ReadPasses \/ Publish, UNCHANGED engineVars
  PROVE  DrainInv'
<1> USE DEF DrainInv
<1>1. /\ UNCHANGED <<rotating, chainVars>> /\ [Next]_vars
      /\ live \in Nat /\ live' \in Nat /\ live <= live'
  BY ConfigsAssumption DEF Tick, ReadPasses, Publish, Next, requestVars, reloadVars, poolVars, live, Inv, TypeOK
<1>2. Locked'
  BY <1>1 DEF Locked, chainVars
<1>3. \A p \in Manual : Pickers(p)' = Pickers(p) /\ Holders(p)' = Holders(p)
  BY <1>1 DEF Pickers, Holders, chainVars
<1> QED BY <1>1, <1>2, <1>3, QuietKeepsInv

LEMMA DrainNextInv ==
  ASSUME DrainInv, [DrainNext]_allVars
  PROVE  DrainInv'
<1>1. CASE UNCHANGED allVars
  <2>1. UNCHANGED vars /\ UNCHANGED engineVars
    BY <1>1 DEF allVars
  <2>2. Inv'
    BY <2>1, NextInv DEF DrainInv
  <2> QED BY <2>1, <2>2
          DEF DrainInv, EngineOK, Locked, RotatingIsOwned, LateOnes, Tight, Pickers, Holders,
              engineVars, vars, poolVars, requestVars, chainVars, reloadVars, live
<1> QED BY <1>1, ProcedureKeepsInv, RequestKeepsInv, ServeDuringKeepsInv, ReloadStepKeepsInv
        DEF DrainNext

LEMMA DrainSpecInv == DrainSpec => []DrainInv
  BY DrainInitInv, DrainNextInv, PTL DEF DrainSpec

-----------------------------------------------------------------------------
(* What follows.                                                           *)

\* The rotating flag is up exactly while a procedure owns the route
\* (engine.go runProcedure).
THEOREM FlagIsOwned == DrainSpec => []RotatingIsOwned
<1>1. DrainInv => RotatingIsOwned
  BY DEF DrainInv
<1> QED BY <1>1, DrainSpecInv, PTL

\* A drain misses at most one holder per generation, and a drain that ended
\* by itself no other (pool.go PickFor, engine.go rotate).
THEOREM DrainMissesOnePerGeneration == DrainSpec => []DrainIsAlmostTight
<1>1. DrainInv => DrainIsAlmostTight
  BY DEF DrainInv, LateOnes, Tight, DrainIsAlmostTight
<1> QED BY <1>1, DrainSpecInv, PTL
=============================================================================
