-------------------------- MODULE ConfigReloadProofs --------------------------
(***************************************************************************)
(* Proofs about ConfigReload: whatever the file holds and however it is    *)
(* edited, the configuration that serves is one the rest of the program    *)
(* can rely on, and no reload is tried without an edit, but for the one of *)
(* a poller that began without a baseline.                                 *)
(***************************************************************************)
EXTENDS ConfigReload, TLAPS

-----------------------------------------------------------------------------
(* What validation guarantees.                                             *)

\* The hundredth part, rounded up.
LEMMA CeilBounds ==
  ASSUME NEW x \in Int, x >= 1
  PROVE  /\ (x + 99) \div 100 \in Int
         /\ (x + 99) \div 100 >= 1
         /\ ((x + 99) \div 100) * 100 >= x
  OBVIOUS

LEMMA ProductBounds ==
  ASSUME NEW n \in Nat, n >= 1, NEW k \in Int, k >= 1
  PROVE  /\ n * k \in Int /\ n * k >= 1
         /\ k <= 100 => n * k <= n * 100
  OBVIOUS

\* The resolved rotation cap lets at least one and at most every route
\* rotate, and a percentage is never rounded down (runtime.go
\* ResolveMaxConcurrent).
LEMMA CapResolves ==
  ASSUME NEW s, RotationValid(s), NEW n \in Nat, n >= 1
  PROVE  /\ ResolveMaxConcurrent(s, n) \in 1..n
         /\ s.percent => ResolveMaxConcurrent(s, n) * 100 >= n * s.limit
  <1> DEFINE k == s.limit
             c == (n * k + 99) \div 100
             wanted == IF s.percent THEN c ELSE k
  <1>1. k \in Int /\ k >= 1 /\ (s.percent => k <= 100)
    BY DEF RotationValid, Positive
  <1>2. n * k \in Int /\ n * k >= 1 /\ (k <= 100 => n * k <= n * 100)
    BY <1>1, ProductBounds
  <1>3. c \in Int /\ c >= 1 /\ c * 100 >= n * k
    BY <1>2, CeilBounds
  <1>4. ResolveMaxConcurrent(s, n) = IF wanted > n THEN n ELSE wanted
    <2>1. wanted \in Int /\ wanted >= 1
      BY <1>1, <1>3
    <2> QED BY <2>1, n >= 1 DEF ResolveMaxConcurrent
  <1>5. CASE s.percent
    <2>1. wanted = c
      BY <1>5
    <2> DEFINE nk == n * k
    <2>2. nk <= n * 100 /\ nk \in Int
      BY <1>1, <1>2, <1>5
    <2> HIDE DEF c, wanted, nk, k
    <2>3. ResolveMaxConcurrent(s, n) \in 1..n /\ ResolveMaxConcurrent(s, n) * 100 >= nk
      BY <1>3, <1>4, <2>1, <2>2 DEF nk
    <2> QED BY <2>3 DEF nk, k
  <1>6. CASE ~s.percent
    BY <1>1, <1>4, <1>6
  <1> QED BY <1>5, <1>6

\* The policy of an accepted document names routes of that document only.
LEMMA AcceptedRoutingResolves ==
  ASSUME NEW doc \in Document, Accepts(doc)
  PROVE  RoutingServable(runtimeFromFile(doc))
  <1> DEFINE routes == AllRoutes(doc)
             ids    == [i \in DOMAIN routes |-> routes[i].id]
             cfg    == runtimeFromFile(doc)
             raw    == doc.routing
  <1>1. RoutingAccepted(raw, ids)
    BY DEF Accepts
  <1>2. cfg.routing = Compile(raw) /\ cfg.routes = routes
    BY DEF runtimeFromFile
  <1>3. IdsOf(cfg) = Elements(ids)
    <2> HIDE DEF routes, cfg
    <2> QED BY <1>2 DEF IdsOf, Elements
  <1> SUFFICES ASSUME raw # Absent
               PROVE  RoutingServable(cfg)
    BY <1>2 DEF RoutingServable, Compile
  <1>4. raw \in RoutingBlock
    BY DEF Document
  <1>5. /\ cfg.routing.rules = [i \in DOMAIN raw.rules |-> compiledRule(raw.rules[i])]
        /\ cfg.routing.defaults = IF raw.defaults = Absent THEN {} ELSE Elements(raw.defaults)
    BY <1>2 DEF Compile
  <1>6. ASSUME NEW i \in DOMAIN cfg.routing.rules
        PROVE  /\ cfg.routing.rules[i].routes # {}
               /\ cfg.routing.rules[i].routes \subseteq IdsOf(cfg)
    <2> DEFINE rule == raw.rules[i]
    <2>1. i \in DOMAIN raw.rules /\ raw.rules \in Seq(RuleEntry)
      BY <1>4, <1>5, <1>6 DEF RoutingBlock
    <2>2. rule \in RuleEntry /\ rule \in Elements(raw.rules)
      BY <2>1 DEF Elements
    <2>3. RuleCompiles(rule) /\ Elements(rule.routes) \subseteq Elements(ids)
      BY <1>1, <2>2 DEF RoutingAccepted
    <2>4. rule.routes \in Seq(RouteIds) /\ rule.routes # <<>>
      BY <2>2, <2>3 DEF RuleEntry, RuleCompiles
    <2>5. 1 \in DOMAIN rule.routes
      BY <2>4
    <2>6. Elements(rule.routes) # {}
      BY <2>5 DEF Elements
    <2>7. cfg.routing.rules[i].routes = Elements(rule.routes)
      BY <1>5, <2>1 DEF compiledRule
    <2> QED BY <1>3, <2>3, <2>6, <2>7
  <1>7. cfg.routing.defaults \subseteq IdsOf(cfg)
    BY <1>1, <1>3, <1>5 DEF RoutingAccepted
  <1>8. ASSUME NEW i \in DOMAIN cfg.routes, NEW j \in DOMAIN cfg.routes,
               cfg.routes[i].id = cfg.routes[j].id
        PROVE  i = j
    <2> HIDE DEF routes, cfg
    <2>1. i \in DOMAIN ids /\ j \in DOMAIN ids /\ ids[i] = ids[j]
      BY <1>2, <1>8
    <2>2. ids[i] # Absent
      BY <1>1, <2>1 DEF RoutingAccepted, Elements
    <2> QED BY <1>1, <2>1, <2>2 DEF RoutingAccepted
  <1> HIDE DEF cfg
  <1> QED BY <1>6, <1>7, <1>8 DEF RoutingServable

\* Every document LoadRuntime accepts is one the program can rely on.
LEMMA AcceptedIsServable ==
  ASSUME NEW doc \in Document, Accepts(doc)
  PROVE  Servable(runtimeFromFile(doc))
  <1> DEFINE cfg == runtimeFromFile(doc)
             routes == AllRoutes(doc)
  <1>1. cfg.maxRetries >= 1 /\ 0 < cfg.cooldownBase /\ cfg.cooldownBase <= cfg.cooldownMax
    <2>1. doc.retries # Absent
      BY DEF Accepts, ScalarsValid, Default, AtLeast
    <2> QED BY <2>1 DEF Accepts, ScalarsValid, Default, AtLeast, Positive, runtimeFromFile
  <1>2. LET w == cfg.warmPool
        IN  0 <= w.min /\ w.min <= w.max /\ 1 <= w.max /\ w.max <= w.total /\ 1 <= w.dials
    BY DEF Accepts, WarmPoolValid, AtLeast, runtimeFromFile
  <1>3. RotationValid(cfg.rotation)
    BY DEF Accepts, runtimeFromFile
  <1>4. cfg.routes = routes /\ RoutesValid(routes)
    BY DEF Accepts, runtimeFromFile
  <1>5. routes \in Seq({RouteSpec(e, o) : e \in RouteEntry, o \in {"auto", "manual"}})
    <2> DEFINE R == {RouteSpec(e, o) : e \in RouteEntry, o \in {"auto", "manual"}}
    <2>1. doc.auto \in Seq(RouteEntry) /\ doc.manual \in Seq(RouteEntry)
      BY DEF Document
    <2>2. [i \in DOMAIN doc.auto |-> RouteSpec(doc.auto[i], "auto")] \in Seq(R)
      BY <2>1
    <2>3. [i \in DOMAIN doc.manual |-> RouteSpec(doc.manual[i], "manual")] \in Seq(R)
      BY <2>1
    <2> QED BY <2>2, <2>3 DEF AllRoutes
  <1>6. Len(routes) \in Nat /\ Len(routes) >= 1 /\ DOMAIN routes = 1..Len(routes)
    <2> HIDE DEF routes
    <2> QED BY <1>4, <1>5 DEF RoutesValid
  <1>7. \A i, j \in DOMAIN routes : routes[i].identity = routes[j].identity => i = j
    <2> HIDE DEF routes
    <2> QED BY <1>4 DEF RoutesValid, Distinct
  <1>8. \A n \in 1..Len(routes) : ResolveMaxConcurrent(cfg.rotation, n) \in 1..n
    <2> HIDE DEF routes, cfg
    <2> QED BY <1>3, <1>6, CapResolves
  <1>9. cfg.rotation.percent => ResolveMaxConcurrent(cfg.rotation, Len(routes)) * 100
                                  >= Len(routes) * cfg.rotation.limit
    <2> HIDE DEF routes, cfg
    <2> QED BY <1>3, <1>6, CapResolves
  <1>10. 0 < cfg.rotation.every /\ cfg.rotation.every <= cfg.rotation.check
    BY <1>3 DEF RotationValid, Positive
  <1>11. cfg.routes # <<>>
    BY <1>4 DEF RoutesValid
  <1>12. RoutingServable(cfg)
    BY AcceptedRoutingResolves
  <1> HIDE DEF cfg, routes
  <1> QED BY <1>1, <1>2, <1>4, <1>7, <1>8, <1>9, <1>10, <1>11, <1>12 DEF Servable, cfg

-----------------------------------------------------------------------------
(* What is served.                                                         *)

\* The file and the loop only ever hold contents, and the loop publishes and
\* serves only what it could load.
Screened ==
  /\ file \in Files /\ read \in Files
  /\ main \in {"starting", "publishing"} => Loads(read)
  /\ live # Unreadable => live \in Files /\ Loads(live)

LEMMA InitScreened == Init => Screened
  BY DEF Init, Screened, Files

LEMMA NextScreened ==
  ASSUME Screened, [Next]_vars
  PROVE  Screened'
<1> USE DEF Screened, Goto
<1>1. CASE Edit
  BY <1>1 DEF Edit, Files, loopVars
<1>2. CASE Boot
  BY <1>2 DEF Boot, Seen, Files, fileVars
<1>3. CASE StartPoller \/ TakeSignal
  BY <1>3 DEF StartPoller, TakeSignal, fileVars
<1>4. CASE Reload
  BY <1>4 DEF Reload, Seen, Files, fileVars
<1>5. CASE Publish \/ SetGlobalLevel
  BY <1>5 DEF Publish, SetGlobalLevel, fileVars, Loads
<1>6. CASE Stop \/ Poll \/ Signal
  BY <1>6 DEF Stop, Poll, Signal, fileVars, loopVars
<1>7. CASE UNCHANGED vars
  BY <1>7 DEF vars, fileVars, loopVars
<1> QED BY <1>1, <1>2, <1>3, <1>4, <1>5, <1>6, <1>7 DEF Next, Serve

\* Whatever is written to the file, the configuration that serves is one the
\* rest of the program can rely on (main.go reload, LoadRuntime).
THEOREM OnlyServableIsServed == Spec => []ServedIsServable
<1>1. Screened => ServedIsServable
  <2> SUFFICES ASSUME Screened, live # Unreadable
               PROVE  Servable(runtimeFromFile(live))
    BY DEF ServedIsServable
  <2>1. live \in Contents /\ Accepts(live)
    BY DEF Screened, Loads, Files
  <2>2. live \in Document
    BY <2>1, ReloadAssumption DEF Accepts
  <2> QED BY <2>1, <2>2, AcceptedIsServable
<1> QED BY <1>1, InitScreened, NextScreened, PTL DEF Spec

-----------------------------------------------------------------------------
(* Reloads and edits.                                                      *)

\* An edit, or the missing baseline, is spent at most once: it is a
\* difference the poller has still to see, a change it is about to signal, the
\* pending signal, the reload that took it, or a reload that was tried.
One(condition) == IF condition THEN 1 ELSE 0
Unspent ==
  One(poller # "off" /\ file # last) + One(poller = "changed") + One(pending)
    + One(main = "reloading")
EditsAreSpentOnce ==
  /\ edits \in Nat /\ reloads \in Nat
  /\ main \in {"boot", "starting"} => ~unseeded
  /\ reloads + Unspent <= edits + One(unseeded)

LEMMA InitSpentOnce == Init => EditsAreSpentOnce
  BY DEF Init, EditsAreSpentOnce, Unspent, One

LEMMA NextSpentOnce ==
  ASSUME EditsAreSpentOnce, [Next]_vars
  PROVE  EditsAreSpentOnce'
<1> USE DEF EditsAreSpentOnce, Unspent, One, Goto
<1>1. CASE Edit
  BY <1>1 DEF Edit, pollVars, loopVars, notes, notes
<1>2. CASE Boot
  BY <1>2 DEF Boot, fileVars, pollVars, notes
<1>3. CASE StartPoller
  <2>1. CASE last' = file
    <3>1. ~unseeded'
      BY <1>3, <2>1 DEF StartPoller
    <3> QED BY <1>3, <2>1, <3>1 DEF StartPoller, fileVars
  <2>2. CASE last' # file
    <3>1. unseeded'
      BY <1>3, <2>2 DEF StartPoller
    <3> QED BY <1>3, <2>2, <3>1 DEF StartPoller, fileVars
  <2> QED BY <2>1, <2>2
<1>4. CASE TakeSignal
  BY <1>4 DEF TakeSignal, fileVars, pollVars, notes
<1>5. CASE Reload
  BY <1>5 DEF Reload, fileVars, pollVars
<1>6. CASE Publish
  BY <1>6 DEF Publish, fileVars, pollVars, notes
<1>7. CASE SetGlobalLevel
  BY <1>7 DEF SetGlobalLevel, fileVars, pollVars, notes
<1>8. CASE Stop
  BY <1>8 DEF Stop, fileVars, notes
<1>9. CASE Poll
  BY <1>9 DEF Poll, fileVars, loopVars
<1>10. CASE Signal
  BY <1>10 DEF Signal, fileVars, loopVars, notes
<1>11. CASE UNCHANGED vars
  BY <1>11 DEF vars, fileVars, pollVars, loopVars, notes
<1> QED
  BY <1>1, <1>2, <1>3, <1>4, <1>5, <1>6, <1>7, <1>8, <1>9, <1>10, <1>11 DEF Next, Serve

\* Every reload that is tried answers an edit of its own, but for the one a
\* missing baseline causes (poll.go NewPoller, Run).
THEOREM ReloadsAnswerEdits == Spec => []ReloadsAreChanges
<1>1. EditsAreSpentOnce => ReloadsAreChanges
  BY DEF EditsAreSpentOnce, Unspent, One, ReloadsAreChanges
<1> QED BY <1>1, InitSpentOnce, NextSpentOnce, PTL DEF Spec
=============================================================================
