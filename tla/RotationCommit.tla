--------------------------- MODULE RotationCommit ---------------------------
(***************************************************************************)
(* How a rotation procedure decides and records a new egress address:      *)
(* internal/rotation/engine.go (rotate, verify, commit), CommitRotation    *)
(* and its neighbours in internal/pool/rotation.go, and the publication of *)
(* generations in internal/pool/generation.go.                             *)
(*                                                                         *)
(* Every published generation has a pool of its own with a mutex of its    *)
(* own.  CommitRotation takes the mutex of the pool it is addressed to;    *)
(* Publish takes none while it swaps the live generation, so it may land   *)
(* between any two steps below, also inside the critical section.          *)
(*                                                                         *)
(* Abstractions.  Addresses are canonical identities (CanonicalIP), and a  *)
(* probe may answer any of them.  Routes are *Proxy objects: a route that  *)
(* a reload removes and a later one adds again is another element.  The    *)
(* drain is in RotationDrain; the verification window is counted in        *)
(* probes.                                                                 *)
(*                                                                         *)
(* A definition X_Fault is the code of X with a bug in it.  No behaviour   *)
(* uses it; each shows that the properties notice the bug.                 *)
(***************************************************************************)
EXTENDS Naturals, FiniteSets

CONSTANTS
  Routes,          \* every manual *Proxy that ever exists
  InitialRoutes,   \* those of the first generation
  IPs, NoIP,       \* canonical addresses, and the empty LastIP
  Free,            \* nobody holds a pool mutex
  BootPrecheck,    \* the boot precheck runs (rotate-on-start is off)
  MaxGenerations,  \* bound on published generations
  MaxProcedures,   \* bound on procedures per route
  MaxProbes        \* probes that fit the verification window

ASSUME CommitAssumption ==
  /\ IsFiniteSet(Routes)
  /\ InitialRoutes \subseteq Routes
  /\ NoIP \notin IPs
  /\ Free \notin Routes
  /\ BootPrecheck \in BOOLEAN
  /\ MaxGenerations \in Nat \ {0}
  /\ MaxProcedures \in Nat
  /\ MaxProbes \in Nat \ {0}

VARIABLES
  pools,       \* pools[g]: the routes of generation g
  live,        \* the generation the store serves
  mutex,       \* mutex[g]: the procedure inside CommitRotation on pools[g]
  pc,          \* pc[p]: where the procedure of p is
  baseline,    \* baseline[p]: the address probed before the provider call
  candidate,   \* candidate[p]: the address that passed the screen
  addressed,   \* addressed[p]: the generation the commit is addressed to
  probes,      \* probes[p]: probes used in this window
  procedures,  \* procedures[p]: procedures begun
  lastIP,      \* lastIP[p]: last verified address
  committed,   \* routes whose lastIP a rotation recorded (history)
  verified,    \* verified[p]: addresses ever verified for p
  state,       \* state[p]: the displayed rotation state
  sameIP,      \* sameIP[p]: whether the last concluded rotation kept its IP
  overtaken,   \* routes caught between check and record by a reload (history)
  rotations,   \* the engine's completed rotations
  ipRevisits,  \* those that came back to a verified address
  revisit      \* revisit[p]: what the commit of p reported

storeVars == <<pools, live>>
procVars  == <<baseline, candidate, addressed, probes, procedures, revisit>>
routeVars == <<lastIP, committed, verified, state, sameIP>>
vars == <<storeVars, mutex, pc, procVars, routeVars, overtaken, rotations, ipRevisits>>

Stage == {"idle", "verify", "screened", "addressed", "checked", "recorded",
          "counted", "aborted", "failed"}
Generations == 1..MaxGenerations

TypeOK ==
  /\ pools \in [Generations -> SUBSET Routes]
  /\ live \in Generations
  /\ mutex \in [Generations -> Routes \cup {Free}]
  /\ pc \in [Routes -> Stage]
  /\ baseline \in [Routes -> IPs \cup {NoIP}]
  /\ candidate \in [Routes -> IPs \cup {NoIP}]
  /\ addressed \in [Routes -> Generations]
  /\ probes \in [Routes -> 0..MaxProbes]
  /\ procedures \in [Routes -> 0..MaxProcedures]
  /\ revisit \in [Routes -> BOOLEAN]
  /\ lastIP \in [Routes -> IPs \cup {NoIP}]
  /\ committed \subseteq Routes
  /\ verified \in [Routes -> SUBSET IPs]
  /\ state \in [Routes -> {"idle", "rotating", "stale"}]
  /\ sameIP \in [Routes -> BOOLEAN]
  /\ overtaken \subseteq Routes
  /\ rotations \in Nat
  /\ ipRevisits \in Nat

Init ==
  /\ pools = [g \in Generations |-> IF g = 1 THEN InitialRoutes ELSE {}]
  /\ live = 1
  /\ mutex = [g \in Generations |-> Free]
  /\ pc = [p \in Routes |-> "idle"]
  /\ baseline = [p \in Routes |-> NoIP]
  /\ candidate = [p \in Routes |-> NoIP]
  /\ addressed = [p \in Routes |-> 1]
  /\ probes = [p \in Routes |-> 0]
  /\ procedures = [p \in Routes |-> 0]
  /\ revisit = [p \in Routes |-> FALSE]
  /\ lastIP = [p \in Routes |-> NoIP]
  /\ committed = {}
  /\ verified = [p \in Routes |-> {}]
  /\ state = [p \in Routes |-> "idle"]
  /\ sameIP = [p \in Routes |-> FALSE]
  /\ overtaken = {}
  /\ rotations = 0
  /\ ipRevisits = 0

Goto(p, from, to) == pc[p] = from /\ pc' = [pc EXCEPT ![p] = to]
Gone(p) == p \notin pools[live]
Locked(g) == mutex[g] # Free

-----------------------------------------------------------------------------
(* The procedure.                                                          *)

\* Admission, drain and baseline probe; a failed probe leaves no baseline.
Begin(p) ==
  /\ Goto(p, "idle", "verify")
  /\ ~Gone(p)
  /\ procedures[p] < MaxProcedures
  /\ procedures' = [procedures EXCEPT ![p] = @ + 1]
  /\ \E ip \in IPs \cup {NoIP} : baseline' = [baseline EXCEPT ![p] = ip]
  /\ probes' = [probes EXCEPT ![p] = 0]
  /\ state' = [state EXCEPT ![p] = "rotating"]
  /\ UNCHANGED <<storeVars, mutex, candidate, addressed, revisit, lastIP,
                 committed, verified, sameIP, overtaken, rotations,
                 ipRevisits>>

\* Fault: without a baseline any address that collides with none will do.
Acceptable_NoBaseline(p, ip) ==
  ip # baseline[p] /\ \A q \in pools[live] \ {p} : lastIP[q] # ip

\* verify's comparisons: changed since the baseline, or since the last
\* verified address when there is none, and no live route's current address.
Acceptable(p, ip) ==
  /\ ip # (IF baseline[p] # NoIP THEN baseline[p] ELSE lastIP[p])
  /\ \A q \in pools[live] \ {p} : lastIP[q] # ip

WindowOpen(p) == probes[p] < MaxProbes

\* A probe whose answer passes the screen.  Every other probe only uses up
\* the window.
Probe(p) ==
  /\ pc[p] = "verify"
  /\ WindowOpen(p)
  /\ probes' = [probes EXCEPT ![p] = @ + 1]
  /\ \/ /\ ~Locked(live)
        /\ \E ip \in IPs : /\ Acceptable(p, ip)
                           /\ candidate' = [candidate EXCEPT ![p] = ip]
        /\ pc' = [pc EXCEPT ![p] = "screened"]
     \/ UNCHANGED <<candidate, pc>>
  /\ UNCHANGED <<storeVars, mutex, baseline, addressed, procedures, revisit,
                 routeVars, overtaken, rotations, ipRevisits>>

\* The window closed, or the single probe after a failed provider call.
VerifyExpires(p) ==
  /\ Goto(p, "verify", "failed")
  /\ UNCHANGED <<storeVars, mutex, procVars, routeVars, overtaken, rotations,
                 ipRevisits>>

\* commit's fast path: the route is gone.
CommitSkipped(p) ==
  /\ Goto(p, "screened", "aborted")
  /\ Gone(p)
  /\ UNCHANGED <<storeVars, mutex, procVars, routeVars, overtaken, rotations,
                 ipRevisits>>

\* Otherwise commit loads the live pool and calls CommitRotation on it.
CommitAddress(p) ==
  /\ Goto(p, "screened", "addressed")
  /\ ~Gone(p)
  /\ addressed' = [addressed EXCEPT ![p] = live]
  /\ UNCHANGED <<storeVars, mutex, baseline, candidate, probes, procedures,
                 revisit, routeVars, overtaken, rotations, ipRevisits>>

\* CommitRotation's verdict on the candidate of p, read under the mutex.
RouteGone(p) == addressed[p] # live \/ p \notin pools[addressed[p]]

\* Fault: the screen before the commit is trusted.
Collides_Trusted(p) == FALSE

Collides(p) == \E q \in pools[addressed[p]] \ {p} : lastIP[q] = candidate[p]

CommitRouteGone(p) ==
  /\ Goto(p, "addressed", "aborted")
  /\ ~Locked(addressed[p])
  /\ RouteGone(p)
  /\ UNCHANGED <<storeVars, mutex, procVars, routeVars, overtaken, rotations,
                 ipRevisits>>

\* Fault: the early return keeps the mutex.
CommitCollision_KeepsMutex(p) ==
  /\ Goto(p, "addressed", "verify")
  /\ ~Locked(addressed[p])
  /\ ~RouteGone(p)
  /\ Collides(p)
  /\ mutex' = [mutex EXCEPT ![addressed[p]] = p]
  /\ UNCHANGED <<storeVars, procVars, routeVars, overtaken, rotations, ipRevisits>>

\* A late collision: the window keeps watching for another address.
CommitCollision(p) ==
  /\ Goto(p, "addressed", "verify")
  /\ ~Locked(addressed[p])
  /\ ~RouteGone(p)
  /\ Collides(p)
  /\ UNCHANGED <<storeVars, mutex, procVars, routeVars, overtaken, rotations,
                 ipRevisits>>

\* Every check passed; the mutex stays held until the record.
CommitCheck(p) ==
  /\ Goto(p, "addressed", "checked")
  /\ ~Locked(addressed[p])
  /\ ~RouteGone(p)
  /\ ~Collides(p)
  /\ mutex' = [mutex EXCEPT ![addressed[p]] = p]
  /\ UNCHANGED <<storeVars, procVars, routeVars, overtaken, rotations, ipRevisits>>

\* EndRotation: the address, the history and the revisit decision.
CommitRecord(p) ==
  /\ Goto(p, "checked", "recorded")
  /\ lastIP' = [lastIP EXCEPT ![p] = candidate[p]]
  /\ committed' = committed \cup {p}
  /\ revisit' = [revisit EXCEPT ![p] = candidate[p] \in verified[p]]
  /\ verified' = [verified EXCEPT ![p] = @ \cup {candidate[p]}]
  /\ state' = [state EXCEPT ![p] = "idle"]
  /\ sameIP' = [sameIP EXCEPT ![p] = FALSE]
  /\ mutex' = [mutex EXCEPT ![addressed[p]] = Free]
  /\ overtaken' = IF addressed[p] = live THEN overtaken \ {p} ELSE overtaken
  /\ UNCHANGED <<storeVars, baseline, candidate, addressed, probes, procedures,
                 rotations, ipRevisits>>

\* Fault: the revisit is added where the rotation belongs.
CountRotation_RevisitFirst(p) ==
  /\ Goto(p, "recorded", "counted")
  /\ ipRevisits' = IF revisit[p] THEN ipRevisits + 1 ELSE ipRevisits
  /\ UNCHANGED <<storeVars, mutex, procVars, routeVars, overtaken, rotations>>

\* The engine's two totals, one atomic add each.
CountRotation(p) ==
  /\ Goto(p, "recorded", "counted")
  /\ rotations' = rotations + 1
  /\ UNCHANGED <<storeVars, mutex, procVars, routeVars, overtaken, ipRevisits>>

CountRevisit(p) ==
  /\ Goto(p, "counted", "idle")
  /\ ipRevisits' = IF revisit[p] THEN ipRevisits + 1 ELSE ipRevisits
  /\ UNCHANGED <<storeVars, mutex, procVars, routeVars, overtaken, rotations>>

\* Fault: an abandoned route looks fresh.
AbandonedState_Idle(p) == "idle"

AbandonedState(p) == IF sameIP[p] THEN "stale" ELSE "idle"

\* AbandonRotation, when the check after verify finds the route gone.
Abandon(p) ==
  /\ \/ Goto(p, "aborted", "idle")
     \/ Goto(p, "failed", "idle")
  /\ Gone(p)
  /\ state' = [state EXCEPT ![p] = AbandonedState(p)]
  /\ UNCHANGED <<storeVars, mutex, procVars, lastIP, committed, verified, sameIP,
                 overtaken, rotations, ipRevisits>>

\* bumpConsecutive and MarkStale, when that check finds it still live.
MarkStale(p) ==
  /\ \/ Goto(p, "aborted", "idle")
     \/ Goto(p, "failed", "idle")
  /\ ~Gone(p)
  /\ state' = [state EXCEPT ![p] = "stale"]
  /\ sameIP' = [sameIP EXCEPT ![p] = TRUE]
  /\ UNCHANGED <<storeVars, mutex, procVars, lastIP, committed, verified,
                 overtaken, rotations, ipRevisits>>

\* SetBaselineIP by the boot precheck: only where nothing is known yet.
SetBaselineIP(p, ip) ==
  /\ BootPrecheck
  /\ p \in InitialRoutes
  /\ lastIP[p] = NoIP
  /\ lastIP' = [lastIP EXCEPT ![p] = ip]
  /\ verified' = [verified EXCEPT ![p] = @ \cup {ip}]
  /\ UNCHANGED <<storeVars, mutex, pc, procVars, committed, state, sameIP,
                 overtaken, rotations, ipRevisits>>

-----------------------------------------------------------------------------
\* Publish: Reconfigure keeps the *Proxy of every retained route; a removed
\* one never comes back as the same object.
Published == UNION {pools[g] : g \in 1..live}
Publish ==
  /\ live < MaxGenerations
  /\ \E kept \in SUBSET pools[live], fresh \in SUBSET (Routes \ Published) :
       pools' = [pools EXCEPT ![live + 1] = kept \cup fresh]
  /\ live' = live + 1
  /\ overtaken' = overtaken \cup {p \in Routes : pc[p] = "checked" /\ addressed[p] = live}
  /\ UNCHANGED <<mutex, pc, procVars, routeVars, rotations, ipRevisits>>

ProcedureStep(p) ==
  \/ Probe(p) \/ VerifyExpires(p)
  \/ CommitSkipped(p) \/ CommitAddress(p)
  \/ CommitRouteGone(p) \/ CommitCollision(p) \/ CommitCheck(p) \/ CommitRecord(p)
  \/ CountRotation(p) \/ CountRevisit(p)
  \/ Abandon(p) \/ MarkStale(p)

EngineNext ==
  \E p \in Routes : \/ Begin(p) \/ ProcedureStep(p)
                    \/ \E ip \in IPs : SetBaselineIP(p, ip)

\* One generation for ever, and a program whose configuration is reloaded.
FixedSpec == Init /\ [][EngineNext]_vars
Spec      == Init /\ [][EngineNext \/ Publish]_vars

\* A procedure is a goroutine of its own whose probes and waits are bounded
\* by timeouts.  Reloads and admissions are not promised.
FairSpec == Spec /\ \A p \in Routes : WF_vars(ProcedureStep(p))

-----------------------------------------------------------------------------
(* Correctness.                                                            *)

\* Two procedures that verified the same candidate cannot both commit it:
\* the rotated routes of one pool hold pairwise distinct addresses
\* (rotation.go CommitRotation).
UniqueEgress ==
  \A p, q \in committed \cap pools[live] : p # q => lastIP[p] # lastIP[q]

\* What holds with reloads: when two rotated routes of the live pool share an
\* address, a reload caught the commit of one of them between its checks and
\* its record.
SharedEgressIsOvertaken ==
  \A p, q \in (committed \cap pools[live]) \ overtaken : p # q => lastIP[p] # lastIP[q]

\* The mutex covers check and record together, with or without reloads: a
\* procedure past its checks is the one holder of the pool it addressed.
CommitIsExclusive ==
  \A p \in Routes : pc[p] = "checked" <=> \E g \in Generations : mutex[g] = p

\* ipRevisits "never exceeds rotations" at any instant a reader may choose
\* (docs/observability.md; engine.go commit).
RevisitsWithinRotations == ipRevisits <= rotations

\* A route that kept its address shows stale, and shows nothing else until a
\* rotation commits a new one, also when a later procedure is abandoned
\* (rotation.go AbandonRotation).
StaleUntilCommitted ==
  \A p \in Routes :
    pc[p] \in {"idle", "recorded", "counted"} => state[p] = (IF sameIP[p] THEN "stale" ELSE "idle")

\* engine.go verify: a committed candidate "differs from the current address",
\* which "keeps a revisit [...] from ever meaning the IP did not change".  However
\* collisions and reloads send a candidate round again, a record never is the
\* baseline its procedure measured, and without a baseline never the address
\* the rotation before recorded.  A route no rotation has recorded yet is
\* excepted in the second case: the boot precheck may teach it an address while
\* its first procedure holds the same one.
RevisitIsAReturn ==
  [][\A p \in Routes :
       pc[p] = "checked" /\ pc'[p] = "recorded"
         => IF baseline[p] # NoIP THEN lastIP'[p] # baseline[p]
            ELSE p \in committed => lastIP'[p] # lastIP[p]]_vars

\* Every procedure ends, whatever the probes answer and however commits and
\* reloads interleave (engine.go runProcedure).
ProcedureEnds == \A p \in Routes : pc[p] # "idle" ~> pc[p] = "idle"

\* What the procedures, the boot precheck and the reloads do to the addresses
\* is what the ledger promises.
Ledger == INSTANCE EgressLedger
            WITH held <- lastIP, rotated <- committed, seats <- pools[live],
                 loose <- overtaken
LedgerImplemented == Ledger!LedgerSpec
=============================================================================
