------------------------ MODULE RotationCommitProofs ------------------------
(***************************************************************************)
(* Theorems about RotationCommit, for every number of routes, addresses,   *)
(* generations, procedures and probes.                                     *)
(***************************************************************************)
EXTENDS RotationCommit, FiniteSetTheorems, TLAPS

\* The candidate of a procedure that screened one is an address.
CandidateKnown ==
  \A p \in Routes : pc[p] \in {"screened", "addressed", "checked"} => candidate[p] \in IPs

TypeInv == TypeOK /\ CandidateKnown

-----------------------------------------------------------------------------
(* Type correctness.                                                       *)

\* Nothing holds a candidate, a mutex or an address at the start.
LEMMA InitTypeInv == Init => TypeInv
  BY CommitAssumption DEF Init, TypeInv, TypeOK, CandidateKnown, Stage, Generations

\* Every step of a procedure, of the boot precheck and of a reload keeps the
\* types, and a procedure past the screen keeps its candidate.
LEMMA NextTypeInv ==
  ASSUME TypeInv, [EngineNext \/ Publish]_vars
  PROVE  TypeInv'
<1> USE CommitAssumption DEF TypeInv, TypeOK, CandidateKnown, Stage, Generations, Goto
<1>1. ASSUME NEW p \in Routes, Begin(p) PROVE TypeInv'
  <2>1. PICK ip \in IPs \cup {NoIP} : baseline' = [baseline EXCEPT ![p] = ip]
    BY <1>1 DEF Begin
  <2>2. procedures' \in [Routes -> 0..MaxProcedures]
    BY <1>1 DEF Begin
  <2>. QED BY <1>1, <2>1, <2>2 DEF Begin, storeVars
<1>2. ASSUME NEW p \in Routes, Probe(p) PROVE TypeInv'
  <2>1. probes' \in [Routes -> 0..MaxProbes]
    BY <1>2 DEF Probe, WindowOpen
  <2>2. CASE \E ip \in IPs : candidate' = [candidate EXCEPT ![p] = ip]
             /\ pc' = [pc EXCEPT ![p] = "screened"]
    <3>1. PICK ip \in IPs : candidate' = [candidate EXCEPT ![p] = ip]
                            /\ pc' = [pc EXCEPT ![p] = "screened"]
      BY <2>2
    <3>. QED BY <1>2, <2>1, <3>1 DEF Probe, storeVars, routeVars
  <2>3. CASE UNCHANGED <<candidate, pc>>
    BY <1>2, <2>1, <2>3 DEF Probe, storeVars, routeVars
  <2>. QED BY <1>2, <2>2, <2>3 DEF Probe
<1>3. ASSUME NEW p \in Routes,
             VerifyExpires(p) \/ CommitSkipped(p) \/ CommitRouteGone(p) \/ CommitCollision(p)
      PROVE  TypeInv'
  <2>1. PICK s \in {"verify", "aborted", "failed"} : pc' = [pc EXCEPT ![p] = s]
    BY <1>3 DEF VerifyExpires, CommitSkipped, CommitRouteGone, CommitCollision
  <2>2. UNCHANGED <<storeVars, mutex, procVars, routeVars, overtaken, rotations, ipRevisits>>
    BY <1>3 DEF VerifyExpires, CommitSkipped, CommitRouteGone, CommitCollision
  <2>. QED BY <2>1, <2>2 DEF storeVars, procVars, routeVars
<1>4. ASSUME NEW p \in Routes, CommitAddress(p) PROVE TypeInv'
  BY <1>4 DEF CommitAddress, storeVars, routeVars
<1>5. ASSUME NEW p \in Routes, CommitCheck(p) PROVE TypeInv'
  BY <1>5 DEF CommitCheck, storeVars, procVars, routeVars
<1>6. ASSUME NEW p \in Routes, CommitRecord(p) PROVE TypeInv'
  <2>1. candidate[p] \in IPs
    BY <1>6 DEF CommitRecord
  <2>. QED BY <1>6, <2>1 DEF CommitRecord, storeVars
<1>7. ASSUME NEW p \in Routes, CountRotation(p) \/ CountRevisit(p) PROVE TypeInv'
  <2>1. rotations' \in Nat /\ ipRevisits' \in Nat
    BY <1>7 DEF CountRotation, CountRevisit
  <2>2. PICK s \in {"counted", "idle"} : pc' = [pc EXCEPT ![p] = s]
    BY <1>7 DEF CountRotation, CountRevisit
  <2>3. UNCHANGED <<storeVars, mutex, procVars, routeVars, overtaken>>
    BY <1>7 DEF CountRotation, CountRevisit
  <2>. QED BY <2>1, <2>2, <2>3 DEF storeVars, procVars, routeVars
<1>8. ASSUME NEW p \in Routes, Abandon(p) \/ MarkStale(p) PROVE TypeInv'
  <2>1. pc' = [pc EXCEPT ![p] = "idle"]
    BY <1>8 DEF Abandon, MarkStale
  <2>2. /\ state' \in [Routes -> {"idle", "rotating", "stale"}]
        /\ sameIP' \in [Routes -> BOOLEAN]
    BY <1>8 DEF Abandon, AbandonedState, MarkStale
  <2>3. UNCHANGED <<storeVars, mutex, procVars, lastIP, committed, verified,
                    overtaken, rotations, ipRevisits>>
    BY <1>8 DEF Abandon, MarkStale
  <2>. QED BY <2>1, <2>2, <2>3 DEF storeVars, procVars
<1>9. ASSUME NEW p \in Routes, NEW ip \in IPs, SetBaselineIP(p, ip) PROVE TypeInv'
  BY <1>9 DEF SetBaselineIP, storeVars, procVars
<1>10. CASE Publish
  <2>1. PICK kept \in SUBSET pools[live], fresh \in SUBSET (Routes \ Published) :
          pools' = [pools EXCEPT ![live + 1] = kept \cup fresh]
    BY <1>10 DEF Publish
  <2>2. kept \cup fresh \in SUBSET Routes
    OBVIOUS
  <2>3. pools' \in [Generations -> SUBSET Routes] /\ live' \in Generations
    BY <1>10, <2>1, <2>2 DEF Publish
  <2>. QED BY <1>10, <2>3 DEF Publish, procVars, routeVars
<1>11. CASE UNCHANGED vars
  BY <1>11 DEF vars, storeVars, procVars, routeVars
<1>. QED
  BY <1>1, <1>2, <1>3, <1>4, <1>5, <1>6, <1>7, <1>8, <1>9, <1>10, <1>11
     DEF EngineNext, ProcedureStep

\* The addresses, stages, generations and displayed states keep their types
\* in a program that reloads its configuration at any moment.
THEOREM CommitTypeCorrect == Spec => []TypeOK
<1>1. Init => TypeInv
  BY InitTypeInv
<1>2. TypeInv /\ [EngineNext \/ Publish]_vars => TypeInv'
  BY NextTypeInv
<1>3. TypeInv => TypeOK
  BY DEF TypeInv
<1>. QED BY <1>1, <1>2, <1>3, PTL DEF Spec

-----------------------------------------------------------------------------
(* Mutual exclusion of the commits of one pool.                            *)

\* A pool's mutex names the procedure that passed CommitRotation's checks on
\* it, and only that one.
MutexOwned ==
  \A p \in Routes, g \in Generations :
    mutex[g] = p <=> pc[p] = "checked" /\ addressed[p] = g

\* The steps outside CommitRotation: no procedure passes its checks or
\* leaves them, and no checked procedure changes what it is about to record.
OutsideCommit ==
  /\ mutex' = mutex
  /\ \A p \in Routes : pc'[p] = "checked" <=> pc[p] = "checked"
  /\ \A p \in Routes : pc[p] = "checked" => /\ addressed'[p] = addressed[p]
                                            /\ candidate'[p] = candidate[p]

LEMMA StepsOutsideCommit ==
  ASSUME TypeInv, NEW p \in Routes,
         \/ Begin(p) \/ Probe(p) \/ VerifyExpires(p) \/ CommitSkipped(p)
         \/ CommitAddress(p) \/ CommitRouteGone(p) \/ CommitCollision(p)
         \/ CountRotation(p) \/ CountRevisit(p) \/ Abandon(p) \/ MarkStale(p)
  PROVE  OutsideCommit
<1> USE DEF OutsideCommit, TypeInv, TypeOK, Goto, procVars
<1>1. CASE Begin(p)
  BY <1>1 DEF Begin
<1>2. CASE Probe(p)
  <2>1. PICK s \in {"verify", "screened"} : pc' = [pc EXCEPT ![p] = s]
    BY <1>2 DEF Probe
  <2>2. \A q \in Routes \ {p} : candidate'[q] = candidate[q]
    BY <1>2 DEF Probe
  <2>. QED BY <1>2, <2>1, <2>2 DEF Probe
<1>3. CASE VerifyExpires(p) \/ CommitSkipped(p)
  BY <1>3 DEF VerifyExpires, CommitSkipped
<1>4. CASE CommitAddress(p)
  BY <1>4 DEF CommitAddress
<1>5. CASE CommitRouteGone(p) \/ CommitCollision(p)
  BY <1>5 DEF CommitRouteGone, CommitCollision
<1>6. CASE CountRotation(p) \/ CountRevisit(p)
  BY <1>6 DEF CountRotation, CountRevisit
<1>7. CASE Abandon(p) \/ MarkStale(p)
  BY <1>7 DEF Abandon, MarkStale
<1>. QED BY <1>1, <1>2, <1>3, <1>4, <1>5, <1>6, <1>7

LEMMA NextMutexOwned ==
  ASSUME TypeInv, MutexOwned, [EngineNext \/ Publish]_vars
  PROVE  MutexOwned'
<1> USE DEF MutexOwned
<1>1. ASSUME OutsideCommit PROVE MutexOwned'
  BY <1>1 DEF OutsideCommit, TypeInv, TypeOK
<1>2. ASSUME NEW p \in Routes, CommitCheck(p) PROVE MutexOwned'
  BY <1>2, CommitAssumption DEF CommitCheck, Goto, Locked, procVars, TypeInv, TypeOK
<1>3. ASSUME NEW p \in Routes, CommitRecord(p) PROVE MutexOwned'
  BY <1>3, CommitAssumption DEF CommitRecord, Goto, TypeInv, TypeOK
<1>4. ASSUME NEW p \in Routes, NEW ip \in IPs, SetBaselineIP(p, ip) PROVE OutsideCommit
  BY <1>4 DEF SetBaselineIP, OutsideCommit, procVars
<1>5. CASE Publish
  BY <1>1, <1>5 DEF Publish, OutsideCommit, procVars
<1>6. CASE UNCHANGED vars
  BY <1>1, <1>6 DEF vars, OutsideCommit, procVars
<1>. QED
  BY <1>1, <1>2, <1>3, <1>4, <1>5, <1>6, StepsOutsideCommit DEF EngineNext, ProcedureStep

\* CommitRotation's checks and its record are one critical section of the
\* pool they are addressed to, whatever is published meanwhile.
THEOREM CommitExclusive == Spec => []CommitIsExclusive
<1> DEFINE Inv == TypeInv /\ MutexOwned
<1>1. Init => Inv
  <2>1. Init => MutexOwned
    BY CommitAssumption DEF Init, MutexOwned
  <2>. QED BY <2>1, InitTypeInv
<1>2. Inv /\ [EngineNext \/ Publish]_vars => Inv'
  BY NextTypeInv, NextMutexOwned
<1>3. Inv => CommitIsExclusive
  BY DEF CommitIsExclusive, MutexOwned, TypeInv, TypeOK
<1>. QED
  <2>. HIDE DEF Inv
  <2>. QED BY <1>1, <1>2, <1>3, PTL DEF Spec

-----------------------------------------------------------------------------
(* Distinct addresses, and the ledger, with reloads at any moment.         *)

\* A commit whose checks a reload left behind is marked, and no commit is
\* addressed to a generation yet to come.
CheckedKnown ==
  \A p \in Routes : pc[p] = "checked" =>
    /\ p \in Published
    /\ addressed[p] <= live
    /\ addressed[p] # live => p \in overtaken

\* A rotation records for routes that were published, and what it recorded
\* stays.
CommittedKnown == committed \subseteq Published /\ \A p \in committed : lastIP[p] # NoIP

\* Between the checks and the record, no rotated route of the live pool holds
\* the candidate, but for those a reload caught.
CandidateFree ==
  \A p \in Routes : pc[p] = "checked" /\ addressed[p] = live =>
    /\ p \in pools[live]
    /\ \A q \in (committed \cap pools[live]) \ (overtaken \cup {p}) : lastIP[q] # candidate[p]

CommitInv ==
  /\ TypeInv
  /\ MutexOwned
  /\ CheckedKnown
  /\ CommittedKnown
  /\ CandidateFree
  /\ SharedEgressIsOvertaken

LEMMA InitCommitInv == Init => CommitInv
<1>1. Init => MutexOwned
  BY CommitAssumption DEF Init, MutexOwned
<1>2. Init => CheckedKnown /\ CommittedKnown /\ CandidateFree /\ SharedEgressIsOvertaken
  BY DEF Init, CheckedKnown, CommittedKnown, CandidateFree, SharedEgressIsOvertaken
<1>. QED BY <1>1, <1>2, InitTypeInv DEF CommitInv

\* A step that touches neither the ledger nor a checked procedure.
LEMMA QuietCommitInv ==
  ASSUME CommitInv, TypeInv', OutsideCommit,
         UNCHANGED <<storeVars, lastIP, committed, overtaken>>
  PROVE  CommitInv'
<1> USE DEF CommitInv, storeVars
<1>1. MutexOwned'
  BY DEF MutexOwned, OutsideCommit, TypeInv, TypeOK
<1>2. CommittedKnown' /\ SharedEgressIsOvertaken'
  BY DEF CommittedKnown, SharedEgressIsOvertaken, Published
<1>3. CheckedKnown' /\ CandidateFree'
  BY DEF CheckedKnown, CandidateFree, OutsideCommit, Published
<1>. QED BY <1>1, <1>2, <1>3

LEMMA CheckCommitInv ==
  ASSUME CommitInv, TypeInv', MutexOwned', NEW p \in Routes, CommitCheck(p)
  PROVE  CommitInv'
<1> USE DEF CommitInv
<1>1. UNCHANGED <<pools, live, addressed, candidate, lastIP, committed, overtaken>>
  BY DEF CommitCheck, storeVars, procVars, routeVars
<1>2. pc' = [pc EXCEPT ![p] = "checked"]
  BY DEF CommitCheck, Goto
<1>3. /\ addressed[p] = live
      /\ p \in pools[live]
      /\ \A q \in pools[live] \ {p} : lastIP[q] # candidate[p]
  BY DEF CommitCheck, RouteGone, Collides
<1>4. p \in Published
  BY <1>3 DEF Published, TypeInv, TypeOK, Generations
<1>5. CommittedKnown' /\ SharedEgressIsOvertaken'
  BY <1>1 DEF CommittedKnown, SharedEgressIsOvertaken, Published
<1>6. CheckedKnown'
  BY <1>1, <1>2, <1>3, <1>4 DEF CheckedKnown, Published, TypeInv, TypeOK, Generations
<1>7. CandidateFree'
  BY <1>1, <1>2, <1>3 DEF CandidateFree, TypeInv, TypeOK
<1>. QED BY <1>5, <1>6, <1>7

LEMMA RecordCommitInv ==
  ASSUME CommitInv, TypeInv', MutexOwned', NEW p \in Routes, CommitRecord(p)
  PROVE  CommitInv'
<1> USE DEF CommitInv
<1>1. /\ lastIP' = [lastIP EXCEPT ![p] = candidate[p]]
      /\ committed' = committed \cup {p}
      /\ overtaken' = IF addressed[p] = live THEN overtaken \ {p} ELSE overtaken
      /\ UNCHANGED <<pools, live, addressed, candidate>>
      /\ pc[p] = "checked" /\ pc' = [pc EXCEPT ![p] = "recorded"]
  BY DEF CommitRecord, Goto, storeVars
<1>2. candidate[p] \in IPs /\ p \in Published
  BY <1>1 DEF TypeInv, CandidateKnown, CheckedKnown
<1>3. CommittedKnown'
  BY <1>1, <1>2, CommitAssumption DEF CommittedKnown, Published, TypeInv, TypeOK
<1>4. CheckedKnown'
  BY <1>1 DEF CheckedKnown, Published, TypeInv, TypeOK
<1>5. \A q \in Routes : pc'[q] = "checked" =>
        q # p /\ pc[q] = "checked" /\ addressed[q] # addressed[p]
  BY <1>1 DEF MutexOwned, TypeInv, TypeOK
<1>6. CASE addressed[p] = live
  <2>1. \A q \in (committed \cap pools[live]) \ (overtaken \cup {p}) :
          lastIP[q] # candidate[p]
    BY <1>1, <1>6 DEF CandidateFree
  <2>2. SharedEgressIsOvertaken'
    BY <1>1, <1>6, <2>1 DEF SharedEgressIsOvertaken, TypeInv, TypeOK
  <2>3. CandidateFree'
    BY <1>1, <1>5, <1>6 DEF CandidateFree
  <2>. QED BY <1>3, <1>4, <2>2, <2>3
<1>7. CASE addressed[p] # live
  <2>1. p \in overtaken /\ overtaken' = overtaken
    BY <1>1, <1>7 DEF CheckedKnown
  <2>2. SharedEgressIsOvertaken'
    BY <1>1, <2>1 DEF SharedEgressIsOvertaken, TypeInv, TypeOK
  <2>3. CandidateFree'
    BY <1>1, <2>1 DEF CandidateFree, TypeInv, TypeOK
  <2>. QED BY <1>3, <1>4, <2>2, <2>3
<1>. QED BY <1>6, <1>7

LEMMA LearnCommitInv ==
  ASSUME CommitInv, TypeInv', MutexOwned', NEW p \in Routes, NEW ip \in IPs,
         SetBaselineIP(p, ip)
  PROVE  CommitInv'
<1> USE DEF CommitInv
<1>1. p \notin committed
  BY DEF SetBaselineIP, CommittedKnown
<1>2. \A q \in committed : lastIP'[q] = lastIP[q]
  BY <1>1 DEF SetBaselineIP, TypeInv, TypeOK
<1>3. UNCHANGED <<pools, live, committed, overtaken, pc, addressed, candidate>>
  BY DEF SetBaselineIP, storeVars, procVars
<1>4. CommittedKnown' /\ SharedEgressIsOvertaken'
  BY <1>2, <1>3 DEF CommittedKnown, SharedEgressIsOvertaken, Published
<1>5. CheckedKnown' /\ CandidateFree'
  BY <1>2, <1>3 DEF CheckedKnown, CandidateFree, Published
<1>. QED BY <1>4, <1>5

\* What a reload does to the routes in service.
LEMMA PublishedRoutes ==
  ASSUME CommitInv, Publish
  PROVE  /\ live' = live + 1
         /\ Published \subseteq Published'
         /\ committed \cap pools'[live'] \subseteq pools[live]
<1> USE DEF CommitInv, TypeInv, TypeOK, Generations
<1>1. PICK kept \in SUBSET pools[live], fresh \in SUBSET (Routes \ Published) :
        pools' = [pools EXCEPT ![live + 1] = kept \cup fresh]
  BY DEF Publish
<1>2. live' = live + 1 /\ live \in Nat /\ live + 1 \in Generations
  BY CommitAssumption DEF Publish
<1>3. \A g \in 1..live : pools'[g] = pools[g]
  BY <1>1, <1>2
<1>4. Published \subseteq Published'
  <2>1. \A g \in 1..live : g \in 1..live' /\ pools'[g] = pools[g]
    BY <1>2, <1>3
  <2>2. ASSUME NEW q \in Published PROVE q \in Published'
    <3>1. PICK g \in 1..live : q \in pools[g]
      BY <2>2 DEF Published
    <3>2. g \in 1..live' /\ q \in pools'[g]
      BY <2>1, <3>1
    <3>. QED BY <3>2 DEF Published
  <2>. QED BY <2>2
<1>5. committed \cap (kept \cup fresh) \subseteq pools[live]
  BY DEF CommittedKnown
<1>. QED BY <1>1, <1>2, <1>4, <1>5

LEMMA PublishCommitInv ==
  ASSUME CommitInv, TypeInv', MutexOwned', Publish
  PROVE  CommitInv'
<1> USE DEF CommitInv
<1>1. /\ UNCHANGED <<pc, addressed, candidate, lastIP, committed>>
      /\ overtaken' = overtaken \cup {p \in Routes : pc[p] = "checked" /\ addressed[p] = live}
  BY DEF Publish, procVars, routeVars
<1>2. /\ live' = live + 1
      /\ Published \subseteq Published'
      /\ committed \cap pools'[live'] \subseteq pools[live]
  BY PublishedRoutes
<1>3. live \in Nat /\ \A p \in Routes : addressed[p] \in Nat
  BY DEF TypeInv, TypeOK, Generations
<1>4. CommittedKnown'
  BY <1>1, <1>2 DEF CommittedKnown
<1>5. CheckedKnown'
  BY <1>1, <1>2, <1>3 DEF CheckedKnown
<1>6. CandidateFree'
  BY <1>1, <1>2, <1>3 DEF CandidateFree, CheckedKnown
<1>7. SharedEgressIsOvertaken'
  BY <1>1, <1>2 DEF SharedEgressIsOvertaken
<1>. QED BY <1>4, <1>5, <1>6, <1>7

LEMMA NextCommitInv ==
  ASSUME CommitInv, [EngineNext \/ Publish]_vars
  PROVE  CommitInv'
<1>1. TypeInv' /\ MutexOwned'
  BY NextTypeInv, NextMutexOwned DEF CommitInv
<1>2. ASSUME NEW p \in Routes,
             \/ Begin(p) \/ Probe(p) \/ VerifyExpires(p) \/ CommitSkipped(p)
             \/ CommitAddress(p) \/ CommitRouteGone(p) \/ CommitCollision(p)
             \/ CountRotation(p) \/ CountRevisit(p) \/ Abandon(p) \/ MarkStale(p)
      PROVE  CommitInv'
  <2>1. OutsideCommit
    BY <1>2, StepsOutsideCommit DEF CommitInv
  <2>2. UNCHANGED <<storeVars, lastIP, committed, overtaken>>
    BY <1>2 DEF Begin, Probe, VerifyExpires, CommitSkipped, CommitAddress, CommitRouteGone,
                CommitCollision, CountRotation, CountRevisit, Abandon, MarkStale, routeVars
  <2>. QED BY <1>1, <2>1, <2>2, QuietCommitInv
<1>3. ASSUME NEW p \in Routes, CommitCheck(p) PROVE CommitInv'
  BY <1>1, <1>3, CheckCommitInv
<1>4. ASSUME NEW p \in Routes, CommitRecord(p) PROVE CommitInv'
  BY <1>1, <1>4, RecordCommitInv
<1>5. ASSUME NEW p \in Routes, NEW ip \in IPs, SetBaselineIP(p, ip) PROVE CommitInv'
  BY <1>1, <1>5, LearnCommitInv
<1>6. CASE Publish
  BY <1>1, <1>6, PublishCommitInv
<1>7. CASE UNCHANGED vars
  BY <1>1, <1>7, QuietCommitInv DEF vars, OutsideCommit, procVars, routeVars
<1>. QED
  BY <1>2, <1>3, <1>4, <1>5, <1>6, <1>7 DEF EngineNext, ProcedureStep

\* Two rotated routes of the live pool share an address only where a reload
\* caught the commit of one of them between its checks and its record.
THEOREM SharingNeedsAReload == Spec => []SharedEgressIsOvertaken
<1>1. CommitInv => SharedEgressIsOvertaken
  BY DEF CommitInv
<1>2. CommitInv /\ [EngineNext \/ Publish]_vars => CommitInv'
  BY NextCommitInv
<1>. QED BY <1>1, <1>2, InitCommitInv, PTL DEF Spec

\* While no reload is published, the rotated routes hold pairwise distinct
\* addresses, however many procedures verify the same candidate at once.
THEOREM UniqueEgressWithoutReload == FixedSpec => []UniqueEgress
<1> DEFINE Inv == CommitInv /\ overtaken = {}
<1>1. Init => Inv
  BY InitCommitInv DEF Init
<1>2. Inv /\ [EngineNext]_vars => Inv'
  <2>1. ASSUME [EngineNext]_vars PROVE overtaken' \subseteq overtaken
    BY <2>1 DEF EngineNext, ProcedureStep, vars, Begin, Probe, VerifyExpires, CommitSkipped,
                CommitAddress, CommitRouteGone, CommitCollision, CommitCheck, CommitRecord,
                CountRotation, CountRevisit, Abandon, MarkStale, SetBaselineIP
  <2>. QED BY <2>1, NextCommitInv
<1>3. Inv => UniqueEgress
  BY DEF CommitInv, SharedEgressIsOvertaken, UniqueEgress
<1>. QED
  <2>. HIDE DEF Inv
  <2>. QED BY <1>1, <1>2, <1>3, PTL DEF FixedSpec

\* Every step of the procedures, of the boot precheck and of the store is a
\* step of the ledger or leaves it alone.
LEMMA StepImplementsLedger ==
  ASSUME CommitInv, [EngineNext \/ Publish]_vars
  PROVE  [Ledger!LedgerNext]_(Ledger!ledger)
<1> USE DEF Ledger!ledger
<1>1. ASSUME NEW p \in Routes, CommitRecord(p) PROVE Ledger!LedgerNext
  <2>1. /\ pc[p] = "checked" /\ candidate[p] \in IPs
        /\ lastIP' = [lastIP EXCEPT ![p] = candidate[p]]
        /\ committed' = committed \cup {p}
        /\ overtaken' = IF addressed[p] = live THEN overtaken \ {p} ELSE overtaken
        /\ UNCHANGED <<pools, live>>
    BY <1>1 DEF CommitRecord, Goto, CommitInv, TypeInv, CandidateKnown, storeVars
  <2>2. CASE addressed[p] = live
    <3>1. /\ p \in pools[live]
          /\ \A q \in (committed \cap pools[live]) \ (overtaken \cup {p}) :
               lastIP[q] # candidate[p]
      BY <2>1, <2>2 DEF CommitInv, CandidateFree
    <3>. QED BY <2>1, <2>2, <3>1 DEF Ledger!CommitIP, Ledger!LedgerNext
  <2>3. CASE addressed[p] # live
    <3>1. p \in overtaken
      BY <2>1, <2>3 DEF CommitInv, CheckedKnown
    <3>. QED BY <2>1, <2>3, <3>1 DEF Ledger!LateCommitIP, Ledger!LedgerNext
  <2>. QED BY <2>2, <2>3
<1>2. ASSUME NEW p \in Routes, NEW ip \in IPs, SetBaselineIP(p, ip)
      PROVE  Ledger!LedgerNext
  BY <1>2 DEF SetBaselineIP, storeVars, Ledger!Learn, Ledger!LedgerNext
<1>3. ASSUME Publish PROVE Ledger!LedgerNext
  <2>1. /\ committed \cap pools'[live'] \subseteq pools[live]
        /\ pools'[live'] \in SUBSET Routes
    BY <1>3, PublishedRoutes, NextTypeInv DEF CommitInv, TypeInv, TypeOK
  <2>2. /\ UNCHANGED <<lastIP, committed>>
        /\ overtaken' = overtaken \cup {p \in Routes : pc[p] = "checked" /\ addressed[p] = live}
    BY <1>3 DEF Publish, routeVars
  <2>3. \A p, q \in Routes :
          /\ pc[p] = "checked" /\ addressed[p] = live
          /\ pc[q] = "checked" /\ addressed[q] = live
          => p = q
    BY DEF CommitInv, MutexOwned, TypeInv, TypeOK
  <2>4. \/ overtaken' = overtaken
        \/ \E p \in Routes : overtaken' = overtaken \cup {p}
    BY <2>2, <2>3
  <2>. QED BY <2>1, <2>2, <2>4 DEF Ledger!Reload, Ledger!LedgerNext
<1>4. ASSUME NEW p \in Routes, Begin(p) \/ ProcedureStep(p), ~CommitRecord(p)
      PROVE  UNCHANGED <<lastIP, committed, pools, live, overtaken>>
  BY <1>4 DEF ProcedureStep, Begin, Probe, VerifyExpires, CommitSkipped, CommitAddress,
              CommitRouteGone, CommitCollision, CommitCheck, CountRotation, CountRevisit,
              Abandon, MarkStale, routeVars, storeVars
<1>5. CASE UNCHANGED vars
  BY <1>5 DEF vars, routeVars, storeVars
<1>. QED BY <1>1, <1>2, <1>3, <1>4, <1>5 DEF EngineNext, ProcedureStep

\* The commit seam implements the ledger of addresses, in a program that
\* reloads its configuration at any moment.
THEOREM CommitImplementsLedger == Spec => LedgerImplemented
<1>1. Init => Ledger!LedgerInit
  BY CommitAssumption DEF Init, Ledger!LedgerInit, Generations
<1>2. CommitInv /\ [EngineNext \/ Publish]_vars
        => CommitInv' /\ [Ledger!LedgerNext]_(Ledger!ledger)
  BY NextCommitInv, StepImplementsLedger
<1>. QED
  BY <1>1, <1>2, InitCommitInv, PTL DEF Spec, LedgerImplemented, Ledger!LedgerSpec

-----------------------------------------------------------------------------
(* What readers of /status may rely on, with reloads.                      *)

LEMMA NextStaleUntilCommitted ==
  ASSUME TypeInv, StaleUntilCommitted, [EngineNext \/ Publish]_vars
  PROVE  StaleUntilCommitted'
<1> USE DEF StaleUntilCommitted, TypeInv, TypeOK, Goto
<1>1. ASSUME NEW p \in Routes, Begin(p) PROVE StaleUntilCommitted'
  BY <1>1 DEF Begin
<1>2. ASSUME NEW p \in Routes, Probe(p) PROVE StaleUntilCommitted'
  <2>1. PICK s \in {"verify", "screened"} : pc' = [pc EXCEPT ![p] = s]
    BY <1>2 DEF Probe
  <2>. QED BY <1>2, <2>1 DEF Probe, routeVars
<1>3. ASSUME NEW p \in Routes,
             \/ VerifyExpires(p) \/ CommitSkipped(p) \/ CommitAddress(p)
             \/ CommitRouteGone(p) \/ CommitCollision(p) \/ CommitCheck(p)
      PROVE  StaleUntilCommitted'
  <2>1. PICK s \in {"verify", "addressed", "checked", "aborted", "failed"} :
               pc' = [pc EXCEPT ![p] = s]
    BY <1>3 DEF VerifyExpires, CommitSkipped, CommitAddress, CommitRouteGone,
                CommitCollision, CommitCheck
  <2>2. UNCHANGED routeVars
    BY <1>3 DEF VerifyExpires, CommitSkipped, CommitAddress, CommitRouteGone,
                CommitCollision, CommitCheck
  <2>. QED BY <2>1, <2>2 DEF routeVars
<1>4. ASSUME NEW p \in Routes, CommitRecord(p) PROVE StaleUntilCommitted'
  BY <1>4 DEF CommitRecord
<1>5. ASSUME NEW p \in Routes, CountRotation(p) \/ CountRevisit(p)
      PROVE  StaleUntilCommitted'
  <2>1. /\ pc[p] \in {"recorded", "counted"}
        /\ \E s \in {"counted", "idle"} : pc' = [pc EXCEPT ![p] = s]
    BY <1>5 DEF CountRotation, CountRevisit
  <2>2. UNCHANGED routeVars
    BY <1>5 DEF CountRotation, CountRevisit
  <2>. QED BY <2>1, <2>2 DEF routeVars
<1>6. ASSUME NEW p \in Routes, Abandon(p) PROVE StaleUntilCommitted'
  BY <1>6 DEF Abandon, AbandonedState
<1>7. ASSUME NEW p \in Routes, MarkStale(p) PROVE StaleUntilCommitted'
  BY <1>7 DEF MarkStale
<1>8. CASE UNCHANGED <<pc, state, sameIP>>
  BY <1>8
<1>. QED
  BY <1>1, <1>2, <1>3, <1>4, <1>5, <1>6, <1>7, <1>8
     DEF EngineNext, ProcedureStep, SetBaselineIP, Publish, vars, routeVars

\* A route whose last concluded rotation kept its address is displayed stale
\* whenever no procedure owns it, also after a later procedure is abandoned.
THEOREM StaleShownUntilCommitted == Spec => []StaleUntilCommitted
<1>1. Init => StaleUntilCommitted
  BY DEF Init, StaleUntilCommitted
<1>2. TypeInv /\ StaleUntilCommitted /\ [EngineNext \/ Publish]_vars
        => TypeInv' /\ StaleUntilCommitted'
  BY NextTypeInv, NextStaleUntilCommitted
<1>. QED BY <1>1, <1>2, InitTypeInv, PTL DEF Spec

\* A screened candidate differs from the baseline, or else from what a rotation
\* recorded before: until the record nothing changes either.
CandidateDiffers ==
  \A p \in Routes :
    pc[p] \in {"screened", "addressed", "checked"}
      => IF baseline[p] # NoIP THEN candidate[p] # baseline[p]
         ELSE p \in committed => candidate[p] # lastIP[p]

LEMMA NextCandidateDiffers ==
  ASSUME TypeInv, CommittedKnown, CandidateDiffers, [EngineNext \/ Publish]_vars
  PROVE  CandidateDiffers'
<1> USE DEF CandidateDiffers, TypeInv, TypeOK, Goto
<1>1. ASSUME NEW p \in Routes, Begin(p) PROVE CandidateDiffers'
  <2>1. \A q \in Routes \ {p} : baseline'[q] = baseline[q]
    BY <1>1 DEF Begin
  <2>. QED BY <1>1, <2>1 DEF Begin
<1>2. ASSUME NEW p \in Routes, Probe(p) PROVE CandidateDiffers'
  <2>1. CASE \E ip \in IPs : /\ Acceptable(p, ip)
                             /\ candidate' = [candidate EXCEPT ![p] = ip]
                             /\ pc' = [pc EXCEPT ![p] = "screened"]
    <3>1. PICK ip \in IPs : /\ Acceptable(p, ip)
                            /\ candidate' = [candidate EXCEPT ![p] = ip]
                            /\ pc' = [pc EXCEPT ![p] = "screened"]
      BY <2>1
    <3>. QED BY <1>2, <3>1 DEF Probe, Acceptable, routeVars
  <2>2. CASE UNCHANGED <<candidate, pc>>
    BY <1>2, <2>2 DEF Probe, routeVars
  <2>. QED BY <1>2, <2>1, <2>2 DEF Probe
<1>3. ASSUME NEW p \in Routes,
             \/ CommitAddress(p) \/ CommitCheck(p)
             \/ VerifyExpires(p) \/ CommitSkipped(p) \/ CommitRouteGone(p)
             \/ CommitCollision(p) \/ CountRotation(p) \/ CountRevisit(p)
             \/ Abandon(p) \/ MarkStale(p)
      PROVE  CandidateDiffers'
  <2>1. UNCHANGED <<baseline, candidate, lastIP, committed>>
    BY <1>3 DEF CommitAddress, CommitCheck, VerifyExpires, CommitSkipped, CommitRouteGone,
                CommitCollision, CountRotation, CountRevisit, Abandon, MarkStale,
                procVars, routeVars
  <2>2. \/ /\ pc[p] \in {"screened", "addressed"}
           /\ \E s \in Stage : pc' = [pc EXCEPT ![p] = s]
        \/ \E s \in {"idle", "verify", "aborted", "failed", "counted"} :
             pc' = [pc EXCEPT ![p] = s]
    BY <1>3 DEF CommitAddress, CommitCheck, VerifyExpires, CommitSkipped, CommitRouteGone,
                CommitCollision, CountRotation, CountRevisit, Abandon, MarkStale, Stage
  <2>. QED BY <2>1, <2>2
<1>4. ASSUME NEW p \in Routes, CommitRecord(p) PROVE CandidateDiffers'
  BY <1>4 DEF CommitRecord
<1>5. ASSUME NEW p \in Routes, NEW ip \in IPs, SetBaselineIP(p, ip) PROVE CandidateDiffers'
  BY <1>5 DEF SetBaselineIP, CommittedKnown, procVars
<1>6. CASE UNCHANGED <<pc, baseline, candidate, lastIP, committed>>
  BY <1>6
<1>. QED
  BY <1>1, <1>2, <1>3, <1>4, <1>5, <1>6
     DEF EngineNext, ProcedureStep, Publish, vars, procVars, routeVars

\* No rotation records its baseline or, when the baseline probe failed, the
\* address the rotation before it recorded (engine.go verify, commit).
THEOREM RevisitIsNeverUnchanged == Spec => RevisitIsAReturn
<1> DEFINE Inv == CommitInv /\ CandidateDiffers
           Return == \A p \in Routes :
                       pc[p] = "checked" /\ pc'[p] = "recorded"
                         => IF baseline[p] # NoIP THEN lastIP'[p] # baseline[p]
                            ELSE p \in committed => lastIP'[p] # lastIP[p]
<1>1. Init => Inv
  BY InitCommitInv DEF Init, CandidateDiffers
<1>2. Inv /\ [EngineNext \/ Publish]_vars => Inv'
  BY NextCommitInv, NextCandidateDiffers DEF CommitInv
<1>3. Inv /\ [EngineNext \/ Publish]_vars => [Return]_vars
  <2> SUFFICES ASSUME Inv, [EngineNext \/ Publish]_vars,
                      NEW p \in Routes, pc[p] = "checked", pc'[p] = "recorded"
               PROVE  IF baseline[p] # NoIP THEN lastIP'[p] # baseline[p]
                      ELSE p \in committed => lastIP'[p] # lastIP[p]
    OBVIOUS
  <2> USE DEF CommitInv
  <2>1. CommitRecord(p)
    <3>1. ASSUME NEW q \in Routes, Begin(q) \/ ProcedureStep(q), ~CommitRecord(q)
          PROVE  \E s \in Stage \ {"recorded"} : pc' = pc \/ pc' = [pc EXCEPT ![q] = s]
      BY <3>1 DEF ProcedureStep, Begin, Probe, VerifyExpires, CommitSkipped, CommitAddress,
                  CommitRouteGone, CommitCollision, CommitCheck, CountRotation,
                  CountRevisit, Abandon, MarkStale, Goto, Stage
    <3>2. ASSUME NEW q \in Routes, CommitRecord(q) PROVE q = p
      BY <3>2 DEF CommitRecord, Goto, TypeInv, TypeOK
    <3>. QED BY <3>1, <3>2
             DEF EngineNext, SetBaselineIP, Publish, vars, TypeInv, TypeOK, ProcedureStep
  <2>. QED BY <2>1 DEF CommitRecord, CandidateDiffers, TypeInv, TypeOK
<1>. QED
  <2>. HIDE DEF Inv
  <2>. QED BY <1>1, <1>2, <1>3, PTL DEF Spec, RevisitIsAReturn

-----------------------------------------------------------------------------
(* The engine's totals.                                                    *)

\* The revisits a commit has reported and the engine has not counted yet.
Uncounted == {p \in Routes : pc[p] = "counted" /\ revisit[p]}

TotalsInv == ipRevisits + Cardinality(Uncounted) <= rotations

LEMMA UncountedFinite == IsFiniteSet(Uncounted) /\ Cardinality(Uncounted) \in Nat
  BY CommitAssumption, FS_Subset, FS_CardinalityType DEF Uncounted

LEMMA NextTotalsInv ==
  ASSUME TypeInv, TotalsInv, [EngineNext \/ Publish]_vars
  PROVE  TotalsInv'
<1> USE DEF TypeInv, TypeOK, Goto
<1>1. ASSUME UNCHANGED <<rotations, ipRevisits>>, Uncounted' = Uncounted
      PROVE  TotalsInv'
  BY <1>1 DEF TotalsInv
<1>2. ASSUME NEW p \in Routes, CountRotation(p) PROVE TotalsInv'
  <2>1. p \notin Uncounted /\ Uncounted' \subseteq Uncounted \cup {p}
    BY <1>2 DEF CountRotation, Uncounted, procVars
  <2>2. /\ IsFiniteSet(Uncounted \cup {p})
        /\ Cardinality(Uncounted \cup {p}) = Cardinality(Uncounted) + 1
    BY <2>1, UncountedFinite, FS_AddElement
  <2>3. Cardinality(Uncounted') \in Nat /\ Cardinality(Uncounted') <= Cardinality(Uncounted) + 1
    BY <2>1, <2>2, FS_Subset, FS_CardinalityType
  <2>. QED BY <1>2, <2>3, UncountedFinite DEF CountRotation, TotalsInv
<1>3. ASSUME NEW p \in Routes, CountRevisit(p) PROVE TotalsInv'
  <2>1. Uncounted' = Uncounted \ {p} /\ (revisit[p] <=> p \in Uncounted)
    BY <1>3 DEF CountRevisit, Uncounted, procVars
  <2>2. Cardinality(Uncounted') =
          IF revisit[p] THEN Cardinality(Uncounted) - 1 ELSE Cardinality(Uncounted)
    BY <2>1, UncountedFinite, FS_RemoveElement
  <2>. QED BY <1>3, <2>2, UncountedFinite DEF CountRevisit, TotalsInv
<1>4. ASSUME NEW p \in Routes, CommitRecord(p) PROVE TotalsInv'
  BY <1>1, <1>4 DEF CommitRecord, Uncounted
<1>5. ASSUME NEW p \in Routes,
             \/ Begin(p) \/ Probe(p) \/ VerifyExpires(p) \/ CommitSkipped(p)
             \/ CommitAddress(p) \/ CommitRouteGone(p) \/ CommitCollision(p)
             \/ CommitCheck(p) \/ Abandon(p) \/ MarkStale(p)
      PROVE  TotalsInv'
  <2>1. UNCHANGED <<revisit, rotations, ipRevisits>>
    BY <1>5 DEF Begin, Probe, VerifyExpires, CommitSkipped, CommitAddress, CommitRouteGone,
                CommitCollision, CommitCheck, Abandon, MarkStale, procVars
  <2>2. /\ pc[p] # "counted"
        /\ \/ pc' = pc
           \/ \E s \in Stage \ {"counted"} : pc' = [pc EXCEPT ![p] = s]
    BY <1>5 DEF Begin, Probe, VerifyExpires, CommitSkipped, CommitAddress, CommitRouteGone,
                CommitCollision, CommitCheck, Abandon, MarkStale, Stage
  <2>3. \A q \in Routes : pc'[q] = "counted" <=> pc[q] = "counted"
    BY <2>2
  <2>. QED BY <1>1, <2>1, <2>3 DEF Uncounted
<1>6. CASE UNCHANGED <<pc, revisit, rotations, ipRevisits>>
  BY <1>1, <1>6 DEF Uncounted
<1>. QED
  BY <1>2, <1>3, <1>4, <1>5, <1>6
     DEF EngineNext, ProcedureStep, SetBaselineIP, Publish, vars, procVars

\* A reader of the totals never sees more revisits than rotations, at whatever
\* moment it reads them.
THEOREM RevisitsNeverExceedRotations == Spec => []RevisitsWithinRotations
<1>1. Init => TotalsInv
  <2> SUFFICES ASSUME Init PROVE TotalsInv
    OBVIOUS
  <2>1. Uncounted = {}
    BY DEF Init, Uncounted
  <2>. QED BY <2>1, FS_EmptySet DEF Init, TotalsInv
<1>2. TypeInv /\ TotalsInv /\ [EngineNext \/ Publish]_vars => TypeInv' /\ TotalsInv'
  BY NextTypeInv, NextTotalsInv
<1>3. TypeInv /\ TotalsInv => RevisitsWithinRotations
  BY UncountedFinite DEF TotalsInv, RevisitsWithinRotations, TypeInv, TypeOK
<1>. QED BY <1>1, <1>2, <1>3, InitTypeInv, PTL DEF Spec
=============================================================================
