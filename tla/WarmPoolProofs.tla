--------------------------- MODULE WarmPoolProofs ---------------------------
(***************************************************************************)
(* Theorems about WarmPool, for any routes, workers and settings.          *)
(***************************************************************************)
EXTENDS WarmPool, NaturalFacts, SequenceTheorems

-----------------------------------------------------------------------------
(* Subsequences and sums.                                                  *)

\* Every rank up to the size of a finite set of numbers is some member's.
LEMMA RankTaken ==
  ASSUME NEW at \in SUBSET Nat, IsFiniteSet(at), NEW k \in 1..Cardinality(at)
  PROVE  \E i \in at : Cardinality({j \in at : j <= i}) = k
<1> DEFINE Below(i) == {j \in at : j <= i}
           T == {i \in at : Cardinality(Below(i)) >= k}
<1>1. \A i \in at : IsFiniteSet(Below(i)) /\ Cardinality(Below(i)) \in Nat
  <2> TAKE i \in at
  <2>1. Below(i) \in SUBSET at
    OBVIOUS
  <2> HIDE DEF Below
  <2> QED BY <2>1, FS_Subset, FS_CardinalityType
<1>2. Cardinality(at) \in Nat /\ at # {} /\ k \in Nat
  BY FS_CardinalityType, FS_EmptySet
<1>3. T # {}
  <2>1. PICK g \in at : \A j \in at : j <= g
    BY <1>2, GreatestNumber
  <2>2. Below(g) = at
    BY <2>1
  <2> QED BY <1>2, <2>2
<1>4. PICK i \in T : \A j \in T : i <= j
  BY <1>3, LeastNumber
<1>5. ASSUME Cardinality(Below(i)) > k PROVE FALSE
  <2> DEFINE B == Below(i) \ {i}
  <2>1. i \in Below(i) /\ i \in at /\ i \in Nat
    OBVIOUS
  <2>2. IsFiniteSet(B) /\ Cardinality(B) = Cardinality(Below(i)) - 1
    <3> HIDE DEF Below
    <3> QED BY <1>1, <2>1, FS_RemoveElement
  <2>3. Cardinality(B) >= k /\ B # {}
    <3> HIDE DEF B, Below
    <3> QED BY <1>1, <1>2, <1>5, <2>1, <2>2, FS_EmptySet
  <2>4. PICK g \in B : \A j \in B : j <= g
    <3>1. B \in SUBSET Nat
      OBVIOUS
    <3> HIDE DEF B
    <3> QED BY <2>2, <2>3, <3>1, GreatestNumber
  <2>5. g \in at /\ g < i /\ g \in Nat
    BY <2>1, <2>4
  <2>6. Below(g) = B
    <3>1. ASSUME NEW j \in at, j <= g PROVE j \in B
      <4>1. j \in Nat /\ j <= i /\ j # i
        BY <2>1, <2>5, <3>1
      <4> QED BY <4>1
    <3>2. ASSUME NEW j \in B PROVE j \in Below(g)
      BY <2>4
    <3> QED BY <3>1, <3>2
  <2>7. g \in T
    BY <2>3, <2>5, <2>6
  <2>8. i <= g
    BY <1>4, <2>7
  <2> QED BY <2>1, <2>5, <2>8
<1>6. i \in at /\ Cardinality(Below(i)) >= k
  OBVIOUS
<1>7. Cardinality(Below(i)) = k
  <2> HIDE DEF Below, T
  <2> QED BY <1>1, <1>2, <1>5, <1>6
<1> QED BY <1>6, <1>7

\* A subsequence takes its elements from the positions it selects.
LEMMA SelectedElements ==
  ASSUME NEW S, NEW s \in Seq(S), NEW at \in SUBSET DOMAIN s
  PROVE  /\ Selected(s, at) \in Seq(S)
         /\ Len(Selected(s, at)) \in Nat /\ Len(Selected(s, at)) <= Len(s)
         /\ \A k \in DOMAIN Selected(s, at) : \E i \in at : Selected(s, at)[k] = s[i]
<1> DEFINE Pos(k) == CHOOSE i \in at : Cardinality({j \in at : j <= i}) = k
<1>1. Len(s) \in Nat /\ DOMAIN s = 1..Len(s) /\ \A i \in 1..Len(s) : s[i] \in S
  OBVIOUS
<1>2. IsFiniteSet(at) /\ Cardinality(at) \in Nat /\ Cardinality(at) <= Len(s)
  <2>1. IsFiniteSet(1..Len(s)) /\ Cardinality(1..Len(s)) = Len(s)
    BY <1>1, FS_Interval
  <2> QED BY <1>1, <2>1, FS_Subset, FS_CardinalityType
<1>3. \A k \in 1..Cardinality(at) : Pos(k) \in at
  <2> TAKE k \in 1..Cardinality(at)
  <2>1. at \in SUBSET Nat
    BY <1>1
  <2>2. \E i \in at : Cardinality({j \in at : j <= i}) = k
    BY <1>2, <2>1, RankTaken
  <2> QED BY <2>2
<1>4. Selected(s, at) = [k \in 1..Cardinality(at) |-> s[Pos(k)]]
  BY DEF Selected
<1> HIDE DEF Pos
<1>5. \A k \in 1..Cardinality(at) : s[Pos(k)] \in S
  BY <1>1, <1>3
<1>6. Selected(s, at) \in Seq(S) /\ Len(Selected(s, at)) = Cardinality(at)
  <2>1. Selected(s, at) \in [1..Cardinality(at) -> S]
    BY <1>4, <1>5
  <2> QED BY <1>2, <2>1
<1>7. \A k \in DOMAIN Selected(s, at) : \E i \in at : Selected(s, at)[k] = s[i]
  BY <1>3, <1>4
<1> QED BY <1>2, <1>6, <1>7

\* The parts of a subsequence a pass drops are its oldest and its newest.
LEMMA SubSeqElements ==
  ASSUME NEW S, NEW s \in Seq(S), NEW m \in Nat \ {0}, NEW n \in Nat, n <= Len(s)
  PROVE  /\ SubSeq(s, m, n) \in Seq(S)
         /\ Len(SubSeq(s, m, n)) \in Nat /\ Len(SubSeq(s, m, n)) <= n
         /\ \A k \in DOMAIN SubSeq(s, m, n) : \E i \in DOMAIN s : SubSeq(s, m, n)[k] = s[i]
BY SubSeqProperties

\* A sum over the routes is a number ...
LEMMA EntriesFinite ==
  ASSUME NEW f \in [Routes -> Nat]
  PROVE  IsFiniteSet(Entries(f)) /\ Total(f) \in Nat
<1> DEFINE Part == [p \in Routes |-> {p} \X (1..f[p])]
           Parts == {{p} \X (1..f[p]) : p \in Routes}
<1>1. \A p \in Routes : IsFiniteSet({p} \X (1..f[p]))
  <2> TAKE p \in Routes
  <2>1. IsFiniteSet({p})
    BY FS_Singleton, Zenon
  <2>2. IsFiniteSet(1..f[p])
    <3>1. f[p] \in Int
      OBVIOUS
    <3> QED BY <3>1, FS_Interval
  <2> QED BY <2>1, <2>2, FS_Product
<1>2. IsFiniteSet(Parts)
  <2>1. Part \in Surjection(Routes, Parts)
    BY DEF Surjection
  <2> QED BY <2>1, FS_Surjection, WarmAssumption
<1>3. \A T \in Parts : IsFiniteSet(T)
  BY <1>1
<1>4. IsFiniteSet(UNION Parts)
  <2> HIDE DEF Parts
  <2> QED BY <1>2, <1>3, FS_UNION
<1>5. Entries(f) = UNION Parts
  BY DEF Entries
<1> QED BY <1>4, <1>5, FS_CardinalityType DEF Total

\* ... that grows with its parts ...
LEMMA TotalMonotone ==
  ASSUME NEW f \in [Routes -> Nat], NEW g \in [Routes -> Nat],
         \A p \in Routes : f[p] <= g[p]
  PROVE  Total(f) <= Total(g)
<1>1. Entries(f) \in SUBSET Entries(g)
  BY DEF Entries
<1> QED BY <1>1, EntriesFinite, FS_Subset DEF Total

\* ... and one more on one route is one more in total.
LEMMA TotalPlusOne ==
  ASSUME NEW f \in [Routes -> Nat], NEW p \in Routes
  PROVE  Total([f EXCEPT ![p] = @ + 1]) = Total(f) + 1
<1> DEFINE g == [f EXCEPT ![p] = @ + 1]
           new == <<p, f[p] + 1>>
<1>1. \A q \in Routes : 1..g[q] = 1..f[q] \cup (IF q = p THEN {f[p] + 1} ELSE {})
  OBVIOUS
<1>2. Entries(g) = Entries(f) \cup {new}
  <2>1. \A h, e : e \in Entries(h) <=> \E q \in Routes : \E i \in 1..h[q] : e = <<q, i>>
    BY DEF Entries
  <2>2. ASSUME NEW e \in Entries(g) PROVE e \in Entries(f) \cup {new}
    <3>1. PICK q \in Routes : \E i \in 1..g[q] : e = <<q, i>>
      <4> HIDE DEF g
      <4> QED BY <2>1, <2>2
    <3>2. PICK i \in 1..g[q] : e = <<q, i>>
      BY <3>1
    <3>3. i \in 1..f[q] \/ (q = p /\ i = f[p] + 1)
      <4> HIDE DEF g
      <4> QED BY <1>1
    <3> HIDE DEF g
    <3> QED BY <2>1, <3>2, <3>3
  <2>3. ASSUME NEW e \in Entries(f) PROVE e \in Entries(g)
    <3>1. PICK q \in Routes : \E i \in 1..f[q] : e = <<q, i>>
      BY <2>1, <2>3
    <3>2. \E i \in 1..g[q] : e = <<q, i>>
      <4> HIDE DEF g
      <4> QED BY <1>1, <3>1
    <3> HIDE DEF g
    <3> QED BY <2>1, <3>2
  <2>4. new \in Entries(g)
    <3>1. f[p] + 1 \in 1..g[p]
      OBVIOUS
    <3> HIDE DEF g
    <3> QED BY <2>1, <3>1
  <2> HIDE DEF g, new
  <2> QED BY <2>2, <2>3, <2>4
<1>3. new \notin Entries(f)
  BY DEF Entries
<1>4. IsFiniteSet(Entries(f)) /\ Total(f) \in Nat
  BY EntriesFinite
<1> HIDE DEF g, new
<1>5. Total(g) = Total(f) + 1
  BY <1>2, <1>3, <1>4, FS_AddElement DEF Total
<1> QED BY <1>5 DEF g

-----------------------------------------------------------------------------
(* Types, reservations and sockets.                                        *)

AnyStep == PoolNext \/ Reload \/ StopCancel \/ StopClose

\* A claim in its critical section has the lock and something to claim, and
\* from then on its task names the route it reserved.
Owned ==
  \A w \in Workers :
    /\ worker[w] = "stamping" => mu = w /\ pending[task[w].route] > 0
    /\ worker[w] \in {"stamping", "claimed", "dialing"} => task[w].route \in Routes

\* A request inside Borrow was let in below the bound of the exploration.
Asked == borrower # Nobody => borrowed < MaxBorrows

Inv == TypeOK /\ Owned /\ Asked /\ DialsLeaveNothing

LEMMA SettingsTyped ==
  ASSUME NEW c \in Configs
  PROVE  /\ c.enabled \in BOOLEAN /\ c.minIdle \in Nat /\ c.perRoute \in Nat
         /\ c.maxIdle \in Nat /\ c.maxTotal \in Nat /\ c.maxDials \in Nat
         /\ c.minIdle <= c.maxIdle /\ c.maxIdle <= c.maxTotal
BY WarmAssumption DEF Settings

LEMMA BoundsTyped ==
  /\ MaxReloads \in Nat /\ MaxEpoch \in Nat /\ MaxBorrows \in Nat /\ MaxFailures \in Nat
  /\ IsFiniteSet(Routes) /\ IsFiniteSet(Workers) /\ Nobody \notin Routes /\ Nobody \notin Workers
BY WarmAssumption

LEMMA NoTaskTyped == NoTask \in Task
BY WarmAssumption DEF NoTask, Task, Settings

LEMMA InitInv == Init => Inv
<1> SUFFICES ASSUME Init PROVE Inv
  OBVIOUS
<1>1. TypeOK
  <2>1. /\ live \subseteq Routes /\ cfg \in Configs /\ sweepCfg \in Configs /\ sweepLive \subseteq Routes
        /\ reloads \in 0..MaxReloads /\ borrowed \in 0..MaxBorrows /\ failures \in 0..MaxFailures
    BY BoundsTyped DEF Init
  <2>2. ready \in [Routes -> Seq(Conn)] /\ task \in [Workers -> Task]
    BY NoTaskTyped DEF Init
  <2> QED BY <2>1, <2>2 DEF Init, TypeOK, WorkerStage
<1>2. Owned /\ Asked
  BY DEF Init, Owned, Asked
<1>3. DialsLeaveNothing
  <2>1. \A p \in Routes : Dialing(p) = {}
    BY DEF Init, Dialing, Running
  <2>2. Cardinality({}) = 0
    BY FS_EmptySet
  <2> QED BY <2>1, <2>2 DEF Init, DialsLeaveNothing
<1> QED BY <1>1, <1>2, <1>3 DEF Inv

\* A dial in the air has a reservation to return.
LEMMA LandingIsReserved ==
  ASSUME Inv, NEW w \in Workers, worker[w] \in {"claimed", "dialing"}
  PROVE  flying[task[w].route] > 0 /\ task[w].route \in Routes
<1> DEFINE p == task[w].route
<1>1. p \in Routes
  BY DEF Inv, Owned
<1>2. w \in Dialing(p) /\ Dialing(p) \in SUBSET Workers
  BY DEF Dialing, Running
<1>3. IsFiniteSet(Dialing(p)) /\ Cardinality(Dialing(p)) \in Nat /\ Cardinality(Dialing(p)) # 0
  BY <1>2, WarmAssumption, FS_Subset, FS_CardinalityType, FS_EmptySet
<1>4. flying[p] = Cardinality(Dialing(p))
  BY <1>1 DEF Inv, DialsLeaveNothing
<1> QED BY <1>1, <1>3, <1>4

\* What a pass leaves parked was parked, carries the current epoch, and is
\* within the bound of its configuration.
LEMMA SweptElements ==
  ASSUME TypeOK, NEW p \in Routes, NEW old \in Nat
  PROVE  /\ Swept(p, old) \in Seq(Conn)
         /\ Len(Swept(p, old)) <= Len(ready[p])
         /\ Len(Swept(p, old)) <= sweepCfg.maxIdle
         /\ \A k \in DOMAIN Swept(p, old) :
              \E i \in DOMAIN ready[p] : Swept(p, old)[k] = ready[p][i]
<1> DEFINE at == {i \in DOMAIN ready[p] : ready[p][i].epoch = epoch[p]}
           f == Fresh(p)
           live_ == SubSeq(f, old + 1, Len(f))
           m == IF Len(live_) < sweepCfg.maxIdle THEN Len(live_) ELSE sweepCfg.maxIdle
<1>1. ready[p] \in Seq(Conn) /\ at \in SUBSET DOMAIN ready[p] /\ sweepCfg.maxIdle \in Nat
      /\ Len(ready[p]) \in Nat
  <2>1. ready[p] \in Seq(Conn)
    BY DEF TypeOK
  <2>2. sweepCfg.maxIdle \in Nat
    BY SettingsTyped DEF TypeOK
  <2> QED BY <2>1, <2>2
<1>2. /\ f \in Seq(Conn) /\ Len(f) \in Nat /\ Len(f) <= Len(ready[p])
      /\ \A k \in DOMAIN f : \E i \in DOMAIN ready[p] : f[k] = ready[p][i]
  <2>1. f = Selected(ready[p], at)
    BY DEF Fresh
  <2> HIDE DEF at, f
  <2>2. /\ Selected(ready[p], at) \in Seq(Conn)
        /\ Len(Selected(ready[p], at)) \in Nat
        /\ Len(Selected(ready[p], at)) <= Len(ready[p])
        /\ \A k \in DOMAIN Selected(ready[p], at) :
             \E i \in at : Selected(ready[p], at)[k] = ready[p][i]
    BY <1>1, SelectedElements, Zenon
  <2>3. \A i \in at : i \in DOMAIN ready[p]
    BY <1>1, Zenon
  <2> QED BY <2>1, <2>2, <2>3, Zenon
<1> HIDE DEF f
<1>3. /\ live_ \in Seq(Conn) /\ Len(live_) \in Nat /\ Len(live_) <= Len(f)
      /\ \A k \in DOMAIN live_ : \E i \in DOMAIN f : live_[k] = f[i]
  BY <1>2, SubSeqElements
<1> HIDE DEF live_
<1>4. m \in Nat /\ m <= Len(live_) /\ m <= sweepCfg.maxIdle
  BY <1>1, <1>3
<1> HIDE DEF m
<1>5. /\ SubSeq(live_, 1, m) \in Seq(Conn) /\ Len(SubSeq(live_, 1, m)) \in Nat
      /\ Len(SubSeq(live_, 1, m)) <= m
      /\ \A k \in DOMAIN SubSeq(live_, 1, m) :
           \E i \in DOMAIN live_ : SubSeq(live_, 1, m)[k] = live_[i]
  BY <1>3, <1>4, SubSeqElements
<1>6. \/ Swept(p, old) = SubSeq(live_, 1, m)
      \/ Swept(p, old) = <<>>
  BY DEF Swept, Trimmed, live_, m, f
<1>7. CASE Swept(p, old) = <<>>
  BY <1>1, <1>7
<1>8. CASE Swept(p, old) = SubSeq(live_, 1, m)
  <2>1. \A k \in DOMAIN SubSeq(live_, 1, m) :
          \E i \in DOMAIN ready[p] : SubSeq(live_, 1, m)[k] = ready[p][i]
    BY <1>2, <1>3, <1>5
  <2> QED BY <1>1, <1>2, <1>3, <1>4, <1>5, <1>8, <2>1
<1> QED BY <1>6, <1>7, <1>8

Counted == \A p \in Routes : flying[p] = Cardinality(Dialing(p))
Kept    == \A p \in Routes : ready[p] # <<>> => bucket[p] = "open" /\ ~stopped

\* Reservations are untouched while dials neither begin nor end ...
LEMMA CountsUntouched ==
  ASSUME Inv, flying' = flying,
         \A w \in Workers :
           /\ worker'[w] \in {"claimed", "dialing"} <=> worker[w] \in {"claimed", "dialing"}
           /\ worker[w] \in {"claimed", "dialing"} => task'[w].route = task[w].route
  PROVE  Counted'
<1>1. \A p \in Routes : Dialing(p)' = Dialing(p)
  BY DEF Dialing, Running
<1> QED BY <1>1 DEF Counted, Inv, DialsLeaveNothing

\* ... and returned when one does end.
LEMMA LandingCounts ==
  ASSUME Inv, NEW w \in Workers, worker[w] = "dialing", Land(task[w].route),
         NEW to \in {"parked", "looking"},
         worker' = [worker EXCEPT ![w] = to], task' = [task EXCEPT ![w] = NoTask]
  PROVE  Counted' /\ flying' \in [Routes -> Nat]
<1> DEFINE r == task[w].route
<1>1. r \in Routes /\ flying[r] > 0
  BY LandingIsReserved
<1>2. flying \in [Routes -> Nat] /\ worker \in [Workers -> WorkerStage] /\ task \in [Workers -> Task]
  BY DEF Inv, TypeOK
<1>3. \A p \in Routes : flying'[p] = IF p = r THEN flying[p] - 1 ELSE flying[p]
  BY <1>2 DEF Land
<1>4. \A p \in Routes : Dialing(p)' = IF p = r THEN Dialing(p) \ {w} ELSE Dialing(p)
  BY <1>2 DEF Dialing, Running
<1>5. \A p \in Routes : Dialing(p) \in SUBSET Workers /\ flying[p] = Cardinality(Dialing(p))
  BY DEF Dialing, Running, Inv, DialsLeaveNothing
<1>6. \A p \in Routes : IsFiniteSet(Dialing(p))
  BY <1>5, BoundsTyped, FS_Subset
<1>7. w \in Dialing(r)
  BY DEF Dialing, Running
<1>8. Cardinality(Dialing(r) \ {w}) = Cardinality(Dialing(r)) - 1
  BY <1>1, <1>6, <1>7, FS_RemoveElement
<1>9. Counted'
  <2> SUFFICES ASSUME NEW p \in Routes PROVE flying'[p] = Cardinality(Dialing(p)')
    BY DEF Counted
  <2> QED BY <1>3, <1>4, <1>5, <1>8
<1>10. flying' \in [Routes -> Nat]
  BY <1>1, <1>2 DEF Land
<1> QED BY <1>9, <1>10

LEMMA InvFromParts ==
  ASSUME TypeOK', Owned', Asked', Counted', Kept'
  PROVE  Inv'
BY DEF Inv, Counted, Kept, DialsLeaveNothing

\* What the environment and the sweeper's loads leave alone.
Outside ==
  UNCHANGED <<bucket, ready, pending, flying, authBroken, mu, wake, workVars, borrowVars, stopped>>

LEMMA OutsideKeepsInv ==
  ASSUME Inv, Outside,
         /\ live' \subseteq Routes /\ cfg' \in Configs /\ reloads' \in 0..MaxReloads
         /\ rotation' \in [Routes -> {"serving", "flagged", "draining", "rotated"}]
         /\ epoch' \in [Routes -> Nat] /\ egress' \in [Routes -> Nat]
         /\ paused' \subseteq Routes /\ backoff' \subseteq Routes
         /\ sweeper' \in {"waiting", "loaded", "off"}
         /\ sweepLive' \subseteq Routes /\ sweepCfg' \in Configs
         /\ cancelled' \in BOOLEAN
  PROVE  Inv'
<1>1. TypeOK'
  BY DEF Inv, TypeOK, Outside, workVars, borrowVars
<1>2. Owned' /\ Asked'
  BY DEF Inv, Owned, Asked, Outside, workVars, borrowVars
<1>3. Counted'
  BY CountsUntouched DEF Outside, workVars
<1>4. Kept'
  BY DEF Inv, Kept, DialsLeaveNothing, Outside
<1> QED BY <1>1, <1>2, <1>3, <1>4, InvFromParts

LEMMA StillKeepsInv == Inv /\ UNCHANGED vars => Inv'
BY OutsideKeepsInv DEF Inv, TypeOK, Outside, vars, storeVars, routeVars, bucketVars, sweepVars,
   workVars, borrowVars, stopVars

LEMMA EnvironmentKeepsInv ==
  ASSUME Inv,
         \/ Reload \/ StopCancel \/ SweepLoad \/ SweepExit \/ SweepStopped
         \/ \E p \in Routes : RotationStep(p) \/ Health(p) \/ BackoffOver(p)
  PROVE  Inv'
<1>0. /\ TypeOK /\ reloads \in 0..MaxReloads /\ MaxReloads \in Nat
      /\ epoch \in [Routes -> Nat] /\ egress \in [Routes -> Nat]
      /\ rotation \in [Routes -> {"serving", "flagged", "draining", "rotated"}]
  BY BoundsTyped DEF Inv, TypeOK
<1> USE DEF Outside, storeVars, routeVars, bucketVars, sweepVars, stopVars
<1>1. CASE Reload
  <2>1. reloads' \in 0..MaxReloads /\ live' \subseteq Routes /\ cfg' \in Configs
    BY <1>0, <1>1 DEF Reload, TypeOK
  <2> QED BY <1>0, <1>1, <2>1, OutsideKeepsInv DEF Reload, TypeOK
<1>2. CASE StopCancel
  BY <1>0, <1>2, OutsideKeepsInv DEF StopCancel, TypeOK
<1>3. CASE SweepLoad
  BY <1>0, <1>3, OutsideKeepsInv DEF SweepLoad, TypeOK
<1>4. CASE SweepExit
  BY <1>0, <1>4, OutsideKeepsInv DEF SweepExit, TypeOK
<1>5. CASE SweepStopped
  BY <1>0, <1>5, OutsideKeepsInv DEF SweepStopped, TypeOK
<1>6. ASSUME NEW p \in Routes, RotationStep(p) PROVE Inv'
  <2>1. CASE RaiseFlag(p)
    BY <1>0, <2>1, OutsideKeepsInv DEF RaiseFlag, TypeOK
  <2>2. CASE RaiseEpoch(p)
    <3>1. epoch' \in [Routes -> Nat]
          /\ rotation' \in [Routes -> {"serving", "flagged", "draining", "rotated"}]
      BY <1>0, <2>2 DEF RaiseEpoch
    <3> QED BY <1>0, <2>2, <3>1, OutsideKeepsInv DEF RaiseEpoch, TypeOK
  <2>3. CASE ChangeEgress(p)
    <3>1. egress' \in [Routes -> Nat]
          /\ rotation' \in [Routes -> {"serving", "flagged", "draining", "rotated"}]
      BY <1>0, <2>3 DEF ChangeEgress
    <3> QED BY <1>0, <2>3, <3>1, OutsideKeepsInv DEF ChangeEgress, TypeOK
  <2>4. CASE Return(p)
    BY <1>0, <2>4, OutsideKeepsInv DEF Return, TypeOK
  <2> QED BY <1>6, <2>1, <2>2, <2>3, <2>4 DEF RotationStep
<1>7. ASSUME NEW p \in Routes, Health(p) PROVE Inv'
  <2>1. paused' \subseteq Routes
    BY <1>0, <1>7 DEF Health, TypeOK
  <2> QED BY <1>0, <1>7, <2>1, OutsideKeepsInv DEF Health, TypeOK
<1>8. ASSUME NEW p \in Routes, BackoffOver(p) PROVE Inv'
  <2>1. backoff' \subseteq Routes
    BY <1>0, <1>8 DEF BackoffOver, TypeOK
  <2> QED BY <1>0, <1>8, <2>1, OutsideKeepsInv DEF BackoffOver, TypeOK
<1> QED BY <1>1, <1>2, <1>3, <1>4, <1>5, <1>6, <1>7, <1>8

\* A pass shortens what is parked, adds to what is pending, and launches
\* workers, but moves no dial.
LEMMA PassEffects ==
  ASSUME Inv, SweepPass
  PROVE  /\ ready' \in [Routes -> Seq(Conn)]
         /\ \A p \in Routes : Len(ready'[p]) <= Len(ready[p]) /\ Len(ready'[p]) <= sweepCfg.maxIdle
         /\ \A p \in Routes : \A k \in DOMAIN ready'[p] :
              \E i \in DOMAIN ready[p] : ready'[p][k] = ready[p][i]
         /\ \A p \in Routes : ready'[p] # <<>> => p \in sweepLive
         /\ pending' \in [Routes -> Nat] /\ \A p \in Routes : pending[p] <= pending'[p]
         /\ wake' \in BOOLEAN /\ worker' \in [Workers -> WorkerStage]
         /\ \A w \in Workers : worker'[w] = worker[w] \/ (worker[w] = "off" /\ worker'[w] = "parked")
<1>0. /\ TypeOK /\ sweepCfg \in Configs /\ ready \in [Routes -> Seq(Conn)]
      /\ pending \in [Routes -> Nat] /\ worker \in [Workers -> WorkerStage] /\ wake \in BOOLEAN
  BY DEF Inv, TypeOK
<1>1. /\ sweepCfg.maxTotal \in Nat /\ sweepCfg.minIdle \in Nat
  BY <1>0, SettingsTyped
<1>2. PICK old \in [Routes -> IF Expires THEN 0..sweepCfg.maxTotal ELSE {0}] :
        ready' = [p \in Routes |-> Swept(p, old[p])]
  BY DEF SweepPass
<1>3. \A p \in Routes : old[p] \in Nat
  BY <1>1
<1>4. \A p \in Routes : ready'[p] = Swept(p, old[p])
  BY <1>2
<1>5. /\ ready' \in [Routes -> Seq(Conn)]
      /\ \A p \in Routes : Len(ready'[p]) <= Len(ready[p]) /\ Len(ready'[p]) <= sweepCfg.maxIdle
      /\ \A p \in Routes : \A k \in DOMAIN ready'[p] :
           \E i \in DOMAIN ready[p] : ready'[p][k] = ready[p][i]
  <2>1. \A p \in Routes :
          /\ ready'[p] \in Seq(Conn)
          /\ Len(ready'[p]) <= Len(ready[p]) /\ Len(ready'[p]) <= sweepCfg.maxIdle
          /\ \A k \in DOMAIN ready'[p] : \E i \in DOMAIN ready[p] : ready'[p][k] = ready[p][i]
    <3> TAKE p \in Routes
    <3> QED BY <1>0, <1>3, <1>4, SweptElements
  <2>2. DOMAIN ready' = Routes /\ ready' = [p \in Routes |-> ready'[p]]
    BY <1>2
  <2>3. ready' \in [Routes -> Seq(Conn)]
    BY <2>1, <2>2
  <2> QED BY <2>1, <2>3
<1>6. \A p \in Routes : ready'[p] # <<>> => p \in sweepLive
  BY <1>4 DEF Swept
<1>7. /\ pending' \in [Routes -> Nat] /\ \A p \in Routes : pending[p] <= pending'[p]
      /\ wake' \in BOOLEAN /\ worker' \in [Workers -> WorkerStage]
      /\ \A w \in Workers : worker'[w] = worker[w] \/ (worker[w] = "off" /\ worker'[w] = "parked")
  <2>1. CASE sweepCfg.enabled
    <3>1. \E add \in [Routes -> 0..sweepCfg.minIdle] :
            pending' = [p \in Routes |-> pending[p] + add[p]]
      BY <2>1 DEF SweepPass, Scheduled
    <3>2. wake' \in BOOLEAN
      BY <1>0, <2>1 DEF SweepPass
    <3>3. PICK up \in SUBSET Running({"off"}) :
            worker' = [w \in Workers |-> IF w \in up THEN "parked" ELSE worker[w]]
      BY <2>1 DEF SweepPass, Launch
    <3>4. \A w \in up : worker[w] = "off"
      BY DEF Running
    <3>5. worker' \in [Workers -> WorkerStage]
      BY <1>0, <3>3 DEF WorkerStage
    <3>6. \A w \in Workers : worker'[w] = worker[w] \/ (worker[w] = "off" /\ worker'[w] = "parked")
      BY <3>3, <3>4
    <3>7. pending' \in [Routes -> Nat] /\ \A p \in Routes : pending[p] <= pending'[p]
      BY <1>0, <1>1, <3>1
    <3> QED BY <3>2, <3>5, <3>6, <3>7
  <2>2. CASE ~sweepCfg.enabled
    <3>1. UNCHANGED <<pending, wake, worker>>
      BY <2>2 DEF SweepPass
    <3> QED BY <1>0, <3>1
  <2> QED BY <2>1, <2>2
<1> QED BY <1>5, <1>6, <1>7

LEMMA PassKeepsInv ==
  ASSUME Inv, SweepPass
  PROVE  Inv'
<1>0. /\ TypeOK /\ mu = Nobody /\ ~stopped /\ UNCHANGED <<flying, task, mu, stopped, borrower, borrowed>>
      /\ \A w \in Workers : worker[w] # "stamping"
  BY BoundsTyped DEF Inv, SweepPass, borrowVars, stopVars, Owned
<1>1. TypeOK'
  <2>1. /\ bucket' \in [Routes -> {"none", "open", "deleted"}] /\ authBroken' \in [Routes -> Nat]
    BY <1>0 DEF TypeOK, SweepPass
  <2>2. UNCHANGED <<storeVars, routeVars, flying, backoff, mu, sweepLive, sweepCfg, task, failures,
                    borrowVars, stopVars>> /\ sweeper' = "waiting"
    BY DEF SweepPass
  <2> QED BY <1>0, <2>1, <2>2, PassEffects
          DEF TypeOK, storeVars, routeVars, borrowVars, stopVars
<1>2. Owned'
  <2>1. \A w \in Workers : worker'[w] = worker[w] \/ (worker[w] = "off" /\ worker'[w] = "parked")
    BY PassEffects
  <2> QED BY <1>0, <2>1 DEF Owned, Inv
<1>3. Asked'
  BY <1>0 DEF Asked, Inv
<1>4. Counted'
  BY <1>0, PassEffects, CountsUntouched
<1>5. Kept'
  <2>1. \A p \in sweepLive \cap Routes : bucket'[p] = "open"
    BY DEF SweepPass
  <2> QED BY <1>0, <2>1, PassEffects DEF Kept
<1> QED BY <1>1, <1>2, <1>3, <1>4, <1>5, InvFromParts

-----------------------------------------------------------------------------
(* A worker's step.                                                        *)

\* A worker that moves between two stages without a reservation.
LEMMA IdleMoveKeepsInv ==
  ASSUME Inv, NEW w \in Workers,
         NEW from \in {"parked", "looking"}, NEW to \in {"gone", "off", "parked", "looking"},
         Move(w, from, to), wake' \in BOOLEAN,
         UNCHANGED <<storeVars, routeVars, bucketVars, mu, sweepVars, task, failures, borrowVars,
                     stopVars>>
  PROVE  Inv'
<1> USE DEF Inv, storeVars, routeVars, bucketVars, sweepVars, borrowVars, stopVars, Move
<1>1. worker' \in [Workers -> WorkerStage]
  BY DEF TypeOK, WorkerStage
<1>2. \A v \in Workers : v # w => worker'[v] = worker[v]
  BY DEF TypeOK
<1>3. worker'[w] = to /\ worker[w] = from
  BY DEF TypeOK
<1>4. TypeOK'
  BY <1>1 DEF TypeOK
<1>5. Owned' /\ Asked'
  BY <1>2, <1>3 DEF Owned, Asked
<1>6. Counted'
  BY <1>2, <1>3, CountsUntouched
<1>7. Kept'
  BY DEF Kept, DialsLeaveNothing
<1> QED BY <1>4, <1>5, <1>6, <1>7, InvFromParts

LEMMA IdleStepKeepsInv ==
  ASSUME Inv, NEW w \in Workers, WorkerExit(w) \/ WakeUp(w) \/ ClaimNothing(w)
  PROVE  Inv'
<1>0. wake \in BOOLEAN
  BY DEF Inv, TypeOK
<1>1. CASE WorkerExit(w)
  BY <1>0, <1>1, IdleMoveKeepsInv DEF WorkerExit
<1>2. CASE WakeUp(w)
  BY <1>2, IdleMoveKeepsInv DEF WakeUp, MoveOn
<1>3. CASE ClaimNothing(w)
  BY <1>0, <1>3, IdleMoveKeepsInv DEF ClaimNothing
<1> QED BY <1>1, <1>2, <1>3

LEMMA ClaimCheckKeepsInv ==
  ASSUME Inv, NEW w \in Workers, NEW p \in Routes, ClaimCheck(w, p)
  PROVE  Inv'
<1>0. /\ worker \in [Workers -> WorkerStage] /\ task \in [Workers -> Task]
      /\ worker[w] = "looking" /\ worker' = [worker EXCEPT ![w] = "stamping"]
      /\ task' = [task EXCEPT ![w].route = p] /\ mu = Nobody /\ mu' = w
      /\ pending[p] > 0 /\ pending' = pending /\ flying' = flying
  BY DEF Inv, TypeOK, ClaimCheck, Move, Claimable, bucketVars
<1>1. TypeOK'
  <2>1. worker' \in [Workers -> WorkerStage] /\ task' \in [Workers -> Task]
    BY <1>0 DEF Task, WorkerStage
  <2> QED BY <1>0, <2>1 DEF Inv, TypeOK, ClaimCheck, storeVars, routeVars, bucketVars, sweepVars,
             borrowVars, stopVars
<1>2. Owned'
  <2>1. \A v \in Workers : v # w => worker'[v] = worker[v] /\ task'[v] = task[v]
    BY <1>0
  <2>2. worker'[w] = "stamping" /\ task'[w].route = p
    BY <1>0 DEF Task
  <2>3. \A v \in Workers : worker[v] # "stamping"
    BY <1>0, BoundsTyped DEF Inv, Owned
  <2> QED BY <1>0, <2>1, <2>2, <2>3 DEF Inv, Owned
<1>3. Asked'
  BY DEF Inv, Asked, ClaimCheck, borrowVars
<1>4. Counted'
  <2>1. \A v \in Workers : v # w => worker'[v] = worker[v] /\ task'[v] = task[v]
    BY <1>0
  <2>2. worker'[w] = "stamping"
    BY <1>0
  <2> QED BY <1>0, <2>1, <2>2, CountsUntouched
<1>5. Kept'
  BY DEF Inv, Kept, DialsLeaveNothing, ClaimCheck, bucketVars, stopVars
<1> QED BY <1>1, <1>2, <1>3, <1>4, <1>5, InvFromParts

LEMMA ClaimStampKeepsInv ==
  ASSUME Inv, NEW w \in Workers, ClaimStamp(w)
  PROVE  Inv'
<1> DEFINE r == task[w].route
<1>0. /\ worker \in [Workers -> WorkerStage] /\ task \in [Workers -> Task]
      /\ worker[w] = "stamping" /\ worker' = [worker EXCEPT ![w] = "claimed"]
      /\ mu' = Nobody
      /\ pending \in [Routes -> Nat] /\ flying \in [Routes -> Nat] /\ epoch \in [Routes -> Nat]
  BY DEF Inv, TypeOK, ClaimStamp, Move
<1>1. r \in Routes /\ pending[r] > 0 /\ mu = w
  BY <1>0 DEF Inv, Owned
<1>2. /\ task' = [task EXCEPT ![w].epoch = epoch[r]]
      /\ pending' = [pending EXCEPT ![r] = @ - 1] /\ flying' = [flying EXCEPT ![r] = @ + 1]
  BY DEF ClaimStamp
<1>3. TypeOK'
  <2>1. worker' \in [Workers -> WorkerStage]
    BY <1>0 DEF WorkerStage
  <2>2. pending' \in [Routes -> Nat] /\ flying' \in [Routes -> Nat]
    BY <1>0, <1>1, <1>2
  <2>3. task' \in [Workers -> Task]
    <3>1. epoch[r] \in Nat /\ task[w] \in Task
      BY <1>0, <1>1
    <3> HIDE DEF r
    <3> QED BY <1>0, <1>2, <3>1 DEF Task
  <2> QED BY <1>0, <2>1, <2>2, <2>3 DEF Inv, TypeOK, ClaimStamp, storeVars, routeVars, sweepVars,
             borrowVars, stopVars
<1>4. \A v \in Workers : v # w => worker'[v] = worker[v] /\ task'[v] = task[v]
  BY <1>0, <1>2
<1>5. worker'[w] = "claimed" /\ task'[w].route = r
  BY <1>0, <1>2 DEF Task
<1>6. Owned'
  <2>1. \A v \in Workers : v # w => worker[v] # "stamping"
    BY <1>1 DEF Inv, Owned
  <2> QED BY <1>1, <1>4, <1>5, <2>1 DEF Inv, Owned
<1>7. Asked'
  BY DEF Inv, Asked, ClaimStamp, borrowVars
<1>8. Counted'
  <2>1. \A p \in Routes : Dialing(p)' = IF p = r THEN Dialing(p) \cup {w} ELSE Dialing(p)
    BY <1>0, <1>4, <1>5 DEF Dialing, Running
  <2>2. \A p \in Routes : Dialing(p) \in SUBSET Workers /\ flying[p] = Cardinality(Dialing(p))
    BY DEF Dialing, Running, Inv, DialsLeaveNothing
  <2>3. IsFiniteSet(Dialing(r)) /\ w \notin Dialing(r)
    BY <1>0, <1>1, <2>2, BoundsTyped, FS_Subset DEF Dialing, Running
  <2>4. Cardinality(Dialing(r) \cup {w}) = Cardinality(Dialing(r)) + 1
    BY <2>3, FS_AddElement
  <2>5. \A p \in Routes : flying'[p] = IF p = r THEN flying[p] + 1 ELSE flying[p]
    BY <1>0, <1>2
  <2> SUFFICES ASSUME NEW p \in Routes PROVE flying'[p] = Cardinality(Dialing(p)')
    BY DEF Counted
  <2> HIDE DEF r
  <2> QED BY <2>1, <2>2, <2>4, <2>5
<1>9. Kept'
  BY DEF Inv, Kept, DialsLeaveNothing, ClaimStamp, stopVars
<1> QED BY <1>3, <1>6, <1>7, <1>8, <1>9, InvFromParts

LEMMA DialStartKeepsInv ==
  ASSUME Inv, NEW w \in Workers, DialStart(w)
  PROVE  Inv'
<1> DEFINE r == task[w].route
<1>0. /\ worker \in [Workers -> WorkerStage] /\ task \in [Workers -> Task]
      /\ worker[w] = "claimed" /\ worker' = [worker EXCEPT ![w] = "dialing"]
      /\ egress \in [Routes -> Nat] /\ cfg \in Configs /\ flying' = flying
      /\ task' = [task EXCEPT ![w].cfg = cfg, ![w].egress = egress[r]]
  BY DEF Inv, TypeOK, DialStart, Move, bucketVars
<1>1. r \in Routes
  BY <1>0, LandingIsReserved
<1>2. TypeOK'
  <2>1. worker' \in [Workers -> WorkerStage]
    BY <1>0 DEF WorkerStage
  <2>2. task' \in [Workers -> Task]
    <3>1. egress[r] \in Nat /\ task[w] \in Task
      BY <1>0, <1>1
    <3> HIDE DEF r
    <3> QED BY <1>0, <3>1 DEF Task
  <2> QED BY <2>1, <2>2 DEF Inv, TypeOK, DialStart, storeVars, routeVars, bucketVars, sweepVars,
             borrowVars, stopVars
<1>3. \A v \in Workers : v # w => worker'[v] = worker[v] /\ task'[v] = task[v]
  BY <1>0
<1>4. worker'[w] = "dialing" /\ task'[w].route = r
  BY <1>0 DEF Task
<1>5. Owned' /\ Asked'
  <2>1. Owned'
    BY <1>0, <1>1, <1>3, <1>4 DEF Inv, Owned, DialStart, bucketVars
  <2> QED BY <2>1 DEF Inv, Asked, DialStart, borrowVars
<1>6. Counted'
  BY <1>0, <1>3, <1>4, CountsUntouched
<1>7. Kept'
  BY DEF Inv, Kept, DialsLeaveNothing, DialStart, bucketVars, stopVars
<1> QED BY <1>2, <1>5, <1>6, <1>7, InvFromParts

\* Every way out of a dial; what it does to the bucket is up to the way.
LEMMA LandingKeepsInv ==
  ASSUME Inv, NEW w \in Workers, MoveOn(w, "dialing"), mu = Nobody,
         Land(task[w].route), task' = [task EXCEPT ![w] = NoTask],
         UNCHANGED <<storeVars, routeVars, bucket, pending, mu, wake, sweepVars, borrowVars,
                     stopVars>>,
         ready' \in [Routes -> Seq(Conn)], backoff' \subseteq Routes,
         authBroken' \in [Routes -> Nat], failures' \in 0..MaxFailures, Kept'
  PROVE  Inv'
<1>0. /\ worker \in [Workers -> WorkerStage] /\ task \in [Workers -> Task]
      /\ worker[w] = "dialing"
      /\ \A v \in Workers : worker[v] # "stamping"
  BY BoundsTyped DEF Inv, TypeOK, Owned, MoveOn, Move
<1>1. PICK to \in {"parked", "looking"} : worker' = [worker EXCEPT ![w] = to]
  BY DEF MoveOn, Move
<1>2. Counted' /\ flying' \in [Routes -> Nat]
  BY <1>0, <1>1, LandingCounts
<1>3. TypeOK'
  <2>1. worker' \in [Workers -> WorkerStage]
    BY <1>0, <1>1 DEF WorkerStage
  <2>2. task' \in [Workers -> Task]
    BY <1>0, NoTaskTyped
  <2> QED BY <1>2, <2>1, <2>2 DEF Inv, TypeOK, storeVars, routeVars, sweepVars, borrowVars, stopVars
<1>4. Owned'
  <2>1. \A v \in Workers : v # w => worker'[v] = worker[v] /\ task'[v] = task[v]
    BY <1>0, <1>1
  <2>2. worker'[w] = to
    BY <1>0, <1>1
  <2> QED BY <1>0, <2>1, <2>2 DEF Inv, Owned
<1>5. Asked'
  BY DEF Inv, Asked, borrowVars
<1> QED BY <1>2, <1>3, <1>4, <1>5, InvFromParts

LEMMA DialEndKeepsInv ==
  ASSUME Inv, NEW w \in Workers, DialFails(w) \/ DialDiscarded(w) \/ DialParked(w)
  PROVE  Inv'
<1> DEFINE r == task[w].route
<1>0. /\ ready \in [Routes -> Seq(Conn)] /\ backoff \subseteq Routes
      /\ authBroken \in [Routes -> Nat] /\ failures \in 0..MaxFailures
      /\ epoch \in [Routes -> Nat] /\ egress \in [Routes -> Nat]
      /\ task[w] \in Task /\ MaxFailures \in Nat /\ Kept
  BY BoundsTyped DEF Inv, TypeOK, Kept, DialsLeaveNothing
<1>1. r \in Routes
  BY LandingIsReserved DEF DialFails, DialDiscarded, DialParked, MoveOn, Move
<1>2. CASE DialFails(w)
  <2>1. /\ MoveOn(w, "dialing") /\ mu = Nobody /\ Land(r)
        /\ task' = [task EXCEPT ![w] = NoTask] /\ UNCHANGED <<bucket, ready, stopVars>>
        /\ UNCHANGED <<storeVars, routeVars, bucket, pending, mu, wake, sweepVars, borrowVars,
                       stopVars>>
    BY <1>2 DEF DialFails
  <2>2. failures' \in 0..MaxFailures
    BY <1>0, <1>2 DEF DialFails
  <2>3. backoff' \subseteq Routes /\ authBroken' \in [Routes -> Nat]
    <3>1. epoch[r] \in Nat
      BY <1>0, <1>1
    <3> QED BY <1>0, <1>1, <1>2, <3>1 DEF DialFails
  <2>4. Kept'
    BY <1>0, <2>1 DEF Kept, stopVars
  <2> QED BY <1>0, <2>1, <2>2, <2>3, <2>4, LandingKeepsInv
<1>3. CASE DialDiscarded(w)
  <2>1. Kept'
    BY <1>0, <1>3 DEF DialDiscarded, Kept, stopVars
  <2> QED BY <1>0, <1>3, <2>1, LandingKeepsInv DEF DialDiscarded
<1>4. CASE DialParked(w)
  <2>1. PICK e \in task[w].egress..egress[r] :
          ready' = [ready EXCEPT ![r] = Append(@, [epoch |-> task[w].epoch, egress |-> e])]
    BY <1>4 DEF DialParked
  <2>2. [epoch |-> task[w].epoch, egress |-> e] \in Conn
    <3>1. task[w].epoch \in Nat /\ task[w].egress \in Nat /\ egress[r] \in Nat
      BY <1>0, <1>1 DEF Task
    <3> HIDE DEF r
    <3> QED BY <3>1 DEF Conn
  <2>3. ready' \in [Routes -> Seq(Conn)]
    BY <1>0, <1>1, <2>1, <2>2
  <2>4. backoff' \subseteq Routes
    BY <1>0, <1>4 DEF DialParked
  <2>5. Kept'
    <3>1. bucket[r] = "open" /\ ~stopped
      BY <1>4 DEF DialParked, NoPlace
    <3>2. \A p \in Routes : p # r => ready'[p] = ready[p]
      BY <1>0, <2>1
    <3>3. UNCHANGED <<bucket, stopped>>
      BY <1>4 DEF DialParked, stopVars
    <3> HIDE DEF r
    <3> QED BY <1>0, <3>1, <3>2, <3>3 DEF Kept
  <2> QED BY <1>0, <1>4, <2>3, <2>4, <2>5, LandingKeepsInv DEF DialParked
<1> QED BY <1>2, <1>3, <1>4

-----------------------------------------------------------------------------
(* Requests and shutdown.                                                  *)

\* Requests only take away what is parked.
LEMMA RequestKeepsInv ==
  ASSUME Inv, NEW p \in Routes, Request(p)
  PROVE  Inv'
<1>0. /\ ready \in [Routes -> Seq(Conn)] /\ borrowed \in 0..MaxBorrows /\ MaxBorrows \in Nat
      /\ UNCHANGED <<storeVars, routeVars, bucket, pending, flying, backoff, authBroken, mu, wake,
                     sweepVars, workVars, stopVars>>
  BY BoundsTyped DEF Inv, TypeOK, Request, BorrowCheck, BorrowTake, BorrowMiss, DiscardRoute, bucketVars
<1>1. borrower' \in Routes \cup {Nobody} /\ borrowed' \in 0..MaxBorrows /\ Asked'
  BY <1>0, BoundsTyped DEF Inv, TypeOK, Asked, Request, BorrowCheck, BorrowTake, BorrowMiss, DiscardRoute,
     borrowVars
<1>2. /\ ready' \in [Routes -> Seq(Conn)]
      /\ \A q \in Routes : ready'[q] # <<>> => ready[q] # <<>>
  <2>1. /\ \A q \in Routes \ {p} : ready'[q] = ready[q]
        /\ ready'[p] \in {ready[p], <<>>} \/ (ready[p] # <<>> /\ ready'[p] = Tail(ready[p]))
        /\ ready' = [q \in Routes |-> ready'[q]]
    <3>1. CASE BorrowCheck(p)
      BY <1>0, <3>1 DEF BorrowCheck, bucketVars
    <3>2. CASE BorrowTake(p)
      BY <1>0, <3>2 DEF BorrowTake, Borrowable
    <3>3. CASE BorrowMiss(p)
      BY <1>0, <3>3 DEF BorrowMiss
    <3>4. CASE DiscardRoute(p)
      BY <1>0, <3>4 DEF DiscardRoute
    <3> QED BY <3>1, <3>2, <3>3, <3>4 DEF Request
  <2>2. \A q \in Routes : ready'[q] \in Seq(Conn) /\ (ready'[q] # <<>> => ready[q] # <<>>)
    <3>1. ready[p] # <<>> => Tail(ready[p]) \in Seq(Conn)
      <4>1. ready[p] \in Seq(Conn)
        BY <1>0
      <4> QED BY <4>1, HeadTailProperties
    <3>2. <<>> \in Seq(Conn)
      OBVIOUS
    <3>3. ready'[p] \in Seq(Conn) /\ (ready'[p] # <<>> => ready[p] # <<>>)
      BY <1>0, <2>1, <3>1, <3>2
    <3> QED BY <1>0, <2>1, <3>3
  <2>3. ready' \in [Routes -> Seq(Conn)]
    BY <2>1, <2>2
  <2> QED BY <2>2, <2>3
<1>3. TypeOK'
  BY <1>0, <1>1, <1>2 DEF Inv, TypeOK, storeVars, routeVars, sweepVars, workVars, stopVars
<1>4. Owned'
  BY <1>0 DEF Inv, Owned, workVars
<1>5. Counted'
  BY <1>0, CountsUntouched DEF workVars
<1>6. Kept'
  BY <1>0, <1>2 DEF Inv, Kept, DialsLeaveNothing, stopVars
<1> QED BY <1>1, <1>3, <1>4, <1>5, <1>6, InvFromParts

LEMMA StopCloseKeepsInv ==
  ASSUME Inv, StopClose
  PROVE  Inv'
<1>0. /\ \A w \in Workers : worker[w] # "stamping"
      /\ ready' = [p \in Routes |-> <<>>] /\ pending \in [Routes -> Nat]
      /\ pending' = [p \in Routes |-> IF bucket[p] = "open" THEN 0 ELSE pending[p]]
      /\ UNCHANGED <<storeVars, routeVars, bucket, flying, backoff, authBroken, mu, wake, sweepVars,
                     workVars, borrowVars, cancelled>> /\ stopped' = TRUE
  BY BoundsTyped DEF Inv, TypeOK, Owned, StopClose
<1>1. TypeOK'
  <2>1. ready' \in [Routes -> Seq(Conn)] /\ pending' \in [Routes -> Nat]
    BY <1>0
  <2> QED BY <1>0, <2>1 DEF Inv, TypeOK, storeVars, routeVars, sweepVars, workVars, borrowVars
<1>2. Owned' /\ Asked'
  BY <1>0 DEF Inv, Owned, Asked, workVars, borrowVars
<1>3. Counted'
  BY <1>0, CountsUntouched DEF workVars
<1>4. Kept'
  BY <1>0 DEF Kept
<1> QED BY <1>1, <1>2, <1>3, <1>4, InvFromParts

LEMMA StepKeepsInv == Inv /\ [AnyStep]_vars => Inv'
<1> SUFFICES ASSUME Inv, [AnyStep]_vars PROVE Inv'
  OBVIOUS
<1>1. CASE SweepPass
  BY <1>1, PassKeepsInv
<1>2. ASSUME NEW w \in Workers, WorkerStep(w) PROVE Inv'
  <2>1. CASE \E p \in Routes : ClaimCheck(w, p)
    BY <2>1, ClaimCheckKeepsInv
  <2> QED BY <1>2, <2>1, IdleStepKeepsInv, ClaimStampKeepsInv, DialStartKeepsInv, DialEndKeepsInv
          DEF WorkerStep
<1>3. ASSUME NEW p \in Routes, Request(p) PROVE Inv'
  BY <1>3, RequestKeepsInv
<1>4. CASE StopClose
  BY <1>4, StopCloseKeepsInv
<1>5. CASE UNCHANGED vars
  BY <1>5, StillKeepsInv
<1> QED BY <1>1, <1>2, <1>3, <1>4, <1>5, EnvironmentKeepsInv DEF AnyStep, PoolNext, Sweep

\* However late a dial ends, nothing is left of it: as many reservations as
\* dials, and no socket without an open bucket (warmpool.go runDial, Stop).
THEOREM DialsAlwaysLeaveNothing == Spec => []DialsLeaveNothing
<1>1. Inv /\ [PoolNext \/ Reload \/ StopCancel \/ StopClose]_vars => Inv'
  BY StepKeepsInv DEF AnyStep
<1>2. Inv => DialsLeaveNothing
  BY DEF Inv
<1> QED BY InitInv, <1>1, <1>2, PTL DEF Spec

-----------------------------------------------------------------------------
(* The egress address of a borrowed connection.                            *)

\* A dial stamped e that left no earlier than egress g is at most one egress
\* behind while its stamp is current; not at all before the provider acts.
Behind(p, e, g) ==
  /\ e <= epoch[p]
  /\ e = epoch[p] => /\ egress[p] <= g + 1
                     /\ rotation[p] = "draining" => egress[p] <= g

Near ==
  /\ \A p \in Routes : \A i \in DOMAIN ready[p] :
       Behind(p, ready[p][i].epoch, ready[p][i].egress)
  /\ \A w \in Workers :
       /\ worker[w] = "claimed" => task[w].epoch <= epoch[task[w].route]
       /\ worker[w] = "dialing" => Behind(task[w].route, task[w].epoch, task[w].egress)

\* Rotations alone touch the routes' epochs and addresses.
LEMMA RoutesTurn ==
  ASSUME Inv, [AnyStep]_vars
  PROVE  UNCHANGED <<rotation, epoch, egress>> \/ \E p \in Routes : RotationStep(p)
BY DEF AnyStep, PoolNext, Sweep, SweepLoad, SweepExit, SweepStopped, SweepPass, Reload, StopCancel,
   StopClose, WorkerStep, WorkerExit, WakeUp, ClaimNothing, ClaimStamp, DialStart, DialFails,
   DialDiscarded, DialParked, ClaimCheck, Request, BorrowCheck, BorrowTake, BorrowMiss, DiscardRoute,
   Health, BackoffOver, vars, routeVars

LEMMA BehindStays ==
  ASSUME Inv, [AnyStep]_vars
  PROVE  \A q \in Routes : \A e, g \in Nat :
           /\ Behind(q, e, g) => Behind(q, e, g)'
           /\ e <= epoch[q] => e <= epoch'[q]
<1> SUFFICES ASSUME NEW q \in Routes, NEW e \in Nat, NEW g \in Nat
             PROVE  /\ Behind(q, e, g) => Behind(q, e, g)'
                    /\ e <= epoch[q] => e <= epoch'[q]
  OBVIOUS
<1>0. /\ epoch \in [Routes -> Nat] /\ egress \in [Routes -> Nat]
      /\ rotation \in [Routes -> {"serving", "flagged", "draining", "rotated"}]
  BY DEF Inv, TypeOK
<1>1. CASE UNCHANGED <<rotation, epoch, egress>>
  BY <1>1 DEF Behind
<1>2. ASSUME NEW p \in Routes, RotationStep(p)
      PROVE  /\ Behind(q, e, g) => Behind(q, e, g)'
             /\ e <= epoch[q] => e <= epoch'[q]
  <2>1. CASE RaiseFlag(p)
    BY <1>0, <2>1 DEF RaiseFlag, Behind
  <2>2. CASE RaiseEpoch(p)
    BY <1>0, <2>2 DEF RaiseEpoch, Behind
  <2>3. CASE ChangeEgress(p)
    BY <1>0, <2>3 DEF ChangeEgress, Behind
  <2>4. CASE Return(p)
    BY <1>0, <2>4 DEF Return, Behind
  <2> QED BY <1>2, <2>1, <2>2, <2>3, <2>4 DEF RotationStep
<1> QED BY <1>1, <1>2, RoutesTurn

\* What is parked after a step was parked before, unless a dial ended.
LEMMA ParkedBefore ==
  ASSUME Inv, [AnyStep]_vars, \A w \in Workers : ~DialParked(w)
  PROVE  \A p \in Routes : \A k \in DOMAIN ready'[p] :
           \E i \in DOMAIN ready[p] : ready'[p][k] = ready[p][i]
<1>0. ready \in [Routes -> Seq(Conn)]
  BY DEF Inv, TypeOK
<1>1. CASE UNCHANGED ready
  BY <1>1
<1>2. CASE SweepPass
  BY <1>2, PassEffects
<1>3. CASE StopClose
  BY <1>3 DEF StopClose
<1>4. ASSUME NEW p \in Routes, Request(p), NEW q \in Routes, NEW k \in DOMAIN ready'[q]
      PROVE  \E i \in DOMAIN ready[q] : ready'[q][k] = ready[q][i]
  <2>1. \/ ready'[q] = ready[q]
        \/ ready'[q] = <<>>
        \/ ready[q] # <<>> /\ ready'[q] = Tail(ready[q])
    BY <1>0, <1>4 DEF Request, BorrowCheck, BorrowTake, BorrowMiss, DiscardRoute, Borrowable, bucketVars
  <2>2. ASSUME ready[q] # <<>>, ready'[q] = Tail(ready[q])
        PROVE  \E i \in DOMAIN ready[q] : ready'[q][k] = ready[q][i]
    <3>1. ready[q] \in Seq(Conn) /\ Len(ready[q]) \in Nat
      BY <1>0
    <3>2. k \in 1..(Len(ready[q]) - 1) /\ ready'[q][k] = ready[q][k + 1]
      BY <2>2, <3>1, HeadTailProperties
    <3>3. k + 1 \in DOMAIN ready[q]
      BY <3>1, <3>2
    <3> QED BY <3>2, <3>3
  <2> QED BY <2>1, <2>2
<1>5. UNCHANGED ready \/ SweepPass \/ StopClose \/ \E p \in Routes : Request(p)
  BY DEF AnyStep, PoolNext, Sweep, SweepLoad, SweepExit, SweepStopped, Reload, StopCancel,
     WorkerStep, WorkerExit, WakeUp, ClaimNothing, ClaimStamp, DialStart, DialFails,
     DialDiscarded, ClaimCheck, RotationStep, RaiseFlag, RaiseEpoch, ChangeEgress, Return,
     Health, BackoffOver, vars, bucketVars
<1> QED BY <1>1, <1>2, <1>3, <1>4, <1>5

\* A dial was on its way before a step, or the step began it.
LEMMA TaskBefore ==
  ASSUME Inv, [AnyStep]_vars, NEW v \in Workers
  PROVE  /\ worker'[v] = "dialing" => (worker[v] = "dialing" /\ task'[v] = task[v]) \/ DialStart(v)
         /\ worker'[v] = "claimed" => (worker[v] = "claimed" /\ task'[v] = task[v]) \/ ClaimStamp(v)
<1>0. worker \in [Workers -> WorkerStage] /\ task \in [Workers -> Task]
  BY DEF Inv, TypeOK
<1>1. CASE UNCHANGED <<worker, task>>
  BY <1>1
<1>2. CASE SweepPass
  <2>1. task' = task
    BY <1>2 DEF SweepPass
  <2> QED BY <1>2, <2>1, PassEffects
<1>3. ASSUME NEW w \in Workers, WorkerStep(w)
      PROVE  /\ worker'[v] = "dialing" => (worker[v] = "dialing" /\ task'[v] = task[v]) \/ DialStart(v)
             /\ worker'[v] = "claimed" => (worker[v] = "claimed" /\ task'[v] = task[v]) \/ ClaimStamp(v)
  <2>1. CASE v # w
    <3>1. worker'[v] = worker[v] /\ task'[v] = task[v]
      BY <1>0, <1>3, <2>1 DEF WorkerStep, WorkerExit, WakeUp, ClaimNothing, ClaimStamp, DialStart,
         DialFails, DialDiscarded, DialParked, ClaimCheck, Move, MoveOn
    <3> QED BY <3>1
  <2>2. CASE v = w
    <3>1. CASE WorkerExit(v) \/ WakeUp(v) \/ ClaimNothing(v)
      BY <1>0, <3>1 DEF WorkerExit, WakeUp, ClaimNothing, Move, MoveOn
    <3>2. CASE DialFails(v) \/ DialDiscarded(v) \/ DialParked(v)
      BY <1>0, <3>2 DEF DialFails, DialDiscarded, DialParked, Move, MoveOn
    <3>3. CASE DialStart(v)
      BY <1>0, <3>3 DEF DialStart, Move
    <3>4. CASE ClaimStamp(v)
      BY <1>0, <3>4 DEF ClaimStamp, Move
    <3>5. CASE \E p \in Routes : ClaimCheck(v, p)
      BY <1>0, <3>5 DEF ClaimCheck, Move
    <3> QED BY <1>3, <2>2, <3>1, <3>2, <3>3, <3>4, <3>5 DEF WorkerStep
  <2> QED BY <2>1, <2>2
<1>4. UNCHANGED <<worker, task>> \/ SweepPass \/ \E w \in Workers : WorkerStep(w)
  BY DEF AnyStep, PoolNext, Sweep, SweepLoad, SweepExit, SweepStopped, Reload, StopCancel, StopClose,
     Request, BorrowCheck, BorrowTake, BorrowMiss, DiscardRoute, RotationStep, RaiseFlag, RaiseEpoch,
     ChangeEgress, Return, Health, BackoffOver, vars, workVars
<1> QED BY <1>1, <1>2, <1>3, <1>4

LEMMA NextNear == Inv /\ Near /\ [AnyStep]_vars => Near'
<1> SUFFICES ASSUME Inv, Near, [AnyStep]_vars PROVE Near'
  OBVIOUS
<1>0. /\ ready \in [Routes -> Seq(Conn)] /\ task \in [Workers -> Task]
      /\ epoch \in [Routes -> Nat] /\ egress \in [Routes -> Nat]
  BY DEF Inv, TypeOK
<1>1. ASSUME NEW p \in Routes, NEW c \in Conn, \E i \in DOMAIN ready[p] : c = ready[p][i]
      PROVE  Behind(p, c.epoch, c.egress)'
  <2>1. Behind(p, c.epoch, c.egress)
    BY <1>1 DEF Near
  <2>2. c.epoch \in Nat /\ c.egress \in Nat
    BY DEF Conn
  <2> QED BY <2>1, <2>2, BehindStays
<1>2. ASSUME NEW p \in Routes, NEW c \in Conn, NEW k \in DOMAIN ready'[p], c = ready'[p][k]
      PROVE  Behind(p, c.epoch, c.egress)'
  <2>1. CASE \A w \in Workers : ~DialParked(w)
    BY <1>1, <1>2, <2>1, ParkedBefore
  <2>2. ASSUME NEW w \in Workers, DialParked(w) PROVE Behind(p, c.epoch, c.egress)'
    <3> DEFINE r == task[w].route
    <3>1. worker[w] = "dialing" /\ UNCHANGED <<rotation, epoch, egress>>
      BY <2>2 DEF DialParked, MoveOn, Move, routeVars
    <3>2. r \in Routes
      BY <3>1, LandingIsReserved
    <3>3. PICK e \in task[w].egress..egress[r] :
            ready' = [ready EXCEPT ![r] = Append(@, [epoch |-> task[w].epoch, egress |-> e])]
      BY <2>2 DEF DialParked
    <3>4. CASE \E i \in DOMAIN ready[p] : c = ready[p][i]
      BY <1>1, <3>4
    <3>5. CASE p = r /\ c = [epoch |-> task[w].epoch, egress |-> e]
      <4>1. Behind(r, task[w].epoch, task[w].egress)
        BY <3>1 DEF Near
      <4>2. /\ task[w].epoch \in Nat /\ task[w].egress \in Nat /\ egress[r] \in Nat
            /\ e \in Int /\ task[w].egress <= e
        BY <1>0, <3>2 DEF Task
      <4>3. Behind(r, task[w].epoch, e)
        <5> HIDE DEF r
        <5> QED BY <4>1, <4>2 DEF Behind
      <4>4. c.epoch = task[w].epoch /\ c.egress = e
        BY <3>5
      <4>5. Behind(p, c.epoch, c.egress)
        BY <3>5, <4>3, <4>4
      <4> QED BY <3>1, <4>5 DEF Behind
    <3>6. (\E i \in DOMAIN ready[p] : c = ready[p][i])
            \/ (p = r /\ c = [epoch |-> task[w].epoch, egress |-> e])
      <4> DEFINE new == [epoch |-> task[w].epoch, egress |-> e]
      <4>1. p # r => ready'[p] = ready[p]
        BY <1>0, <3>3
      <4>2. ready[r] \in Seq(Conn) /\ Len(ready[r]) \in Nat
        BY <1>0, <3>2
      <4>3. ready'[r] = Append(ready[r], new)
        BY <1>0, <3>2, <3>3
      <4>4. CASE p = r
        <5> HIDE DEF r, new
        <5>1. DOMAIN Append(ready[r], new) = 1..(Len(ready[r]) + 1)
          BY <4>2
        <5>2. CASE k = Len(ready[r]) + 1
          <6>1. c = new
            BY <1>2, <4>2, <4>3, <4>4, <5>2
          <6> QED BY <4>4, <6>1 DEF new
        <5>3. CASE k \in 1..Len(ready[r])
          BY <1>2, <4>2, <4>3, <4>4, <5>3
        <5> QED BY <4>2, <4>3, <4>4, <5>1, <5>2, <5>3
      <4> QED BY <1>2, <4>1, <4>4
    <3> QED BY <3>4, <3>5, <3>6
  <2> QED BY <2>1, <2>2
<1>3. \A p \in Routes : \A k \in DOMAIN ready'[p] :
        Behind(p, ready[p][k].epoch, ready[p][k].egress)'
  <2> TAKE p \in Routes
  <2> TAKE k \in DOMAIN ready'[p]
  <2>1. ready'[p] \in Seq(Conn)
    BY StepKeepsInv DEF Inv, TypeOK
  <2>2. PICK c \in Conn : c = ready'[p][k]
    BY <2>1
  <2>3. Behind(p, c.epoch, c.egress)'
    BY <1>2, <2>2
  <2> QED BY <2>2, <2>3 DEF Behind
<1>4. ASSUME NEW w \in Workers, worker'[w] = "claimed"
      PROVE  task'[w].epoch <= epoch'[task'[w].route]
  <2>1. CASE worker[w] = "claimed" /\ task'[w] = task[w]
    <3>1. task[w].epoch \in Nat /\ task[w].route \in Routes /\ task[w].epoch <= epoch[task[w].route]
      BY <1>0, <2>1, LandingIsReserved DEF Near, Task
    <3> QED BY <2>1, <3>1, BehindStays
  <2>2. CASE ClaimStamp(w)
    <3>1. task[w].route \in Routes
      BY <2>2 DEF ClaimStamp, Move, Inv, Owned
    <3>2. task'[w].route = task[w].route /\ task'[w].epoch = epoch[task[w].route]
          /\ epoch' = epoch
      BY <1>0, <2>2 DEF ClaimStamp, Task, routeVars
    <3> QED BY <1>0, <3>1, <3>2
  <2> QED BY <1>4, <2>1, <2>2, TaskBefore
<1>5. ASSUME NEW w \in Workers, worker'[w] = "dialing"
      PROVE  Behind(task[w].route, task[w].epoch, task[w].egress)'
  <2>1. CASE worker[w] = "dialing" /\ task'[w] = task[w]
    <3>1. PICK t \in Task : t = task[w]
      BY <1>0
    <3>2. t.route \in Routes /\ t.epoch \in Nat /\ t.egress \in Nat
          /\ Behind(t.route, t.epoch, t.egress)
      BY <2>1, <3>1, LandingIsReserved DEF Near, Task
    <3>3. Behind(t.route, t.epoch, t.egress)'
      BY <3>2, BehindStays
    <3> QED BY <2>1, <3>1, <3>3 DEF Behind
  <2>2. CASE DialStart(w)
    <3> DEFINE r == task[w].route
    <3>1. r \in Routes /\ task[w].epoch <= epoch[r] /\ task[w].epoch \in Nat
      BY <1>0, <2>2, LandingIsReserved DEF DialStart, Move, Near, Task
    <3>2. task'[w].route = r /\ task'[w].epoch = task[w].epoch /\ task'[w].egress = egress[r]
          /\ UNCHANGED <<rotation, epoch, egress>>
      BY <1>0, <2>2 DEF DialStart, Task, routeVars
    <3> HIDE DEF r
    <3> QED BY <1>0, <3>1, <3>2 DEF Behind
  <2> QED BY <1>5, <2>1, <2>2, TaskBefore
<1> QED BY <1>3, <1>4, <1>5 DEF Near

\* A request never gets a connection more than one egress address behind
\* (warmpool.go Borrow, rotation.go BeginRotation).
THEOREM BorrowsAreNear == Spec => NeverTwoBehind
<1>1. Init => Near
  BY DEF Init, Near
<1>2. Inv /\ Near /\ [PoolNext \/ Reload \/ StopCancel \/ StopClose]_vars => Inv' /\ Near'
  BY StepKeepsInv, NextNear DEF AnyStep
<1>3. ASSUME Inv, Near, [PoolNext \/ Reload \/ StopCancel \/ StopClose]_vars,
             NEW p \in Routes, Taken(p)
      PROVE  Head(ready[p]).egress + 1 >= egress[p]
  <2>0. ready \in [Routes -> Seq(Conn)] /\ borrowed \in Nat /\ egress \in [Routes -> Nat]
    BY BoundsTyped, <1>3 DEF Inv, TypeOK
  <2>1. BorrowTake(p)
    <3>1. borrowed' # borrowed /\ borrower = p
      BY <1>3, <2>0 DEF Taken
    <3>2. \E q \in Routes : BorrowTake(q)
      BY <1>3, <3>1 DEF PoolNext, Sweep, SweepLoad, SweepExit, SweepStopped, SweepPass, Reload,
         StopCancel, StopClose, WorkerStep, WorkerExit, WakeUp, ClaimNothing, ClaimStamp, DialStart,
         DialFails, DialDiscarded, DialParked, ClaimCheck, RotationStep, RaiseFlag, RaiseEpoch,
         ChangeEgress, Return, Request, BorrowCheck, BorrowMiss, DiscardRoute, Health, BackoffOver,
         vars, borrowVars
    <3> QED BY <3>1, <3>2 DEF BorrowTake
  <2>2. ready[p] # <<>> /\ Head(ready[p]).epoch = epoch[p]
    BY <2>1 DEF BorrowTake, Borrowable
  <2>3. ready[p] \in Seq(Conn) /\ 1 \in DOMAIN ready[p] /\ Head(ready[p]) = ready[p][1]
    BY <2>0, <2>2
  <2>4. Behind(p, Head(ready[p]).epoch, Head(ready[p]).egress)
    BY <1>3, <2>3 DEF Near
  <2>5. Head(ready[p]).egress \in Nat /\ egress[p] \in Nat
    <3>1. ready[p][1] \in Conn
      BY <2>3
    <3> QED BY <2>0, <2>3, <3>1 DEF Conn
  <2> QED BY <2>2, <2>4, <2>5 DEF Behind
<1>4. Inv /\ Near /\ [PoolNext \/ Reload \/ StopCancel \/ StopClose]_vars
        => [\A p \in Routes : Taken(p) => Head(ready[p]).egress + 1 >= egress[p]]_vars
  BY <1>3
<1> QED BY InitInv, <1>1, <1>2, <1>4, PTL DEF Spec, NeverTwoBehind

-----------------------------------------------------------------------------
(* The bounds of one configuration.                                        *)

\* The pass in progress and the dials in the air go by the settings published.
Settled ==
  /\ sweeper = "loaded" => sweepCfg = cfg
  /\ \A w \in Workers : worker[w] = "dialing" => task[w].cfg = cfg

\* wp.workers counts every worker launched and not retired.
FleetBounded == Cardinality(Workers \ Running({"off"})) <= cfg.maxDials

IdleBounded ==
  /\ \A p \in Routes : Len(ready[p]) <= cfg.maxIdle
  /\ TotalIdle <= cfg.maxTotal

\* A claim in its critical section still has room on its route.
AirBounded ==
  cfg.perRoute > 0 =>
    /\ \A p \in Routes : flying[p] <= cfg.perRoute
    /\ \A w \in Workers : worker[w] = "stamping" => flying[task[w].route] < cfg.perRoute

OwedBounded == \A p \in Routes : Len(ready[p]) + pending[p] + flying[p] <= cfg.minIdle

Bounded == Settled /\ FleetBounded /\ IdleBounded /\ AirBounded /\ OwedBounded

\* The types the bounds are about.
LEMMA BoundsOf ==
  ASSUME Inv
  PROVE  /\ cfg \in Configs
         /\ cfg.maxIdle \in Nat /\ cfg.maxTotal \in Nat /\ cfg.maxDials \in Nat
         /\ cfg.perRoute \in Nat /\ cfg.minIdle \in Nat
         /\ ready \in [Routes -> Seq(Conn)]
         /\ pending \in [Routes -> Nat] /\ flying \in [Routes -> Nat]
         /\ worker \in [Workers -> WorkerStage] /\ task \in [Workers -> Task]
         /\ \A p \in Routes : Len(ready[p]) \in Nat
BY SettingsTyped DEF Inv, TypeOK

LEMMA SettledStays ==
  ASSUME Inv, [AnyStep]_vars, cfg' = cfg, Settled
  PROVE  Settled'
<1>1. ASSUME sweeper' = "loaded" PROVE sweepCfg' = cfg
  <2>1. SweepLoad \/ UNCHANGED <<sweeper, sweepCfg>>
    BY <1>1 DEF AnyStep, PoolNext, Sweep, SweepExit, SweepStopped, SweepPass, Reload, StopCancel,
       StopClose, WorkerStep, WorkerExit, WakeUp, ClaimNothing, ClaimStamp, DialStart, DialFails,
       DialDiscarded, DialParked, ClaimCheck, RotationStep, RaiseFlag, RaiseEpoch, ChangeEgress,
       Return, Request, BorrowCheck, BorrowTake, BorrowMiss, DiscardRoute, Health, BackoffOver,
       vars, sweepVars
  <2> QED BY <1>1, <2>1 DEF SweepLoad, Settled
<1>2. ASSUME NEW w \in Workers, worker'[w] = "dialing"
      PROVE  task'[w].cfg = cfg
  <2>1. CASE worker[w] = "dialing" /\ task'[w] = task[w]
    BY <2>1 DEF Settled
  <2>2. CASE DialStart(w)
    BY <2>2, BoundsOf DEF DialStart, Task
  <2> QED BY <1>2, <2>1, <2>2, TaskBefore
<1> QED BY <1>1, <1>2 DEF Settled

\* A pass launches no more workers than its settings ask for, or none.
LEMMA LaunchIsBounded ==
  ASSUME Inv, NEW want \in Nat, Launch(want)
  PROVE  \/ Cardinality(Workers \ Running({"off"}))' <= want
         \/ Cardinality(Workers \ Running({"off"}))' = Cardinality(Workers \ Running({"off"}))
<1> DEFINE On == Workers \ Running({"off"})
           n  == Cardinality(On)
<1>1. PICK up \in SUBSET Running({"off"}) :
        /\ Cardinality(up) = IF want > n THEN want - n ELSE 0
        /\ worker' = [w \in Workers |-> IF w \in up THEN "parked" ELSE worker[w]]
  BY DEF Launch
<1>2. On' = On \cup up /\ On \cap up = {}
  BY <1>1 DEF Running
<1>3. IsFiniteSet(On) /\ IsFiniteSet(up) /\ n \in Nat
  <2>1. On \in SUBSET Workers /\ up \in SUBSET Workers
    BY DEF Running
  <2> HIDE DEF On
  <2> QED BY <2>1, BoundsTyped, FS_Subset, FS_CardinalityType
<1> HIDE DEF On
<1>4. Cardinality(On \cup up) = n + Cardinality(up) - Cardinality(On \cap up)
  BY <1>3, FS_Union
<1>5. Cardinality(On \cap up) = 0
  BY <1>2, FS_EmptySet
<1>6. Cardinality(On') <= want \/ Cardinality(On') = n
  <2> HIDE DEF n
  <2>1. (Cardinality(up) = want - n /\ want > n) \/ Cardinality(up) = 0
    BY <1>1, <1>3
  <2>2. Cardinality(On') = n + Cardinality(up)
    <3>1. Cardinality(up) \in Nat
      BY <1>3, FS_CardinalityType
    <3> QED BY <1>2, <1>3, <1>4, <1>5, <3>1
  <2> QED BY <1>3, <2>1, <2>2
<1> QED BY <1>6 DEF On

\* Nothing else starts one.
LEMMA OnlyPassesLaunch ==
  ASSUME Inv, [AnyStep]_vars, ~(SweepPass /\ sweepCfg.enabled)
  PROVE  /\ Cardinality(Workers \ Running({"off"})) \in Nat
         /\ Cardinality(Workers \ Running({"off"}))' \in Nat
         /\ Cardinality(Workers \ Running({"off"}))' <= Cardinality(Workers \ Running({"off"}))
<1> DEFINE On == Workers \ Running({"off"})
<1>1. \A w \in Workers : worker[w] = "off" => worker'[w] = "off"
  <2>1. CASE UNCHANGED worker
    BY <2>1
  <2>2. ASSUME NEW v \in Workers, WorkerStep(v), NEW w \in Workers, worker[w] = "off"
        PROVE  worker'[w] = "off"
    BY <2>2, BoundsOf DEF WorkerStep, WorkerExit, WakeUp, ClaimNothing, ClaimStamp, DialStart,
       DialFails, DialDiscarded, DialParked, ClaimCheck, Move, MoveOn
  <2>3. UNCHANGED worker \/ \E v \in Workers : WorkerStep(v)
    BY DEF AnyStep, PoolNext, Sweep, SweepLoad, SweepExit, SweepStopped, SweepPass, Reload,
       StopCancel, StopClose, RotationStep, RaiseFlag, RaiseEpoch, ChangeEgress, Return, Request,
       BorrowCheck, BorrowTake, BorrowMiss, DiscardRoute, Health, BackoffOver, vars, workVars
  <2> QED BY <2>1, <2>2, <2>3
<1>2. On' \in SUBSET On /\ On \in SUBSET Workers
  BY <1>1 DEF Running
<1> HIDE DEF On
<1>3. IsFiniteSet(On)
  BY <1>2, BoundsTyped, FS_Subset
<1>4. IsFiniteSet(On') /\ Cardinality(On') <= Cardinality(On)
  BY <1>2, <1>3, FS_Subset
<1>5. Cardinality(On) \in Nat /\ Cardinality(On') \in Nat
  BY <1>3, <1>4, FS_CardinalityType
<1> QED BY <1>4, <1>5 DEF On

LEMMA FleetStays ==
  ASSUME Inv, [AnyStep]_vars, cfg' = cfg, Settled, FleetBounded
  PROVE  FleetBounded'
<1>0. cfg.maxDials \in Nat
  BY BoundsOf
<1>1. CASE SweepPass /\ sweepCfg.enabled
  <2>1. Launch(cfg.maxDials)
    BY <1>1 DEF SweepPass, Settled
  <2> QED BY <1>0, <2>1, LaunchIsBounded DEF FleetBounded
<1>2. CASE ~(SweepPass /\ sweepCfg.enabled)
  BY <1>0, <1>2, OnlyPassesLaunch DEF FleetBounded
<1> QED BY <1>1, <1>2

\* Only the end of a dial makes a bucket longer ...
LEMMA OnlyDialsPark ==
  ASSUME Inv, [AnyStep]_vars, \A w \in Workers : ~DialParked(w)
  PROVE  \A p \in Routes : Len(ready'[p]) \in Nat /\ Len(ready'[p]) <= Len(ready[p])
<1>0. ready \in [Routes -> Seq(Conn)] /\ ready' \in [Routes -> Seq(Conn)]
  BY StepKeepsInv DEF Inv, TypeOK
<1>1. CASE UNCHANGED ready
  BY <1>0, <1>1
<1>2. CASE SweepPass
  BY <1>0, <1>2, PassEffects
<1>3. CASE StopClose
  BY <1>0, <1>3 DEF StopClose
<1>4. ASSUME NEW p \in Routes, Request(p), NEW q \in Routes
      PROVE  Len(ready'[q]) \in Nat /\ Len(ready'[q]) <= Len(ready[q])
  <2>1. \/ ready'[q] = ready[q]
        \/ ready'[q] = <<>>
        \/ ready[q] # <<>> /\ ready'[q] = Tail(ready[q])
    BY <1>0, <1>4 DEF Request, BorrowCheck, BorrowTake, BorrowMiss, DiscardRoute, Borrowable, bucketVars
  <2>2. ready[q] \in Seq(Conn) /\ Len(ready[q]) \in Nat
    BY <1>0
  <2>3. ASSUME ready[q] # <<>>, ready'[q] = Tail(ready[q])
        PROVE  Len(ready'[q]) \in Nat /\ Len(ready'[q]) <= Len(ready[q])
    <3>1. Len(Tail(ready[q])) = Len(ready[q]) - 1 /\ Len(ready[q]) > 0
      BY <2>2, <2>3, HeadTailProperties
    <3> QED BY <2>2, <2>3, <3>1
  <2>4. CASE ready'[q] = <<>>
    BY <2>2, <2>4
  <2>5. CASE ready'[q] = ready[q]
    BY <2>2, <2>5
  <2> QED BY <2>1, <2>3, <2>4, <2>5
<1>5. UNCHANGED ready \/ SweepPass \/ StopClose \/ \E p \in Routes : Request(p)
  BY DEF AnyStep, PoolNext, Sweep, SweepLoad, SweepExit, SweepStopped, Reload, StopCancel,
     WorkerStep, WorkerExit, WakeUp, ClaimNothing, ClaimStamp, DialStart, DialFails,
     DialDiscarded, ClaimCheck, RotationStep, RaiseFlag, RaiseEpoch, ChangeEgress, Return,
     Health, BackoffOver, vars, bucketVars
<1> QED BY <1>1, <1>2, <1>3, <1>4, <1>5

\* The counts of parked connections, before and after a step.
LEMMA TotalsTyped ==
  ASSUME Inv, [AnyStep]_vars
  PROVE  /\ [p \in Routes |-> Len(ready[p])] \in [Routes -> Nat]
         /\ [p \in Routes |-> Len(ready'[p])] \in [Routes -> Nat]
         /\ TotalIdle = Total([p \in Routes |-> Len(ready[p])])
         /\ TotalIdle' = Total([p \in Routes |-> Len(ready'[p])])
         /\ TotalIdle \in Nat /\ TotalIdle' \in Nat
<1> DEFINE f == [p \in Routes |-> Len(ready[p])]
           g == [p \in Routes |-> Len(ready'[p])]
<1>1. f \in [Routes -> Nat] /\ g \in [Routes -> Nat]
  <2>1. ready \in [Routes -> Seq(Conn)] /\ ready' \in [Routes -> Seq(Conn)]
    BY StepKeepsInv DEF Inv, TypeOK
  <2> QED BY <2>1
<1>2. TotalIdle = Total(f) /\ TotalIdle' = Total(g)
  BY DEF TotalIdle, Total, Entries
<1>3. Total(f) \in Nat /\ Total(g) \in Nat
  <2> HIDE DEF f, g
  <2> QED BY <1>1, EntriesFinite
<1> QED BY <1>1, <1>2, <1>3

LEMMA OnlyDialsAdd ==
  ASSUME Inv, [AnyStep]_vars, \A w \in Workers : ~DialParked(w)
  PROVE  TotalIdle' <= TotalIdle
<1> DEFINE f == [p \in Routes |-> Len(ready[p])]
           g == [p \in Routes |-> Len(ready'[p])]
<1>1. \A p \in Routes : g[p] <= f[p]
  BY OnlyDialsPark
<1>2. /\ f \in [Routes -> Nat] /\ g \in [Routes -> Nat]
      /\ TotalIdle = Total(f) /\ TotalIdle' = Total(g)
  BY TotalsTyped
<1> HIDE DEF f, g
<1> QED BY <1>1, <1>2, TotalMonotone

\* ... by one connection, and only within the bounds it was dialed under.
LEMMA ParkingIsBounded ==
  ASSUME Inv, NEW w \in Workers, DialParked(w)
  PROVE  LET r == task[w].route
             c == task[w].cfg
         IN  /\ r \in Routes /\ c \in Configs
             /\ Len(ready[r]) < c.maxIdle /\ TotalIdle < c.maxTotal
             /\ \A p \in Routes : Len(ready'[p]) = IF p = r THEN Len(ready[p]) + 1 ELSE Len(ready[p])
<1> DEFINE r == task[w].route
<1>1. /\ r \in Routes /\ task[w].cfg \in Configs
      /\ task[w].cfg.maxIdle \in Nat /\ task[w].cfg.maxTotal \in Nat
  BY LandingIsReserved, BoundsOf, SettingsTyped DEF DialParked, MoveOn, Move, Task
<1>2. Len(ready[r]) < task[w].cfg.maxIdle /\ TotalIdle < task[w].cfg.maxTotal
  <2>1. TotalIdle \in Nat
    <3>1. [p \in Routes |-> Len(ready[p])] \in [Routes -> Nat]
      BY BoundsOf
    <3> QED BY <3>1, EntriesFinite DEF TotalIdle
  <2>2. ~(Len(ready[r]) >= task[w].cfg.maxIdle) /\ ~(TotalIdle >= task[w].cfg.maxTotal)
    BY DEF DialParked, NoPlace
  <2>3. Len(ready[r]) \in Nat
    BY <1>1, BoundsOf
  <2>4. \A m, n \in Nat : ~(m >= n) => m < n
    OBVIOUS
  <2> QED BY <1>1, <2>1, <2>2, <2>3, <2>4
<1>3. PICK c : ready' = [ready EXCEPT ![r] = Append(@, c)] /\ c \in Conn
  <2>1. PICK e \in task[w].egress..egress[r] :
          ready' = [ready EXCEPT ![r] = Append(@, [epoch |-> task[w].epoch, egress |-> e])]
    BY DEF DialParked
  <2>2. task[w] \in Task /\ egress[r] \in Nat
    BY <1>1 DEF Inv, TypeOK
  <2>3. task[w].epoch \in Nat /\ e \in Nat
    <3>1. task[w].epoch \in Nat /\ task[w].egress \in Nat
      BY <2>2 DEF Task
    <3> HIDE DEF r
    <3> QED BY <2>2, <3>1
  <2>4. [epoch |-> task[w].epoch, egress |-> e] \in Conn
    BY <2>3 DEF Conn
  <2> QED BY <2>1, <2>4
<1>4. ready \in [Routes -> Seq(Conn)]
  BY BoundsOf
<1>5. Len(Append(ready[r], c)) = Len(ready[r]) + 1
  BY <1>1, <1>3, <1>4
<1>6. \A p \in Routes : Len(ready'[p]) = IF p = r THEN Len(ready[p]) + 1 ELSE Len(ready[p])
  BY <1>3, <1>4, <1>5
<1> QED BY <1>1, <1>2, <1>6

LEMMA DialsAddOne ==
  ASSUME Inv, [AnyStep]_vars, NEW w \in Workers, DialParked(w)
  PROVE  TotalIdle' = TotalIdle + 1
<1> DEFINE f == [p \in Routes |-> Len(ready[p])]
           g == [p \in Routes |-> Len(ready'[p])]
           r == task[w].route
<1>1. /\ r \in Routes
      /\ \A p \in Routes : Len(ready'[p]) = IF p = r THEN Len(ready[p]) + 1 ELSE Len(ready[p])
  BY ParkingIsBounded
<1>2. g = [f EXCEPT ![r] = @ + 1]
  <2> HIDE DEF r
  <2> QED BY <1>1
<1>3. f \in [Routes -> Nat] /\ TotalIdle = Total(f) /\ TotalIdle' = Total(g)
  BY TotalsTyped
<1> HIDE DEF f, g, r
<1> QED BY <1>1, <1>2, <1>3, TotalPlusOne

LEMMA IdleStays ==
  ASSUME Inv, [AnyStep]_vars, cfg' = cfg, Settled, IdleBounded
  PROVE  IdleBounded'
<1>0. /\ cfg.maxIdle \in Nat /\ cfg.maxTotal \in Nat /\ TotalIdle \in Nat /\ TotalIdle' \in Nat
      /\ \A p \in Routes : Len(ready[p]) \in Nat /\ Len(ready[p]) <= cfg.maxIdle
      /\ TotalIdle <= cfg.maxTotal
  BY BoundsOf, TotalsTyped DEF IdleBounded
<1>1. CASE \A w \in Workers : ~DialParked(w)
  <2>1. TotalIdle' <= cfg.maxTotal
    BY <1>0, <1>1, OnlyDialsAdd
  <2>2. \A p \in Routes : Len(ready'[p]) <= cfg.maxIdle
    BY <1>0, <1>1, OnlyDialsPark
  <2> QED BY <2>1, <2>2 DEF IdleBounded
<1>2. ASSUME NEW w \in Workers, DialParked(w) PROVE IdleBounded'
  <2> DEFINE r == task[w].route
  <2>1. /\ r \in Routes /\ Len(ready[r]) < cfg.maxIdle /\ TotalIdle < cfg.maxTotal
        /\ \A p \in Routes : Len(ready'[p]) = IF p = r THEN Len(ready[p]) + 1 ELSE Len(ready[p])
    <3>1. task[w].cfg = cfg
      BY <1>2 DEF DialParked, MoveOn, Move, Settled
    <3> QED BY <1>2, <3>1, ParkingIsBounded
  <2> HIDE DEF r
  <2>2. TotalIdle' <= cfg.maxTotal
    BY <1>0, <1>2, <2>1, DialsAddOne
  <2>3. \A p \in Routes : Len(ready'[p]) <= cfg.maxIdle
    BY <1>0, <2>1
  <2> QED BY <2>2, <2>3 DEF IdleBounded
<1> QED BY <1>1, <1>2

\* Only a claim puts a dial in the air ...
LEMMA OnlyClaimsFly ==
  ASSUME Inv, [AnyStep]_vars, \A w \in Workers : ~ClaimStamp(w)
  PROVE  \A p \in Routes : flying'[p] <= flying[p]
<1>0. flying \in [Routes -> Nat]
  BY BoundsOf
<1>1. CASE UNCHANGED flying
  BY <1>0, <1>1
<1>2. ASSUME NEW w \in Workers, worker[w] = "dialing", Land(task[w].route)
      PROVE  \A p \in Routes : flying'[p] <= flying[p]
  <2> DEFINE r == task[w].route
  <2>1. r \in Routes /\ flying[r] > 0
    BY <1>2, LandingIsReserved
  <2>2. flying' = [flying EXCEPT ![r] = @ - 1]
    BY <1>2 DEF Land
  <2> HIDE DEF r
  <2> QED BY <1>0, <2>1, <2>2
<1>3. UNCHANGED flying \/ \E w \in Workers : worker[w] = "dialing" /\ Land(task[w].route)
  BY DEF AnyStep, PoolNext, Sweep, SweepLoad, SweepExit, SweepStopped, SweepPass, Reload, StopCancel,
     StopClose, WorkerStep, WorkerExit, WakeUp, ClaimNothing, DialStart, DialFails, DialDiscarded,
     DialParked, ClaimCheck, MoveOn, Move, RotationStep, RaiseFlag, RaiseEpoch, ChangeEgress, Return,
     Request, BorrowCheck, BorrowTake, BorrowMiss, DiscardRoute, Health, BackoffOver, vars, bucketVars
<1> QED BY <1>1, <1>2, <1>3

\* ... and only a pass schedules one.
LEMMA OnlyPassesSchedule ==
  ASSUME Inv, [AnyStep]_vars, ~SweepPass
  PROVE  \A p \in Routes : pending'[p] <= pending[p]
<1>0. pending \in [Routes -> Nat]
  BY BoundsOf
<1>1. CASE UNCHANGED pending
  BY <1>0, <1>1
<1>2. CASE StopClose
  BY <1>0, <1>2 DEF StopClose
<1>3. CASE \E r : pending' = [pending EXCEPT ![r] = @ - 1]
  BY <1>0, <1>3
<1>4. UNCHANGED pending \/ StopClose \/ \E r : pending' = [pending EXCEPT ![r] = @ - 1]
  BY DEF AnyStep, PoolNext, Sweep, SweepLoad, SweepExit, SweepStopped, Reload, StopCancel,
     WorkerStep, WorkerExit, WakeUp, ClaimNothing, ClaimStamp, DialStart, DialFails, DialDiscarded,
     DialParked, ClaimCheck, RotationStep, RaiseFlag, RaiseEpoch, ChangeEgress, Return,
     Request, BorrowCheck, BorrowTake, BorrowMiss, DiscardRoute, Health, BackoffOver, vars, bucketVars
<1> QED BY <1>1, <1>2, <1>3, <1>4

\* A claim was in its critical section before a step, or the step began it.
LEMMA StampBefore ==
  ASSUME Inv, [AnyStep]_vars, NEW v \in Workers, worker'[v] = "stamping"
  PROVE  \/ worker[v] = "stamping" /\ task'[v] = task[v]
         \/ \E p \in Routes : ClaimCheck(v, p)
<1>0. worker \in [Workers -> WorkerStage] /\ task \in [Workers -> Task]
  BY BoundsOf
<1>1. CASE UNCHANGED <<worker, task>>
  BY <1>1
<1>2. CASE SweepPass
  <2>1. task' = task
    BY <1>2 DEF SweepPass
  <2> QED BY <1>2, <2>1, PassEffects
<1>3. ASSUME NEW w \in Workers, WorkerStep(w)
      PROVE  \/ worker[v] = "stamping" /\ task'[v] = task[v]
             \/ \E p \in Routes : ClaimCheck(v, p)
  <2>1. CASE v # w
    <3>1. worker'[v] = worker[v] /\ task'[v] = task[v]
      BY <1>0, <1>3, <2>1 DEF WorkerStep, WorkerExit, WakeUp, ClaimNothing, ClaimStamp, DialStart,
         DialFails, DialDiscarded, DialParked, ClaimCheck, Move, MoveOn
    <3> QED BY <3>1
  <2>2. CASE v = w /\ \A p \in Routes : ~ClaimCheck(w, p)
    <3>1. worker'[w] # "stamping"
      BY <1>0, <1>3, <2>2 DEF WorkerStep, WorkerExit, WakeUp, ClaimNothing, ClaimStamp, DialStart,
         DialFails, DialDiscarded, DialParked, Move, MoveOn
    <3> QED BY <2>2, <3>1
  <2> QED BY <2>1, <2>2
<1>4. UNCHANGED <<worker, task>> \/ SweepPass \/ \E w \in Workers : WorkerStep(w)
  BY DEF AnyStep, PoolNext, Sweep, SweepLoad, SweepExit, SweepStopped, Reload, StopCancel, StopClose,
     RotationStep, RaiseFlag, RaiseEpoch, ChangeEgress, Return, Request, BorrowCheck, BorrowTake,
     BorrowMiss, DiscardRoute, Health, BackoffOver, vars, workVars
<1> QED BY <1>1, <1>2, <1>3, <1>4

LEMMA AirStays ==
  ASSUME Inv, [AnyStep]_vars, cfg' = cfg, AirBounded
  PROVE  AirBounded'
<1>0. /\ cfg.perRoute \in Nat /\ flying \in [Routes -> Nat]
      /\ worker \in [Workers -> WorkerStage] /\ task \in [Workers -> Task]
      /\ flying' \in [Routes -> Nat]
  <2>1. flying' \in [Routes -> Nat]
    BY StepKeepsInv DEF Inv, TypeOK
  <2> QED BY <2>1, BoundsOf
<1> SUFFICES ASSUME cfg.perRoute > 0
             PROVE  /\ \A p \in Routes : flying'[p] <= cfg.perRoute
                    /\ \A w \in Workers : worker'[w] = "stamping" => flying'[task'[w].route] < cfg.perRoute
  BY <1>0 DEF AirBounded
<1>1. /\ \A p \in Routes : flying[p] <= cfg.perRoute
      /\ \A w \in Workers : worker[w] = "stamping" => flying[task[w].route] < cfg.perRoute
  BY DEF AirBounded
<1>2. ASSUME NEW v \in Workers, ClaimStamp(v)
      PROVE  /\ \A p \in Routes : flying'[p] <= cfg.perRoute
             /\ \A w \in Workers : worker'[w] # "stamping"
  <2> DEFINE r == task[v].route
  <2>1. /\ worker[v] = "stamping" /\ worker' = [worker EXCEPT ![v] = "claimed"]
        /\ flying' = [flying EXCEPT ![r] = @ + 1]
    BY <1>2 DEF ClaimStamp, Move
  <2>2. r \in Routes /\ flying[r] < cfg.perRoute /\ mu = v
    BY <1>1, <2>1 DEF Inv, Owned
  <2>3. \A w \in Workers : worker'[w] # "stamping"
    BY <1>0, <2>1, <2>2 DEF Inv, Owned
  <2>4. \A p \in Routes : flying'[p] <= cfg.perRoute
    <3> HIDE DEF r
    <3> QED BY <1>0, <1>1, <2>1, <2>2
  <2> QED BY <2>3, <2>4
<1>3. ASSUME \A w \in Workers : ~ClaimStamp(w)
      PROVE  /\ \A p \in Routes : flying'[p] <= cfg.perRoute
             /\ \A w \in Workers : worker'[w] = "stamping" => flying'[task'[w].route] < cfg.perRoute
  <2>1. \A p \in Routes : flying'[p] <= flying[p]
    BY <1>0, <1>3, OnlyClaimsFly
  <2>2. ASSUME NEW w \in Workers, worker'[w] = "stamping"
        PROVE  flying'[task'[w].route] < cfg.perRoute
    <3>1. PICK q \in Routes : q = task'[w].route /\ flying[q] < cfg.perRoute
      <4>1. CASE worker[w] = "stamping" /\ task'[w] = task[w]
        BY <1>1, <4>1 DEF Inv, Owned
      <4>2. ASSUME NEW p \in Routes, ClaimCheck(w, p)
            PROVE  p = task'[w].route /\ flying[p] < cfg.perRoute
        BY <1>0, <4>2 DEF ClaimCheck, Claimable, Task
      <4> QED BY <1>0, <2>2, <4>1, <4>2, StampBefore
    <3> QED BY <1>0, <2>1, <3>1
  <2>3. \A p \in Routes : flying'[p] <= cfg.perRoute
    BY <1>0, <1>1, <2>1
  <2> QED BY <2>2, <2>3
<1> QED BY <1>2, <1>3

\* A pass tops a route up to the minimum of its settings and no further.
LEMMA PassOwesTheMinimum ==
  ASSUME Inv, SweepPass, NEW p \in Routes
  PROVE  \/ Len(ready'[p]) + pending'[p] + flying[p] <= Len(ready[p]) + pending[p] + flying[p]
         \/ Len(ready'[p]) + pending'[p] + flying[p] <= sweepCfg.minIdle
<1>0. /\ sweepCfg.minIdle \in Nat /\ Len(ready[p]) \in Nat /\ pending[p] \in Nat
      /\ flying[p] \in Nat /\ pending \in [Routes -> Nat]
  BY BoundsOf, SettingsTyped DEF Inv, TypeOK
<1>1. Len(ready'[p]) \in Nat /\ Len(ready'[p]) <= Len(ready[p])
  BY PassEffects
<1>2. CASE sweepCfg.enabled
  <2>1. PICK add \in [Routes -> 0..sweepCfg.minIdle] :
          /\ pending' = [q \in Routes |-> pending[q] + add[q]]
          /\ add[p] <= Owed(p, ready'[p]) \/ add[p] <= 0
    BY <1>0, <1>2 DEF SweepPass, Scheduled
  <2>2. add[p] \in Nat /\ pending'[p] = pending[p] + add[p]
    BY <1>0, <2>1
  <2>3. add[p] = 0 \/ add[p] <= sweepCfg.minIdle - (Len(ready'[p]) + pending[p] + flying[p])
    <3>1. Owed(p, ready'[p]) \in {0, sweepCfg.minIdle - (Len(ready'[p]) + pending[p] + flying[p])}
      BY <1>0 DEF Owed
    <3> QED BY <2>1, <2>2, <3>1
  <2>4. CASE add[p] = 0
    <3>1. pending'[p] = pending[p]
      BY <1>0, <2>2, <2>4
    <3> QED BY <1>0, <1>1, <3>1
  <2>5. CASE add[p] <= sweepCfg.minIdle - (Len(ready'[p]) + pending[p] + flying[p])
    <3>1. \A l, m, n, a, b \in Nat : a <= b - (l + m + n) => l + (m + a) + n <= b
      OBVIOUS
    <3>2. Len(ready'[p]) + (pending[p] + add[p]) + flying[p] <= sweepCfg.minIdle
      BY <1>0, <1>1, <2>2, <2>5, <3>1
    <3> QED BY <2>2, <3>2
  <2> QED BY <2>3, <2>4, <2>5
<1>3. CASE ~sweepCfg.enabled
  <2>1. pending' = pending
    BY <1>3 DEF SweepPass
  <2> QED BY <1>0, <1>1, <2>1
<1> QED BY <1>2, <1>3

LEMMA OwedTyped ==
  ASSUME Inv, [AnyStep]_vars, NEW p \in Routes
  PROVE  /\ Len(ready[p]) + pending[p] + flying[p] \in Nat
         /\ Len(ready'[p]) + pending'[p] + flying'[p] \in Nat
<1>1. /\ ready \in [Routes -> Seq(Conn)] /\ pending \in [Routes -> Nat] /\ flying \in [Routes -> Nat]
      /\ ready' \in [Routes -> Seq(Conn)] /\ pending' \in [Routes -> Nat] /\ flying' \in [Routes -> Nat]
  BY StepKeepsInv DEF Inv, TypeOK
<1>2. /\ Len(ready[p]) \in Nat /\ pending[p] \in Nat /\ flying[p] \in Nat
      /\ Len(ready'[p]) \in Nat /\ pending'[p] \in Nat /\ flying'[p] \in Nat
  BY <1>1
<1>3. \A a, b, c \in Nat : a + b + c \in Nat
  OBVIOUS
<1> QED BY <1>2, <1>3

\* Between passes a connection only moves from scheduled to flying to parked.
LEMMA NothingElseOwes ==
  ASSUME Inv, [AnyStep]_vars, ~SweepPass, NEW p \in Routes
  PROVE  Len(ready'[p]) + pending'[p] + flying'[p] <= Len(ready[p]) + pending[p] + flying[p]
<1>0. /\ ready \in [Routes -> Seq(Conn)] /\ pending \in [Routes -> Nat] /\ flying \in [Routes -> Nat]
      /\ ready' \in [Routes -> Seq(Conn)] /\ pending' \in [Routes -> Nat] /\ flying' \in [Routes -> Nat]
  <2>1. ready' \in [Routes -> Seq(Conn)] /\ pending' \in [Routes -> Nat] /\ flying' \in [Routes -> Nat]
    BY StepKeepsInv DEF Inv, TypeOK
  <2> QED BY <2>1, BoundsOf
<1>1. /\ Len(ready[p]) \in Nat /\ pending[p] \in Nat /\ flying[p] \in Nat
      /\ Len(ready'[p]) \in Nat /\ pending'[p] \in Nat /\ flying'[p] \in Nat
  BY <1>0
<1>2. ASSUME NEW w \in Workers, ClaimStamp(w)
      PROVE  Len(ready'[p]) + pending'[p] + flying'[p] <= Len(ready[p]) + pending[p] + flying[p]
  <2> DEFINE r == task[w].route
  <2>1. /\ pending' = [pending EXCEPT ![r] = @ - 1] /\ flying' = [flying EXCEPT ![r] = @ + 1]
        /\ ready' = ready
    BY <1>2 DEF ClaimStamp
  <2> HIDE DEF r
  <2>2. CASE p = r
    <3>1. pending'[p] = pending[p] - 1 /\ flying'[p] = flying[p] + 1
      BY <1>0, <2>1, <2>2
    <3> QED BY <1>0, <1>1, <2>1, <3>1
  <2>3. CASE p # r
    <3>1. pending'[p] = pending[p] /\ flying'[p] = flying[p]
      BY <1>0, <2>1, <2>3
    <3> QED BY <1>1, <2>1, <3>1
  <2> QED BY <2>2, <2>3
<1>3. ASSUME NEW w \in Workers, DialParked(w)
      PROVE  Len(ready'[p]) + pending'[p] + flying'[p] <= Len(ready[p]) + pending[p] + flying[p]
  <2> DEFINE r == task[w].route
  <2>1. pending' = pending /\ flying' = [flying EXCEPT ![r] = @ - 1]
    BY <1>3 DEF DialParked, Land
  <2>2. Len(ready'[p]) = IF p = r THEN Len(ready[p]) + 1 ELSE Len(ready[p])
    BY <1>3, ParkingIsBounded
  <2> HIDE DEF r
  <2>3. CASE p = r
    <3>1. flying'[p] = flying[p] - 1 /\ Len(ready'[p]) = Len(ready[p]) + 1
      BY <1>0, <2>1, <2>2, <2>3
    <3> QED BY <1>0, <1>1, <2>1, <3>1
  <2>4. CASE p # r
    <3>1. flying'[p] = flying[p] /\ Len(ready'[p]) = Len(ready[p])
      BY <1>0, <2>1, <2>2, <2>4
    <3> QED BY <1>1, <2>1, <3>1
  <2> QED BY <2>3, <2>4
<1>4. CASE \A w \in Workers : ~ClaimStamp(w) /\ ~DialParked(w)
  <2>1. Len(ready'[p]) <= Len(ready[p]) /\ pending'[p] <= pending[p] /\ flying'[p] <= flying[p]
    BY <1>0, <1>4, OnlyDialsPark, OnlyPassesSchedule, OnlyClaimsFly
  <2> QED BY <1>0, <1>1, <2>1
<1> QED BY <1>2, <1>3, <1>4

LEMMA OwedStays ==
  ASSUME Inv, [AnyStep]_vars, cfg' = cfg, Settled, OwedBounded
  PROVE  OwedBounded'
<1> SUFFICES ASSUME NEW p \in Routes
             PROVE  Len(ready'[p]) + pending'[p] + flying'[p] <= cfg.minIdle
  BY DEF OwedBounded
<1>0. /\ Len(ready[p]) + pending[p] + flying[p] <= cfg.minIdle /\ cfg.minIdle \in Nat
      /\ Len(ready[p]) + pending[p] + flying[p] \in Nat
      /\ Len(ready'[p]) + pending'[p] + flying'[p] \in Nat
  BY OwedTyped, BoundsOf DEF OwedBounded
<1>1. CASE SweepPass
  <2>1. flying' = flying /\ sweepCfg = cfg
    BY <1>1 DEF SweepPass, Settled
  <2>2. PICK owed : owed = Len(ready'[p]) + pending'[p] + flying'[p]
    OBVIOUS
  <2>3. owed <= Len(ready[p]) + pending[p] + flying[p] \/ owed <= cfg.minIdle
    BY <1>1, <2>1, <2>2, PassOwesTheMinimum
  <2> QED BY <1>0, <2>2, <2>3
<1>2. CASE ~SweepPass
  BY <1>0, <1>2, NothingElseOwes
<1> QED BY <1>1, <1>2

LEMMA InitBounded == Init => Bounded
<1> SUFFICES ASSUME Init PROVE Bounded
  OBVIOUS
<1>0. /\ cfg \in Configs /\ cfg.maxIdle \in Nat /\ cfg.maxTotal \in Nat /\ cfg.maxDials \in Nat
      /\ cfg.perRoute \in Nat /\ cfg.minIdle \in Nat
  BY InitInv, BoundsOf
<1>1. Settled /\ AirBounded
  BY <1>0 DEF Init, Settled, AirBounded
<1>2. FleetBounded
  <2>1. Workers \ Running({"off"}) = {}
    BY DEF Init, Running
  <2> QED BY <1>0, <2>1, FS_EmptySet DEF FleetBounded
<1>3. IdleBounded
  <2>1. \A p \in Routes : Len(ready[p]) = 0
    BY DEF Init
  <2>2. TotalIdle = 0
    <3>1. Entries([p \in Routes |-> Len(ready[p])]) = {}
      BY <2>1 DEF Entries
    <3> QED BY <3>1, FS_EmptySet DEF TotalIdle, Total
  <2> QED BY <1>0, <2>1, <2>2 DEF IdleBounded
<1>4. OwedBounded
  BY <1>0 DEF Init, OwedBounded
<1> QED BY <1>1, <1>2, <1>3, <1>4 DEF Bounded

\* The dials claimed or in the air are fewer than the workers launched.
LEMMA BusyFewer ==
  /\ Cardinality(Running({"claimed", "dialing"})) \in Nat
  /\ Cardinality(Workers \ Running({"off"})) \in Nat
  /\ Cardinality(Running({"claimed", "dialing"})) <= Cardinality(Workers \ Running({"off"}))
<1> DEFINE On == Workers \ Running({"off"})
           Busy == Running({"claimed", "dialing"})
<1>1. Busy \in SUBSET On /\ On \in SUBSET Workers
  BY DEF Running
<1> HIDE DEF On, Busy
<1>2. IsFiniteSet(On)
  BY <1>1, BoundsTyped, FS_Subset
<1>3. IsFiniteSet(Busy) /\ Cardinality(Busy) <= Cardinality(On)
  BY <1>1, <1>2, FS_Subset
<1>4. Cardinality(Busy) \in Nat /\ Cardinality(On) \in Nat
  BY <1>2, <1>3, FS_CardinalityType
<1> QED BY <1>3, <1>4 DEF On, Busy

LEMMA BoundedImplies == Inv /\ Bounded => WithinBounds
<1> SUFFICES ASSUME Inv, Bounded PROVE WithinBounds
  OBVIOUS
<1>1. Cardinality(Running({"claimed", "dialing"})) <= cfg.maxDials
  BY BoundsOf, BusyFewer DEF Bounded, FleetBounded
<1> QED BY <1>1 DEF Bounded, IdleBounded, AirBounded, OwedBounded, WithinBounds

LEMMA BoundedIs ==
  ASSUME Inv
  PROVE  Bounded <=> WithinBounds /\ NothingOlder
<1>1. Bounded => WithinBounds /\ NothingOlder
  BY BoundedImplies DEF Bounded, Settled, FleetBounded, AirBounded, NothingOlder
<1>2. WithinBounds /\ NothingOlder => Bounded
  BY DEF Bounded, Settled, FleetBounded, IdleBounded, AirBounded, OwedBounded, WithinBounds,
     NothingOlder
<1> QED BY <1>1, <1>2

LEMMA BoundedStays == Inv /\ Bounded /\ [AnyStep]_vars /\ cfg' = cfg => Bounded'
BY SettledStays, FleetStays, IdleStays, AirStays, OwedStays DEF Bounded

\* With one configuration the pool never parks, dials or owes more than its
\* documented bounds (docs/warm-pool.md, warmpool.go sweep and claimTask).
THEOREM PoolStaysWithinBounds == FixedSpec => []WithinBounds
<1>1. [PoolNext \/ StopCancel \/ StopClose]_vars => [AnyStep]_vars /\ cfg' = cfg
  BY DEF AnyStep, PoolNext, Sweep, SweepLoad, SweepExit, SweepStopped, SweepPass, StopCancel,
     StopClose, WorkerStep, WorkerExit, WakeUp, ClaimNothing, ClaimStamp, DialStart, DialFails,
     DialDiscarded, DialParked, ClaimCheck, RotationStep, RaiseFlag, RaiseEpoch, ChangeEgress,
     Return, Request, BorrowCheck, BorrowTake, BorrowMiss, DiscardRoute, Health, BackoffOver,
     vars, storeVars
<1>2. Inv /\ [PoolNext \/ StopCancel \/ StopClose]_vars => Inv'
  BY <1>1, StepKeepsInv
<1>3. Inv /\ Bounded /\ [PoolNext \/ StopCancel \/ StopClose]_vars => Bounded'
  BY <1>1, BoundedStays
<1>4. Init => Inv /\ Bounded
  BY InitInv, InitBounded
<1>5. Inv /\ Bounded => WithinBounds
  BY BoundedImplies
<1> QED BY <1>2, <1>3, <1>4, <1>5, PTL DEF FixedSpec

\* Whatever the settings were before, once the bounds of the present ones hold
\* and nothing in progress goes by older ones, no step but a reload breaks them
\* (warmpool.go sweep, claimTask, runDial).
THEOREM LoweredBoundsReturn == Spec => BoundsReturn
<1>1. Inv /\ [PoolNext \/ Reload \/ StopCancel \/ StopClose]_vars => Inv'
  BY StepKeepsInv DEF AnyStep
<1>2. Inv => (Bounded <=> WithinBounds /\ NothingOlder)
  BY BoundedIs
<1>3. Inv' => (Bounded' <=> WithinBounds' /\ NothingOlder')
  BY <1>2, PTL
<1>4. Inv /\ [PoolNext \/ Reload \/ StopCancel \/ StopClose]_vars
        => [WithinBounds /\ NothingOlder /\ cfg' = cfg => WithinBounds' /\ NothingOlder']_vars
  <2> SUFFICES ASSUME Inv, [AnyStep]_vars, WithinBounds, NothingOlder, cfg' = cfg
               PROVE  WithinBounds' /\ NothingOlder'
    BY DEF AnyStep
  <2>1. Bounded'
    BY BoundedIs, BoundedStays
  <2>2. Inv'
    BY StepKeepsInv
  <2> QED BY <1>3, <2>1, <2>2
<1> QED BY InitInv, <1>1, <1>4, PTL DEF Spec, BoundsReturn

-----------------------------------------------------------------------------
(* The bounds across reloads.                                              *)

\* Each bound as the most generous of the published settings has it.
IdleWithinSome  == \A p \in Routes : \E c \in Configs : Len(ready[p]) <= c.maxIdle
TotalWithinSome == \E c \in Configs : TotalIdle <= c.maxTotal
FleetWithinSome == \E c \in Configs : Cardinality(Workers \ Running({"off"})) <= c.maxDials
OwedWithinSome  == \A p \in Routes : \E c \in Configs :
                     Len(ready[p]) + pending[p] + flying[p] <= c.minIdle
AirWithinSome   == \A p \in Routes : \E c \in Configs : c.perRoute = 0 \/ flying[p] <= c.perRoute

\* A claim passed the check against the settings of its moment.
RoomWithinSome ==
  \A w \in Workers : worker[w] = "stamping" =>
    \E c \in Configs : c.perRoute = 0 \/ flying[task[w].route] < c.perRoute

SomeBounded ==
  /\ IdleWithinSome /\ TotalWithinSome /\ FleetWithinSome /\ OwedWithinSome
  /\ AirWithinSome /\ RoomWithinSome

LEMMA IdleWithinSomeStays ==
  ASSUME Inv, [AnyStep]_vars, IdleWithinSome
  PROVE  IdleWithinSome'
<1> SUFFICES ASSUME NEW p \in Routes
             PROVE  \E c \in Configs : Len(ready'[p]) <= c.maxIdle
  BY DEF IdleWithinSome
<1>0. PICK c \in Configs : Len(ready[p]) <= c.maxIdle
  BY DEF IdleWithinSome
<1>1. Len(ready[p]) \in Nat /\ c.maxIdle \in Nat
  BY BoundsOf, SettingsTyped
<1>2. CASE \A w \in Workers : ~DialParked(w)
  <2>1. Len(ready'[p]) \in Nat /\ Len(ready'[p]) <= Len(ready[p])
    BY <1>2, OnlyDialsPark
  <2> QED BY <1>0, <1>1, <2>1
<1>3. ASSUME NEW w \in Workers, DialParked(w)
      PROVE  \E d \in Configs : Len(ready'[p]) <= d.maxIdle
  <2>1. PICK d \in Configs : d = task[w].cfg /\ d.maxIdle \in Nat
    BY <1>3, ParkingIsBounded, SettingsTyped
  <2>2. \/ Len(ready'[p]) = Len(ready[p])
        \/ Len(ready'[p]) = Len(ready[p]) + 1 /\ Len(ready[p]) < d.maxIdle
    BY <1>3, <2>1, ParkingIsBounded
  <2> QED BY <1>0, <1>1, <2>1, <2>2
<1> QED BY <1>2, <1>3

LEMMA TotalWithinSomeStays ==
  ASSUME Inv, [AnyStep]_vars, TotalWithinSome
  PROVE  TotalWithinSome'
<1>0. PICK c \in Configs : TotalIdle <= c.maxTotal
  BY DEF TotalWithinSome
<1>1. TotalIdle \in Nat /\ TotalIdle' \in Nat /\ c.maxTotal \in Nat
  BY TotalsTyped, SettingsTyped
<1>2. CASE \A w \in Workers : ~DialParked(w)
  <2>1. TotalIdle' <= TotalIdle
    BY <1>2, OnlyDialsAdd
  <2> QED BY <1>0, <1>1, <2>1 DEF TotalWithinSome
<1>3. ASSUME NEW w \in Workers, DialParked(w) PROVE TotalWithinSome'
  <2>1. PICK d \in Configs : d = task[w].cfg /\ d.maxTotal \in Nat
    BY <1>3, ParkingIsBounded, SettingsTyped
  <2>2. TotalIdle' = TotalIdle + 1
    BY <1>3, DialsAddOne
  <2>3. TotalIdle < d.maxTotal
    BY <1>3, <2>1, ParkingIsBounded
  <2> QED BY <1>1, <2>1, <2>2, <2>3 DEF TotalWithinSome
<1> QED BY <1>2, <1>3

LEMMA FleetWithinSomeStays ==
  ASSUME Inv, [AnyStep]_vars, FleetWithinSome
  PROVE  FleetWithinSome'
<1>0. PICK c \in Configs : Cardinality(Workers \ Running({"off"})) <= c.maxDials
  BY DEF FleetWithinSome
<1>1. PICK d \in Configs : d = sweepCfg
  BY DEF Inv, TypeOK
<1>2. c.maxDials \in Nat /\ d.maxDials \in Nat
  BY SettingsTyped
<1>3. CASE SweepPass /\ sweepCfg.enabled
  <2>1. Launch(d.maxDials)
    BY <1>1, <1>3 DEF SweepPass
  <2>2. \/ Cardinality(Workers \ Running({"off"}))' <= c.maxDials
        \/ Cardinality(Workers \ Running({"off"}))' <= d.maxDials
    BY <1>0, <1>2, <2>1, LaunchIsBounded
  <2> QED BY <2>2 DEF FleetWithinSome
<1>4. CASE ~(SweepPass /\ sweepCfg.enabled)
  <2>1. Cardinality(Workers \ Running({"off"}))' <= c.maxDials
    BY <1>0, <1>2, <1>4, OnlyPassesLaunch
  <2> QED BY <2>1 DEF FleetWithinSome
<1> QED BY <1>3, <1>4

LEMMA AirWithinSomeStays ==
  ASSUME Inv, [AnyStep]_vars, AirWithinSome, RoomWithinSome
  PROVE  AirWithinSome' /\ RoomWithinSome'
<1>0. /\ flying \in [Routes -> Nat] /\ flying' \in [Routes -> Nat]
      /\ worker \in [Workers -> WorkerStage] /\ task \in [Workers -> Task]
  BY BoundsOf, StepKeepsInv DEF Inv, TypeOK
<1>1. ASSUME NEW v \in Workers, ClaimStamp(v)
      PROVE  AirWithinSome' /\ RoomWithinSome'
  <2> DEFINE r == task[v].route
  <2>1. /\ worker[v] = "stamping" /\ worker' = [worker EXCEPT ![v] = "claimed"]
        /\ flying' = [flying EXCEPT ![r] = @ + 1]
    BY <1>1 DEF ClaimStamp, Move
  <2>2. r \in Routes /\ mu = v
    BY <2>1 DEF Inv, Owned
  <2>3. PICK c \in Configs : c.perRoute = 0 \/ flying[r] < c.perRoute
    BY <2>1 DEF RoomWithinSome
  <2>4. \A w \in Workers : worker'[w] # "stamping"
    BY <1>0, <2>1, <2>2 DEF Inv, Owned
  <2>5. ASSUME NEW p \in Routes
        PROVE  \E d \in Configs : d.perRoute = 0 \/ flying'[p] <= d.perRoute
    <3> HIDE DEF r
    <3>1. CASE p = r
      <4>1. flying'[p] = flying[r] + 1 /\ flying[r] \in Nat /\ c.perRoute \in Nat
        BY <1>0, <2>1, <2>2, <3>1, SettingsTyped
      <4> QED BY <2>3, <4>1
    <3>2. CASE p # r
      <4>1. flying'[p] = flying[p]
        BY <1>0, <2>1, <3>2
      <4> QED BY <4>1 DEF AirWithinSome
    <3> QED BY <3>1, <3>2
  <2> QED BY <2>4, <2>5 DEF AirWithinSome, RoomWithinSome
<1>2. ASSUME \A w \in Workers : ~ClaimStamp(w)
      PROVE  AirWithinSome' /\ RoomWithinSome'
  <2>1. \A p \in Routes : flying'[p] <= flying[p] /\ flying'[p] \in Nat /\ flying[p] \in Nat
    BY <1>0, <1>2, OnlyClaimsFly
  <2>2. \A c \in Configs : c.perRoute \in Nat
    BY SettingsTyped
  <2>3. AirWithinSome'
    <3> SUFFICES ASSUME NEW p \in Routes
                 PROVE  \E c \in Configs : c.perRoute = 0 \/ flying'[p] <= c.perRoute
      BY DEF AirWithinSome
    <3>1. PICK c \in Configs : c.perRoute = 0 \/ flying[p] <= c.perRoute
      BY DEF AirWithinSome
    <3> QED BY <2>1, <2>2, <3>1
  <2>4. ASSUME NEW w \in Workers, worker'[w] = "stamping"
        PROVE  \E c \in Configs : c.perRoute = 0 \/ flying'[task'[w].route] < c.perRoute
    <3>1. PICK q \in Routes, c \in Configs :
            q = task'[w].route /\ (c.perRoute = 0 \/ flying[q] < c.perRoute)
      <4>1. CASE worker[w] = "stamping" /\ task'[w] = task[w]
        BY <4>1 DEF Inv, Owned, RoomWithinSome
      <4>2. ASSUME NEW p \in Routes, ClaimCheck(w, p)
            PROVE  /\ p = task'[w].route /\ cfg \in Configs
                   /\ cfg.perRoute = 0 \/ flying[p] < cfg.perRoute
        BY <1>0, <4>2, BoundsOf DEF ClaimCheck, Claimable, Task
      <4> QED BY <2>4, <4>1, <4>2, StampBefore
    <3> QED BY <2>1, <2>2, <3>1
  <2> QED BY <2>3, <2>4 DEF RoomWithinSome
<1> QED BY <1>1, <1>2

LEMMA OwedWithinSomeStays ==
  ASSUME Inv, [AnyStep]_vars, OwedWithinSome
  PROVE  OwedWithinSome'
<1> SUFFICES ASSUME NEW p \in Routes
             PROVE  \E c \in Configs : Len(ready'[p]) + pending'[p] + flying'[p] <= c.minIdle
  BY DEF OwedWithinSome
<1>0. PICK c \in Configs : Len(ready[p]) + pending[p] + flying[p] <= c.minIdle
  BY DEF OwedWithinSome
<1>1. PICK owed \in Nat, owes \in Nat : /\ owed = Len(ready[p]) + pending[p] + flying[p]
                                        /\ owes = Len(ready'[p]) + pending'[p] + flying'[p]
  BY OwedTyped
<1>2. owes <= owed \/ owes <= sweepCfg.minIdle
  <2>1. CASE SweepPass
    <3>1. flying' = flying
      BY <2>1 DEF SweepPass
    <3> QED BY <1>1, <2>1, <3>1, PassOwesTheMinimum
  <2>2. CASE ~SweepPass
    BY <1>1, <2>2, NothingElseOwes
  <2> QED BY <2>1, <2>2
<1>3. c.minIdle \in Nat /\ sweepCfg \in Configs
  BY SettingsTyped DEF Inv, TypeOK
<1>4. owes <= c.minIdle \/ owes <= sweepCfg.minIdle
  BY <1>0, <1>1, <1>2, <1>3
<1> QED BY <1>1, <1>3, <1>4

LEMMA InitSomeBounded == Init => SomeBounded
<1> SUFFICES ASSUME Init PROVE SomeBounded
  OBVIOUS
<1>1. Inv /\ Bounded /\ cfg \in Configs /\ cfg.perRoute \in Nat
  BY InitInv, InitBounded, BoundsOf
<1>2. FleetWithinSome /\ IdleWithinSome /\ TotalWithinSome /\ OwedWithinSome
  BY <1>1 DEF Bounded, FleetBounded, IdleBounded, OwedBounded, FleetWithinSome, IdleWithinSome,
     TotalWithinSome, OwedWithinSome
<1>3. cfg.perRoute = 0 \/ cfg.perRoute > 0
  BY <1>1
<1>4. AirWithinSome /\ RoomWithinSome
  BY <1>1, <1>3 DEF Bounded, AirBounded, AirWithinSome, RoomWithinSome
<1> QED BY <1>2, <1>4 DEF SomeBounded

LEMMA SomeBoundedStays == Inv /\ SomeBounded /\ [AnyStep]_vars => SomeBounded'
BY IdleWithinSomeStays, TotalWithinSomeStays, FleetWithinSomeStays, OwedWithinSomeStays,
   AirWithinSomeStays DEF SomeBounded

LEMMA SomeBoundedImplies == Inv /\ SomeBounded => WithinSomeBounds
<1> SUFFICES ASSUME Inv, SomeBounded PROVE WithinSomeBounds
  OBVIOUS
<1>1. PICK c \in Configs : Cardinality(Workers \ Running({"off"})) <= c.maxDials
  BY DEF SomeBounded, FleetWithinSome
<1>2. c.maxDials \in Nat
  BY SettingsTyped
<1>3. Cardinality(Running({"claimed", "dialing"})) <= c.maxDials
  BY <1>1, <1>2, BusyFewer
<1> QED BY <1>3 DEF SomeBounded, IdleWithinSome, TotalWithinSome, OwedWithinSome, AirWithinSome,
        WithinSomeBounds

\* Across reloads no bound is exceeded that some published settings have: the
\* snapshots the sweeper, the claims and the dials go by never add up
\* (warmpool.go sweep, claimTask, runDial).
THEOREM PoolStaysWithinSomeBounds == Spec => []WithinSomeBounds
<1>1. Inv /\ [PoolNext \/ Reload \/ StopCancel \/ StopClose]_vars => Inv'
  BY StepKeepsInv DEF AnyStep
<1>2. Inv /\ SomeBounded /\ [PoolNext \/ Reload \/ StopCancel \/ StopClose]_vars => SomeBounded'
  BY SomeBoundedStays DEF AnyStep
<1> QED BY InitInv, InitSomeBounded, SomeBoundedImplies, <1>1, <1>2, PTL DEF Spec

\* Both halves of what reloads leave of the bounds (warmpool.go sweep,
\* claimTask, runDial).
THEOREM BoundsSurviveReloads == Spec => BoundsAcrossReloads
BY PoolStaysWithinSomeBounds, LoweredBoundsReturn DEF BoundsAcrossReloads
=============================================================================
