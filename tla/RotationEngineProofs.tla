------------------------- MODULE RotationEngineProofs -------------------------
(***************************************************************************)
(* Theorems about the rotation engine.                                     *)
(*                                                                         *)
(* RotationScheduler: for any number of routes, objects and procedures,    *)
(* under any reloads, an object never has two procedures, a slot that is   *)
(* taken has an owner, and max-concurrent is kept.                         *)
(*                                                                         *)
(* RetryPacing: for durations of any width (64 bits in the program), how   *)
(* long a route waits for its next procedure, and the growth curve of      *)
(* Backoff it shares with the cooldowns of the pool.                       *)
(***************************************************************************)
EXTENDS RotationScheduler, RetryPacing, NaturalFacts, FunctionTheorems

-----------------------------------------------------------------------------
(* What holds of the scheduler at every step.                              *)

Stages == Unfinished \cup {"idle", "done"}

\* What every variable the schedule depends on may hold.  A generation knows
\* no object that was not made.
Numbered ==
  /\ made \in [Ids -> Nat] /\ \A i \in Ids : made[i] \in 0..MaxObjects[i]
  /\ live \in [Ids -> Nat] /\ \A i \in Ids : live[i] \in 0..made[i]
  /\ loaded \in [Ids -> Nat] /\ \A i \in Ids : loaded[i] \in 0..made[i]
  /\ active \in [Ids -> Nat] /\ \A i \in Ids : active[i] \in 0..MaxObjects[i]
  /\ stage \in [Runs -> Stages]
  /\ engine \in {"load", "evaluate", "wait", "stopped"}
  /\ engine # "evaluate" => loaded = NoGeneration

\* Only an object that was made has procedures.
Started == \A r \in Runs : stage[r] # "idle" => r[1][2] <= made[Id(r)]

\* An object that joined after the pass had loaded its generation has none.
Unseen ==
  engine = "evaluate" =>
    \A r \in Runs : live[Id(r)] = r[1][2] /\ loaded[Id(r)] # r[1][2] => stage[r] = "idle"

\* A running procedure has the slot of its id, or its object was removed and
\* the pass at work does not know it either.
Held ==
  engine # "stopped" =>
    \A r \in Running : \/ active[Id(r)] = r[1][2]
                       \/ live[Id(r)] # r[1][2] /\ loaded[Id(r)] # r[1][2]

Inv == Numbered /\ Started /\ Unseen /\ Held /\ OneProcedurePerRoute /\ SlotsAreOwned

-----------------------------------------------------------------------------
(* Objects and procedures.                                                 *)

LEMMA ObjectShape ==
  ASSUME NEW o \in Objects
  PROVE  o[1] \in Ids /\ o[2] \in 1..MaxObjects[o[1]] /\ o = <<o[1], o[2]>>
  BY SchedulerAssumption DEF Objects

LEMMA ObjectMade ==
  ASSUME NEW i \in Ids, NEW n \in 1..MaxObjects[i]
  PROVE  <<i, n>> \in Objects
  BY DEF Objects

LEMMA RunShape ==
  ASSUME NEW r \in Runs
  PROVE  /\ r[1] \in Objects /\ r[2] \in 1..MaxStarts[r[1]] /\ r = <<r[1], r[2]>>
         /\ Id(r) \in Ids /\ r[1][2] \in 1..MaxObjects[Id(r)] /\ r[1] = <<Id(r), r[1][2]>>
<1>1. r[1] \in Objects /\ r[2] \in 1..MaxStarts[r[1]] /\ r = <<r[1], r[2]>>
  BY StartsAssumption DEF Runs
<1> QED BY <1>1, ObjectShape DEF Id

LEMMA RunMade ==
  ASSUME NEW o \in Objects, NEW n \in 1..MaxStarts[o]
  PROVE  <<o, n>> \in Runs
  BY DEF Runs

\* An object with procedures left has one that can start.
LEMMA FreshRunExists ==
  ASSUME NEW o \in Objects, StartsLeft(o)
  PROVE  <<o, FreshRun(o)>> \in Runs /\ stage[<<o, FreshRun(o)>>] = "idle"
<1> DEFINE T == {n \in 1..MaxStarts[o] : stage[<<o, n>>] = "idle"}
<1>1. MaxStarts[o] \in Nat \ {0}
  BY StartsAssumption
<1>2. MaxStarts[o] \in T /\ T \in SUBSET Nat
  BY <1>1 DEF StartsLeft
<1>3. PICK n \in T : \A m \in T : n <= m
  BY <1>2, LeastNumber
<1>4. n \in 1..MaxStarts[o] /\ stage[<<o, n>>] = "idle"
      /\ \A m \in 1..(n - 1) : stage[<<o, m>>] # "idle"
  BY <1>1, <1>3
<1>5. FreshRun(o) \in 1..MaxStarts[o] /\ stage[<<o, FreshRun(o)>>] = "idle"
  BY <1>4 DEF FreshRun
<1> QED BY <1>5, RunMade

-----------------------------------------------------------------------------
(* The invariant.                                                          *)

LEMMA InitInv == Init => Inv
<1> SUFFICES ASSUME Init PROVE Inv
  OBVIOUS
<1>1. Running = {}
  BY DEF Init, Running, Unfinished
<1>2. Numbered
  BY SchedulerAssumption DEF Init, Numbered, NoGeneration, None, Stages
<1>3. Started /\ Unseen /\ Held /\ OneProcedurePerRoute /\ SlotsAreOwned
  BY <1>1, <1>2 DEF Init, Started, Unseen, Held, OneProcedurePerRoute, SlotsAreOwned
<1> QED BY <1>2, <1>3 DEF Inv

\* What a step of a procedure does to the schedule.
LEMMA ProcedureMoves ==
  ASSUME Inv, NEW r \in Runs, ProcedureStep(r)
  PROVE  /\ UNCHANGED <<live, made, engine, loaded, canceled>>
         /\ stage[r] \in Unfinished
         /\ \/ /\ \E s \in Unfinished : stage' = [stage EXCEPT ![r] = s]
               /\ active' = active
            \/ /\ stage' = [stage EXCEPT ![r] = "done"]
               /\ active' = Released(r)
<1> USE DEF Goto, Unfinished, storeVars, muVars, runVars
<1>1. CASE ReturnAtOnce(r) \/ BeginRotation(r) \/ Abort(r)
  BY <1>1 DEF ReturnAtOnce, BeginRotation, Abort
<1>2. CASE Commit(r) \/ ScheduleNext(r)
  BY <1>2 DEF Commit, ScheduleNext
<1>3. CASE Unchanged(r) \/ BumpConsecutive(r) \/ ScheduleRetry(r)
  BY <1>3 DEF Unchanged, BumpConsecutive, ScheduleRetry
<1>4. CASE FinishProcedure(r)
  BY <1>4 DEF FinishProcedure
<1> QED BY <1>1, <1>2, <1>3, <1>4 DEF ProcedureStep

LEMMA ProcedureKeepsInv ==
  ASSUME Inv, NEW r \in Runs, ProcedureStep(r)
  PROVE  Inv'
<1> USE DEF Inv
<1>1. /\ UNCHANGED <<live, made, engine, loaded, canceled>>
      /\ stage[r] \in Unfinished /\ r \in Running
      /\ \/ /\ \E s \in Unfinished : stage' = [stage EXCEPT ![r] = s]
            /\ active' = active
         \/ /\ stage' = [stage EXCEPT ![r] = "done"]
            /\ active' = Released(r)
  BY ProcedureMoves DEF Running
<1>2. Id(r) \in Ids /\ r[1][2] \in 1..MaxObjects[Id(r)] /\ r[1] = <<Id(r), r[1][2]>>
  BY RunShape
<1>3. Numbered'
  <2>1. \A i \in Ids : active'[i] \in {active[i], None}
    BY <1>1, <1>2 DEF Numbered, Released
  <2>2. active' \in [Ids -> Nat] /\ \A i \in Ids : active'[i] \in 0..MaxObjects[i]
    BY <1>1, <1>2, <2>1, SchedulerAssumption DEF Numbered, None, Released
  <2>3. stage' \in [Runs -> Stages]
    BY <1>1 DEF Numbered, Stages
  <2> QED BY <1>1, <2>2, <2>3 DEF Numbered, NoGeneration
<1>4. Running' \subseteq Running /\ \A q \in Runs \ {r} : stage'[q] = stage[q]
  BY <1>1 DEF Running, Numbered
<1>5. \A q \in Runs : stage[q] = "idle" => stage'[q] = "idle"
  BY <1>1, <1>4 DEF Unfinished
<1>6. Started'
  BY <1>1, <1>4 DEF Started, Id, Unfinished
<1>7. Unseen'
  BY <1>1, <1>5 DEF Unseen, Id
<1>8. OneProcedurePerRoute'
  BY <1>4 DEF OneProcedurePerRoute
<1>9. Held'
  <2> SUFFICES ASSUME engine # "stopped", NEW q \in Running', active'[Id(q)] # q[1][2]
               PROVE  live[Id(q)] # q[1][2] /\ loaded[Id(q)] # q[1][2]
    BY <1>1 DEF Held, Id
  <2>1. q \in Running /\ Id(q) \in Ids /\ q[1] = <<Id(q), q[1][2]>>
    BY <1>4, RunShape DEF Running
  <2>2. active[Id(q)] # q[1][2]
    <3>1. CASE active' = active
      BY <3>1
    <3>2. CASE stage' = [stage EXCEPT ![r] = "done"] /\ active' = Released(r)
      <4>1. q # r
        BY <3>2 DEF Numbered, Running, Unfinished
      <4>2. q[1] # r[1]
        BY <1>1, <2>1, <4>1 DEF OneProcedurePerRoute
      <4>3. ~(Id(q) = Id(r) /\ q[1][2] = r[1][2])
        BY <1>2, <2>1, <4>2
      <4> QED BY <1>2, <2>1, <3>2, <4>3 DEF Released, Numbered
    <3> QED BY <1>1, <3>1, <3>2
  <2> QED BY <2>1, <2>2 DEF Held
<1>10. SlotsAreOwned'
  <2> SUFFICES ASSUME NEW i \in Ids, active'[i] # None
               PROVE  \E q \in Running' : q[1] = <<i, active'[i]>>
    BY DEF SlotsAreOwned
  <2>1. active'[i] = active[i]
    BY <1>1, <1>2 DEF Released, Numbered
  <2>2. PICK q \in Running : q[1] = <<i, active[i]>>
    BY <2>1 DEF SlotsAreOwned
  <2>3. CASE \E s \in Unfinished : stage' = [stage EXCEPT ![r] = s]
    <3>1. q \in Running'
      BY <2>2, <2>3 DEF Running, Numbered
    <3> QED BY <2>1, <2>2, <3>1
  <2>4. CASE stage' = [stage EXCEPT ![r] = "done"] /\ active' = Released(r)
    <3>1. q # r
      BY <1>2, <2>1, <2>2, <2>4 DEF Released, Numbered, Id
    <3>2. q \in Running'
      BY <2>2, <3>1, <1>4 DEF Running
    <3> QED BY <2>1, <2>2, <3>2
  <2> QED BY <1>1, <2>3, <2>4
<1> QED BY <1>3, <1>6, <1>7, <1>8, <1>9, <1>10

\* The pass admits an object that has no slot, so none of its procedures runs.
LEMMA AdmittedIsFree ==
  ASSUME Inv, engine = "evaluate", NEW i \in Admitted(loaded)
  PROVE  /\ i \in Ids /\ loaded[i] # None /\ active[i] = None
         /\ <<i, loaded[i]>> \in Objects /\ StartsLeft(<<i, loaded[i]>>)
         /\ \A r \in Running : r[1] # <<i, loaded[i]>>
<1> USE DEF Inv
<1>1. i \in Ids /\ loaded[i] # None /\ active[i] = None /\ StartsLeft(<<i, loaded[i]>>)
  BY DEF Admitted, Candidates, Due, Configured, Occupied
<1>2. loaded[i] \in 1..MaxObjects[i]
  BY <1>1, SchedulerAssumption DEF Numbered, None
<1>3. <<i, loaded[i]>> \in Objects
  BY <1>1, <1>2, ObjectMade
<1>4. ASSUME NEW r \in Running, r[1] = <<i, loaded[i]>> PROVE FALSE
  <2>1. Id(r) = i /\ r[1][2] = loaded[i]
    BY <1>4 DEF Id
  <2> QED BY <1>1, <2>1 DEF Held
<1> QED BY <1>1, <1>3, <1>4

LEMMA EvaluateKeepsInv ==
  ASSUME Inv, Evaluate
  PROVE  Inv'
<1> USE DEF Inv
<1> DEFINE new(i)  == <<<<i, loaded[i]>>, FreshRun(<<i, loaded[i]>>)>>
           started == {<<o, FreshRun(o)>> : o \in {<<i, loaded[i]>> : i \in Admitted(loaded)}}
<1>1. /\ engine = "evaluate" /\ engine' = "wait" /\ loaded' = NoGeneration
      /\ UNCHANGED <<live, made, canceled>>
      /\ active' = [i \in Ids |-> CASE i \in Admitted(loaded) -> loaded[i]
                                    [] i \notin Configured(loaded) -> None
                                    [] OTHER -> active[i]]
      /\ stage' = [r \in Runs |-> IF r \in started THEN "admitted" ELSE stage[r]]
  BY DEF Evaluate, storeVars
<1>2. \A i \in Admitted(loaded) :
        /\ i \in Ids /\ i \in Configured(loaded) /\ active[i] = None
        /\ new(i) \in Runs /\ new(i) \in started /\ stage[new(i)] = "idle"
        /\ \A r \in Running : r[1] # <<i, loaded[i]>>
  <2> TAKE i \in Admitted(loaded)
  <2>1. /\ i \in Ids /\ loaded[i] # None /\ active[i] = None
        /\ <<i, loaded[i]>> \in Objects /\ StartsLeft(<<i, loaded[i]>>)
        /\ \A r \in Running : r[1] # <<i, loaded[i]>>
    BY <1>1, AdmittedIsFree
  <2>2. new(i) \in Runs /\ stage[new(i)] = "idle"
    BY <2>1, FreshRunExists
  <2> QED BY <2>1, <2>2 DEF Configured
<1>3. \A r \in started : \E i \in Admitted(loaded) : r = new(i)
  OBVIOUS
<1>4. \A i \in Ids : /\ i \in Admitted(loaded) => active'[i] = loaded[i]
                     /\ i \notin Configured(loaded) => active'[i] = None
                     /\ i \in Configured(loaded) \ Admitted(loaded) => active'[i] = active[i]
  BY <1>1, <1>2
<1>5. Running' = Running \cup started
  <2>1. started \subseteq Runs
    BY <1>2, <1>3
  <2> HIDE DEF started
  <2> QED BY <1>1, <2>1 DEF Running, Unfinished, Numbered
<1>6. Numbered'
  <2>1. \A i \in Ids : active'[i] \in {loaded[i], None, active[i]}
    BY <1>4
  <2>2. \A i \in Ids : active'[i] \in 0..MaxObjects[i] /\ active'[i] \in Nat
    BY <2>1, SchedulerAssumption DEF Numbered, None
  <2>3. active' \in [Ids -> Nat]
    BY <1>1, <2>2
  <2>4. stage' \in [Runs -> Stages]
    <3> HIDE DEF started
    <3> QED BY <1>1 DEF Numbered, Stages, Unfinished
  <2>5. loaded' \in [Ids -> Nat] /\ \A i \in Ids : loaded'[i] \in 0..made[i]
    BY <1>1 DEF Numbered, NoGeneration, None
  <2> QED BY <1>1, <2>2, <2>3, <2>4, <2>5 DEF Numbered
<1>7. Started'
  <2> SUFFICES ASSUME NEW r \in Runs, stage'[r] # "idle" PROVE r[1][2] <= made[Id(r)]
    BY <1>1 DEF Started, Id
  <2>1. CASE r \in started
    BY <1>2, <1>3, <2>1 DEF Id, Numbered
  <2>2. CASE r \notin started
    <3> HIDE DEF started
    <3> QED BY <1>1, <2>2 DEF Started
  <2> QED BY <2>1, <2>2
<1>8. Unseen'
  BY <1>1 DEF Unseen
<1>9. Held'
  <2> SUFFICES ASSUME NEW r \in Running \cup started, active'[Id(r)] # r[1][2]
               PROVE  live[Id(r)] # r[1][2] /\ loaded'[Id(r)] # r[1][2]
    BY <1>1, <1>5 DEF Held, Id
  <2>1. r \in Runs
    BY <1>2, <1>3 DEF Running
  <2>2. Id(r) \in Ids /\ r[1][2] \in 1..MaxObjects[Id(r)] /\ r[1] = <<Id(r), r[1][2]>>
    BY <2>1, RunShape
  <2>3. loaded'[Id(r)] # r[1][2]
    BY <1>1, <2>2, SchedulerAssumption DEF NoGeneration, None
  <2>4. r \notin started
    BY <1>2, <1>3, <1>4 DEF Id
  <2>5. r \in Running /\ stage[r] # "idle"
    BY <2>4 DEF Running, Unfinished
  <2>6. CASE active[Id(r)] = r[1][2]
    <3>1. Id(r) \notin Configured(loaded)
      <4>1. active[Id(r)] # None
        BY <2>2, <2>6, SchedulerAssumption DEF None
      <4>2. Id(r) \notin Admitted(loaded)
        BY <1>2, <4>1
      <4> QED BY <1>4, <2>2, <2>6, <4>2
    <3>2. loaded[Id(r)] # r[1][2]
      BY <2>2, <3>1, SchedulerAssumption DEF Configured, None
    <3> QED BY <1>1, <2>1, <2>3, <2>5, <3>2 DEF Unseen
  <2>7. CASE live[Id(r)] # r[1][2]
    BY <2>3, <2>7
  <2> QED BY <1>1, <2>5, <2>6, <2>7 DEF Held
<1>10. OneProcedurePerRoute'
  <2> SUFFICES ASSUME NEW r \in Running', NEW s \in Running', r[1] = s[1]
               PROVE  r = s
    BY DEF OneProcedurePerRoute
  <2>0. r \in Running \cup started /\ s \in Running \cup started
    <3> HIDE DEF started
    <3> QED BY <1>5
  <2>1. CASE r \in Running /\ s \in Running
    <3> HIDE DEF started
    <3> QED BY <2>1 DEF OneProcedurePerRoute
  <2>2. CASE r \in started /\ s \in started
    <3>1. PICK i \in Admitted(loaded), j \in Admitted(loaded) : r = new(i) /\ s = new(j)
      BY <1>3, <2>2
    <3>2. i = j
      BY <3>1
    <3> QED BY <3>1, <3>2
  <2>3. CASE r \in started /\ s \in Running
    <3>1. PICK i \in Admitted(loaded) : r = new(i)
      BY <1>3, <2>3
    <3>2. r[1] = <<i, loaded[i]>> /\ s[1] # <<i, loaded[i]>>
      BY <1>2, <2>3, <3>1
    <3> QED BY <3>2
  <2>4. CASE r \in Running /\ s \in started
    <3>1. PICK i \in Admitted(loaded) : s = new(i)
      BY <1>3, <2>4
    <3>2. s[1] = <<i, loaded[i]>> /\ r[1] # <<i, loaded[i]>>
      BY <1>2, <2>4, <3>1
    <3> QED BY <3>2
  <2> HIDE DEF started
  <2> QED BY <2>0, <2>1, <2>2, <2>3, <2>4
<1>11. SlotsAreOwned'
  <2> SUFFICES ASSUME NEW i \in Ids, active'[i] # None
               PROVE  \E r \in Running' : r[1] = <<i, active'[i]>>
    BY DEF SlotsAreOwned
  <2>1. CASE i \in Admitted(loaded)
    <3>1. new(i) \in started /\ new(i)[1] = <<i, active'[i]>>
      BY <1>2, <1>4, <2>1
    <3> HIDE DEF started, new
    <3> QED BY <1>5, <3>1
  <2>2. CASE i \notin Admitted(loaded)
    <3>1. active'[i] = active[i] /\ active[i] # None
      BY <1>4, <2>2
    <3>2. PICK r \in Running : r[1] = <<i, active[i]>>
      BY <3>1 DEF SlotsAreOwned
    <3> HIDE DEF started
    <3> QED BY <1>5, <3>1, <3>2
  <2> QED BY <2>1, <2>2
<1> QED BY <1>6, <1>7, <1>8, <1>9, <1>10, <1>11

LEMMA NextInv ==
  ASSUME Inv, [Next]_vars
  PROVE  Inv'
<1>1. CASE Evaluate
  BY <1>1, EvaluateKeepsInv
<1>2. ASSUME NEW r \in Runs, ProcedureStep(r) PROVE Inv'
  BY <1>2, ProcedureKeepsInv
<1> USE DEF Inv, Numbered, Started, Unseen, Held, OneProcedurePerRoute, SlotsAreOwned
<1> USE DEF Running, Id, storeVars, muVars, runVars
<1>3. CASE Load
  BY <1>3 DEF Load
<1>4. CASE AbortAll
  BY <1>4, SchedulerAssumption DEF AbortAll, None
<1>5. CASE Cancel
  BY <1>5 DEF Cancel
<1>6. ASSUME NEW i \in Ids, Elapse(i) PROVE Inv'
  BY <1>6 DEF Elapse
<1>7. ASSUME NEW i \in Ids, Remove(i) PROVE Inv'
  <2>1. /\ live' = [live EXCEPT ![i] = None]
        /\ UNCHANGED <<made, due, active, consec, rotating, stage, engine, loaded, canceled>>
    BY <1>7 DEF Remove
  <2>2. live' \in [Ids -> Nat] /\ \A j \in Ids : live'[j] \in 0..made[j]
    BY <2>1 DEF None
  <2>3. \A r \in Runs : live'[Id(r)] \in {None, live[Id(r)]} /\ r[1][2] # None
    BY <2>1, RunShape, SchedulerAssumption DEF None
  <2> QED BY <2>1, <2>2, <2>3
<1>8. ASSUME NEW i \in Ids, Add(i) PROVE Inv'
  <2>1. /\ live' = [live EXCEPT ![i] = made[i] + 1] /\ made' = [made EXCEPT ![i] = made[i] + 1]
        /\ made[i] < MaxObjects[i]
        /\ UNCHANGED <<due, active, consec, rotating, stage, engine, loaded, canceled>>
    BY <1>8 DEF Add
  <2>2. made' \in [Ids -> Nat] /\ live' \in [Ids -> Nat]
        /\ \A j \in Ids : /\ made'[j] \in 0..MaxObjects[j] /\ live'[j] \in 0..made'[j]
                          /\ made[j] <= made'[j]
                          /\ live'[j] = live[j] \/ live'[j] > made[j]
    <3> DEFINE n == made[i]
               m == MaxObjects[i]
    <3>0. n \in Nat /\ m \in Nat /\ n < m
      BY <2>1, SchedulerAssumption
    <3>1. n + 1 \in Nat /\ n + 1 \in 0..m
      <4> HIDE DEF n, m
      <4> QED BY <3>0
    <3>2. made' \in [Ids -> Nat] /\ live' \in [Ids -> Nat]
      BY <2>1, <3>1
    <3> SUFFICES ASSUME NEW j \in Ids
                 PROVE  /\ made'[j] \in 0..MaxObjects[j] /\ live'[j] \in 0..made'[j]
                        /\ made[j] <= made'[j]
                        /\ live'[j] = live[j] \/ live'[j] > made[j]
      BY <3>2
    <3>3. CASE j = i
      BY <2>1, <3>1, <3>3
    <3>4. CASE j # i
      BY <2>1, <3>4
    <3> QED BY <3>3, <3>4
  <2>3. Numbered'
    BY <2>1, <2>2
  <2>4. \A r \in Running : r[1][2] <= made[Id(r)] /\ Id(r) \in Ids /\ r[1][2] \in Nat
    BY RunShape, SchedulerAssumption DEF Unfinished
  <2>5. Started'
    BY <2>1, <2>2, RunShape
  <2>6. Unseen'
    <3> SUFFICES ASSUME engine = "evaluate", NEW r \in Runs,
                        live'[Id(r)] = r[1][2], loaded[Id(r)] # r[1][2]
                 PROVE  stage[r] = "idle"
      BY <2>1
    <3>1. live'[Id(r)] = live[Id(r)] \/ r[1][2] > made[Id(r)]
      BY <2>2, RunShape
    <3>2. Id(r) \in Ids /\ r[1][2] \in Nat
      BY RunShape, SchedulerAssumption
    <3> QED BY <3>1, <3>2
  <2>7. Held'
    BY <2>1, <2>2, <2>4
  <2>8. OneProcedurePerRoute' /\ SlotsAreOwned'
    BY <2>1
  <2> QED BY <2>3, <2>5, <2>6, <2>7, <2>8
<1>9. CASE UNCHANGED vars
  BY <1>9 DEF vars
<1> QED BY <1>1, <1>2, <1>3, <1>4, <1>5, <1>6, <1>7, <1>8, <1>9 DEF Next

LEMMA SpecInv == Spec => []Inv
  BY InitInv, NextInv, PTL DEF Spec

-----------------------------------------------------------------------------
(* What follows.                                                           *)

\* A route object never has two procedures (engine.go finishProcedure).
THEOREM NoTwoProcedures == Spec => []OneProcedurePerRoute
<1>1. Inv => OneProcedurePerRoute
  BY DEF Inv
<1> QED BY <1>1, SpecInv, PTL

\* No slot leaks (engine.go runProcedure, finishProcedure).
THEOREM EverySlotIsOwned == Spec => []SlotsAreOwned
<1>1. Inv => SlotsAreOwned
  BY DEF Inv
<1> QED BY <1>1, SpecInv, PTL
-----------------------------------------------------------------------------
(* max-concurrent: when a pass starts a procedure, the slots it leaves are *)
(* counted, and every procedure of a route of its list has one of them.    *)

Slots == {i \in Ids : active[i] # None}

LEMMA CapTyped ==
  ASSUME NEW n \in Nat
  PROVE  ResolveMaxConcurrent(n) \in Nat
<1>1. n * Limit \in Nat
  BY SchedulerAssumption
<1>2. ASSUME NEW x \in Nat PROVE (x + 99) \div 100 \in Nat
  BY <1>2
<1>3. (n * Limit + 99) \div 100 \in Nat
  BY <1>1, <1>2
<1> QED BY <1>3, SchedulerAssumption DEF ResolveMaxConcurrent, LeastOf

\* A pass that takes a slot leaves no more taken than the cap of its list,
\* however many were taken before under a longer one.
LEMMA PassKeepsCap ==
  ASSUME Inv, Evaluate, Admitted(loaded) # {}
  PROVE  IsFiniteSet(Slots') /\ Cardinality(Slots') <= Cap(loaded)
<1> DEFINE earlier(i) == {j \in Candidates(loaded) : j < i}
           kept == Occupied(loaded)
<1> USE DEF Inv
<1>1. Slots' = kept \cup Admitted(loaded)
  <2>1. active' = [i \in Ids |-> CASE i \in Admitted(loaded) -> loaded[i]
                                    [] i \notin Configured(loaded) -> None
                                    [] OTHER -> active[i]]
    BY DEF Evaluate
  <2>2. \A i \in Admitted(loaded) : i \in Ids /\ loaded[i] # None
    BY DEF Admitted, Candidates, Due, Configured
  <2>3. \A i \in Ids : active'[i] # None <=> i \in kept \cup Admitted(loaded)
    BY <2>1, <2>2 DEF Occupied, Configured
  <2> QED BY <2>2, <2>3 DEF Slots, Occupied, Configured
<1>2. /\ kept \in SUBSET Slots /\ Slots \in SUBSET Ids /\ Configured(loaded) \in SUBSET Ids
      /\ Candidates(loaded) \in SUBSET Ids /\ Admitted(loaded) \in SUBSET Candidates(loaded)
  BY DEF Occupied, Slots, Configured, Candidates, Due, Admitted
<1>3. /\ IsFiniteSet(Slots) /\ IsFiniteSet(Configured(loaded)) /\ IsFiniteSet(kept)
      /\ IsFiniteSet(Candidates(loaded))
  BY <1>2, FS_Subset, SchedulerAssumption
<1>4. /\ Cardinality(kept) \in Nat
      /\ Cardinality(Configured(loaded)) \in Nat
  BY <1>3, FS_CardinalityType, SchedulerAssumption
<1>5. Cap(loaded) \in Nat
  BY <1>4, CapTyped DEF Cap
<1>6. PICK i \in Admitted(loaded) : \A j \in Admitted(loaded) : j <= i
  <2>1. Admitted(loaded) \in SUBSET Nat /\ IsFiniteSet(Admitted(loaded))
    BY <1>2, <1>3, FS_Subset, SchedulerAssumption
  <2> QED BY <2>1, GreatestNumber
<1>7. /\ IsFiniteSet(earlier(i)) /\ Cardinality(earlier(i)) \in Nat
      /\ Cardinality(kept) + Cardinality(earlier(i)) < Cap(loaded)
  <2>1. earlier(i) \in SUBSET Candidates(loaded)
    OBVIOUS
  <2> QED BY <1>3, <1>6, <2>1, FS_Subset, FS_CardinalityType DEF Admitted, TakenBefore
<1>8. Slots' \in SUBSET ((kept \cup earlier(i)) \cup {i})
  <2>1. ASSUME NEW j \in Admitted(loaded) PROVE j \in earlier(i) \cup {i}
    <3>1. j \in Candidates(loaded) /\ j \in Nat /\ i \in Nat /\ j <= i
      BY <1>2, <1>6, SchedulerAssumption
    <3> QED BY <3>1
  <2> HIDE DEF earlier, kept
  <2> QED BY <1>1, <2>1
<1> DEFINE both == kept \cup earlier(i)
<1>9. /\ IsFiniteSet(both) /\ Cardinality(both) \in Nat
      /\ Cardinality(both) <= Cardinality(kept) + Cardinality(earlier(i))
  <2>1. IsFiniteSet(kept \cap earlier(i)) /\ Cardinality(kept \cap earlier(i)) \in Nat
    BY <1>3, FS_Subset, FS_CardinalityType
  <2>2. /\ IsFiniteSet(kept \cup earlier(i))
        /\ Cardinality(kept \cup earlier(i))
             = Cardinality(kept) + Cardinality(earlier(i)) - Cardinality(kept \cap earlier(i))
    BY <1>3, <1>7, FS_Union
  <2> HIDE DEF earlier, kept
  <2> QED BY <1>4, <1>7, <2>1, <2>2, FS_CardinalityType
<1>10. IsFiniteSet(both \cup {i}) /\ Cardinality(both \cup {i}) <= Cardinality(both) + 1
      /\ Cardinality(both \cup {i}) \in Nat
  <2> HIDE DEF both
  <2>1. /\ IsFiniteSet(both \cup {i})
        /\ Cardinality(both \cup {i})
             = IF i \in both THEN Cardinality(both) ELSE Cardinality(both) + 1
    BY <1>9, FS_AddElement
  <2> QED BY <1>9, <2>1
<1>11. /\ IsFiniteSet(Slots') /\ Cardinality(Slots') \in Nat
       /\ Cardinality(Slots') <= Cardinality(both \cup {i})
  <2>1. Slots' \in SUBSET (both \cup {i})
    BY <1>8
  <2> HIDE DEF both
  <2> QED BY <1>10, <2>1, FS_Subset, FS_CardinalityType
<1> HIDE DEF both, kept, earlier
<1> QED BY <1>4, <1>5, <1>7, <1>9, <1>10, <1>11

\* After the pass every procedure of an object of its list has the slot of its
\* id: those it found running had, and it gives one to each that it starts.
LEMMA ListedHaveSlots ==
  ASSUME Inv, Evaluate, NEW r \in Running', loaded[Id(r)] = r[1][2]
  PROVE  r \in Runs /\ Id(r) \in Slots' /\ active'[Id(r)] = r[1][2]
<1> USE DEF Inv
<1>1. r \in Runs
  BY DEF Running
<1>2. Id(r) \in Ids /\ r[1][2] # None /\ r[1] = <<Id(r), r[1][2]>>
  BY <1>1, RunShape, SchedulerAssumption DEF None
<1>3. active' = [i \in Ids |-> CASE i \in Admitted(loaded) -> loaded[i]
                                [] i \notin Configured(loaded) -> None
                                [] OTHER -> active[i]]
  BY DEF Evaluate
<1> HIDE DEF Inv
<1>4. \A i \in Ids : /\ i \in Admitted(loaded) => active'[i] = loaded[i]
                     /\ i \in Configured(loaded) \ Admitted(loaded) => active'[i] = active[i]
  <2>1. \A i \in Admitted(loaded) : i \in Configured(loaded)
    BY DEF Admitted, Candidates, Due
  <2> QED BY <1>3, <2>1
<1>5. CASE Id(r) \in Admitted(loaded)
  <2>1. active'[Id(r)] = loaded[Id(r)]
    BY <1>2, <1>4, <1>5
  <2> QED BY <1>1, <1>2, <2>1 DEF Slots
<1>6. CASE Id(r) \notin Admitted(loaded)
  <2>1. stage'[r] = stage[r]
    <3>1. r[1] \notin {<<i, loaded[i]>> : i \in Admitted(loaded)}
      BY <1>2, <1>6
    <3> QED BY <1>1, <3>1 DEF Evaluate
  <2>2. r \in Running /\ engine = "evaluate"
    BY <1>1, <2>1 DEF Running, Evaluate
  <2>3. active[Id(r)] = r[1][2]
    BY <2>2 DEF Inv, Held
  <2>4. Id(r) \in Configured(loaded)
    BY <1>2 DEF Configured
  <2> QED BY <1>1, <1>2, <1>4, <1>6, <2>3, <2>4 DEF Slots
<1> QED BY <1>5, <1>6

\* Only the pass starts a procedure.
LEMMA OthersStartNothing ==
  ASSUME Inv, [Next]_vars, ~Evaluate, NEW r \in Runs, stage[r] = "idle"
  PROVE  stage'[r] = "idle"
<1> USE DEF Inv
<1>1. ASSUME NEW s \in Runs, ProcedureStep(s)
      PROVE  stage'[r] = "idle"
  <2>1. stage[s] \in Unfinished /\ \E to \in Stages : stage' = [stage EXCEPT ![s] = to]
    BY <1>1, ProcedureMoves DEF Stages
  <2>2. s # r
    BY <2>1 DEF Unfinished
  <2> QED BY <2>1, <2>2 DEF Numbered
<1>2. CASE Load \/ AbortAll \/ Cancel \/ UNCHANGED vars
  BY <1>2 DEF Load, AbortAll, Cancel, vars
<1>3. ASSUME NEW i \in Ids, Elapse(i) \/ Remove(i) \/ Add(i)
      PROVE  stage'[r] = "idle"
  BY <1>3 DEF Elapse, Remove, Add
<1> QED BY <1>1, <1>2, <1>3 DEF Next

\* The cap is honest about the list a pass works on, for any number of routes,
\* any cap and any reloads (engine.go evaluate).
THEOREM CapIsHonest == Spec => CapHonest
<1> DEFINE Listed == {r \in Running' : loaded[Id(r)] = r[1][2]}
           Starts == \E r \in Runs : stage[r] = "idle" /\ stage'[r] # "idle"
<1>1. ASSUME Inv, Inv', [Next]_vars, Starts
      PROVE  Cardinality(Listed) <= Cap(loaded)
  <2>1. Evaluate
    BY <1>1, OthersStartNothing
  <2>2. Admitted(loaded) # {}
    <3>1. SUFFICES ASSUME Admitted(loaded) = {} PROVE stage' = stage
      BY <1>1
    <3> QED BY <1>1, <2>1, <3>1 DEF Evaluate, Inv, Numbered
  <2>3. IsFiniteSet(Slots') /\ Cardinality(Slots') <= Cap(loaded)
    BY <1>1, <2>1, <2>2, PassKeepsCap
  <2> DEFINE f == [r \in Listed |-> Id(r)]
  <2>4. \A r \in Listed : r \in Running' /\ Id(r) \in Slots' /\ r[1] = <<Id(r), loaded[Id(r)]>>
    BY <1>1, <2>1, ListedHaveSlots, RunShape
  <2>5. \A r, s \in Listed : Id(r) = Id(s) => r = s
    BY <1>1, <2>4 DEF Inv, OneProcedurePerRoute
  <2>6. f \in Injection(Listed, Slots')
    BY <2>4, <2>5 DEF Injection, IsInjective
  <2>7. IsFiniteSet(Listed) /\ Cardinality(Listed) <= Cardinality(Slots')
    <3> HIDE DEF f, Listed
    <3> QED BY <2>3, <2>6, FS_Injection
  <2>8. Cardinality(Listed) \in Nat /\ Cardinality(Slots') \in Nat /\ Cap(loaded) \in Nat
    <3>1. Configured(loaded) \in SUBSET Ids
      BY DEF Configured
    <3>2. Cardinality(Configured(loaded)) \in Nat
      BY <3>1, FS_Subset, FS_CardinalityType, SchedulerAssumption
    <3> QED BY <2>3, <2>7, <3>2, FS_CardinalityType, CapTyped DEF Cap
  <2> HIDE DEF Listed
  <2> QED BY <2>3, <2>7, <2>8
<1>2. Inv /\ Inv' /\ [Next]_vars => [Starts => Cardinality(Listed) <= Cap(loaded)]_vars
  BY <1>1
<1> QED BY <1>2, SpecInv, PTL DEF Spec, CapHonest

-----------------------------------------------------------------------------
(* Powers of two.                                                          *)

\* Half of the subsets of a set contain a given element.
LEMMA SubsetsDouble ==
  ASSUME NEW S, IsFiniteSet(S), NEW x, x \notin S
  PROVE  Cardinality(SUBSET (S \cup {x})) = 2 * Cardinality(SUBSET S)
<1> DEFINE With == {T \cup {x} : T \in SUBSET S}
           f == [T \in SUBSET S |-> T \cup {x}]
<1>1. SUBSET (S \cup {x}) = (SUBSET S) \cup With
  <2>1. ASSUME NEW T \in SUBSET (S \cup {x}) PROVE T \in (SUBSET S) \cup With
    <3>1. CASE x \in T
      <4>1. T \ {x} \in SUBSET S /\ T = (T \ {x}) \cup {x}
        BY <3>1
      <4> QED BY <4>1
    <3>2. CASE x \notin T
      BY <3>2
    <3> QED BY <3>1, <3>2
  <2> QED BY <2>1
<1>2. (SUBSET S) \cap With = {}
  OBVIOUS
<1>3. f \in Bijection(SUBSET S, With)
  <2>1. f \in [SUBSET S -> With] /\ \A T \in With : \E R \in SUBSET S : f[R] = T
    OBVIOUS
  <2>2. ASSUME NEW A \in SUBSET S, NEW B \in SUBSET S, f[A] = f[B] PROVE A = B
    <3>1. A \cup {x} = B \cup {x}
      BY <2>2
    <3> QED BY <3>1
  <2> HIDE DEF f, With
  <2> QED BY <2>1, <2>2, Fun_IsBij
<1>4. IsFiniteSet(SUBSET S) /\ Cardinality(SUBSET S) \in Nat
  BY FS_SUBSET, FS_CardinalityType
<1> DEFINE Sub == SUBSET S
<1>5. IsFiniteSet(With) /\ Cardinality(With) = Cardinality(Sub)
  <2> HIDE DEF f, With
  <2> QED BY <1>3, <1>4, FS_Bijection DEF ExistsBijection
<1>6. IsFiniteSet(Sub) /\ Cardinality(Sub) \in Nat /\ Sub \cap With = {}
      /\ SUBSET (S \cup {x}) = Sub \cup With
  BY <1>1, <1>2, <1>4
<1> HIDE DEF f, With, Sub
<1>7. Cardinality(Sub \cup With) = Cardinality(Sub) + Cardinality(With) - Cardinality(Sub \cap With)
  BY <1>5, <1>6, FS_Union
<1>8. Cardinality(Sub \cap With) = 0
  BY <1>6, FS_EmptySet
<1>9. Cardinality(Sub \cup With) = 2 * Cardinality(Sub)
  BY <1>5, <1>6, <1>7, <1>8
<1> QED BY <1>6, <1>9 DEF Sub

LEMMA PowerDoubles ==
  ASSUME NEW n \in Nat
  PROVE  2^n \in Nat /\ 2^n >= 1 /\ 2^(n + 1) = 2 * 2^n
<1> DEFINE S == 1..n
<1>1. IsFiniteSet(S) /\ Cardinality(S) = n
  BY FS_Interval
<1>2. n + 1 \notin S /\ S \cup {n + 1} = 1..(n + 1)
  OBVIOUS
<1>3. IsFiniteSet(1..(n + 1)) /\ Cardinality(1..(n + 1)) = n + 1
  BY FS_Interval
<1> HIDE DEF S
<1>4. Cardinality(SUBSET S) = 2^n /\ IsFiniteSet(SUBSET S) /\ Cardinality(SUBSET S) \in Nat
  BY <1>1, FS_SUBSET, FS_CardinalityType
<1>5. Cardinality(SUBSET (1..(n + 1))) = 2^(n + 1)
  BY <1>3, FS_SUBSET
<1>6. 2^(n + 1) = 2 * 2^n
  BY <1>1, <1>2, <1>4, <1>5, SubsetsDouble
<1>7. Cardinality(SUBSET S) # 0
  BY <1>4, FS_EmptySet
<1> QED BY <1>4, <1>6, <1>7

LEMMA PowerOfZero == 2^0 = 1
<1>1. SUBSET {} = {{}}
  OBVIOUS
<1>2. IsFiniteSet({}) /\ Cardinality({}) = 0
  BY FS_EmptySet
<1>3. Cardinality({{}}) = 1
  BY FS_Singleton
<1> QED BY <1>1, <1>2, <1>3, FS_SUBSET

\* Powers grow with the exponent.
LEMMA PowerGrows ==
  ASSUME NEW m \in Nat, NEW n \in Nat, m <= n
  PROVE  2^m <= 2^n
<1> DEFINE T == {k \in Nat : m <= k /\ ~(2^m <= 2^k)}
<1>1. SUFFICES ASSUME T # {} PROVE FALSE
  OBVIOUS
<1>2. PICK k \in T : \A j \in T : k <= j
  BY <1>1, LeastNumber
<1>3. k # m /\ k \in Nat /\ m <= k
  BY PowerDoubles
<1>4. k - 1 \in Nat /\ m <= k - 1 /\ k - 1 \notin T
  BY <1>2, <1>3
<1>5. 2^k = 2 * 2^(k - 1) /\ 2^(k - 1) \in Nat /\ 2^m \in Nat
  <2>1. 2^((k - 1) + 1) = 2 * 2^(k - 1)
    BY <1>4, PowerDoubles
  <2>2. (k - 1) + 1 = k
    BY <1>3
  <2> QED BY <1>4, <2>1, <2>2, PowerDoubles
<1> QED BY <1>2, <1>4, <1>5

-----------------------------------------------------------------------------
(* Durations.                                                              *)

LEMMA DurationsTyped ==
  /\ Width \in Nat /\ Width - 1 \in Nat /\ MaxDuration \in Nat /\ MaxDuration >= 3
  /\ 2^(Width - 1) = MaxDuration + 1 /\ 2^Width = 2 * (MaxDuration + 1)
<1>1. Width \in Nat /\ Width >= 3 /\ Width - 1 \in Nat /\ (Width - 1) + 1 = Width
  BY WidthAssumption
<1>2. 2^(Width - 1) \in Nat /\ 2^((Width - 1) + 1) = 2 * 2^(Width - 1)
  BY <1>1, PowerDoubles
<1>3. 2^2 = 4
  <2>1. 2^(0 + 1) = 2 * 2^0 /\ 2^(1 + 1) = 2 * 2^1
    BY PowerDoubles
  <2>2. 0 + 1 = 1 /\ 1 + 1 = 2
    OBVIOUS
  <2> QED BY <2>1, <2>2, PowerOfZero
<1>4. 2^2 <= 2^(Width - 1)
  <2>1. 2 <= Width - 1
    BY <1>1
  <2> QED BY <1>1, <2>1, PowerGrows
<1> QED BY <1>1, <1>2, <1>3, <1>4 DEF MaxDuration

\* A number that is a duration does not wrap.
LEMMA WrapIsIdentity ==
  ASSUME NEW n \in 0..MaxDuration
  PROVE  Wrap(n) = n
<1> DEFINE half == MaxDuration + 1
<1>1. Wrap(n) = ((n + half) % (2 * half)) - half
  BY DurationsTyped DEF Wrap
<1>2. n + half \in Nat /\ 2 * half \in Nat /\ n + half < 2 * half /\ half \in Nat
  BY DurationsTyped
<1> HIDE DEF half
<1>3. (n + half) % (2 * half) = n + half
  BY <1>2
<1> QED BY <1>1, <1>2, <1>3

LEMMA ProductGrows ==
  ASSUME NEW a \in Nat, NEW b \in Nat, a >= 1, b >= 1
  PROVE  a * b \in Nat /\ a * b >= a /\ a * b >= b
OBVIOUS

\* What does not fit into half of the bound exceeds it when doubled.
LEMMA HalfBounds ==
  ASSUME NEW d \in Nat, NEW n \in Nat
  PROVE  n > Half(d) <=> n * 2 > d
BY DEF Half

-----------------------------------------------------------------------------
(* The curve.                                                              *)

\* The loop computes the saturated power, and its doublings never wrap.
LEMMA DoubledIsCurve ==
  ASSUME NEW max \in 1..MaxDuration, NEW base \in 1..max, NEW shift \in Nat
  PROVE  Doubled(base, max, shift) = AtMost(base * 2^shift, max)
<1> DEFINE step(f, i) == IF i = 0 THEN base
                         ELSE IF f[i-1] > Half(max) \/ f[i-1] > Half(MaxDuration) THEN max
                         ELSE Wrap(f[i-1] * 2)
           g == [i \in 0..shift |-> AtMost(base * 2^i, max)]
           loop(f) == f = [i \in 0..shift |-> step(f, i)]
<1>0. base \in Nat /\ base >= 1 /\ max \in Nat /\ max >= 1 /\ max <= MaxDuration
      /\ base <= max /\ MaxDuration \in Nat
  BY DurationsTyped
<1>1. ASSUME NEW f, NEW i \in 1..shift, f[i-1] = AtMost(base * 2^(i-1), max)
      PROVE  step(f, i) = AtMost(base * 2^i, max)
  <2> DEFINE a == base * 2^(i-1)
             c == AtMost(a, max)
  <2>1. a \in Nat /\ base * 2^i = a * 2
    <3>1. i - 1 \in Nat /\ (i - 1) + 1 = i
      OBVIOUS
    <3>2. 2^(i-1) \in Nat /\ 2^i = 2 * 2^(i-1)
      BY <3>1, PowerDoubles
    <3> QED BY <1>0, <3>2
  <2> HIDE DEF a
  <2>2. c \in Nat /\ ((c = a /\ a <= max) \/ (c = max /\ max <= a))
    BY <1>0, <2>1 DEF AtMost
  <2> HIDE DEF c
  <2>3. f[i-1] = c /\ i # 0
    BY <1>1 DEF a, c
  <2>4. c > Half(max) <=> c * 2 > max
    BY <1>0, <2>2, HalfBounds
  <2>5. c > Half(MaxDuration) <=> c * 2 > MaxDuration
    BY <1>0, <2>2, HalfBounds
  <2>6. CASE c * 2 > max
    <3>1. step(f, i) = max
      BY <2>3, <2>4, <2>6
    <3>2. AtMost(a * 2, max) = max
      BY <1>0, <2>1, <2>2, <2>6 DEF AtMost
    <3> HIDE DEF step
    <3> QED BY <2>1, <3>1, <3>2
  <2>7. CASE c * 2 <= max
    <3>1. c * 2 \in 0..MaxDuration /\ ~(c * 2 > MaxDuration) /\ ~(c * 2 > max)
      BY <1>0, <2>2, <2>7
    <3>2. step(f, i) = c * 2
      BY <2>3, <2>4, <2>5, <3>1, WrapIsIdentity
    <3>3. AtMost(a * 2, max) = c * 2
      BY <1>0, <2>1, <2>2, <2>7 DEF AtMost
    <3> HIDE DEF step
    <3> QED BY <2>1, <3>2, <3>3
  <2> QED BY <1>0, <2>2, <2>6, <2>7
<1>2. ASSUME NEW f PROVE step(f, 0) = AtMost(base * 2^0, max)
  <2>1. base * 2^0 = base
    BY <1>0, PowerOfZero
  <2> QED BY <1>0, <2>1 DEF AtMost
<1>3. loop(g)
  <2>1. ASSUME NEW i \in 0..shift PROVE step(g, i) = AtMost(base * 2^i, max)
    <3>1. CASE i = 0
      <4> HIDE DEF g, step
      <4> QED BY <1>2, <3>1
    <3>2. CASE i # 0
      <4>1. i \in 1..shift /\ i - 1 \in 0..shift
        BY <3>2
      <4>2. g[i-1] = AtMost(base * 2^(i-1), max)
        BY <4>1
      <4> HIDE DEF g, step
      <4> QED BY <1>1, <4>1, <4>2
    <3> QED BY <3>1, <3>2
  <2> HIDE DEF step
  <2> QED BY <2>1
<1> DEFINE cd == CHOOSE f : loop(f)
<1>4. Doubled(base, max, shift) = cd[shift]
  BY DEF Doubled
<1>5. loop(cd)
  <2> HIDE DEF loop
  <2> QED BY <1>3
<1>6. \A i \in 0..shift : cd[i] = step(cd, i)
  <2> HIDE DEF cd, step
  <2> QED BY <1>5
<1> HIDE DEF cd
<1> DEFINE T == {i \in 0..shift : cd[i] # AtMost(base * 2^i, max)}
<1>7. T = {}
  <2>1. SUFFICES ASSUME T # {} PROVE FALSE
    OBVIOUS
  <2>2. PICK k \in T : \A j \in T : k <= j
    <3>1. T \in SUBSET Nat
      OBVIOUS
    <3> HIDE DEF T
    <3> QED BY <2>1, <3>1, LeastNumber
  <2> HIDE DEF step
  <2>3. k \in 1..shift /\ k \in 0..shift
    <3>1. k \in 0..shift /\ cd[k] # AtMost(base * 2^k, max)
      BY <2>2
    <3>2. cd[0] = AtMost(base * 2^0, max)
      <4>1. step(cd, 0) = AtMost(base * 2^0, max)
        BY <1>2
      <4>2. 0 \in 0..shift
        OBVIOUS
      <4> QED BY <1>6, <4>1, <4>2
    <3>3. k # 0
      BY <3>1, <3>2
    <3> HIDE DEF T
    <3> QED BY <3>1, <3>3
  <2>4. k - 1 \in 0..shift /\ k - 1 \notin T
    BY <2>2, <2>3
  <2>5. cd[k-1] = AtMost(base * 2^(k-1), max)
    BY <2>4
  <2>6. step(cd, k) = AtMost(base * 2^k, max)
    BY <1>1, <2>3, <2>5
  <2>7. cd[k] # AtMost(base * 2^k, max)
    BY <2>2
  <2>8. cd[k] = step(cd, k)
    BY <1>6, <2>3
  <2> QED BY <2>6, <2>7, <2>8
<1>8. shift \in 0..shift
  OBVIOUS
<1> QED BY <1>4, <1>7, <1>8

\* SaturatingCooldown is the formula, for every run and every pair of
\* durations: doubling never overflows, and a run too long for a shift is
\* already at the bound (pool.go SaturatingCooldown).
THEOREM CooldownIsCurve ==
  ASSUME NEW every \in 1..MaxDuration, NEW max \in 1..MaxDuration, NEW run \in Nat \ {0}
  PROVE  SaturatingCooldown(every, max, run) = Curve(every, run, max)
<1>0. /\ every \in Nat /\ every >= 1 /\ max \in Nat /\ max >= 1 /\ max <= MaxDuration
      /\ MaxDuration \in Nat /\ run - 1 \in Nat /\ run \in Nat /\ ~(run < 1)
  BY DurationsTyped
<1>1. 2^(run - 1) \in Nat /\ 2^(run - 1) >= 1
  BY <1>0, PowerDoubles
<1>2. every * 2^(run - 1) \in Nat /\ every * 2^(run - 1) >= every /\ every * 2^(run - 1) >= 2^(run - 1)
  BY <1>0, <1>1, ProductGrows
<1>3. CASE every >= max
  <2>1. Curve(every, run, max) = max
    BY <1>0, <1>2, <1>3 DEF Curve, AtMost
  <2> QED BY <1>0, <1>3, <2>1 DEF SaturatingCooldown
<1>4. CASE run - 1 > Width - 1
  <2>1. 2^Width <= 2^(run - 1)
    BY <1>0, <1>4, DurationsTyped, PowerGrows
  <2>2. Curve(every, run, max) = max
    BY <1>0, <1>1, <1>2, <2>1, DurationsTyped DEF Curve, AtMost
  <2> QED BY <1>0, <1>4, <2>2 DEF SaturatingCooldown
<1>5. CASE every < max /\ ~(run - 1 > Width - 1)
  <2>1. SaturatingCooldown(every, max, run) = Doubled(every, max, run - 1)
    BY <1>0, <1>5 DEF SaturatingCooldown
  <2>2. every \in 1..max
    BY <1>0, <1>5
  <2> QED BY <1>0, <2>1, <2>2, DoubledIsCurve DEF Curve
<1> QED BY <1>0, <1>3, <1>4, <1>5

\* A cooldown is a positive duration within its bound, and never shorter than
\* that of a shorter run: what RoutePool asks of CooldownAfter
\* (pool.go ReportFailure, ReportTargetFailure).
THEOREM CooldownsGrow ==
  ASSUME NEW every \in 1..MaxDuration, NEW max \in 1..MaxDuration, NEW run \in Nat \ {0}
  PROVE  /\ SaturatingCooldown(every, max, run) \in 1..max
         /\ SaturatingCooldown(every, max, run) <= SaturatingCooldown(every, max, run + 1)
<1> DEFINE a == every * 2^(run - 1)
<1>1. every \in Nat /\ every >= 1 /\ run - 1 \in Nat /\ run + 1 \in Nat \ {0}
      /\ (run - 1) + 1 = run /\ (run + 1) - 1 = run /\ max \in Nat /\ max >= 1
  BY DurationsTyped
<1>2. 2^(run - 1) \in Nat /\ 2^(run - 1) >= 1 /\ 2^run = 2 * 2^(run - 1)
  <2>1. 2^((run - 1) + 1) = 2 * 2^(run - 1)
    BY <1>1, PowerDoubles
  <2> QED BY <1>1, <2>1, PowerDoubles
<1>3. a \in Nat /\ a >= 1 /\ every * 2^run = a * 2
  <2>1. a \in Nat /\ a >= every
    BY <1>1, <1>2, ProductGrows
  <2>2. every * 2^run = a * 2
    BY <1>1, <1>2
  <2> QED BY <1>1, <2>1, <2>2
<1>4. SaturatingCooldown(every, max, run) = AtMost(a, max)
  BY <1>1, CooldownIsCurve DEF Curve
<1>5. SaturatingCooldown(every, max, run + 1) = AtMost(a * 2, max)
  <2>1. SaturatingCooldown(every, max, run + 1) = Curve(every, run + 1, max)
    BY <1>1, CooldownIsCurve
  <2>2. Curve(every, run + 1, max) = AtMost(every * 2^run, max)
    BY <1>1 DEF Curve
  <2> QED BY <1>3, <2>1, <2>2
<1> HIDE DEF a
<1> QED BY <1>1, <1>3, <1>4, <1>5 DEF AtMost

\* "It never overflows and never returns a negative duration", whatever
\* bypassed validation (pool.go SaturatingCooldown).
THEOREM NeverNegative ==
  ASSUME NEW base \in (-MaxDuration - 1)..MaxDuration, NEW max \in (-MaxDuration - 1)..MaxDuration,
         NEW failures \in Int
  PROVE  SaturatingCooldown(base, max, failures) \in 0..MaxDuration
<1>0. MaxDuration \in Nat
  BY DurationsTyped
<1>1. CASE base <= 0 \/ max <= 0
  BY <1>0, <1>1 DEF SaturatingCooldown
<1>2. CASE base > 0 /\ max > 0
  <2>1. base \in 1..MaxDuration /\ max \in 1..MaxDuration
    BY <1>0, <1>2
  <2> DEFINE run == IF failures < 1 THEN 1 ELSE failures
  <2>2. run \in Nat \ {0}
    OBVIOUS
  <2>3. SaturatingCooldown(base, max, failures) = SaturatingCooldown(base, max, run)
    BY DEF SaturatingCooldown
  <2> HIDE DEF run
  <2>4. SaturatingCooldown(base, max, run) \in 1..max
    BY <2>1, <2>2, CooldownsGrow
  <2> QED BY <1>0, <2>1, <2>3, <2>4
<1> QED BY <1>0, <1>1, <1>2

-----------------------------------------------------------------------------
(* The next attempt.                                                       *)

\* Jitter takes at most a tenth off the base; what it adds is capped, also
\* where it leaves the range of a duration.
LEMMA BackoffIsNear ==
  ASSUME NEW every \in 1..MaxDuration, NEW max \in 1..MaxDuration, NEW run \in Nat \ {0},
         NEW backoff \in BackoffFor(every, run, max)
  PROVE  /\ backoff \in 1..max
         /\ 100 * (backoff + 1) > 90 * Curve(every, run, max)
<1> DEFINE base == SaturatingCooldown(every, max, AtLeast(run, 1))
           jittered == UNION {Converted((base * (90 + k)) \div 100) : k \in JitterSteps}
<1>1. base = Curve(every, run, max)
  <2>1. AtLeast(run, 1) = run
    BY DEF AtLeast
  <2> QED BY <2>1, CooldownIsCurve
<1>2. base \in 1..max /\ max \in Nat /\ base \in Nat /\ max <= MaxDuration /\ MaxDuration \in Nat
  <2>1. base \in 1..max
    BY <1>1, CooldownIsCurve, CooldownsGrow
  <2> HIDE DEF base
  <2> QED BY <2>1, DurationsTyped
<1>3. PICK j \in jittered : backoff = IF j <= 0 THEN base ELSE AtMost(j, max)
  BY DEF BackoffFor
<1> HIDE DEF base
<1>4. PICK k \in JitterSteps : j \in Converted((base * (90 + k)) \div 100)
  OBVIOUS
<1> DEFINE d == (base * (90 + k)) \div 100
<1>5. d \in Nat /\ 100 * (d + 1) > 90 * base
  <2>1. k \in 0..19
    BY PacingAssumption
  <2> QED BY <1>2, <2>1
<1> HIDE DEF d
<1>6. j = d \/ j = MaxDuration \/ j = -MaxDuration - 1
  BY <1>4 DEF Converted, d
<1>7. CASE j <= 0
  BY <1>1, <1>2, <1>3, <1>7
<1>8. CASE ~(j <= 0)
  <2>1. backoff = AtMost(j, max) /\ (j = d \/ j = MaxDuration)
    BY <1>2, <1>3, <1>6, <1>8
  <2>2. j \in Nat /\ 100 * (j + 1) > 90 * base
    BY <1>2, <1>5, <2>1
  <2>3. backoff \in 1..max /\ (backoff = j \/ backoff = max)
    BY <1>2, <1>8, <2>1, <2>2 DEF AtMost
  <2>4. 100 * (backoff + 1) > 90 * base
    BY <1>2, <2>2, <2>3
  <2> QED BY <1>1, <2>3, <2>4
<1> QED BY <1>7, <1>8

LEMMA LongerIsNear ==
  ASSUME NEW d \in Int, NEW n \in Int, NEW m \in Int, 100 * (n + 1) > 90 * d, n <= m
  PROVE  100 * (m + 1) > 90 * d
OBVIOUS

\* A hint that is a duration is taken as it is.
LEMMA HintIsTaken ==
  ASSUME NEW seconds \in Int, seconds * Second <= MaxDuration
  PROVE  seconds <= 0 \/ ParseRetryAfter(seconds) = seconds * Second
<1> SUFFICES ASSUME seconds > 0 PROVE ParseRetryAfter(seconds) = seconds * Second
  OBVIOUS
<1>1. Second \in Nat /\ Second >= 1
  BY PacingAssumption, DurationsTyped
<1>2. seconds * Second \in Nat
  BY <1>1, ProductGrows
<1>3. seconds * Second \in 0..MaxDuration
  BY <1>2, DurationsTyped
<1> QED BY <1>3, WrapIsIdentity DEF ParseRetryAfter

\* Whatever a hint reads as, it is a number.
LEMMA HintTyped ==
  ASSUME NEW seconds \in Int
  PROVE  ParseRetryAfter(seconds) \in Int
<1>1. Second \in Nat
  BY PacingAssumption, DurationsTyped
<1> DEFINE n == seconds * Second
           half == MaxDuration + 1
<1>2. n \in Int /\ half \in Nat /\ half > 0
  BY <1>1, DurationsTyped
<1>3. Wrap(n) = ((n + half) % (2 * half)) - half
  BY DurationsTyped DEF Wrap
<1> HIDE DEF half
<1>4. ParseRetryAfter(seconds) \in {0, Wrap(n)}
  BY DEF ParseRetryAfter
<1> HIDE DEF n
<1>5. (n + half) % (2 * half) \in Int
  BY <1>2
<1> QED BY <1>2, <1>3, <1>4, <1>5

PacingTypeOK ==
  /\ interval \in 1..MaxDuration /\ ceiling \in 1..MaxDuration
  /\ consecutive \in Nat /\ hint \in Int /\ wait \in Int

PacingInv == PacingTypeOK /\ WaitFollowsCurve /\ HintRaisesWait

LEMMA PacingInitInv == PacingInit => PacingInv
BY PacingAssumption, DurationsTyped DEF PacingInit, PacingInv, PacingTypeOK, WaitFollowsCurve, HintRaisesWait

LEMMA UnchangedKeepsPacing ==
  ASSUME PacingInv, RotationUnchanged
  PROVE  PacingInv'
<1> DEFINE run == consecutive + 1
           low == Curve(interval, run, ceiling)
<1>0. /\ interval \in 1..MaxDuration /\ ceiling \in 1..MaxDuration /\ ceiling \in Nat
      /\ run \in Nat \ {0} /\ MaxDuration \in Nat
      /\ interval' = interval /\ ceiling' = ceiling /\ consecutive' = run
  BY DurationsTyped DEF PacingInv, PacingTypeOK, RotationUnchanged
<1>1. PICK seconds \in Hints, backoff \in BackoffFor(interval, run, ceiling) :
        hint' = seconds /\ wait' = NextWait(seconds, backoff)
  BY DEF RotationUnchanged
<1>2. seconds \in Int /\ ParseRetryAfter(seconds) \in Int
  BY PacingAssumption, HintTyped
<1>3. backoff \in 1..ceiling /\ 100 * (backoff + 1) > 90 * low
  BY <1>0, BackoffIsNear
<1>4. low \in Int
  <2>1. consecutive \in Nat /\ run - 1 = consecutive
    BY DEF PacingInv, PacingTypeOK
  <2>2. 2^(run - 1) \in Nat
    BY <2>1, PowerDoubles
  <2> QED BY <1>0, <2>2 DEF Curve, AtMost
<1> HIDE DEF run, low
<1>5. wait' \in backoff..ceiling /\ wait' >= AtMost(ParseRetryAfter(seconds), ceiling)
  BY <1>0, <1>1, <1>2, <1>3 DEF NextWait, AtMost, AtLeast
<1>6. PacingTypeOK'
  BY <1>0, <1>1, <1>2, <1>3, <1>5 DEF PacingTypeOK
<1>7. WaitFollowsCurve'
  <2>1. wait' \in 1..ceiling /\ 100 * (wait' + 1) > 90 * low
    <3>1. backoff \in Int /\ 1 <= backoff /\ wait' \in Int /\ backoff <= wait' /\ wait' <= ceiling
      BY <1>0, <1>3, <1>5
    <3>2. 100 * (wait' + 1) > 90 * low
      BY <1>3, <1>4, <3>1, LongerIsNear
    <3> QED BY <1>0, <3>1, <3>2
  <2>2. Curve(interval', consecutive', ceiling') = low
    BY <1>0 DEF low
  <2> QED BY <1>0, <2>1, <2>2 DEF WaitFollowsCurve
<1>8. HintRaisesWait'
  <2> SUFFICES ASSUME seconds * Second <= MaxDuration
               PROVE  wait' >= AtMost(seconds * Second, ceiling)
    BY <1>0, <1>1 DEF HintRaisesWait
  <2>1. CASE ParseRetryAfter(seconds) = seconds * Second
    BY <1>5, <2>1
  <2>2. CASE seconds <= 0
    <3>1. Second \in Nat
      BY PacingAssumption, DurationsTyped
    <3>2. seconds * Second <= 0 /\ seconds * Second \in Int
      BY <1>2, <2>2, <3>1
    <3> QED BY <1>0, <1>3, <1>5, <3>2 DEF AtMost
  <2> QED BY <1>2, <2>1, <2>2, HintIsTaken
<1> QED BY <1>6, <1>7, <1>8 DEF PacingInv

LEMMA PacingKeepsInv == PacingInv /\ [PacingNext]_pacingVars => PacingInv'
<1> SUFFICES ASSUME PacingInv, [PacingNext]_pacingVars PROVE PacingInv'
  OBVIOUS
<1>1. CASE RotationComplete
  BY <1>1 DEF RotationComplete, PacingInv, PacingTypeOK, WaitFollowsCurve, HintRaisesWait
<1>2. CASE UNCHANGED pacingVars
  BY <1>2 DEF pacingVars, PacingInv, PacingTypeOK, WaitFollowsCurve, HintRaisesWait
<1> QED BY <1>1, <1>2, UnchangedKeepsPacing DEF PacingNext

\* "Retries never stop; they only slow down", at any width of a duration and
\* for any settings: after n unchanged results the wait is the saturated
\* doubling less at most its jitter, positive and within the bound
\* (backoff.go BackoffFor, engine.go rotate).
THEOREM RetriesOnlySlowDown == PacingSpec => []WaitFollowsCurve
<1>1. PacingInv => WaitFollowsCurve
  BY DEF PacingInv
<1> QED BY PacingInitInv, PacingKeepsInv, <1>1, PTL DEF PacingSpec

\* A Retry-After that is a duration is always honoured up to the bound
\* (probe.go parseRetryAfter, engine.go rotate).
THEOREM HintsAreHonoured == PacingSpec => []HintRaisesWait
<1>1. PacingInv => HintRaisesWait
  BY DEF PacingInv
<1> QED BY PacingInitInv, PacingKeepsInv, <1>1, PTL DEF PacingSpec
=============================================================================
