-------------------------- MODULE RotationScheduler --------------------------
(***************************************************************************)
(* The scheduler of internal/rotation/engine.go: which procedures run.     *)
(*                                                                         *)
(* A configured manual route is named by an id (canonical URL and kind);   *)
(* the route object behind the id is another one after a reload removed    *)
(* the route and a later reload added it again.  The engine schedules by   *)
(* id, a procedure owns an object, and a procedure of a removed object     *)
(* goes on until its next check.  The scheduling pass, the schedule        *)
(* writes of procedures and the release of their slots are the critical    *)
(* sections of e.mu; the pass loads its generation before it locks.        *)
(***************************************************************************)
EXTENDS Naturals, FiniteSets

CONSTANTS
  Ids,          \* ids of manual routes, numbered in configured order
  Limit,        \* max-concurrent: how many, or how many percent
  InPercent,    \* whether Limit is a percentage
  MaxObjects,   \* bound: route objects behind each id
  MaxStarts     \* bound: procedures of each object

ASSUME SchedulerAssumption ==
  /\ Ids \subseteq Nat
  /\ IsFiniteSet(Ids)
  /\ Limit \in Nat \ {0}
  /\ InPercent \in BOOLEAN
  /\ MaxObjects \in [Ids -> Nat \ {0}]

None    == 0
Numbers == UNION {1..MaxObjects[i] : i \in Ids}
Objects == UNION {{i} \X (1..MaxObjects[i]) : i \in Ids}
Runs    == UNION {{o} \X (1..MaxStarts[o]) : o \in Objects}

ASSUME StartsAssumption == MaxStarts \in [Objects -> Nat \ {0}]

VARIABLES
  live,      \* live[i]: the object the live generation has for id i, or None
  made,      \* made[i]: objects made for id i so far
  due,       \* due[i]: whether the next attempt lies ahead, or no entry
  active,    \* active[i]: the object that holds the slot of i, or None
  consec,    \* the ids with a run of unchanged rotations
  rotating,  \* the objects whose rotating flag is up
  stage,     \* stage[run]: where the procedure is
  engine,    \* where Run is
  loaded,    \* the routes of the generation evaluate works on
  canceled   \* the context of the engine is done

storeVars == <<live, made>>
muVars    == <<due, active, consec>>
runVars   == <<engine, loaded, canceled>>
vars == <<storeVars, muVars, rotating, stage, runVars>>

NoGeneration == [i \in Ids |-> None]

Unfinished ==
  {"admitted", "rotating", "recorded", "unchanged", "stale", "finishing"}

TypeOK ==
  /\ live \in [Ids -> {None} \cup Numbers]
  /\ made \in [Ids -> {None} \cup Numbers]
  /\ due \in [Ids -> {"none", "later", "now"}]
  /\ active \in [Ids -> {None} \cup Numbers]
  /\ consec \in SUBSET Ids
  /\ rotating \in SUBSET Objects
  /\ stage \in [Runs -> Unfinished \cup {"idle", "done"}]
  /\ engine \in {"load", "evaluate", "wait", "stopped"}
  /\ loaded \in [Ids -> {None} \cup Numbers]
  /\ canceled \in BOOLEAN

\* Run starts from the generation that is live: every route is due at once
\* with rotate-on-start, one interval ahead without.
Init ==
  /\ live \in [Ids -> {None, 1}]
  /\ made = live
  /\ \E first \in {"now", "later"} :
       due = [i \in Ids |-> IF live[i] = None THEN "none" ELSE first]
  /\ active = [i \in Ids |-> None]
  /\ consec = {}
  /\ rotating = {}
  /\ stage = [r \in Runs |-> "idle"]
  /\ engine = "load"
  /\ loaded = NoGeneration
  /\ canceled = FALSE

-----------------------------------------------------------------------------
(* The scheduling pass.                                                    *)

LeastOf(a, b) == IF a <= b THEN a ELSE b

ResolveMaxConcurrent(n) ==
  LET wanted == IF InPercent THEN (n * Limit + 99) \div 100 ELSE Limit
  IN  IF n = 0 THEN 0 ELSE LeastOf(n, IF wanted = 0 THEN 1 ELSE wanted)

Configured(gen) == {i \in Ids : gen[i] # None}
Cap(gen)        == ResolveMaxConcurrent(Cardinality(Configured(gen)))

\* The slots that still count: a removed route's is given up at once,
\* although its procedure runs on until its next check.
Occupied(gen) == {i \in Configured(gen) : active[i] # None}

\* A route the pass has no entry for was added by a reload: due immediately.
Due(gen) == {i \in Configured(gen) : due[i] \in {"none", "now"}}

\* The bound: an object that used up its procedures is passed over.
StartsLeft(o) == stage[<<o, MaxStarts[o]>>] = "idle"

Candidates(gen) == {i \in Due(gen) \ Occupied(gen) : StartsLeft(<<i, gen[i]>>)}

\* How many slots are taken when it is the turn of i.
TakenBefore(gen, i) ==
  Cardinality(Occupied(gen)) + Cardinality({j \in Candidates(gen) : j < i})

\* Fault: one procedure more than the cap.
Admitted_OneMore(gen) == {i \in Candidates(gen) : TakenBefore(gen, i) <= Cap(gen)}

\* The due routes without a slot, in configured order, while the cap allows.
Admitted(gen) == {i \in Candidates(gen) : TakenBefore(gen, i) < Cap(gen)}

\* Fault: the entries of a removed route are kept.
Forgotten_Never(gen) == {}

\* Entries are dropped where evaluate finds one in due.
Forgotten(gen) == {i \in Ids \ Configured(gen) : due[i] # "none"}

FreshRun(o) == CHOOSE n \in 1..MaxStarts[o] :
                 stage[<<o, n>>] = "idle" /\ \A m \in 1..(n - 1) : stage[<<o, m>>] # "idle"

\* The first pass, one of the ticker, or one that a finished procedure woke.
Load ==
  /\ engine \in {"load", "wait"}
  /\ loaded' = live
  /\ engine' = "evaluate"
  /\ UNCHANGED <<storeVars, muVars, rotating, stage, canceled>>

Evaluate ==
  /\ engine = "evaluate"
  /\ due' = [i \in Ids |-> CASE i \in Forgotten(loaded) -> "none"
                             [] i \in Due(loaded) -> "now"
                             [] OTHER -> due[i]]
  /\ consec' = consec \ Forgotten(loaded)
  /\ active' = [i \in Ids |-> CASE i \in Admitted(loaded) -> loaded[i]
                                [] i \notin Configured(loaded) -> None
                                [] OTHER -> active[i]]
  /\ rotating' = rotating \ {<<i, active[i]>> : i \in Ids \ Configured(loaded)}
  /\ LET started == {<<o, FreshRun(o)>> : o \in {<<i, loaded[i]>> : i \in Admitted(loaded)}}
     IN  stage' = [r \in Runs |-> IF r \in started THEN "admitted" ELSE stage[r]]
  /\ engine' = "wait"
  /\ loaded' = NoGeneration
  /\ UNCHANGED <<storeVars, canceled>>

\* The done context ends Run, which abandons every procedure it knows of.
AbortAll ==
  /\ engine = "wait"
  /\ canceled
  /\ engine' = "stopped"
  /\ active' = [i \in Ids |-> None]
  /\ rotating' = rotating \ {<<i, active[i]>> : i \in Ids}
  /\ UNCHANGED <<storeVars, due, consec, stage, loaded, canceled>>

-----------------------------------------------------------------------------
(* A procedure: r[1] is the object it owns, Id(r) the id it schedules.     *)
(* Lowering the flag is not a critical section of e.mu and nobody here     *)
(* reads it, so it is one step with the check or the write before it.      *)

Id(r) == r[1][1]
Gone(r) == canceled \/ live[Id(r)] # r[1][2]

Goto(r, from, to) == stage[r] = from /\ stage' = [stage EXCEPT ![r] = to]

\* runProcedure returns before BeginRotation.
ReturnAtOnce(r) ==
  /\ Goto(r, "admitted", "finishing")
  /\ Gone(r)
  /\ UNCHANGED <<storeVars, muVars, rotating, runVars>>

\* The check before it has passed; the route may be removed since.
BeginRotation(r) ==
  /\ Goto(r, "admitted", "rotating")
  /\ rotating' = rotating \cup {r[1]}
  /\ UNCHANGED <<storeVars, muVars, runVars>>

\* Fault: the flag stays up.
Abort_KeepsFlag(r) ==
  /\ Goto(r, "rotating", "finishing")
  /\ Gone(r)
  /\ UNCHANGED <<storeVars, muVars, rotating, runVars>>

\* A check between drain and verify, or the one after: AbandonRotation.
Abort(r) ==
  /\ Goto(r, "rotating", "finishing")
  /\ Gone(r)
  /\ rotating' = rotating \ {r[1]}
  /\ UNCHANGED <<storeVars, muVars, runVars>>

Commit(r) ==
  /\ Goto(r, "rotating", "recorded")
  /\ ~Gone(r)
  /\ rotating' = rotating \ {r[1]}
  /\ UNCHANGED <<storeVars, muVars, runVars>>

\* clearConsecutive and setDue: the first only drops an entry, which no
\* other section undoes in between to any other effect than after both.
\* The check that follows could only lower the flag once more.
ScheduleNext(r) ==
  /\ Goto(r, "recorded", "finishing")
  /\ consec' = consec \ {Id(r)}
  /\ due' = [due EXCEPT ![Id(r)] = "later"]
  /\ UNCHANGED <<storeVars, active, rotating, runVars>>

\* The window closed, or the commit was refused, and the route is still live.
Unchanged(r) ==
  /\ Goto(r, "rotating", "unchanged")
  /\ ~Gone(r)
  /\ UNCHANGED <<storeVars, muVars, rotating, runVars>>

\* bumpConsecutive and MarkStale.
BumpConsecutive(r) ==
  /\ Goto(r, "unchanged", "stale")
  /\ consec' = consec \cup {Id(r)}
  /\ rotating' = rotating \ {r[1]}
  /\ UNCHANGED <<storeVars, due, active, runVars>>

ScheduleRetry(r) ==
  /\ Goto(r, "stale", "finishing")
  /\ due' = [due EXCEPT ![Id(r)] = "later"]
  /\ UNCHANGED <<storeVars, active, consec, rotating, runVars>>

\* Faults: the slot is released whoever holds it; it is never released.
Released_ById(r)   == [active EXCEPT ![Id(r)] = None]
Released_Never(r)  == active

\* The slot is released only by the object that holds it.
Released(r) == [active EXCEPT ![Id(r)] = IF @ = r[1][2] THEN None ELSE @]

FinishProcedure(r) ==
  /\ Goto(r, "finishing", "done")
  /\ active' = Released(r)
  /\ UNCHANGED <<storeVars, due, consec, rotating, runVars>>

ProcedureStep(r) ==
  \/ ReturnAtOnce(r) \/ BeginRotation(r) \/ Abort(r)
  \/ Commit(r) \/ ScheduleNext(r)
  \/ Unchanged(r) \/ BumpConsecutive(r) \/ ScheduleRetry(r)
  \/ FinishProcedure(r)

-----------------------------------------------------------------------------
(* The clock, reloads and shutdown.                                        *)

\* A due time passes; bounded by the procedures left to the live object.
Elapse(i) ==
  /\ due[i] = "later"
  /\ live[i] # None => StartsLeft(<<i, live[i]>>)
  /\ due' = [due EXCEPT ![i] = "now"]
  /\ UNCHANGED <<storeVars, active, consec, rotating, stage, runVars>>

\* The goroutine that reloads is the one that shuts down.
Remove(i) ==
  /\ live[i] # None
  /\ ~canceled
  /\ live' = [live EXCEPT ![i] = None]
  /\ UNCHANGED <<made, muVars, rotating, stage, runVars>>

\* A route without a predecessor in the pool is a new object.
Add(i) ==
  /\ live[i] = None
  /\ ~canceled
  /\ made[i] < MaxObjects[i]
  /\ live' = [live EXCEPT ![i] = made[i] + 1]
  /\ made' = [made EXCEPT ![i] = made[i] + 1]
  /\ UNCHANGED <<muVars, rotating, stage, runVars>>

Cancel ==
  /\ ~canceled
  /\ canceled' = TRUE
  /\ UNCHANGED <<storeVars, muVars, rotating, stage, engine, loaded>>

Next ==
  \/ Load \/ Evaluate \/ AbortAll \/ Cancel
  \/ \E r \in Runs : ProcedureStep(r)
  \/ \E i \in Ids : Elapse(i) \/ Remove(i) \/ Add(i)

Spec == Init /\ [][Next]_vars

\* Run and the procedures are goroutines whose calls have timeouts, and the
\* select of Run takes a done context sooner or later.  Time, reloads and
\* shutdown are not promised.
Fairness ==
  /\ WF_vars(Load) /\ WF_vars(Evaluate) /\ SF_vars(AbortAll)
  /\ \A r \in Runs : WF_vars(ProcedureStep(r))

FairSpec == Spec /\ Fairness

-----------------------------------------------------------------------------
(* Correctness.                                                            *)

Running == {r \in Runs : stage[r] \in Unfinished}

\* A route object never has two procedures, also when the procedure of its
\* removed predecessor ends while it has the slot of their common id
\* (engine.go finishProcedure).
OneProcedurePerRoute ==
  \A r, s \in Running : r[1] = s[1] => r = s

\* The cap is honest about the list a pass works on, also when a reload made
\* the list shorter and the cap smaller than what runs: a pass that starts a
\* procedure leaves no more of them on the routes of its list than
\* max-concurrent allows for that list (docs/rotation.md max-concurrent,
\* engine.go evaluate).
CapHonest ==
  [][(\E r \in Runs : stage[r] = "idle" /\ stage'[r] # "idle")
       => Cardinality({r \in Running' : loaded[Id(r)] = r[1][2]}) <= Cap(loaded)]_vars

\* No slot leaks: one that is taken has a procedure that will release it
\* (engine.go runProcedure, finishProcedure).
SlotsAreOwned ==
  \A i \in Ids : active[i] # None => \E r \in Running : r[1] = <<i, active[i]>>

\* A route removed for good leaves nothing behind in the engine, although a
\* procedure may write its schedule after the pass dropped it
\* (engine.go evaluate, setDue, bumpConsecutive).
RemovedRoutesAreForgotten ==
  \A i \in Ids :
    <>[](live[i] = None /\ ~canceled)
      => <>[](due[i] = "none" /\ i \notin consec /\ active[i] = None)

\* After the context is done the engine stops, every procedure returns and
\* no route is left out of rotation (engine.go Run, abortAll).
StopQuiesces == canceled ~> [](engine = "stopped" /\ Running = {} /\ rotating = {})
=============================================================================
