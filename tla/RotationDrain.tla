---------------------------- MODULE RotationDrain ----------------------------
(***************************************************************************)
(* A rotation procedure seen from the data plane: the steps of             *)
(* internal/rotation/engine.go (rotate) and internal/pool/rotation.go that *)
(* take a route out of picks, drain its holders, call the provider and     *)
(* return the route to serving, interleaved with the requests and the      *)
(* reloads of RequestChain.                                                *)
(*                                                                         *)
(* The engine's goroutine takes p.mu for its state writes, and the mutex   *)
(* of one generation's pool only to commit or to jump a stale route to the *)
(* back.  A write it makes outside both mutexes is a step of its own.      *)
(* What the probes and the provider answer is a nondeterministic outcome   *)
(* here; RotationCommit models how it is decided.                          *)
(***************************************************************************)
EXTENDS RequestChain

CONSTANTS
  Manual,         \* the routes with origin manual
  MaxProcedures   \* bound on the procedures per route

ASSUME ManualAssumption == Manual \subseteq Routes /\ MaxProcedures \in Nat

VARIABLES
  phase,       \* phase[p]: where the procedure of p is
  marked,      \* marked[p]: the generation whose pool MarkStale runs on
  forced,      \* forced[p]: the drain timeout expired before the route drained
  late,        \* late[p]: picks served since the procedure began
  procedures   \* procedures[p]: procedures begun

engineVars == <<phase, marked, forced, late, procedures>>
allVars == <<vars, engineVars>>

Phase == {"idle", "draining", "provider", "committed", "resetting", "stale"}

DrainTypeOK ==
  /\ TypeOK
  /\ phase \in [Manual -> Phase]
  /\ marked \in [Manual -> 1..MaxGenerations]
  /\ forced \in [Manual -> BOOLEAN]
  /\ late \in [Manual -> Nat]
  /\ procedures \in [Manual -> 0..MaxProcedures]

DrainInit ==
  /\ Init
  /\ phase = [p \in Manual |-> "idle"]
  /\ marked = [p \in Manual |-> 1]
  /\ forced = [p \in Manual |-> FALSE]
  /\ late = [p \in Manual |-> 0]
  /\ procedures = [p \in Manual |-> 0]

Enter(p, from, to) == phase[p] = from /\ phase' = [phase EXCEPT ![p] = to]

-----------------------------------------------------------------------------
\* BeginRotation takes no pool mutex: a pick may be between scan and serve.
\* A reload may have removed the route after the procedure last looked.
BeginRotation(p) ==
  /\ Enter(p, "idle", "draining")
  /\ p \in Known
  /\ procedures[p] < MaxProcedures
  /\ procedures' = [procedures EXCEPT ![p] = @ + 1]
  /\ rotating' = [rotating EXCEPT ![p] = TRUE]
  /\ forced' = [forced EXCEPT ![p] = FALSE]
  /\ late' = [late EXCEPT ![p] = 0]
  /\ UNCHANGED <<now, pass, inFlight, health, requestVars, marked>>

\* The drain loop reads no in-flight work.
Drained(p) ==
  /\ Enter(p, "draining", "provider")
  /\ inFlight[p] = 0
  /\ UNCHANGED <<vars, marked, forced, late, procedures>>

\* Fault: the drain deadline is never reached.
DrainTimeout_Never(p) ==
  /\ Enter(p, "draining", "provider")
  /\ inFlight[p] = 0
  /\ UNCHANGED <<vars, marked, forced, late, procedures>>

\* rotation.drain-timeout: the procedure rotates under its holders.
DrainTimeout(p) ==
  /\ Enter(p, "draining", "provider")
  /\ inFlight[p] > 0
  /\ forced' = [forced EXCEPT ![p] = TRUE]
  /\ UNCHANGED <<vars, marked, late, procedures>>

\* EndRotation, inside CommitRotation and so under the mutex of the live
\* pool, which must have the route; a refused commit abandons the procedure.
Commit(p) ==
  /\ Enter(p, "provider", "committed")
  /\ p \in Elements(store[live].routes)
  /\ poolMu[live] = NoRequest
  /\ rotating' = [rotating EXCEPT ![p] = FALSE]
  /\ UNCHANGED <<now, pass, inFlight, health, requestVars, marked, forced, late, procedures>>

\* MarkRotated, first half: the streak, under p.mu.
ResetStreak(p) ==
  /\ Enter(p, "committed", "resetting")
  /\ consecutiveFailures' = [consecutiveFailures EXCEPT ![p] = 0]
  /\ UNCHANGED <<now, pass, inFlight, cooldownUntil, authBlocked, pairs, rotating,
                 requestVars, marked, forced, late, procedures>>

\* MarkRotated, second half: both cooldown scopes, after p.mu is released.
ResetCooldowns(p) ==
  /\ Enter(p, "resetting", "idle")
  /\ cooldownUntil' = [cooldownUntil EXCEPT ![p] = 0]
  /\ pairs' = clearAllTargetCooldowns(p)
  /\ UNCHANGED <<now, pass, inFlight, consecutiveFailures, authBlocked, rotating,
                 requestVars, marked, forced, late, procedures>>

\* MarkStale, on the pool that is live by then: the flag clears under p.mu,
\* the jump to the back follows.
MarkStale(p) ==
  /\ Enter(p, "provider", "stale")
  /\ rotating' = [rotating EXCEPT ![p] = FALSE]
  /\ marked' = [marked EXCEPT ![p] = live]
  /\ UNCHANGED <<now, pass, inFlight, health, requestVars, forced, late, procedures>>

Furthest(S) == CHOOSE n \in {pass[p] : p \in S} : \A p \in S : pass[p] <= n

\* jumpToBack
JumpToBack(p) ==
  /\ Enter(p, "stale", "idle")
  /\ poolMu[marked[p]] = NoRequest
  /\ pass' = [pass EXCEPT ![p] = Furthest(Elements(store[marked[p]].routes) \cup {p}) + 1]
  /\ UNCHANGED <<now, inFlight, health, rotating, requestVars, marked, forced, late, procedures>>

\* Fault: the unwinding procedure leaves the route out of picks.
Abandon_KeepsFlag(p) ==
  /\ \/ Enter(p, "draining", "idle")
     \/ Enter(p, "provider", "idle")
  /\ UNCHANGED <<vars, marked, forced, late, procedures>>

\* AbandonRotation: shutdown, or a reload removed the route.
Abandon(p) ==
  /\ \/ Enter(p, "draining", "idle")
     \/ Enter(p, "provider", "idle")
  /\ rotating' = [rotating EXCEPT ![p] = FALSE]
  /\ UNCHANGED <<now, pass, inFlight, health, requestVars, marked, forced, late, procedures>>

\* A request serves a route: count it when a procedure holds the route.
ServeDuring(r) ==
  /\ PickServe(r)
  /\ late' = [p \in Manual |->
                IF p = chosen[r] /\ rotating[p] THEN late[p] + 1 ELSE late[p]]
  /\ UNCHANGED <<phase, marked, forced, procedures>>

RequestStep(r) ==
  /\ \/ Start(r) \/ DeadlineExpired(r) \/ RetryExhausted(r)
     \/ PickNone(r) \/ PickScan(r)
     \/ DialSucceeds(r) \/ DialFails(r) \/ SetupFails(r) \/ Finish(r)
  /\ UNCHANGED engineVars

ProcedureStep(p) ==
  \/ Drained(p) \/ DrainTimeout(p)
  \/ Commit(p) \/ ResetStreak(p) \/ ResetCooldowns(p)
  \/ MarkStale(p) \/ JumpToBack(p)

DrainNext ==
  \/ (Tick \/ ReadPasses \/ Publish) /\ UNCHANGED engineVars
  \/ \E r \in Requests : RequestStep(r) \/ ServeDuring(r)
  \/ \E p \in Manual : BeginRotation(p) \/ ProcedureStep(p) \/ Abandon(p)

DrainSpec == DrainInit /\ [][DrainNext]_allVars

\* Every wait of a procedure is bounded: the drain by drain-timeout, the
\* probes and the provider call by their timeouts.  Nothing promises that a
\* procedure is abandoned.  A request is weakly fair
\* up to the end of its chain, as in RequestChain.
DrainFairness ==
  /\ \A p \in Manual : WF_allVars(ProcedureStep(p))
  /\ \A r \in Requests : WF_allVars((RequestStep(r) /\ pc[r] \in Chain) \/ ServeDuring(r))

FairDrainSpec == DrainSpec /\ DrainFairness

-----------------------------------------------------------------------------
\* A pick that scanned the route before its procedure began may still serve
\* it, but the mutex of a pool lets at most one such pick exist: a procedure
\* sees at most one late holder per generation in use.  When the drain has
\* finished by itself, the provider is called over no other holder, whatever
\* the requests and reloads do meanwhile (pool.go PickFor, rotation.go
\* BeginRotation, engine.go rotate).
DrainIsAlmostTight ==
  \A p \in Manual :
    /\ late[p] <= live
    /\ phase[p] = "provider" /\ ~forced[p] => Cardinality(Holders(p)) <= late[p]

\* A route is out of picks exactly while a procedure owns it, and the pick
\* path alone can never leave one of them out for good (engine.go
\* runProcedure: every exit reaches EndRotation, MarkStale or
\* AbandonRotation).
RotatingIsOwned ==
  \A p \in Routes :
    rotating[p] <=> p \in Manual /\ phase[p] \in {"draining", "provider"}

\* Every procedure gives its route back, also under a tunnel that never ends.
RotationEnds == \A p \in Manual : rotating[p] ~> ~rotating[p]

=============================================================================
