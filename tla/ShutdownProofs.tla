---------------------------- MODULE ShutdownProofs ----------------------------
(***************************************************************************)
(* Proofs about Shutdown: for any number of listeners and connections and  *)
(* any budget, readiness falls before a socket does, what a listener       *)
(* reports is final, and the budget is kept.                               *)
(***************************************************************************)
EXTENDS Shutdown, FiniteSetTheorems, TLAPS

\* The sessions a listener waits for.
InUse(l) == {c \in Conns : On[c] = l /\ session[c] \in Admitted}

\* What the variables of the shutdown may hold.
Typed ==
  /\ elapsed \in Nat
  /\ open \subseteq Listeners
  /\ server \in [Listeners -> {"serving", "waiting", "sweeping", "tail", "drained", "forced"}]
  /\ sweep \in [Listeners -> SUBSET Conns]
  /\ tailEnd \in [Listeners -> Nat]
  /\ session \in [Conns -> {"none", "accepted", "refused", "ended"} \cup Admitted]
  /\ tracked \subseteq Conns
  /\ live \in [Listeners -> Nat]

\* The readiness state follows the main goroutine, and a socket closes and a
\* session is refused only after the head start.
Ordered ==
  /\ main \in {"boot", "serving", "headstart", "warm", "closing", "draining", "stopped"}
  /\ main = "boot" => lifecycle = "starting"
  /\ main = "serving" => lifecycle = "ready"
  /\ main \in {"headstart", "warm", "closing", "draining"} => lifecycle = "draining"
  /\ main = "stopped" => lifecycle = "stopped"
  /\ main \in {"warm", "closing", "draining", "stopped"} => elapsed >= Head
  /\ open # Listeners => main \in {"closing", "draining", "stopped"}
  /\ \A l \in Listeners : server[l] # "serving" => main \in {"draining", "stopped"}
  /\ \A l \in Listeners : l \in shuttingDown <=> server[l] # "serving"
  /\ shuttingDown \subseteq Listeners
  /\ \A c \in Conns : session[c] = "refused" => On[c] \in shuttingDown

\* The budget, listener by listener.
InBudget ==
  /\ main \notin {"draining", "stopped"} => elapsed <= Grace
  /\ \A l \in Listeners :
       /\ server[l] \in {"serving", "waiting", "sweeping"} => elapsed <= Grace
       /\ tailEnd[l] <= Grace + ForceCloseWait
  /\ main = "stopped" => \A l \in Listeners : server[l] \in {"drained", "forced"}
  /\ elapsed <= Grace + ForceCloseWait

\* The WaitGroup and the registry are what they count, and the sweep of a
\* listener misses no session.
Registered ==
  /\ \A l \in Listeners : live[l] = Cardinality(InUse(l))
  /\ \A c \in Conns : session[c] \in Serving => c \in tracked
  /\ \A c \in Conns :
       session[c] \in Serving =>
         /\ server[On[c]] = "sweeping" => c \in sweep[On[c]]
         /\ server[On[c]] \in {"tail", "forced"} => c \in broken
  /\ \A c \in Conns : server[On[c]] = "drained" => session[c] \notin Admitted

Inv == Typed /\ Ordered /\ InBudget /\ Registered

-----------------------------------------------------------------------------
\* The head start is drawn from the budget.
LEMMA HeadInBudget == Head \in Nat /\ Head <= Grace
<1>1. Grace \in Nat /\ ReadinessPropagation \in Nat
  BY ShutdownAssumption
<1>2. Grace \div 2 \in Nat /\ Grace \div 2 <= Grace
  BY <1>1
<1> QED BY <1>1, <1>2 DEF Head, Propagation

LEMMA InUseFinite ==
  ASSUME NEW l
  PROVE  IsFiniteSet(InUse(l)) /\ Cardinality(InUse(l)) \in Nat
BY FS_Subset, FS_CardinalityType, ShutdownAssumption DEF InUse

LEMMA InitInv == Init => Inv
<1> SUFFICES ASSUME Init PROVE Inv
  OBVIOUS
<1>1. \A l \in Listeners : InUse(l) = {}
  BY DEF Init, InUse, Admitted, Serving
<1>2. Registered
  BY <1>1, FS_EmptySet, ShutdownAssumption DEF Init, Registered, Serving, Admitted
<1>3. Typed
  BY DEF Init, Typed
<1>4. Ordered /\ InBudget
  BY ShutdownAssumption DEF Init, Ordered, InBudget
<1> QED BY <1>2, <1>3, <1>4 DEF Inv

\* A step of the main goroutine.
LEMMA MainKeepsInv ==
  ASSUME Inv, MainStep \/ BeginDraining
  PROVE  Inv'
<1> USE DEF Inv, At, Advance
<1>1. /\ UNCHANGED <<elapsed, serverVars, sessionVars>>
      /\ open' \subseteq open
      /\ \/ /\ main = "boot" /\ main' = "serving" /\ open' = open
            /\ lifecycle' = IF lifecycle \in {"starting"} THEN "ready" ELSE lifecycle
         \/ /\ main = "serving" /\ main' = "headstart" /\ open' = open
            /\ lifecycle' = IF lifecycle \in {"starting", "ready"} THEN "draining" ELSE lifecycle
         \/ /\ main = "headstart" /\ main' = "warm" /\ open' = open
            /\ elapsed >= Head \/ Expired
            /\ UNCHANGED lifecycle
         \/ main = "warm" /\ main' = "closing" /\ open' = open /\ UNCHANGED lifecycle
         \/ main = "closing" /\ main' \in {"closing", "draining"} /\ UNCHANGED lifecycle
         \/ main = "draining" /\ main' = "draining" /\ open' = open /\ UNCHANGED lifecycle
         \/ /\ main = "draining" /\ main' = "stopped" /\ open' = open
            /\ \A l \in Listeners : server[l] \in {"drained", "forced"}
            /\ lifecycle' = IF lifecycle \in {"starting", "ready", "draining"}
                            THEN "stopped" ELSE lifecycle
  <2>1. CASE MarkReady \/ BeginDraining \/ HeadStartOver \/ WarmStopReturns
    BY <2>1 DEF MarkReady, BeginDraining, HeadStartOver, WarmStopReturns
  <2>2. CASE StartDrains \/ AdminReturns \/ MarkStopped
    BY <2>2 DEF StartDrains, AdminReturns, MarkStopped
  <2>3. CASE \E l \in Listeners : CloseListener(l)
    BY <2>3 DEF CloseListener
  <2> QED BY <2>1, <2>2, <2>3 DEF MainStep
<1>2. elapsed \in Nat /\ Head \in Nat /\ Head <= Grace /\ Grace \in Nat
  BY HeadInBudget, ShutdownAssumption DEF Typed
<1>3. Expired => elapsed >= Head
  BY <1>2 DEF Expired, Deadline
<1> USE DEF serverVars, sessionVars
<1>4. Typed'
  BY <1>1 DEF Typed
<1>5. Ordered'
  <2>1. Head' = Head
    BY DEF Head, Propagation
  <2>2. main' \in {"warm", "closing", "draining", "stopped"} => elapsed' >= Head'
    BY <1>1, <1>2, <1>3, <2>1 DEF Ordered
  <2>3. /\ main' = "boot" => lifecycle' = "starting"
        /\ main' = "serving" => lifecycle' = "ready"
        /\ main' \in {"headstart", "warm", "closing", "draining"} => lifecycle' = "draining"
        /\ main' = "stopped" => lifecycle' = "stopped"
    BY <1>1 DEF Ordered
  <2>5. main' \in {"boot", "serving", "headstart", "warm", "closing", "draining", "stopped"}
    BY <1>1 DEF Ordered
  <2>6. open' # Listeners => main' \in {"closing", "draining", "stopped"}
    BY <1>1 DEF Ordered
  <2>4. main \in {"draining", "stopped"} => main' \in {"draining", "stopped"}
    BY <1>1
  <2> QED BY <1>1, <2>2, <2>3, <2>4, <2>5, <2>6 DEF Ordered
<1>6. InBudget'
  BY <1>1 DEF InBudget, Ordered
<1>7. Registered'
  BY <1>1 DEF Registered, InUse
<1> QED BY <1>4, <1>5, <1>6, <1>7

\* A step of the Shutdown of a listener.
LEMMA ServerKeepsInv ==
  ASSUME Inv, NEW l \in Listeners, ServerStep(l)
  PROVE  Inv'
<1> USE DEF Inv, ServerGoto, processVars, sessionVars
<1>1. CASE Refuse(l)
  <2> USE <1>1 DEF Refuse
  <2>1. Typed' /\ Ordered' /\ InBudget'
    BY DEF Typed, Ordered, InBudget, Head, Propagation
  <2>2. Registered'
    BY DEF Registered, InUse, Typed
  <2> QED BY <2>1, <2>2
<1>2. CASE Drained(l)
  <2> USE <1>2 DEF Drained
  <2>1. Typed' /\ Ordered' /\ InBudget'
    BY DEF Typed, Ordered, InBudget, Head, Propagation
  <2>2. InUse(l) = {}
    BY InUseFinite, FS_EmptySet DEF Registered
  <2>3. Registered'
    BY <2>2 DEF Registered, InUse, Typed
  <2> QED BY <2>1, <2>3
<1>3. CASE Expire(l)
  <2> USE <1>3 DEF Expire
  <2>1. Ordered' /\ InBudget'
    BY DEF Typed, Ordered, InBudget, Head, Propagation
  <2>2. Registered'
    BY DEF Registered, InUse, Typed
  <2>3. sweep' \in [Listeners -> SUBSET Conns]
    BY DEF Typed
  <2>4. Typed'
    BY <2>3 DEF Typed
  <2> QED BY <2>1, <2>2, <2>4
<1>4. CASE CloseConns(l)
  <2> USE <1>4 DEF CloseConns
  <2>1. Ordered'
    BY DEF Typed, Ordered, Head, Propagation
  <2>2. elapsed \in Nat /\ elapsed <= Grace /\ ForceCloseWait \in Nat /\ Grace \in Nat
    BY ShutdownAssumption DEF Typed, InBudget
  <2>3. InBudget'
    BY <2>2 DEF Typed, InBudget
  <2>4. Typed'
    BY <2>2 DEF Typed
  <2>5. Registered'
    BY DEF Registered, InUse, Typed
  <2> QED BY <2>1, <2>3, <2>4, <2>5
<1>5. CASE TailOver(l)
  <2> USE <1>5 DEF TailOver
  <2>1. Typed' /\ Ordered' /\ InBudget'
    BY DEF Typed, Ordered, InBudget, Head, Propagation
  <2>2. Registered'
    BY DEF Registered, InUse, Typed
  <2> QED BY <2>1, <2>2
<1> QED BY <1>1, <1>2, <1>3, <1>4, <1>5 DEF ServerStep

\* A step of a session.
LEMMA SessionKeepsInv ==
  ASSUME Inv, NEW c \in Conns, SessionStep(c)
  PROVE  Inv'
<1> USE DEF Inv, Become, processVars, serverVars
<1> DEFINE l == On[c]
<1>1. l \in Listeners
  BY ShutdownAssumption
<1>2. /\ UNCHANGED <<processVars, serverVars, broken>>
      /\ \A d \in Conns \ {c} : session'[d] = session[d]
      /\ session' \in [Conns -> {"none", "accepted", "refused", "ended"} \cup Admitted]
  <2>1. CASE Accept(c) \/ Progress(c) \/ Leave(c) \/ Done(c)
    BY <2>1 DEF Accept, Progress, Leave, Done, Typed, Admitted, Serving
  <2>2. CASE BeginSession(c)
    BY <2>2 DEF BeginSession, Admit, Reject, Typed, Admitted, Serving
  <2> QED BY <2>1, <2>2 DEF SessionStep
<1>3. \A k \in Listeners \ {l} : InUse(k)' = InUse(k)
  BY <1>2 DEF InUse
<1>4. CASE BeginSession(c) /\ On[c] \notin shuttingDown
  <2>1. /\ session[c] = "accepted" /\ session'[c] = "handshake" /\ tracked' = tracked \cup {c}
        /\ live' = [live EXCEPT ![l] = @ + 1] /\ server[l] = "serving"
    BY <1>1, <1>4 DEF BeginSession, Admit, Reject, Typed, Ordered
  <2>2. InUse(l)' = InUse(l) \cup {c} /\ c \notin InUse(l)
    BY <1>2, <2>1 DEF InUse, Admitted, Serving
  <2>3. Cardinality(InUse(l)') = Cardinality(InUse(l)) + 1
    BY <2>2, InUseFinite, FS_AddElement
  <2>4. \A k \in Listeners : live'[k] = Cardinality(InUse(k)')
    BY <1>1, <1>3, <2>1, <2>3 DEF Typed, Registered
  <2>5. Registered'
    BY <1>2, <2>1, <2>4 DEF Registered
  <2>6. live' \in [Listeners -> Nat]
    BY <1>1, <2>1 DEF Typed
  <2> QED BY <1>2, <2>1, <2>5, <2>6 DEF Typed, Ordered, InBudget, Head, Propagation
<1>5. CASE Done(c)
  <2>1. /\ session[c] = "leaving" /\ session'[c] = "ended" /\ tracked' = tracked
        /\ live' = [live EXCEPT ![l] = @ - 1]
    BY <1>5 DEF Done, Typed
  <2>2. InUse(l)' = InUse(l) \ {c} /\ c \in InUse(l)
    BY <1>2, <2>1 DEF InUse, Admitted, Serving
  <2>3. Cardinality(InUse(l)') = Cardinality(InUse(l)) - 1
    BY <2>2, InUseFinite, FS_RemoveElement
  <2>4. IsFiniteSet(InUse(l)') /\ Cardinality(InUse(l)') \in Nat
    BY <2>2, InUseFinite, FS_Subset, FS_CardinalityType
  <2>5. \A k \in Listeners : live'[k] = Cardinality(InUse(k)')
    BY <1>1, <1>3, <2>1, <2>3 DEF Typed, Registered
  <2>6. Registered'
    BY <1>2, <2>1, <2>5 DEF Registered, Serving, Admitted
  <2>7. live' \in [Listeners -> Nat]
    BY <1>1, <2>1, <2>4, <2>5 DEF Typed
  <2> QED BY <1>2, <2>1, <2>6, <2>7 DEF Typed, Ordered, InBudget, Head, Propagation
<1>6. CASE Accept(c) \/ (BeginSession(c) /\ On[c] \in shuttingDown) \/ Progress(c) \/ Leave(c)
  <2>1. /\ session'[c] \in Admitted <=> session[c] \in Admitted
        /\ session'[c] \in Serving => session[c] \in Serving
        /\ session'[c] = "refused" => On[c] \in shuttingDown
        /\ session'[c] \in Serving => tracked' = tracked
        /\ \A d \in Conns \ {c} : d \in tracked => d \in tracked'
        /\ tracked' \subseteq tracked /\ live' = live
    BY <1>6 DEF Accept, BeginSession, Admit, Reject, Progress, Leave, Typed, Admitted, Serving
  <2>2. InUse(l)' = InUse(l)
    BY <1>2, <2>1 DEF InUse
  <2>3. \A k \in Listeners : live'[k] = Cardinality(InUse(k)')
    BY <1>3, <2>1, <2>2 DEF Registered
  <2>4. Registered'
    BY <1>2, <2>1, <2>3 DEF Registered
  <2> QED BY <1>2, <2>1, <2>4 DEF Typed, Ordered, InBudget, Head, Propagation
<1> QED BY <1>4, <1>5, <1>6 DEF SessionStep

\* Time passes only while every goroutine of the shutdown waits.
LEMMA TickKeepsInv ==
  ASSUME Inv, Tick
  PROVE  Inv'
<1> USE DEF Inv, Tick, serverVars, sessionVars
<1>1. elapsed \in Nat /\ Grace \in Nat /\ ForceCloseWait \in Nat /\ Head \in Nat /\ Head <= Grace
  BY HeadInBudget, ShutdownAssumption DEF Typed
<1>2. elapsed' = elapsed + 1 /\ (Expired <=> elapsed >= Grace)
  BY DEF Expired, Deadline
<1>3. main # "draining" => elapsed' <= Grace
  BY <1>1, <1>2 DEF MainWaits
<1>4. \A l \in Listeners : server[l] \in {"serving", "waiting", "sweeping"} => elapsed' <= Grace
  BY <1>1, <1>2, <1>3 DEF ServerWaits
<1>5. elapsed' <= Grace + ForceCloseWait
  <2>1. CASE main # "draining"
    BY <1>1, <1>2, <1>3, <2>1
  <2>2. CASE main = "draining" /\ admin = "serving"
    BY <1>1, <1>2, <2>2 DEF MainWaits
  <2>3. CASE main = "draining" /\ \E l \in Listeners : server[l] \in {"waiting", "tail"}
    <3>1. PICK l \in Listeners : server[l] \in {"waiting", "tail"}
      BY <2>3
    <3>2. tailEnd[l] \in Nat /\ tailEnd[l] <= Grace + ForceCloseWait
      BY DEF Typed, InBudget
    <3>3. server[l] = "tail" => elapsed < tailEnd[l]
      BY DEF ServerWaits
    <3>4. CASE server[l] = "tail"
      BY <1>1, <1>2, <3>2, <3>3, <3>4
    <3>5. CASE server[l] = "waiting"
      BY <1>1, <1>2, <1>4, <3>5
    <3> QED BY <3>1, <3>4, <3>5
  <2> QED BY <2>1, <2>2, <2>3
<1>6. main \in {"headstart", "warm", "draining"}
  BY DEF MainWaits
<1>7. Typed'
  BY <1>1, <1>2 DEF Typed
<1>8. Ordered'
  <2>1. Head' = Head
    BY DEF Head, Propagation
  <2>2. elapsed >= Head => elapsed' >= Head'
    BY <1>1, <1>2, <2>1
  <2> QED BY <1>6, <2>2 DEF Ordered
<1>9. InBudget'
  BY <1>3, <1>4, <1>5, <1>6 DEF InBudget
<1>10. Registered'
  BY DEF Registered, InUse
<1> QED BY <1>7, <1>8, <1>9, <1>10

LEMMA NextInv ==
  ASSUME Inv, [Next]_vars
  PROVE  Inv'
<1>1. CASE UNCHANGED vars
  BY <1>1 DEF vars, processVars, serverVars, sessionVars, Inv, Typed, Ordered, InBudget,
              Registered, InUse, Head, Propagation
<1> QED BY <1>1, MainKeepsInv, ServerKeepsInv, SessionKeepsInv, TickKeepsInv DEF Next

LEMMA SpecInv == Spec => []Inv
  BY InitInv, NextInv, PTL DEF Spec

-----------------------------------------------------------------------------
(* What follows.                                                           *)

\* Readiness falls, and the head start passes, before a socket closes or a
\* session is refused (main.go shutdownAll, step 1).
THEOREM NeverClosesWhileReady == Spec => []UnreadyBeforeClose
<1>1. Inv => UnreadyBeforeClose
  <2> SUFFICES ASSUME Inv, open # Listeners \/ shuttingDown # {}
                             \/ \E c \in Conns : session[c] = "refused"
               PROVE  lifecycle \in {"draining", "stopped"} /\ elapsed >= Head
    BY DEF UnreadyBeforeClose
  <2>1. main \in {"closing", "draining", "stopped"}
    BY DEF Inv, Ordered
  <2> QED BY <2>1 DEF Inv, Ordered
<1> QED BY <1>1, SpecInv, PTL

\* What Shutdown reports of a listener is so and stays so (server.go
\* beginSession, CloseConns).
THEOREM ReportedShutdownIsFinal == Spec => []ShutdownIsFinal
<1>1. Inv => ShutdownIsFinal
  BY DEF Inv, Registered, ShutdownIsFinal
<1> QED BY <1>1, SpecInv, PTL

\* The process takes the grace budget and one force-close tail at most
\* (main.go shutdownAll).
THEOREM BudgetIsKept == Spec => []BudgetKept
<1>1. Inv => BudgetKept
  BY DEF Inv, InBudget, BudgetKept
<1> QED BY <1>1, SpecInv, PTL
=============================================================================
