------------------------------ MODULE Shutdown ------------------------------
(***************************************************************************)
(* The end of the process: run and shutdownAll of main.go, the readiness   *)
(* state of lifecycle.go and, in server.go, Serve, beginSession, Shutdown  *)
(* and CloseConns of every proxy listener.                                 *)
(*                                                                         *)
(* elapsed is the time since shutdownAll was called.  It does not pass     *)
(* while a step that waits for nothing is left to do: what takes time is   *)
(* the head start, the warm pool's teardown, sessions and probes, and each *)
(* wait ends at its timer at the latest.                                   *)
(***************************************************************************)
EXTENDS Naturals, FiniteSets

CONSTANTS
  Listeners,    \* proxy listeners
  Conns,        \* client connections
  On,           \* On[c]: the listener c connects to
  Grace,        \* RPGW_SHUTDOWN_GRACE
  ReadinessPropagation,
  ForceCloseWait

ASSUME ShutdownAssumption ==
  /\ IsFiniteSet(Listeners) /\ IsFiniteSet(Conns)
  /\ On \in [Conns -> Listeners]
  /\ Grace \in Nat
  /\ ReadinessPropagation \in Nat \ {0}
  /\ ForceCloseWait \in Nat

VARIABLES
  lifecycle,     \* what /readyz answers from
  main,          \* where the main goroutine is
  elapsed,       \* time since shutdownAll was called
  admin,         \* whether the admin server still answers
  open,          \* listeners whose socket accepts
  server,        \* server[l]: where Shutdown of l is
  shuttingDown,  \* listeners that admit no session any more
  sweep,         \* sweep[l]: the connections CloseConns collected
  tailEnd,       \* tailEnd[l]: when the force-close tail of l ends
  session,       \* session[c]: where the session of c is
  tracked,       \* the connections registered for force-close
  live,          \* live[l]: the WaitGroup of l
  broken         \* the connections Shutdown force-closed

processVars == <<lifecycle, main, elapsed, admin, open>>
serverVars  == <<server, shuttingDown, sweep, tailEnd>>
sessionVars == <<session, tracked, live, broken>>
vars == <<processVars, serverVars, sessionVars>>

Serving  == {"handshake", "dialing", "relaying"}
Admitted == Serving \cup {"leaving"}

TypeOK ==
  /\ lifecycle \in {"starting", "ready", "draining", "stopped"}
  /\ main \in {"boot", "serving", "headstart", "warm", "closing", "draining", "stopped"}
  /\ elapsed \in Nat
  /\ admin \in {"serving", "closed"}
  /\ open \subseteq Listeners
  /\ server \in [Listeners -> {"serving", "waiting", "sweeping", "tail", "drained", "forced"}]
  /\ shuttingDown \subseteq Listeners
  /\ sweep \in [Listeners -> SUBSET Conns]
  /\ tailEnd \in [Listeners -> Nat]
  /\ session \in [Conns -> {"none", "accepted", "refused", "ended"} \cup Admitted]
  /\ tracked \subseteq Conns
  /\ live \in [Listeners -> Nat]
  /\ broken \subseteq Conns

\* The sockets are bound and served before readiness is advertised.
Init ==
  /\ lifecycle = "starting"
  /\ main = "boot"
  /\ elapsed = 0
  /\ admin = "serving"
  /\ open = Listeners
  /\ server = [l \in Listeners |-> "serving"]
  /\ shuttingDown = {}
  /\ sweep = [l \in Listeners |-> {}]
  /\ tailEnd = [l \in Listeners |-> 0]
  /\ session = [c \in Conns |-> "none"]
  /\ tracked = {}
  /\ live = [l \in Listeners |-> 0]
  /\ broken = {}

\* Fault: the budget starts after the head start.
Deadline_AfterHeadStart(head) == Grace + head

\* The head start is capped at half the budget and drawn from it.
Propagation(grace) ==
  IF ReadinessPropagation > grace \div 2 THEN grace \div 2 ELSE ReadinessPropagation

Deadline(head) == Grace

Head    == Propagation(Grace)
Expired == elapsed >= Deadline(Head)

-----------------------------------------------------------------------------
(* The main goroutine.                                                     *)

At(from, to) == main = from /\ main' = to

\* The readiness state moves by compare-and-swap, and only forward.
Advance(froms, to) == lifecycle' = IF lifecycle \in froms THEN to ELSE lifecycle

MarkReady ==
  /\ At("boot", "serving")
  /\ Advance({"starting"}, "ready")
  /\ UNCHANGED <<elapsed, admin, open, serverVars, sessionVars>>

\* Fault: readiness falls only when the process is gone.
BeginDraining_Late ==
  /\ At("serving", "headstart")
  /\ UNCHANGED <<lifecycle, elapsed, admin, open, serverVars, sessionVars>>

\* A signal, or the error of a listener; shutdownAll creates the deadline
\* and BeginDraining is the first thing it does.
BeginDraining ==
  /\ At("serving", "headstart")
  /\ Advance({"starting", "ready"}, "draining")
  /\ UNCHANGED <<elapsed, admin, open, serverVars, sessionVars>>

\* The engine is canceled here; the warm pool's teardown begins.
HeadStartOver ==
  /\ At("headstart", "warm")
  /\ elapsed >= Head \/ Expired
  /\ UNCHANGED <<lifecycle, elapsed, admin, open, serverVars, sessionVars>>

\* warmStop returns when its goroutines did, at the deadline at the latest.
WarmStopReturns ==
  /\ At("warm", "closing")
  /\ UNCHANGED <<lifecycle, elapsed, admin, open, serverVars, sessionVars>>

CloseListener(l) ==
  /\ main = "closing"
  /\ l \in open
  /\ open' = open \ {l}
  /\ UNCHANGED <<lifecycle, main, elapsed, admin, serverVars, sessionVars>>

StartDrains ==
  /\ At("closing", "draining")
  /\ open = {}
  /\ UNCHANGED <<lifecycle, elapsed, admin, open, serverVars, sessionVars>>

\* The admin server has no work but probes; the deadline ends its drain too.
AdminReturns ==
  /\ main = "draining"
  /\ admin = "serving"
  /\ admin' = "closed"
  /\ UNCHANGED <<lifecycle, main, elapsed, open, serverVars, sessionVars>>

\* shutdownAll has every listener's result and the admin server's.
MarkStopped ==
  /\ At("draining", "stopped")
  /\ \A l \in Listeners : server[l] \in {"drained", "forced"}
  /\ admin = "closed"
  /\ Advance({"starting", "ready", "draining"}, "stopped")
  /\ UNCHANGED <<elapsed, admin, open, serverVars, sessionVars>>

-----------------------------------------------------------------------------
(* Server.Shutdown of each listener, concurrently.                         *)

ServerGoto(l, from, to) == server[l] = from /\ server' = [server EXCEPT ![l] = to]

Refuse(l) ==
  /\ main = "draining"
  /\ ServerGoto(l, "serving", "waiting")
  /\ shuttingDown' = shuttingDown \cup {l}
  /\ UNCHANGED <<processVars, sweep, tailEnd, sessionVars>>

Drained(l) ==
  /\ ServerGoto(l, "waiting", "drained")
  /\ live[l] = 0
  /\ UNCHANGED <<processVars, shuttingDown, sweep, tailEnd, sessionVars>>

\* The deadline: dials are canceled and the connections are collected.
Expire(l) ==
  /\ ServerGoto(l, "waiting", "sweeping")
  /\ Expired
  /\ sweep' = [sweep EXCEPT ![l] = {c \in tracked : On[c] = l}]
  /\ UNCHANGED <<processVars, shuttingDown, tailEnd, sessionVars>>

\* They are closed without the lock; some may be closed already.
CloseConns(l) ==
  /\ ServerGoto(l, "sweeping", "tail")
  /\ broken' = broken \cup {c \in sweep[l] : session[c] \in Serving}
  /\ sweep' = [sweep EXCEPT ![l] = {}]
  /\ tailEnd' = [tailEnd EXCEPT ![l] = elapsed + ForceCloseWait]
  /\ UNCHANGED <<processVars, shuttingDown, session, tracked, live>>

\* Fault: the tail has no timer.
TailOver_NoTimer(l) ==
  /\ ServerGoto(l, "tail", "forced")
  /\ live[l] = 0
  /\ UNCHANGED <<processVars, shuttingDown, sweep, tailEnd, sessionVars>>

TailOver(l) ==
  /\ ServerGoto(l, "tail", "forced")
  /\ live[l] = 0 \/ elapsed >= tailEnd[l]
  /\ UNCHANGED <<processVars, shuttingDown, sweep, tailEnd, sessionVars>>

-----------------------------------------------------------------------------
(* Sessions.                                                               *)

Become(c, from, to) == session[c] \in from /\ session' = [session EXCEPT ![c] = to]

\* Serve accepts one connection at a time.
Accept(c) ==
  /\ Become(c, {"none"}, "accepted")
  /\ On[c] \in open
  /\ \A d \in Conns : On[d] = On[c] => session[d] # "accepted"
  /\ UNCHANGED <<processVars, serverVars, tracked, live, broken>>

Admit(c) ==
  /\ Become(c, {"accepted"}, "handshake")
  /\ tracked' = tracked \cup {c}
  /\ live' = [live EXCEPT ![On[c]] = @ + 1]
  /\ UNCHANGED <<processVars, serverVars, broken>>

Reject(c) ==
  /\ Become(c, {"accepted"}, "refused")
  /\ UNCHANGED <<processVars, serverVars, tracked, live, broken>>

\* Fault: admission does not look at shuttingDown.
BeginSession_Unchecked(c) == Admit(c)

\* The check, the registration and the count are one critical section.
BeginSession(c) ==
  \/ On[c] \notin shuttingDown /\ Admit(c)
  \/ On[c] \in shuttingDown /\ Reject(c)

Progress(c) ==
  /\ \/ Become(c, {"handshake"}, "dialing")
     \/ Become(c, {"dialing"}, "relaying")
  /\ c \notin broken
  /\ UNCHANGED <<processVars, serverVars, tracked, live, broken>>

\* serveConn returns, for whatever reason: it closes and untracks first.
Leave(c) ==
  /\ Become(c, Serving, "leaving")
  /\ tracked' = tracked \ {c}
  /\ UNCHANGED <<processVars, serverVars, live, broken>>

Done(c) ==
  /\ Become(c, {"leaving"}, "ended")
  /\ live' = [live EXCEPT ![On[c]] = @ - 1]
  /\ UNCHANGED <<processVars, serverVars, tracked, broken>>

-----------------------------------------------------------------------------
(* Time.                                                                   *)

MainWaits ==
  \/ main = "headstart" /\ elapsed < Head /\ ~Expired
  \/ main = "warm" /\ ~Expired
  \/ main = "draining" /\ (admin = "serving" => ~Expired)

ServerWaits(l) ==
  \/ server[l] = "serving" /\ main # "draining"
  \/ server[l] = "waiting" /\ live[l] > 0 /\ ~Expired
  \/ server[l] = "tail" /\ live[l] > 0 /\ elapsed < tailEnd[l]
  \/ server[l] \in {"drained", "forced"}

Tick ==
  /\ MainWaits
  /\ \A l \in Listeners : ServerWaits(l)
  /\ main = "draining" => admin = "serving" \/ \E l \in Listeners : server[l] \in {"waiting", "tail"}
  /\ elapsed' = elapsed + 1
  /\ UNCHANGED <<lifecycle, main, admin, open, serverVars, sessionVars>>

MainStep ==
  \/ MarkReady \/ HeadStartOver \/ WarmStopReturns \/ StartDrains
  \/ AdminReturns \/ MarkStopped \/ \E l \in Listeners : CloseListener(l)

ServerStep(l) == Refuse(l) \/ Drained(l) \/ Expire(l) \/ CloseConns(l) \/ TailOver(l)

SessionStep(c) == Accept(c) \/ BeginSession(c) \/ Progress(c) \/ Leave(c) \/ Done(c)

Next ==
  \/ MainStep \/ BeginDraining \/ Tick
  \/ \E l \in Listeners : ServerStep(l)
  \/ \E c \in Conns : SessionStep(c)

Spec == Init /\ [][Next]_vars

\* The goroutines of the shutdown run and time passes.  Sessions promise
\* nothing: a handler may be wedged.
FairSpec ==
  Spec /\ WF_vars(MainStep) /\ WF_vars(Tick) /\ \A l \in Listeners : WF_vars(ServerStep(l))

-----------------------------------------------------------------------------
(* Correctness.                                                            *)

\* A load balancer that reads "ready" reaches a socket: readiness falls, and
\* the head start passes, before the first listener closes or a session is
\* refused (main.go shutdownAll, step 1).
UnreadyBeforeClose ==
  open # Listeners \/ shuttingDown # {} \/ (\E c \in Conns : session[c] = "refused")
    => lifecycle \in {"draining", "stopped"} /\ elapsed >= Head

\* What Shutdown reports is so, and stays so: a drained listener has no
\* session and gets none from a connection accepted before its socket closed,
\* and no client outlives a force-close, also one that was in its handshake or
\* was admitted late (server.go beginSession, CloseConns).
ShutdownIsFinal ==
  \A c \in Conns :
    /\ server[On[c]] = "drained" => session[c] \notin Admitted
    /\ server[On[c]] = "forced" /\ session[c] \in Serving => c \in broken

\* From signal to exit the process takes the grace budget and one
\* force-close tail at most, whatever the warm pool, the admin server and
\* the sessions do (main.go shutdownAll, budget invariant).
BudgetKept == elapsed <= Grace + ForceCloseWait

\* A shutdown ends, even with wedged sessions (server.go forceCloseWait).
ShutdownCompletes == main = "headstart" ~> lifecycle = "stopped"
=============================================================================
