----------------------------- MODULE ConfigReload -----------------------------
(***************************************************************************)
(* How an edited configuration file reaches serving: the bootstrap load    *)
(* and the reload loop of cmd/rotation-proxy-gateway/main.go (run) and the *)
(* poller of internal/config/poll.go.                                      *)
(*                                                                         *)
(* Three parties share the file and a channel of one slot: whoever edits   *)
(* the file, the poller, which hashes it, and the main loop, which reads   *)
(* it again.  An edit in place may be seen half written: that is one more  *)
(* content.                                                                *)
(*                                                                         *)
(* Abstractions.  A content is its own hash.  Unreadable stands for a      *)
(* missing or unreadable file and, as a baseline, for the zero hash, which *)
(* no content has.  A read may also fail while the file is there: a tick   *)
(* of the poller that fails is no step, since it leaves everything as it   *)
(* was, and a failing read elsewhere returns Unreadable.  SIGHUP changes   *)
(* nothing; the failure of a listener ends the loop exactly as SIGTERM     *)
(* does.  What Publish does to the routes is in RequestChain and           *)
(* RotationCommit, what shutdown does in Shutdown.                         *)
(***************************************************************************)
EXTENDS RuntimeConfig

CONSTANTS
  Contents,     \* what the file may hold
  Unreadable,
  MaxEdits      \* bound on edits after the bootstrap load

ASSUME ReloadAssumption ==
  /\ Contents \subseteq Document \cup {Malformed}
  /\ Unreadable \notin Contents
  /\ MaxEdits \in Nat

VARIABLES
  file,        \* the content of the file
  edits,       \* edits since the bootstrap load (history)
  poller,      \* "off", "waiting" for a tick, or "changed": about to signal
  last,        \* the poller's baseline
  pending,     \* the slot of the changes channel
  main,        \* where run is
  read,        \* what run read last
  live,        \* the content the published generation was built from
  level,       \* the global log level
  reloads,     \* reloads tried (history)
  astray,      \* the loop's last look at the file met another content than the
               \* baseline, and the poller has noticed no change since (history)
  unseeded     \* the poller could not read the file it began with (history)

fileVars == <<file, edits>>
pollVars == <<poller, last>>
loopVars == <<main, read, live, level, reloads>>
notes    == <<astray, unseeded>>
vars == <<fileVars, pollVars, pending, loopVars, notes>>

Files == Contents \cup {Unreadable}

TypeOK ==
  /\ file \in Files /\ edits \in 0..MaxEdits
  /\ poller \in {"off", "waiting", "changed"} /\ last \in Files
  /\ pending \in BOOLEAN
  /\ main \in {"boot", "starting", "select", "reloading", "publishing", "leveling", "stopped"}
  /\ read \in Files /\ live \in Files
  /\ level \in {"debug", "info", "warn", "error", "none"}
  /\ reloads \in Nat /\ astray \in BOOLEAN /\ unseeded \in BOOLEAN

Init ==
  /\ file \in Files /\ edits = 0
  /\ poller = "off" /\ last = Unreadable
  /\ pending = FALSE
  /\ main = "boot" /\ read = Unreadable /\ live = Unreadable
  /\ level = "none"
  /\ reloads = 0 /\ astray = FALSE /\ unseeded = FALSE

Goto(from, to) == main = from /\ main' = to
Loads(content) == content # Unreadable /\ Accepts(content)

\* What one read of the file may return.
Seen == {file, Unreadable}

\* Somebody writes, replaces or removes the file.
Edit ==
  /\ main # "boot"
  /\ edits < MaxEdits
  /\ \E content \in Files \ {file} : file' = content
  /\ edits' = edits + 1
  /\ UNCHANGED <<pollVars, pending, loopVars, notes>>

-----------------------------------------------------------------------------
(* The main goroutine.                                                     *)

\* A configuration that does not load is fatal before anything serves.
Boot ==
  /\ main = "boot"
  /\ read' \in Seen
  /\ IF Loads(read') THEN /\ main' = "starting"
                          /\ live' = read' /\ level' = read'.level
                     ELSE main' = "stopped" /\ UNCHANGED <<live, level>>
  /\ UNCHANGED <<fileVars, pollVars, pending, reloads, notes>>

\* NewPoller takes the content present by now as the baseline, and none when
\* it cannot read it.
StartPoller ==
  /\ Goto("starting", "select")
  /\ poller' = "waiting"
  /\ last' \in Seen
  /\ astray' = (last' # read)
  /\ unseeded' = (last' # file)
  /\ UNCHANGED <<fileVars, pending, read, live, level, reloads>>

TakeSignal ==
  /\ Goto("select", "reloading")
  /\ pending
  /\ pending' = FALSE
  /\ UNCHANGED <<fileVars, pollVars, read, live, level, reloads, notes>>

\* Fault: a reload that did not load is tried again.
Reload_Retries ==
  /\ main = "reloading"
  /\ read' \in Seen
  /\ reloads' = reloads + 1
  /\ astray' = (read' # last)
  /\ main' = IF Loads(read') THEN "publishing" ELSE "select"
  /\ pending' = (pending \/ ~Loads(read'))
  /\ UNCHANGED <<fileVars, pollVars, live, level, unseeded>>

\* reload reads the file again, whatever the poller saw in it.
Reload ==
  /\ main = "reloading"
  /\ read' \in Seen
  /\ reloads' = reloads + 1
  /\ astray' = (read' # last)
  /\ main' = IF Loads(read') THEN "publishing" ELSE "select"
  /\ UNCHANGED <<fileVars, pollVars, pending, live, level, unseeded>>

Publish ==
  /\ Goto("publishing", "leveling")
  /\ live' = read
  /\ UNCHANGED <<fileVars, pollVars, pending, read, level, reloads, notes>>

SetGlobalLevel ==
  /\ Goto("leveling", "select")
  /\ level' = read.level
  /\ UNCHANGED <<fileVars, pollVars, pending, read, live, reloads, notes>>

\* SIGTERM, or a listener that failed.
Stop ==
  /\ Goto("select", "stopped")
  /\ poller' = "off"
  /\ UNCHANGED <<fileVars, last, pending, read, live, level, reloads, notes>>

-----------------------------------------------------------------------------
(* The poller.                                                             *)

\* A tick that finds another content than the last one makes it the baseline.
Poll ==
  /\ poller = "waiting"
  /\ file \notin {Unreadable, last}
  /\ last' = file
  /\ poller' = "changed"
  /\ astray' = FALSE
  /\ UNCHANGED <<fileVars, pending, loopVars, unseeded>>

\* Fault: the signal waits for the loop and is given up when it is busy.
Signal_WhenIdle ==
  /\ poller = "changed"
  /\ poller' = "waiting"
  /\ pending' = (pending \/ main = "select")
  /\ UNCHANGED <<fileVars, last, loopVars, notes>>

\* A signal that is already pending is enough.
Signal ==
  /\ poller = "changed"
  /\ poller' = "waiting"
  /\ pending' = TRUE
  /\ UNCHANGED <<fileVars, last, loopVars, notes>>

Serve == StartPoller \/ TakeSignal \/ Reload \/ Publish \/ SetGlobalLevel
Next == Edit \/ Boot \/ Serve \/ Stop \/ Poll \/ Signal

Spec == Init /\ [][Next]_vars

\* The ticker goes on, a file that is there can be read in the end, both
\* goroutines run, and a select with a pending signal takes it; nobody is made
\* to edit the file or to stop the process.
FairSpec == Spec /\ WF_vars(Boot) /\ WF_vars(Serve) /\ WF_vars(Poll) /\ WF_vars(Signal)

-----------------------------------------------------------------------------
(* Correctness.                                                            *)

\* Whatever is written to the file and however the writes fall between the
\* poller's look and the loop's, the configuration that serves is one the
\* rest of the program can rely on (main.go reload, LoadRuntime).
ServedIsServable == live # Unreadable => Servable(runtimeFromFile(live))

\* Every reload, whether it loads or not, answers an edit of its own: the
\* initial load is never itself a change, a content that was rejected or could
\* not be read is not tried over and over, and a file left alone is not read
\* by the loop again.  The exception is the one reload of poll.go:36-38, when
\* the poller could not read the file it began with (poll.go NewPoller, Run;
\* main.go run).
ReloadsAreChanges == reloads <= edits + (IF unseeded THEN 1 ELSE 0)

\* A valid configuration that stays in the file is served in the end, also
\* after rejected, unreadable or coalesced ones, unless the loop's last look
\* at the file met another content than the poller's: the file had changed
\* between the two and changed back or stayed, or the read of the loop failed.
\* The baseline is what the poller hashed, not what the loop applied (poll.go
\* NewPoller, Run; main.go reload).
StableFileIsServed ==
  \A c \in Contents :
    Accepts(c) /\ <>[](file = c /\ main # "stopped") => <>[](live = c \/ astray)
=============================================================================
