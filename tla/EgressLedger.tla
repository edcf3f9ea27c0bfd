---------------------------- MODULE EgressLedger ----------------------------
(***************************************************************************)
(* What the commit seam of internal/pool/rotation.go promises, without     *)
(* procedures, mutexes or screens: each manual route holds at most one     *)
(* egress address, learned once as a baseline or committed by a verified   *)
(* rotation, and an address a rotation commits is one that no other route  *)
(* in service holds by a rotation.  A reload may let one commit that is    *)
(* under way slip past that rule, and never more than one.                 *)
(***************************************************************************)
CONSTANTS Routes, IPs, NoIP

VARIABLES
  held,      \* held[p]: the address of p, or NoIP
  rotated,   \* the routes whose address was committed by a rotation
  seats,     \* the routes in service
  loose      \* the routes a reload caught in the middle of a commit

ledger == <<held, rotated, seats, loose>>

LedgerInit ==
  /\ held = [p \in Routes |-> NoIP]
  /\ rotated = {}
  /\ seats \in SUBSET Routes
  /\ loose = {}

\* The boot probe's address is taken as it is: it is only an observation.
Learn(p, ip) ==
  /\ held[p] = NoIP
  /\ held' = [held EXCEPT ![p] = ip]
  /\ UNCHANGED <<rotated, seats, loose>>

CommitIP(p, ip) ==
  /\ p \in seats
  /\ \A q \in (rotated \cap seats) \ (loose \cup {p}) : held[q] # ip
  /\ held' = [held EXCEPT ![p] = ip]
  /\ rotated' = rotated \cup {p}
  /\ loose' = loose \ {p}
  /\ UNCHANGED seats

\* The commit a reload caught records whatever it had decided.
LateCommitIP(p, ip) ==
  /\ p \in loose
  /\ held' = [held EXCEPT ![p] = ip]
  /\ rotated' = rotated \cup {p}
  /\ UNCHANGED <<seats, loose>>

\* A rotated route that left the service never returns to it.
Reload ==
  /\ seats' \in SUBSET Routes
  /\ rotated \cap seats' \subseteq seats
  /\ \/ loose' = loose
     \/ \E p \in Routes : loose' = loose \cup {p}
  /\ UNCHANGED <<held, rotated>>

LedgerNext ==
  \/ \E p \in Routes, ip \in IPs : Learn(p, ip) \/ CommitIP(p, ip) \/ LateCommitIP(p, ip)
  \/ Reload

LedgerSpec == LedgerInit /\ [][LedgerNext]_ledger
=============================================================================
