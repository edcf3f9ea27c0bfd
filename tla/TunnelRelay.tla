------------------------------ MODULE TunnelRelay ------------------------------
(***************************************************************************)
(* One established tunnel: the tail of serveTunnel, relayTunnel,           *)
(* copyToClient and recordTunnelClose for a CONNECT, forwardHTTP for an    *)
(* absolute-form request, and the way out of serveConn.                    *)
(*                                                                         *)
(* Two goroutines copy, one per direction.  Each may see the end of its    *)
(* stream, find that the other has closed a socket under it, or stay       *)
(* blocked on a peer that takes no more bytes; Shutdown closes the         *)
(* client's socket from a third.                                           *)
(*                                                                         *)
(* Abstractions.  Bytes are not modelled, only what ends a copy.  target   *)
(* is what the tunnel delivers, "eof" also the complete answer to a        *)
(* forwarded request.  A copy to a peer that has stopped reading may be    *)
(* blocked or still fit into a buffer.  The transport and the reverse      *)
(* proxy of forwardHTTP are a library, reduced to whether the transport    *)
(* took the tunnel and to the ends of an exchange.                         *)
(*                                                                         *)
(* A definition X_Fault is the code of X with a bug in it.  No behaviour   *)
(* uses it; each shows that the properties notice the bug.                 *)
(***************************************************************************)
EXTENDS Naturals, Sequences

VARIABLES
  shape,       \* "connect" or "forward"
  client,      \* the client: "open", "half" (sends no more) or "gone"
  target,      \* the target, through the route: "open", "eof" or "broken"
  stalled,     \* the peers that take no more bytes
  baseDone,    \* Shutdown has canceled baseCtx
  forced,      \* CloseConns has closed the client's socket
  clientSock,  \* the gateway's end of the client connection
  linger,      \* the client's socket resets on close
  ending,      \* what its close sent: "none", "fin" or "rst"
  upSock,      \* the gateway's end of the tunnel: "open", "wclosed", "closed"
  main,        \* where the session's goroutine is
  request,     \* how the copy to the target ended
  resp,        \* where the goroutine that copies to the client is
  result,      \* how that copy ended
  closes,      \* the channel of results
  got,         \* the results taken from it
  record,      \* the reason the close record gives
  hold,        \* the route's in-flight hold is taken
  handed       \* the transport of a forwarded request has taken the tunnel

peerVars   == <<shape, client, target, stalled>>
stopVars   == <<baseDone, forced>>
clientVars == <<clientSock, linger, ending>>
mainVars   == <<main, request, got, record, hold, handed>>
respVars   == <<resp, result>>
vars == <<peerVars, stopVars, clientVars, upSock, mainVars, respVars, closes>>

Ends == {"none", "eof", "break", "closed", "client"}

TypeOK ==
  /\ shape \in {"connect", "forward"} /\ client \in {"open", "half", "gone"}
  /\ target \in {"open", "eof", "broken"} /\ stalled \subseteq {"client", "target"}
  /\ baseDone \in BOOLEAN /\ forced \in BOOLEAN
  /\ clientSock \in {"open", "closed"} /\ linger \in BOOLEAN /\ ending \in {"none", "fin", "rst"}
  /\ upSock \in {"open", "wclosed", "closed"}
  /\ main \in {"reply", "copying", "awaiting", "unwinding", "collectOne", "push", "closeUp",
               "closeClient", "collect", "join", "leaving", "released", "ended",
               "forwarding", "forwarded"}
  /\ request \in {"none", "eof", "failed"} /\ result \in Ends
  /\ resp \in {"off", "copying", "pushing", "reset", "closing", "done"}
  /\ Len(closes) <= 2 /\ Len(got) <= 2
  /\ record \in {"none", "upstream_broken", "upstream_closed", "client_aborted", "client_closed"}
  /\ hold \in BOOLEAN /\ handed \in BOOLEAN

\* The chain has won a route: its tunnel is up and its hold is taken.
Init ==
  /\ shape \in {"connect", "forward"}
  /\ client = "open" /\ target = "open" /\ stalled = {}
  /\ baseDone = FALSE /\ forced = FALSE
  /\ clientSock = "open" /\ linger = FALSE /\ ending = "none"
  /\ upSock = "open"
  /\ main = "reply" /\ request = "none" /\ got = <<>> /\ record = "none"
  /\ hold = TRUE /\ handed = FALSE
  /\ resp = "off" /\ result = "none"
  /\ closes = <<>>

Goto(from, to)     == main = from /\ main' = to
RespGoto(from, to) == resp = from /\ resp' = to

ClientBroken == client = "gone" \/ clientSock = "closed"

\* The first close of the client's socket decides how the client sees it.
CloseClientSock ==
  /\ clientSock' = "closed"
  /\ ending' = IF clientSock = "closed" THEN ending ELSE IF linger THEN "rst" ELSE "fin"
  /\ UNCHANGED linger

-----------------------------------------------------------------------------
(* The peers and Shutdown.                                                 *)

ClientMoves ==
  /\ \/ client = "open" /\ client' \in {"half", "gone"}
     \/ client = "half" /\ client' = "gone"
  /\ UNCHANGED <<shape, target, stalled, stopVars, clientVars, upSock, mainVars, respVars, closes>>

TargetMoves ==
  /\ \/ target = "open" /\ target' \in {"eof", "broken"}
     \/ target = "eof" /\ target' = "broken"
  /\ UNCHANGED <<shape, client, stalled, stopVars, clientVars, upSock, mainVars, respVars, closes>>

\* A peer stops reading and never resumes; one that resumes is only slow.
Stall ==
  /\ \E peer \in {"client", "target"} \ stalled : stalled' = stalled \cup {peer}
  /\ UNCHANGED <<shape, client, target, stopVars, clientVars, upSock, mainVars, respVars, closes>>

CancelBase ==
  /\ ~baseDone /\ baseDone' = TRUE
  /\ UNCHANGED <<peerVars, forced, clientVars, upSock, mainVars, respVars, closes>>

\* CloseConns, for a session that is still tracked.
ForceClose ==
  /\ baseDone /\ ~forced /\ main # "ended"
  /\ forced' = TRUE
  /\ CloseClientSock
  /\ UNCHANGED <<peerVars, baseDone, upSock, mainVars, respVars, closes>>

-----------------------------------------------------------------------------
(* The goroutine of the response direction.                                *)

\* copyToClient ends: the target's end or break, an error on a tunnel the
\* other goroutine has closed, or a write the client's side refuses.
CopyToClientEnds ==
  /\ \/ result' = "eof" /\ upSock # "closed" /\ target = "eof"
     \/ result' = "break" /\ upSock # "closed" /\ target = "broken"
     \/ result' = "closed" /\ upSock = "closed"
     \/ result' = "client" /\ ClientBroken
  /\ RespGoto("copying", "pushing")
  /\ UNCHANGED <<peerVars, stopVars, clientVars, upSock, mainVars, closes>>

PushResult ==
  /\ RespGoto("pushing", IF result = "break" THEN "reset" ELSE "closing")
  /\ Len(closes) < 2
  /\ closes' = Append(closes, <<"toClient", result>>)
  /\ UNCHANGED <<peerVars, stopVars, clientVars, upSock, mainVars, result>>

\* Fault: the socket of a broken tunnel closes like any other.
SetLinger_None ==
  /\ RespGoto("reset", "closing")
  /\ UNCHANGED <<peerVars, stopVars, clientVars, upSock, mainVars, result, closes>>

\* SetLinger(0) on a socket that is already closed has no effect.
SetLinger ==
  /\ RespGoto("reset", "closing")
  /\ linger' = (linger \/ clientSock = "open")
  /\ UNCHANGED <<peerVars, stopVars, clientSock, ending, upSock, mainVars, result, closes>>

RespClosesClient ==
  /\ RespGoto("closing", "done")
  /\ CloseClientSock
  /\ UNCHANGED <<peerVars, stopVars, upSock, mainVars, result, closes>>

-----------------------------------------------------------------------------
(* The session's goroutine: CONNECT.                                       *)

\* The reply's error is never reported: a client that has left is noticed by
\* the copies.
Reply ==
  /\ IF shape = "connect" THEN Goto("reply", "copying") /\ resp' = "copying"
                          ELSE Goto("reply", "forwarding") /\ UNCHANGED resp
  /\ UNCHANGED <<peerVars, stopVars, clientVars, upSock, request, got, record, hold, handed,
                 result, closes>>

\* The client has sent everything: the end is passed on, the answer awaited.
RequestEof ==
  /\ Goto("copying", "awaiting")
  /\ client = "half" /\ clientSock = "open"
  /\ request' = "eof"
  /\ upSock' = "wclosed"
  /\ UNCHANGED <<peerVars, stopVars, clientVars, got, record, hold, handed, respVars, closes>>

RequestFails ==
  /\ Goto("copying", "push")
  /\ ClientBroken \/ target = "broken"
  /\ request' = "failed"
  /\ UNCHANGED <<peerVars, stopVars, clientVars, upSock, got, record, hold, handed, respVars, closes>>

\* Fault: only the response ends the wait.
AwaitRelay_NoCancel ==
  /\ Goto("awaiting", "collectOne") /\ resp = "done"
  /\ UNCHANGED <<upSock, peerVars, stopVars, clientVars, request, got, record, hold, handed,
                 respVars, closes>>

AwaitRelay ==
  /\ \/ Goto("awaiting", "collectOne") /\ resp = "done" /\ UNCHANGED upSock
     \/ Goto("awaiting", "unwinding") /\ baseDone /\ upSock' = "closed"
     \/ Goto("unwinding", "collectOne") /\ resp = "done" /\ UNCHANGED upSock
  /\ UNCHANGED <<peerVars, stopVars, clientVars, request, got, record, hold, handed,
                 respVars, closes>>

\* Fault: the first result decides alone.
Reason_First(first, second) ==
  IF first = <<"toClient", "break">> THEN "upstream_broken"
  ELSE IF first = <<"toClient", "eof">> THEN "upstream_closed"
  ELSE IF first[2] # "eof" THEN "client_aborted" ELSE "client_closed"

\* The classification of recordTunnelClose, for two results in the order
\* they were taken.
Reason(first, second) ==
  IF <<"toClient", "break">> \in {first, second} THEN "upstream_broken"
  ELSE IF first = <<"toClient", "eof">> THEN "upstream_closed"
  ELSE IF first[2] # "eof" THEN "client_aborted" ELSE "client_closed"

\* relayTunnel's deferred close of the tunnel comes last.
Recorded(first, second) ==
  /\ record' = Reason(first, second)
  /\ upSock' = "closed"

CollectOne ==
  /\ Goto("collectOne", "leaving")
  /\ closes # <<>>
  /\ closes' = Tail(closes)
  /\ got' = <<Head(closes)>>
  /\ Recorded(<<"toTarget", "eof">>, Head(closes))
  /\ UNCHANGED <<peerVars, stopVars, clientVars, request, hold, handed, respVars>>

PushFailure ==
  /\ Goto("push", "closeUp")
  /\ Len(closes) < 2
  /\ closes' = Append(closes, <<"toTarget", "failed">>)
  /\ UNCHANGED <<peerVars, stopVars, clientVars, upSock, request, got, record, hold, handed, respVars>>

MainClosesTunnel ==
  /\ Goto("closeUp", "closeClient")
  /\ upSock' = "closed"
  /\ UNCHANGED <<peerVars, stopVars, clientVars, request, got, record, hold, handed, respVars, closes>>

MainClosesClient ==
  /\ Goto("closeClient", "collect")
  /\ CloseClientSock
  /\ UNCHANGED <<peerVars, stopVars, upSock, request, got, record, hold, handed, respVars, closes>>

\* Fault: the other goroutine is not waited for.
Collect_One ==
  /\ Goto("collect", "leaving")
  /\ closes # <<>>
  /\ closes' = Tail(closes)
  /\ got' = <<Head(closes)>>
  /\ Recorded(Head(closes), Head(closes))
  /\ UNCHANGED <<peerVars, stopVars, clientVars, request, hold, handed, respVars>>

Collect ==
  /\ main = "collect" /\ main' = (IF Len(got) = 1 THEN "join" ELSE "collect")
  /\ closes # <<>>
  /\ closes' = Tail(closes)
  /\ got' = Append(got, Head(closes))
  /\ UNCHANGED <<peerVars, stopVars, clientVars, upSock, request, record, hold, handed, respVars>>

Join ==
  /\ Goto("join", "leaving")
  /\ resp = "done"
  /\ Recorded(got[1], got[2])
  /\ UNCHANGED <<peerVars, stopVars, clientVars, request, got, hold, handed, respVars, closes>>

-----------------------------------------------------------------------------
(* The session's goroutine: an absolute-form request, and the way out.     *)

TransportDials ==
  /\ main = "forwarding" /\ ~handed
  /\ handed' = TRUE
  /\ UNCHANGED <<peerVars, stopVars, clientVars, upSock, main, request, got, record, hold,
                 respVars, closes>>

\* The answer is complete or the exchange has failed on the target's side.
ForwardReturns ==
  /\ Goto("forwarding", "forwarded")
  /\ handed /\ target # "open"
  /\ UNCHANGED <<peerVars, stopVars, clientVars, upSock, request, got, record, hold, handed,
                 respVars, closes>>

\* The proxy refuses the request before it dials, or copying a body meets
\* the client's broken side.
ForwardFails ==
  /\ Goto("forwarding", "forwarded")
  /\ ~handed \/ ClientBroken
  /\ UNCHANGED <<peerVars, stopVars, clientVars, upSock, request, got, record, hold, handed,
                 respVars, closes>>

\* forwardHTTP closes a tunnel the transport has not taken.
ForwardCloses ==
  /\ Goto("forwarded", "leaving")
  /\ upSock' = IF handed THEN upSock ELSE "closed"
  /\ UNCHANGED <<peerVars, stopVars, clientVars, request, got, record, hold, handed,
                 respVars, closes>>

\* A transport without keep-alives closes its tunnel after the exchange.
TransportCloses ==
  /\ handed /\ main \notin {"forwarding"} /\ upSock # "closed"
  /\ upSock' = "closed"
  /\ UNCHANGED <<peerVars, stopVars, clientVars, mainVars, respVars, closes>>

\* serveTunnel's deferred Release.
Release ==
  /\ Goto("leaving", "released")
  /\ hold' = FALSE
  /\ UNCHANGED <<peerVars, stopVars, clientVars, upSock, request, got, record, handed,
                 respVars, closes>>

\* serveConn's deferred close and untrack.
SessionEnds ==
  /\ Goto("released", "ended")
  /\ CloseClientSock
  /\ UNCHANGED <<peerVars, stopVars, upSock, request, got, record, hold, handed, respVars, closes>>

-----------------------------------------------------------------------------
ConnectStep ==
  \/ RequestEof \/ RequestFails \/ AwaitRelay \/ CollectOne \/ PushFailure
  \/ MainClosesTunnel \/ MainClosesClient \/ Collect \/ Join

MainStep ==
  \/ Reply \/ ConnectStep \/ TransportDials \/ ForwardReturns \/ ForwardCloses
  \/ Release \/ SessionEnds

RespStep == CopyToClientEnds \/ PushResult \/ SetLinger \/ RespClosesClient

Next ==
  \/ MainStep \/ RespStep \/ ForwardFails \/ TransportCloses
  \/ ClientMoves \/ TargetMoves \/ Stall \/ CancelBase \/ ForceClose

Spec == Init /\ [][Next]_vars

\* A copy goes on unless its peer has stopped reading; an error ends it even
\* then.  The response copy also waits for a target that is silent.
RequestMoves  == "target" \notin stalled \/ target = "broken"
ResponseMoves == /\ target # "open" \/ upSock = "closed"
                 /\ "client" \notin stalled \/ ClientBroken

\* Both goroutines run, and Shutdown goes on to CloseConns.  The peers owe
\* nothing, and neither does a forwarded request whose target is silent.
FairSpec ==
  /\ Spec
  /\ WF_vars(MainStep /\ (main = "copying" => RequestMoves))
  /\ WF_vars(RespStep /\ (resp = "copying" => ResponseMoves))
  /\ WF_vars(ForceClose) /\ WF_vars(TransportCloses)

-----------------------------------------------------------------------------
(* Correctness.                                                            *)

\* A drain that sees no hold on a route finds no tunnel of it alive: the hold
\* is released after the tunnel is closed and nobody copies from it any more,
\* however the two directions end (relay.go relayTunnel, http.go serveTunnel).
HoldCoversTunnel ==
  shape = "connect" /\ ~hold => upSock = "closed" /\ resp = "done"

\* A stream the target did not finish is not made to look finished: unless
\* the client itself or Shutdown ended the session, the client's connection
\* is reset; and a client that has only finished sending gets its whole
\* answer (relay.go relayTunnel).  A failed request direction counts as the
\* client's, whoever made it fail.
TruncationIsVisible ==
  result \in {"break", "closed"} /\ ending = "fin" => request = "failed" \/ baseDone

\* The warning about a broken tunnel appears exactly when the copy from the
\* target broke, whichever direction ended first and in whichever order the
\* results arrived (relay.go recordTunnelClose).
RecordNamesTheBreak ==
  record # "none" =>
    /\ record = "upstream_broken" <=> result = "break"
    /\ record = "upstream_closed" => result = "eof"

\* A session does not outlive its tunnel or its forced close, nor the tunnel
\* its session, as long as the peers take what they are sent; a forwarded
\* request is not ended by a forced close (relay.go relayTunnel, http.go
\* forwardHTTP, server.go Shutdown).
TunnelEnds ==
  /\ target # "open" ~> main = "ended" \/ stalled # {}
  /\ forced /\ shape = "connect" ~> main = "ended" \/ "target" \in stalled
  /\ main = "ended" ~> upSock = "closed"

-----------------------------------------------------------------------------
(* A statement of the repository the code does not keep.                   *)

\* docs/inbound-http.md: a truncated stream never reads as a clean end.  For
\* a client that is still there and a process that is not stopping, a clean
\* end is the end of what the target sent.  The request direction may meet
\* the break first, and then closes the client's socket in the ordinary way.
CleanEndIsTheTargets ==
  shape = "connect" /\ ending = "fin" /\ client = "open" /\ ~baseDone => result = "eof"
=============================================================================
