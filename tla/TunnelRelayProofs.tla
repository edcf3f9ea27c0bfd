-------------------------- MODULE TunnelRelayProofs --------------------------
(***************************************************************************)
(* Theorems about TunnelRelay: what a released hold, a clean end and a     *)
(* close record say of the tunnel, whichever direction ends first.         *)
(***************************************************************************)
EXTENDS TunnelRelay, SequenceTheorems, TLAPS

-----------------------------------------------------------------------------
(* The invariant.                                                          *)

Leaving == {"leaving", "released", "ended"}
Failing == {"push", "closeUp", "closeClient", "collect", "join"}

\* Which shape is where, and how far each goroutine has come.
Places ==
  /\ shape = "forward" =>
       /\ main \in {"reply", "forwarding", "forwarded"} \cup Leaving
       /\ resp = "off" /\ record = "none"
  /\ shape = "connect" =>
       /\ ~handed /\ main \notin {"forwarding", "forwarded"}
       /\ (main = "reply") <=> (resp = "off")
       /\ main \in Leaving => upSock = "closed" /\ resp = "done"
  /\ ~hold => main \in Leaving
  /\ main = "collectOne" \/ record # "none" => resp = "done"
  /\ main \notin Leaving => record = "none"

\* How the two copies ended, once they have.
Outcomes ==
  /\ (resp \in {"off", "copying"}) <=> (result = "none")
  /\ resp = "reset" => result = "break"
  /\ main \in {"reply", "copying", "forwarding", "forwarded"} => request = "none"
  /\ main \in Failing => request = "failed"
  /\ main = "unwinding" => baseDone

\* Somebody but the goroutine of the response has ended the session.
Interrupted == request = "failed" \/ baseDone

\* Until the response's goroutine is done, only an interruption closes a
\* socket; a broken tunnel it has noticed lets the client's socket reset.
Sockets ==
  /\ (ending = "none") <=> (clientSock = "open")
  /\ /\ shape = "connect" /\ resp # "done"
     /\ upSock = "closed" \/ clientSock = "closed"
     => Interrupted
  /\ result = "closed" => Interrupted
  /\ result = "break" /\ resp = "closing" => linger \/ clientSock = "closed"
  /\ resp = "done" => clientSock = "closed"

\* The two results, in the order they were sent.
FromClient == <<"toTarget", "failed">>
FromTarget == <<"toClient", result>>
Pushed     == resp \in {"reset", "closing", "done"}
Order(a, b) == \/ a = FromClient /\ b = FromTarget
               \/ a = FromTarget /\ b = FromClient

\* Every result is sent once and taken once: before the request direction
\* has failed, while its results are sent and taken, and when both are in.
Undecided ==
  main \notin {"closeUp", "closeClient", "collect", "join"} \cup Leaving =>
    got = <<>> /\ closes = IF Pushed THEN <<FromTarget>> ELSE <<>>

Collecting ==
  main \in {"closeUp", "closeClient", "collect"} =>
    IF Pushed
    THEN \E a, b \in {FromClient, FromTarget} : Order(a, b) /\
           \/ got = <<>> /\ closes = <<a, b>>
           \/ main = "collect" /\ got = <<a>> /\ closes = <<b>>
    ELSE \/ got = <<>> /\ closes = <<FromClient>>
         \/ main = "collect" /\ got = <<FromClient>> /\ closes = <<>>

Joining ==
  main = "join" =>
    Pushed /\ closes = <<>> /\ \E a, b \in {FromClient, FromTarget} : Order(a, b) /\ got = <<a, b>>

Results == Undecided /\ Collecting /\ Joining

Inv ==
  /\ TypeOK /\ Places /\ Outcomes /\ Sockets /\ Results
  /\ TruncationIsVisible /\ RecordNamesTheBreak

LEMMA InitInv == Init => Inv
<1> SUFFICES ASSUME Init PROVE Inv
  OBVIOUS
<1>1. TypeOK
  <2>1. Len(closes) <= 2 /\ Len(got) <= 2
    BY DEF Init
  <2>2. hold \in BOOLEAN /\ handed \in BOOLEAN /\ result \in Ends /\ request \in {"none", "eof", "failed"}
    BY DEF Init, Ends
  <2> QED BY <2>1, <2>2 DEF Init, TypeOK
<1>2. Places /\ Outcomes /\ Sockets
  BY DEF Init, Places, Outcomes, Sockets, Leaving, Failing
<1>3. Results
  BY DEF Init, Results, Undecided, Collecting, Joining, Pushed, Leaving
<1>4. TruncationIsVisible /\ RecordNamesTheBreak
  BY DEF Init, TruncationIsVisible, RecordNamesTheBreak
<1> QED BY <1>1, <1>2, <1>3, <1>4 DEF Inv

-----------------------------------------------------------------------------
(* Steps of the session's goroutine.                                       *)

USE DEF Goto, RespGoto, peerVars, stopVars, clientVars, mainVars, respVars

\* The steps of the peers and of Shutdown move neither goroutine.
Outside == ClientMoves \/ TargetMoves \/ Stall \/ CancelBase \/ ForceClose

LEMMA PlacesStay ==
  ASSUME Inv, [Next]_vars
  PROVE  Places'
<1> USE DEF Inv, TypeOK, Places, Leaving
<1>1. CASE Reply \/ RequestEof \/ RequestFails \/ AwaitRelay \/ PushFailure
  BY <1>1 DEF Reply, RequestEof, RequestFails, AwaitRelay, PushFailure
<1>2. CASE MainClosesTunnel \/ MainClosesClient \/ Collect
  BY <1>2 DEF MainClosesTunnel, MainClosesClient, Collect
\* The tunnel is closed and nobody copies before the hold goes.
<1>3. CASE CollectOne \/ Join
  BY <1>3 DEF CollectOne, Join, Recorded
<1>4. CASE Release \/ SessionEnds
  BY <1>4 DEF Release, SessionEnds
<1>5. CASE TransportDials \/ ForwardReturns \/ ForwardFails \/ ForwardCloses \/ TransportCloses
  BY <1>5 DEF TransportDials, ForwardReturns, ForwardFails, ForwardCloses, TransportCloses
<1>6. CASE CopyToClientEnds \/ PushResult \/ SetLinger \/ RespClosesClient
  BY <1>6 DEF CopyToClientEnds, PushResult, SetLinger, RespClosesClient
<1>7. CASE Outside
  BY <1>7 DEF Outside, ClientMoves, TargetMoves, Stall, CancelBase, ForceClose
<1>8. CASE UNCHANGED vars
  BY <1>8 DEF vars
<1> QED BY <1>1, <1>2, <1>3, <1>4, <1>5, <1>6, <1>7, <1>8
        DEF Next, MainStep, ConnectStep, RespStep, Outside

LEMMA OutcomesStay ==
  ASSUME Inv, [Next]_vars
  PROVE  Outcomes'
<1> USE DEF Inv, TypeOK, Places, Outcomes, Leaving, Failing, Ends
<1>1. CASE Reply \/ RequestEof \/ RequestFails
  BY <1>1 DEF Reply, RequestEof, RequestFails
<1>2. CASE AwaitRelay
  BY <1>2 DEF AwaitRelay
<1>3. CASE PushFailure \/ MainClosesTunnel \/ MainClosesClient \/ Collect \/ CollectOne \/ Join
  BY <1>3 DEF PushFailure, MainClosesTunnel, MainClosesClient, Collect, CollectOne, Join
<1>4. CASE Release \/ SessionEnds
  BY <1>4 DEF Release, SessionEnds
<1>5. CASE TransportDials \/ ForwardReturns \/ ForwardFails \/ ForwardCloses \/ TransportCloses
  BY <1>5 DEF TransportDials, ForwardReturns, ForwardFails, ForwardCloses, TransportCloses
<1>6. CASE CopyToClientEnds
  BY <1>6 DEF CopyToClientEnds
<1>7. CASE PushResult \/ SetLinger \/ RespClosesClient
  BY <1>7 DEF PushResult, SetLinger, RespClosesClient
<1>8. CASE Outside
  BY <1>8 DEF Outside, ClientMoves, TargetMoves, Stall, CancelBase, ForceClose
<1>9. CASE UNCHANGED vars
  BY <1>9 DEF vars
<1> QED BY <1>1, <1>2, <1>3, <1>4, <1>5, <1>6, <1>7, <1>8, <1>9
        DEF Next, MainStep, ConnectStep, RespStep, Outside

\* Every step that closes a socket before the response's goroutine is done
\* is an interruption, and every close after a noticed break is a reset.
LEMMA SocketsStay ==
  ASSUME Inv, [Next]_vars
  PROVE  Sockets' /\ TruncationIsVisible'
<1> USE DEF Inv, TypeOK, Places, Outcomes, Sockets, Interrupted, TruncationIsVisible, Leaving,
            Failing, Ends
<1>1. CASE Reply \/ RequestEof \/ RequestFails
  BY <1>1 DEF Reply, RequestEof, RequestFails
\* Shutdown has canceled the session, or the response is in.
<1>2. CASE AwaitRelay
  BY <1>2 DEF AwaitRelay
<1>3. CASE CollectOne \/ Join
  BY <1>3 DEF CollectOne, Join, Recorded
\* The request direction has failed.
<1>4. CASE MainClosesTunnel \/ MainClosesClient
  BY <1>4 DEF MainClosesTunnel, MainClosesClient, CloseClientSock
<1>5. CASE PushFailure \/ Collect \/ Release
  BY <1>5 DEF PushFailure, Collect, Release
\* The response's goroutine has closed the client's socket before.
<1>6. CASE SessionEnds
  BY <1>6 DEF SessionEnds, CloseClientSock
<1>7. CASE TransportDials \/ ForwardReturns \/ ForwardFails \/ ForwardCloses \/ TransportCloses
  BY <1>7 DEF TransportDials, ForwardReturns, ForwardFails, ForwardCloses, TransportCloses
\* A copy that finds the tunnel closed finds the interruption.
<1>8. CASE CopyToClientEnds
  BY <1>8 DEF CopyToClientEnds
<1>9. CASE PushResult \/ SetLinger
  BY <1>9 DEF PushResult, SetLinger
<1>10. CASE RespClosesClient
  BY <1>10 DEF RespClosesClient, CloseClientSock
<1>11. CASE Outside
  BY <1>11 DEF Outside, ClientMoves, TargetMoves, Stall, CancelBase, ForceClose, CloseClientSock
<1>12. CASE UNCHANGED vars
  BY <1>12 DEF vars
<1> QED BY <1>1, <1>2, <1>3, <1>4, <1>5, <1>6, <1>7, <1>8, <1>9, <1>10, <1>11, <1>12
        DEF Next, MainStep, ConnectStep, RespStep, Outside

-----------------------------------------------------------------------------
(* The results.                                                            *)

\* The channel of results holds at most two.
LEMMA OneResult ==
  ASSUME NEW a
  PROVE  /\ Append(<<>>, a) = <<a>> /\ Head(<<a>>) = a /\ Tail(<<a>>) = <<>>
         /\ Len(<<>>) = 0 /\ Len(<<a>>) = 1 /\ <<a>> # <<>>
<1>1. Append(<<>>, a) = <<a>>
  OBVIOUS
<1>2. Tail(<<a>>) = <<>>
  OBVIOUS
<1>3. Head(<<a>>) = a /\ Len(<<>>) = 0 /\ Len(<<a>>) = 1
  OBVIOUS
<1> QED BY <1>1, <1>2, <1>3

LEMMA TwoResults ==
  ASSUME NEW a, NEW b
  PROVE  /\ Append(<<a>>, b) = <<a, b>> /\ Head(<<a, b>>) = a /\ Tail(<<a, b>>) = <<b>>
         /\ Len(<<a, b>>) = 2 /\ <<a, b>> # <<>>
<1>1. Append(<<a>>, b) = <<a, b>>
  <2> DEFINE s == Append(<<a>>, b)
  <2>1. <<a>> \in Seq({a, b}) /\ <<a, b>> \in Seq({a, b}) /\ s \in Seq({a, b}) /\ b \in {a, b}
    OBVIOUS
  <2>2. Len(s) = 2 /\ s[1] = a /\ s[2] = b
    BY <2>1, AppendProperties
  <2> HIDE DEF s
  <2>3. \A i \in 1..Len(s) : s[i] = <<a, b>>[i]
    BY <2>2
  <2> QED BY <2>1, <2>2, <2>3, SeqEqual DEF s
<1>2. Tail(<<a, b>>) = <<b>>
  OBVIOUS
<1>3. Head(<<a, b>>) = a /\ Len(<<a, b>>) = 2
  OBVIOUS
<1> QED BY <1>1, <1>2, <1>3

LEMMA ResultsStay ==
  ASSUME Inv, [Next]_vars
  PROVE  Results' /\ Len(closes') <= 2 /\ Len(got') <= 2
<1> DEFINE Goal == Results' /\ Len(closes') <= 2 /\ Len(got') <= 2
<1> SUFFICES Goal
  OBVIOUS
<1>0. /\ Undecided /\ Collecting /\ Joining
      /\ Len(closes) <= 2 /\ Len(got) <= 2
      /\ shape = "forward" => resp = "off"
      /\ shape = "connect" /\ main \in Leaving => resp = "done"
      /\ main = "collectOne" => resp = "done"
      /\ main = "reply" => resp = "off"
      /\ shape \in {"connect", "forward"}
  BY DEF Inv, TypeOK, Places, Results
<1> USE DEF Results, Undecided, Leaving, Pushed
\* What each step leaves is one of four situations.
<1>1. ASSUME main' \notin {"closeUp", "closeClient", "collect", "join"} \cup Leaving,
             got' = <<>>, closes' = IF Pushed' THEN <<FromTarget>>' ELSE <<>>
      PROVE  Goal
  BY <1>1, OneResult DEF Collecting, Joining
<1>2. ASSUME main' \in {"closeUp", "closeClient", "collect"}, ~Pushed',
             \/ got' = <<>> /\ closes' = <<FromClient>>
             \/ main' = "collect" /\ got' = <<FromClient>> /\ closes' = <<>>
      PROVE  Goal
  BY <1>2, OneResult DEF Collecting, Joining, FromClient
<1>3. ASSUME NEW a \in {FromClient, FromTarget}, NEW b \in {FromClient, FromTarget}, Order(a, b),
             UNCHANGED result, Pushed',
             \/ main' \in {"closeUp", "closeClient", "collect"} /\ got' = <<>> /\ closes' = <<a, b>>
             \/ main' = "collect" /\ got' = <<a>> /\ closes' = <<b>>
             \/ main' = "join" /\ got' = <<a, b>> /\ closes' = <<>>
      PROVE  Goal
  <2>1. Order(a, b)' /\ FromClient' = FromClient /\ FromTarget' = FromTarget
    BY <1>3 DEF Order, FromClient, FromTarget
  <2>2. Len(closes') <= 2 /\ Len(got') <= 2
    <3>1. Len(<<>>) = 0 /\ Len(<<a>>) = 1 /\ Len(<<b>>) = 1 /\ Len(<<a, b>>) = 2
      BY OneResult, TwoResults
    <3>2. Len(closes') \in {0, 1, 2} /\ Len(got') \in {0, 1, 2}
      BY <1>3, <3>1
    <3>3. \A n \in {0, 1, 2} : n <= 2
      OBVIOUS
    <3> QED BY <3>2, <3>3
  <2>3. Undecided'
    BY <1>3
  <2>4. Collecting'
    BY <1>3, <2>1 DEF Collecting
  <2>5. Joining'
    BY <1>3, <2>1 DEF Joining
  <2> QED BY <2>2, <2>3, <2>4, <2>5
<1>4. ASSUME main' \in Leaving, Len(closes') <= 2, Len(got') <= 2
      PROVE  Goal
  BY <1>4 DEF Collecting, Joining
<1> HIDE DEF Goal
<1>5. CASE Reply \/ RequestEof \/ RequestFails \/ AwaitRelay
  <2>1. /\ UNCHANGED <<result, got, closes>> /\ (Pushed' <=> Pushed)
        /\ main \in {"reply", "copying", "awaiting", "unwinding"}
        /\ main' \in {"copying", "forwarding", "awaiting", "push", "unwinding", "collectOne"}
    BY <1>0, <1>5 DEF Reply, RequestEof, RequestFails, AwaitRelay
  <2>2. FromTarget' = FromTarget
    BY <2>1 DEF FromTarget
  <2> HIDE DEF Pushed
  <2> QED BY <1>0, <1>1, <2>1, <2>2
<1>6. CASE PushFailure
  <2>1. CASE Pushed
    <3>1. got = <<>> /\ closes = <<FromTarget>>
      BY <1>0, <1>6, <2>1 DEF PushFailure
    <3>2. closes' = <<FromTarget, FromClient>>
      BY <1>6, <3>1, TwoResults DEF PushFailure, FromClient
    <3> QED BY <1>3, <1>6, <2>1, <3>1, <3>2 DEF PushFailure, Order
  <2>2. CASE ~Pushed
    <3>1. got = <<>> /\ closes = <<>>
      BY <1>0, <1>6, <2>2 DEF PushFailure
    <3>2. closes' = <<FromClient>>
      BY <1>6, <3>1, OneResult DEF PushFailure, FromClient
    <3> QED BY <1>2, <1>6, <2>2, <3>1, <3>2 DEF PushFailure
  <2> QED BY <2>1, <2>2
<1>7. CASE MainClosesTunnel \/ MainClosesClient
  <2>1. /\ main' \in {"closeClient", "collect"} /\ UNCHANGED <<resp, result, got, closes>>
        /\ main \in {"closeUp", "closeClient"}
    BY <1>7 DEF MainClosesTunnel, MainClosesClient
  <2>2. CASE Pushed
    <3>1. PICK a, b \in {FromClient, FromTarget} : Order(a, b) /\ got = <<>> /\ closes = <<a, b>>
      BY <1>0, <2>1, <2>2 DEF Collecting
    <3> QED BY <1>3, <2>1, <2>2, <3>1
  <2>3. CASE ~Pushed
    BY <1>0, <1>2, <2>1, <2>3 DEF Collecting
  <2> QED BY <2>2, <2>3
<1>8. CASE Collect
  <2>0. main = "collect" /\ UNCHANGED <<resp, result>>
    BY <1>8 DEF Collect
  <2>1. CASE ~Pushed
    <3>1. got = <<>> /\ closes = <<FromClient>>
      BY <1>0, <1>8, <2>1 DEF Collect, Collecting
    <3>2. got' = <<FromClient>> /\ closes' = <<>> /\ main' = "collect"
      BY <1>8, <3>1, OneResult DEF Collect
    <3> QED BY <1>2, <2>0, <2>1, <3>2
  <2>2. CASE Pushed
    <3>1. PICK a, b \in {FromClient, FromTarget} : Order(a, b) /\
            \/ got = <<>> /\ closes = <<a, b>>
            \/ got = <<a>> /\ closes = <<b>>
      BY <1>0, <2>0, <2>2 DEF Collecting
    <3>2. CASE got = <<>> /\ closes = <<a, b>>
      <4>1. got' = <<a>> /\ closes' = <<b>> /\ main' = "collect"
        BY <1>8, <3>2, OneResult, TwoResults DEF Collect
      <4> QED BY <1>3, <2>0, <2>2, <3>1, <4>1
    <3>3. CASE got = <<a>> /\ closes = <<b>>
      <4>1. got' = <<a, b>> /\ closes' = <<>> /\ main' = "join"
        BY <1>8, <3>3, OneResult, TwoResults DEF Collect
      <4> QED BY <1>3, <2>0, <2>2, <3>1, <4>1
    <3> QED BY <3>1, <3>2, <3>3
  <2> QED BY <2>1, <2>2
<1>9. CASE CollectOne
  <2>1. got = <<>> /\ closes = <<FromTarget>>
    BY <1>0, <1>9 DEF CollectOne
  <2>2. got' = <<FromTarget>> /\ closes' = <<>> /\ main' \in Leaving
    BY <1>9, <2>1, OneResult DEF CollectOne
  <2> QED BY <1>4, <2>2, OneResult
<1>10. CASE Join \/ Release \/ SessionEnds \/ ForwardCloses
  BY <1>0, <1>4, <1>10 DEF Join, Release, SessionEnds, ForwardCloses
<1>11. CASE ForwardReturns \/ ForwardFails
  BY <1>0, <1>1, <1>11 DEF ForwardReturns, ForwardFails, FromTarget
\* The response's result goes behind a failure that was sent or taken.
<1>12. CASE PushResult
  <2>0. /\ ~Pushed /\ Pushed' /\ UNCHANGED <<main, got, result>> /\ FromTarget' = FromTarget
        /\ closes' = Append(closes, FromTarget)
        /\ main # "join" /\ main \notin Leaving
    BY <1>0, <1>12 DEF PushResult, FromTarget, Joining
  <2>1. CASE main \notin {"closeUp", "closeClient", "collect"}
    <3>1. got = <<>> /\ closes = <<>>
      BY <1>0, <2>0, <2>1
    <3>2. closes' = <<FromTarget>>
      BY <2>0, <3>1, OneResult
    <3> QED BY <1>1, <2>0, <2>1, <3>1, <3>2
  <2>2. CASE main \in {"closeUp", "closeClient", "collect"} /\ got = <<>> /\ closes = <<FromClient>>
    <3>1. closes' = <<FromClient, FromTarget>>
      BY <2>0, <2>2, TwoResults
    <3> QED BY <1>3, <2>0, <2>2, <3>1 DEF Order
  <2>3. CASE main = "collect" /\ got = <<FromClient>> /\ closes = <<>>
    <3>1. closes' = <<FromTarget>>
      BY <2>0, <2>3, OneResult
    <3> QED BY <1>3, <2>0, <2>3, <3>1 DEF Order
  <2> QED BY <1>0, <2>0, <2>1, <2>2, <2>3 DEF Collecting
<1>13. CASE SetLinger \/ RespClosesClient
  <2>1. UNCHANGED <<main, result, got, closes>> /\ Pushed /\ Pushed'
    BY <1>13 DEF SetLinger, RespClosesClient
  <2> QED BY <1>0, <2>1 DEF Goal, Collecting, Joining, Order, FromClient, FromTarget
<1>14. CASE CopyToClientEnds
  <2>1. UNCHANGED <<main, got, closes>> /\ ~Pushed /\ ~Pushed'
    BY <1>14 DEF CopyToClientEnds
  <2> QED BY <1>0, <2>1 DEF Goal, Collecting, Joining, FromClient
<1>15. CASE UNCHANGED <<main, resp, result, closes, got>>
  BY <1>0, <1>15 DEF Goal, Collecting, Joining, Order, FromClient, FromTarget
<1> QED BY <1>5, <1>6, <1>7, <1>8, <1>9, <1>10, <1>11, <1>12, <1>13, <1>14, <1>15
        DEF Goal, Next, MainStep, ConnectStep, RespStep, TransportDials, TransportCloses, ClientMoves,
            TargetMoves, Stall, CancelBase, ForceClose, vars

\* The record is written from both results, in either order, and the copy
\* from the target has ended by then.
LEMMA RecordStays ==
  ASSUME Inv, [Next]_vars
  PROVE  RecordNamesTheBreak'
<1> USE DEF Inv, Places, Outcomes, RecordNamesTheBreak
<1>1. CASE CollectOne
  <2>1. closes = <<FromTarget>>
    BY <1>1 DEF CollectOne, Results, Undecided, Leaving, Pushed
  <2>2. record' = Reason(<<"toTarget", "eof">>, FromTarget) /\ result' = result
    BY <1>1, <2>1, OneResult DEF CollectOne, Recorded
  <2> QED BY <2>2 DEF Reason, FromTarget
<1>2. CASE Join
  <2>1. PICK a, b \in {FromClient, FromTarget} : Order(a, b) /\ got = <<a, b>>
    BY <1>2 DEF Join, Results, Joining
  <2>2. record' = Reason(a, b) /\ result' = result
    BY <1>2, <2>1 DEF Join, Recorded
  <2> QED BY <2>1, <2>2 DEF Reason, FromTarget, FromClient, Order
<1>3. CASE CopyToClientEnds
  BY <1>3 DEF CopyToClientEnds
<1>4. CASE UNCHANGED <<record, result>>
  BY <1>4
<1> QED BY <1>1, <1>2, <1>3, <1>4
        DEF Next, MainStep, ConnectStep, RespStep, Reply, RequestEof, RequestFails, AwaitRelay,
            PushFailure, MainClosesTunnel, MainClosesClient, Collect, TransportDials,
            ForwardReturns, ForwardFails, ForwardCloses, TransportCloses, Release, SessionEnds,
            PushResult, SetLinger, RespClosesClient, ClientMoves, TargetMoves, Stall, CancelBase,
            ForceClose, vars

LEMMA TypeStays ==
  ASSUME Inv, [Next]_vars
  PROVE  TypeOK'
<1> USE DEF Inv, TypeOK, Ends
<1>1. Len(closes') <= 2 /\ Len(got') <= 2
  BY ResultsStay
<1>2. CASE ConnectStep
  <2>1. CASE RequestEof \/ RequestFails \/ AwaitRelay
    BY <1>1, <2>1 DEF RequestEof, RequestFails, AwaitRelay, CloseClientSock
  <2>2. CASE PushFailure \/ MainClosesTunnel \/ MainClosesClient
    BY <1>1, <2>2 DEF PushFailure, MainClosesTunnel, MainClosesClient, CloseClientSock
  <2>3. CASE Collect
    BY <1>1, <2>3 DEF Collect
  <2>4. CASE CollectOne
    BY <1>1, <2>4 DEF CollectOne, Recorded, Reason
  <2>5. CASE Join
    BY <1>1, <2>5 DEF Join, Recorded, Reason
  <2> QED BY <1>2, <2>1, <2>2, <2>3, <2>4, <2>5 DEF ConnectStep
<1>3. CASE Reply \/ Release \/ SessionEnds
  BY <1>1, <1>3 DEF Reply, Release, SessionEnds, CloseClientSock
<1>4. CASE TransportDials \/ ForwardReturns \/ ForwardFails \/ ForwardCloses \/ TransportCloses
  <2>1. CASE TransportDials \/ TransportCloses
    BY <1>1, <2>1 DEF TransportDials, TransportCloses
  <2>2. CASE ForwardReturns
    BY <1>1, <2>2 DEF ForwardReturns
  <2>3. CASE ForwardFails
    BY <1>1, <2>3 DEF ForwardFails
  <2>4. CASE ForwardCloses
    BY <1>1, <2>4 DEF ForwardCloses
  <2> QED BY <1>4, <2>1, <2>2, <2>3, <2>4
<1>5. CASE RespStep
  <2>1. CASE CopyToClientEnds
    BY <1>1, <2>1 DEF CopyToClientEnds
  <2>2. CASE PushResult
    BY <1>1, <2>2 DEF PushResult
  <2>3. CASE SetLinger \/ RespClosesClient
    BY <1>1, <2>3 DEF SetLinger, RespClosesClient, CloseClientSock
  <2> QED BY <1>5, <2>1, <2>2, <2>3 DEF RespStep
<1>6. CASE Outside
  <2>1. CASE ClientMoves \/ TargetMoves
    BY <1>1, <2>1 DEF ClientMoves, TargetMoves
  <2>2. CASE Stall
    BY <1>1, <2>2 DEF Stall
  <2>3. CASE CancelBase \/ ForceClose
    BY <1>1, <2>3 DEF CancelBase, ForceClose, CloseClientSock
  <2> QED BY <1>6, <2>1, <2>2, <2>3 DEF Outside
<1>7. CASE UNCHANGED vars
  BY <1>7 DEF vars
<1> QED BY <1>2, <1>3, <1>4, <1>5, <1>6, <1>7 DEF Next, MainStep, Outside

LEMMA StepKeepsInv == Inv /\ [Next]_vars => Inv'
BY TypeStays, PlacesStay, OutcomesStay, SocketsStay, ResultsStay, RecordStays DEF Inv

LEMMA InvHolds == Spec => []Inv
BY InitInv, StepKeepsInv, PTL DEF Spec

-----------------------------------------------------------------------------
(* The theorems.                                                           *)

\* A drain that sees no hold finds the tunnel closed and both copies over:
\* every way out of relayTunnel closes the tunnel and has waited for the
\* goroutine of the response before serveTunnel's deferred Release.
THEOREM HoldOutlivesTheTunnel == Spec => []HoldCoversTunnel
<1>1. Inv => HoldCoversTunnel
  BY DEF Inv, Places, HoldCoversTunnel
<1> QED BY InvHolds, <1>1, PTL

\* A stream the target broke off, or the gateway did, ends in an ordinary
\* close only when the request direction failed or the process is stopping
\* (relay.go relayTunnel, copyToClient).
THEOREM BreaksAreSeen == Spec => []TruncationIsVisible
<1>1. Inv => TruncationIsVisible
  BY DEF Inv
<1> QED BY InvHolds, <1>1, PTL

\* The close record blames the upstream exactly when the copy from it broke,
\* whichever result was sent and taken first (relay.go recordTunnelClose).
THEOREM RecordsNameTheBreak == Spec => []RecordNamesTheBreak
<1>1. Inv => RecordNamesTheBreak
  BY DEF Inv
<1> QED BY InvHolds, <1>1, PTL
=============================================================================
